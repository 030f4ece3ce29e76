----------------------------- MODULE RenderSystem ------------------------------
(***************************************************************************)
(* The coordinator (RenderFarm) and one agent (RenderAgent) over their     *)
(* WebSockets.  A socket carries messages both ways in order; when it is   *)
(* lost, what is in transit may arrive or not, the agent and the           *)
(* coordinator notice at different times, and the agent connects again     *)
(* while jobs run on.  A socket is numbered as the worker that its         *)
(* registration creates.                                                   *)
(*                                                                         *)
(* Not repeated here: job:cancel, which the coordinator never sends, and   *)
(* the time limits, memory monitor, fair scheduler and shutdown of the     *)
(* agent (see RenderAgentMachine).                                         *)
(***************************************************************************)
EXTENDS RenderAgent, Functions

CONSTANTS
  Workers,       \* bound: the sockets of the agent, 1..n
  Urgency,       \* JOB_PRIORITY_WEIGHT of each job's priority
  SubmittedAt,   \* Date.now() when each job is submitted
  Cancellable,   \* the jobs users may cancel
  Removable,     \* the workers users may remove
  Silent,        \* the workers that may be found stale
  InTransit      \* bound: how many messages of the agent are in transit on a socket

\* What RenderFarm assumes of the same constants.
ASSUME SystemAssumption ==
  /\ Workers \subseteq Nat \ {0} /\ Jobs \subseteq Nat \ {0}
  /\ Urgency \in [Jobs -> Int] /\ SubmittedAt \in [Jobs -> Int]
  /\ \A j, k \in Jobs : j < k => SubmittedAt[j] <= SubmittedAt[k]

VARIABLES
  farm,      \* the coordinator's state
  sockets,   \* how many sockets have been opened
  gone,      \* the sockets whose closing the coordinator has handled
  up,        \* the messages in transit from the agent on each socket
  downward,  \* the jobs in transit to the agent on each socket
  rendered,  \* the jobs that a worker of the agent has rendered to the end
  dropped    \* the jobs the agent dropped after a failed pre-flight check

systemVars == <<agentVars, farm, sockets, gone, up, downward, rendered, dropped>>

\* Any worker may do any job.
Farm == INSTANCE RenderFarm WITH Priority <- Urgency, Matches <- Workers \X Jobs

SystemInit ==
  /\ AgentInit
  /\ farm = Farm!EmptyFarm
  /\ sockets = 0 /\ gone = {}
  /\ up = [w \in Workers |-> <<>>] /\ downward = [w \in Workers |-> <<>>]
  /\ rendered = {} /\ dropped = {}

SystemTypeOK ==
  /\ AgentTypeOK
  /\ farm \in Farm!FarmType
  /\ sockets \in Workers \cup {0} /\ gone \subseteq Workers
  /\ up \in [Workers -> Seq([type : MessageType, job : Jobs \cup {NoJob}, healthy : BOOLEAN])]
  /\ downward \in [Workers -> Seq(Jobs)]
  /\ rendered \subseteq Jobs /\ dropped \subseteq Jobs

-----------------------------------------------------------------------------
(* The agent *)

\* What the agent has just sent is on its socket.
OnTheWire ==
  /\ up' = [w \in Workers |->
              IF w = sockets' /\ conn' = "open" THEN up[w] \o sent' ELSE up[w]]
  /\ sent' # <<>> => Len(up'[sockets']) <= InTransit

AgentConnects ==
  /\ sockets + 1 \in Workers
  /\ Open
  /\ sockets' = sockets + 1
  /\ OnTheWire
  /\ UNCHANGED <<farm, gone, downward, rendered, dropped>>

AgentWorks ==
  /\ \/ \E j \in Jobs, n \in Slots :
          \/ Preflight(j, n)
             /\ dropped' = dropped \cup { k \in {j} : phase'[j][n] = "free" /\ q'.st[j] = "absent" }
             /\ UNCHANGED rendered
          \/ DispatchCompleted(j, n) /\ rendered' = rendered \cup {j} /\ UNCHANGED dropped
          \/ DispatchFailed(j, n) /\ UNCHANGED <<rendered, dropped>>
     \/ /\ \E healthy \in BOOLEAN : HealthTimer(healthy)
        /\ UNCHANGED <<rendered, dropped>>
     \/ (Connect \/ Close) /\ UNCHANGED <<rendered, dropped>>
  /\ UNCHANGED <<farm, sockets, gone, downward>>
  /\ OnTheWire

\* job:assign arrives.
AgentReceives ==
  /\ conn = "open" /\ downward[sockets] # <<>>
  /\ Assign(Head(downward[sockets]))
  /\ downward' = [downward EXCEPT ![sockets] = Tail(@)]
  /\ UNCHANGED <<farm, sockets, gone, rendered, dropped>>
  /\ OnTheWire

-----------------------------------------------------------------------------
(* The coordinator *)

AgentIdles ==
  /\ sent' = <<>>
  /\ UNCHANGED <<q, phase, active, controller, cancelled, status, conn,
                 disposed, down>>

\* A handler leaves one of results; its assignments go to the sockets.
Leads(results) ==
  \E g \in results :
    /\ farm' = [g EXCEPT !.outbox = {}]
    /\ downward' = [w \in Workers |->
         IF w \in gone' THEN <<>>
         ELSE IF \E j \in Jobs : <<w, j>> \in g.outbox
         THEN Append(downward[w], CHOOSE j \in Jobs : <<w, j>> \in g.outbox)
         ELSE downward[w]]

\* Mutant of Handled: a retry is taken for an end.
HandledRetryAsEnd(w, m) ==
  CASE m.type = "register" -> Farm!RegisterWorker(farm, w)
    [] m.type = "health"   -> { Farm!HealthReported(farm, w, m.healthy) }
    [] m.type \in {"job:complete", "job:retrying"} ->
         Farm!EndReported(farm, w, m.job, "completed")
    [] m.type \in {"job:failed", "job:cancelled", "job:reject"} ->
         Farm!EndReported(farm, w, m.job, "failed")
    [] OTHER -> { Farm!BusyReported(farm, w) }

\* The switch over the type of a message m from the socket of w.
Handled(w, m) ==
  CASE m.type = "register" -> Farm!RegisterWorker(farm, w)
    [] m.type = "health"   -> { Farm!HealthReported(farm, w, m.healthy) }
    [] m.type = "job:complete" -> Farm!EndReported(farm, w, m.job, "completed")
    [] m.type \in {"job:failed", "job:cancelled", "job:reject"} ->
         Farm!EndReported(farm, w, m.job, "failed")
    [] OTHER -> { Farm!BusyReported(farm, w) }

\* Registrations are handled in the order of the sockets (bound).
Receive(w) ==
  /\ up[w] # <<>>
  /\ Head(up[w]).type = "register" => \A v \in Workers : v < w => farm.status[v] # "new"
  /\ up' = [up EXCEPT ![w] = Tail(@)]
  /\ UNCHANGED gone
  /\ Leads(Handled(w, Head(up[w])))
  /\ AgentIdles
  /\ UNCHANGED <<sockets, rendered, dropped>>

\* Nothing more arrives on a socket the agent has lost (bound: its registration has).
Lose(w) ==
  /\ w <= sockets /\ ~ (w = sockets /\ conn = "open")
  /\ up[w] # <<>> \/ downward[w] # <<>>
  /\ farm.status[w] # "new"
  /\ up' = [up EXCEPT ![w] = <<>>] /\ downward' = [downward EXCEPT ![w] = <<>>]
  /\ AgentIdles
  /\ UNCHANGED <<farm, sockets, gone, rendered, dropped>>

\* Mutant of Closed: the worker stays.
ClosedUnremoved(w) == {farm}

\* What the closing of the socket of w leads to.
Closed(w) == IF w \in Farm!Registered(farm) THEN Farm!RemoveWorker(farm, w) ELSE {farm}

\* The coordinator notices.
SocketCloses(w) ==
  /\ w <= sockets /\ ~ (w = sockets /\ conn = "open") /\ w \notin gone
  /\ up[w] = <<>> /\ downward[w] = <<>>
  /\ gone' = gone \cup {w}
  /\ Leads(Closed(w))
  /\ AgentIdles
  /\ UNCHANGED <<sockets, up, rendered, dropped>>

-----------------------------------------------------------------------------
(* Users and the timer of the coordinator *)

Users(results) ==
  /\ UNCHANGED gone
  /\ Leads(results)
  /\ AgentIdles
  /\ UNCHANGED <<sockets, up, rendered, dropped>>

UserStep(j) ==
  \/ /\ farm.job[j] = "new" /\ \A k \in Jobs : k < j => farm.job[k] # "new"
     /\ Users(Farm!SubmitJob(farm, j))
  \/ /\ j \in Cancellable /\ farm.job[j] \in Farm!Active
     /\ Users({Farm!CancelJob(farm, j)})

WorkerStep(w) ==
  \/ /\ w \in Removable \cap Farm!Registered(farm)
     /\ Users(Farm!RemoveWorker(farm, w))
  \/ /\ w \in Silent \cap Farm!Registered(farm) /\ farm.status[w] # "offline"
     /\ Users(Farm!StaleWorker(farm, w))

-----------------------------------------------------------------------------

SystemNext ==
  \/ AgentConnects \/ AgentWorks \/ AgentReceives
  \/ \E w \in Workers : Receive(w) \/ Lose(w) \/ SocketCloses(w) \/ WorkerStep(w)
  \/ \E j \in Jobs : UserStep(j)

SystemSpec == SystemInit /\ [][SystemNext]_systemVars

-----------------------------------------------------------------------------
(* Properties *)

Ends == {"job:complete", "job:failed", "job:cancelled", "job:reject"}

EndsOn == [w \in Workers |-> { m.job : m \in { m \in Range(up[w]) : m.type \in Ends } }]
AtAgent == { j \in Jobs : q.st[j] # "absent" \/ \E n \in Slots : phase[j][n] # "free" }

Known == { w \in Workers : farm.status[w] # "new" }

\* The jobs that the agent behind each worker has been given and not ended, in transit
\* or at the agent.  What the agent has is its latest worker's.
Held ==
  [w \in Workers |->
     IF \E v \in Known : w < v THEN EndsOn[w] \cup Range(downward[w])
     ELSE IF w \in Known
     THEN Range(downward[w]) \cup AtAgent \cup UNION { EndsOn[v] : v \in { v \in Workers : w <= v } }
     ELSE {}]

\* What the coordinator sees of agents is what RenderFarmMachine assumes of them: every
\* property proved there holds of the coordinator with the real agent, messages in
\* transit and lost sockets.
AbstractFarm ==
  INSTANCE RenderFarmMachine WITH
    Priority <- Urgency, Matches <- Workers \X Jobs, Pausing <- FALSE, resumed <- {},
    Indices <- {}, Moments <- {},
    held <- Held,
    open <- Known \ gone

ImplementsFarm == AbstractFarm!Spec

\* A job a connected worker points at is on its way to the agent, at the agent, or its
\* end is on its way back: the coordinator never waits for something that nobody will
\* ever say.  The only way to be forgotten is to fail the pre-flight check too often,
\* which is reported as a retry.
NobodyForgets ==
  \A w \in Farm!Registered(farm) :
    /\ w = sockets /\ conn = "open" /\ farm.current[w] # NoJob
    => farm.current[w] \in Held[w] \cup dropped

\* A job is only completed if the agent has rendered it to the end.
CompletedWasRendered == \A j \in Jobs : farm.job[j] = "completed" => j \in rendered

=============================================================================
