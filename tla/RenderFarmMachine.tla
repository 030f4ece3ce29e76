--------------------------- MODULE RenderFarmMachine ---------------------------
(***************************************************************************)
(* The coordinator with its users and its agents.  Users submit, cancel,   *)
(* pause, resume and reorder jobs and add and remove workers.  An agent    *)
(* here is only what its messages can say: it reports the end of jobs it   *)
(* was given, says that it started, queued or retries one, or how healthy  *)
(* it is, and it may forget jobs.  When its socket closes, it may come     *)
(* back under a new id with the jobs it still has.  RenderAgent is the     *)
(* agent itself, and RenderSystem, with messages in transit, implements    *)
(* this specification.                                                     *)
(***************************************************************************)
EXTENDS RenderFarm

CONSTANTS
  Pausing,   \* whether users pause and resume
  Indices,   \* the indices users move jobs to
  Moments    \* bound: the values of createdAt that moves may lead to

ASSUME MachineAssumption == Indices \subseteq Nat /\ Moments \subseteq Int

VARIABLES
  farm,     \* the coordinator's state
  held,     \* the jobs the agent behind each worker has been given and not ended
  open,     \* the workers whose socket is open
  resumed   \* the jobs some user has resumed

vars == <<farm, held, open, resumed>>

Init ==
  /\ farm = EmptyFarm
  /\ held = [w \in Workers |-> {}]
  /\ open = {} /\ resumed = {}

TypeOK ==
  /\ farm \in FarmType
  /\ held \in [Workers -> SUBSET Jobs]
  /\ open \subseteq Workers /\ resumed \subseteq Jobs

\* A handler leaves one of results, and the agents h receive its assignments as far
\* as their sockets are those of o.
Leads(results, h, o) ==
  /\ open' = o
  /\ \E g \in results :
       /\ farm' = [g EXCEPT !.outbox = {}]
       /\ held' = [w \in Workers |->
                     h[w] \cup { j \in Jobs : w \in o /\ <<w, j>> \in g.outbox }]

-----------------------------------------------------------------------------
(* Users *)

\* x is the next to be numbered.
IsNextNew(x, S, state) == state[x] = "new" /\ \A y \in S : y < x => state[y] # "new"

Submit(j) ==
  /\ IsNextNew(j, Jobs, farm.job)
  /\ Leads(SubmitJob(farm, j), held, open)
  /\ UNCHANGED resumed

Cancel(j) ==
  /\ farm.job[j] \in Active
  /\ Leads({CancelJob(farm, j)}, held, open)
  /\ UNCHANGED resumed

Pause(j) ==
  /\ Pausing
  /\ farm.job[j] \in Active
  /\ Leads({PauseJob(farm, j)}, held, open)
  /\ UNCHANGED resumed

Resume(j) ==
  /\ farm.job[j] = "paused"
  /\ Leads(ResumeJob(farm, j), held, open)
  /\ resumed' = resumed \cup {j}

Reorder(j, i) ==
  /\ farm.job[j] \in Active
  /\ Leads({ g \in ReorderJob(farm, j, i) : g.created[j] \in Moments }, held, open)
  /\ UNCHANGED resumed

QueuePause ==
  /\ Pausing
  /\ Leads({PauseQueue(farm)}, held, open)
  /\ UNCHANGED resumed

QueueStart ==
  /\ Leads(ScheduleNext(farm), held, open)
  /\ UNCHANGED resumed

\* A worker added from the user interface has no socket.
AddWorker(w) ==
  /\ IsNextNew(w, Workers, farm.status)
  /\ Leads(RegisterWorker(farm, w), held, open)
  /\ UNCHANGED resumed

Remove(w) ==
  /\ w \in Registered(farm)
  /\ Leads(RemoveWorker(farm, w), held, open)
  /\ UNCHANGED resumed

-----------------------------------------------------------------------------
(* Agents *)

\* An agent connects: with nothing, or with what it has of worker v's jobs, whose
\* socket it has lost (the coordinator may not have noticed yet).
Connect(w) ==
  /\ IsNextNew(w, Workers, farm.status)
  /\ \E v \in Workers, S \in SUBSET Jobs :
       /\ S \subseteq held[v]
       /\ Leads(RegisterWorker(farm, w), [held EXCEPT ![w] = S, ![v] = @ \ S],
                open \cup {w})
  /\ UNCHANGED resumed

\* The agent unregisters or its socket closes.  The worker may have been removed.
Disconnect(w) ==
  /\ w \in open
  /\ Leads(IF w \in Registered(farm) THEN RemoveWorker(farm, w) ELSE {farm},
           held, open \ {w})
  /\ UNCHANGED resumed

\* An agent that refuses a job because it has it already keeps it.
ReportEnd(w, j) ==
  /\ w \in open /\ j \in held[w]
  /\ \E outcome \in {"completed", "failed"}, S \in {{}, {j}} :
       Leads(EndReported(farm, w, j, outcome), [held EXCEPT ![w] = @ \ S], open)
  /\ UNCHANGED resumed

\* Jobs, or the messages about them, are lost.
Forget(w) ==
  /\ \E S \in SUBSET Jobs : held' = [held EXCEPT ![w] = @ \ S]
  /\ UNCHANGED <<farm, open, resumed>>

ReportBusy(w) ==
  /\ w \in open
  /\ Leads({BusyReported(farm, w)}, held, open)
  /\ UNCHANGED resumed

ReportHealth(w) ==
  /\ w \in open
  /\ \E healthy \in BOOLEAN : Leads({HealthReported(farm, w, healthy)}, held, open)
  /\ UNCHANGED resumed

\* No heartbeat for 30 seconds.
Stale(w) ==
  /\ w \in Registered(farm) /\ farm.status[w] # "offline"
  /\ Leads(StaleWorker(farm, w), held, open)
  /\ UNCHANGED resumed

-----------------------------------------------------------------------------

JobStep(j) ==
  \/ Submit(j) \/ Cancel(j) \/ Pause(j) \/ Resume(j)
  \/ \E i \in Indices : Reorder(j, i)

QueueStep == QueuePause \/ QueueStart

WorkerStep(w) ==
  \/ AddWorker(w) \/ Remove(w) \/ Connect(w) \/ Disconnect(w)
  \/ \E j \in Jobs : ReportEnd(w, j)
  \/ Forget(w)
  \/ ReportBusy(w) \/ ReportHealth(w) \/ Stale(w)

Next ==
  \/ \E j \in Jobs : JobStep(j)
  \/ QueueStep
  \/ \E w \in Workers : WorkerStep(w)

Spec == Init /\ [][Next]_vars

-----------------------------------------------------------------------------
(* Properties *)

\* A worker never points at a job that is over or that was not given to it, whatever
\* messages about removed, cancelled or reassigned jobs come late.  (If it did, the
\* end of that job could not set the worker free.)
CurrentIsAssigned ==
  \A w \in Registered(farm) :
    farm.current[w] # NoJob =>
      /\ farm.job[farm.current[w]] \in Active
      /\ w \in farm.assigned[farm.current[w]]

\* A job that is completed, failed or cancelled stays what it is: a late report of
\* an agent the coordinator gave up on, or of a cancelled job, changes nothing.
OutcomeIsFinal ==
  [][\A j \in Jobs : farm.job[j] \in Finished => farm'.job[j] = farm.job[j]]_vars

\* No job is given to two agents unless a user has resumed it: neither a lost worker
\* nor a reconnection nor a heartbeat makes the coordinator send it again.
GivenOnce ==
  \A j \in Jobs \ resumed : Cardinality({ w \in Workers : j \in held[w] }) <= 1

\* A job is only passed over for one of higher priority or earlier createdAt, unless
\* the worker that gets the other cannot do it: neither resumed jobs nor workers that
\* come back nor jobs left over by lost workers break the order.
UrgentFirst ==
  [][\A j, k \in Jobs :
       ( /\ farm.job[j] = "queued" /\ farm'.job[j] = "encoding"
         /\ farm.job[k] = "queued" /\ farm'.job[k] = "queued" )
       => \/ Priority[j] > Priority[k]
          \/ Priority[j] = Priority[k] /\ farm.created[j] <= farm.created[k]
          \/ \E w \in farm'.assigned[j] : <<w, k>> \notin Matches]_vars

=============================================================================
