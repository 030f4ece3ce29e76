-------------------------- MODULE RenderAgentMachine ---------------------------
(***************************************************************************)
(* One RenderAgent under a coordinator that assigns every job once and     *)
(* cancels what it likes.  The messages on the wire are watched through    *)
(* `told`, the last one about each job.                                    *)
(***************************************************************************)
EXTENDS RenderAgent

CONSTANT Nothing   \* nothing said about a job yet

ASSUME NothingAssumption == Nothing \notin MessageType

VARIABLES
  assigned,   \* the jobs assigned so far
  told        \* the type of the last message sent about each job

vars == <<agentVars, assigned, told>>

Init ==
  /\ AgentInit
  /\ assigned = {}
  /\ told = [j \in Jobs |-> Nothing]

TypeOK ==
  /\ AgentTypeOK
  /\ assigned \subseteq Jobs
  /\ told \in [Jobs -> MessageType \cup {Nothing}]

\* What the coordinator has heard after a step that sends sent'.
Hear ==
  told' = [j \in Jobs |->
             IF \E i \in DOMAIN sent' : sent'[i].job = j
             THEN (CHOOSE m \in { sent'[i] : i \in DOMAIN sent' } : m.job = j).type
             ELSE told[j]]

AssignJob(j) ==
  /\ j \notin assigned
  /\ Assign(j)
  /\ assigned' = assigned \cup {j}
  /\ Hear

CancelJob(j) ==
  /\ j \in assigned
  /\ CancelMessage(j)
  /\ UNCHANGED assigned
  /\ Hear

CancelAll ==
  /\ CancelAllMessage
  /\ UNCHANGED assigned
  /\ Hear

AgentStep ==
  /\ AgentNext
  /\ UNCHANGED assigned
  /\ Hear

Next ==
  \/ \E j \in Jobs : AssignJob(j) \/ CancelJob(j)
  \/ CancelAll
  \/ AgentStep

Spec == Init /\ [][Next]_vars

\* The agent's own steps happen: health checks answer, workers end one way or
\* another, timers that are armed fire, a drain that has resolved goes on, and the
\* periodic health check finds the node healthy again and again.  Nothing is
\* assumed of the network and the coordinator.
Fairness ==
  /\ \A j \in Jobs, n \in Slots :
       WF_vars(AttemptStep(j, n) /\ UNCHANGED assigned /\ Hear)
  /\ WF_vars(HealthTimer(TRUE) /\ UNCHANGED assigned /\ Hear)
  /\ \A d \in Drains : WF_vars(ShutdownStep(d) /\ UNCHANGED assigned /\ Hear)

FairSpec == Spec /\ Fairness

-----------------------------------------------------------------------------
(* Properties *)

Attempts(j) == { n \in Slots : phase[j][n] # "free" }

Terminal == {"job:complete", "job:failed", "job:cancelled", "job:reject"}

\* Without time limits and until shutdown, the queue and the attempts agree: an
\* entry runs exactly while one attempt of its job is under way.  No job is
\* rendered twice at a time, and no entry is stranded as running with nobody
\* running it (every path out of startJob settles the entry it was given).
RunningHasOneAttempt ==
  ~ disposed => \A j \in Jobs :
    Cardinality(Attempts(j)) = (IF q.st[j] = "running" THEN 1 ELSE 0)

\* Without time limits, a job the coordinator was told is over is over: no entry
\* is left to start it again and, until shutdown, nothing runs it any more.
TerminalMeansGone ==
  ~ disposed => \A j \in Jobs :
    told[j] \in Terminal => q.st[j] = "absent" /\ Attempts(j) = {}

\* A node never says idle while it runs something, through failures, recoveries
\* and reconnections (the coordinator hands work to idle nodes).
IdleMeansNoActive == status = "idle" => active = {}

\* On a healthy node that is not shut down, every job in the queue leaves it: what
\* is queued behind others or put back after a failure is started again.
EveryJobSettles ==
  \A j \in Jobs : q.st[j] # "absent" ~> q.st[j] = "absent" \/ disposed

\* A graceful shutdown comes to an end, even with jobs that are put back for a
\* retry nobody will start (only the safety timer of the drain ends that wait).
ShutdownTerminates == disposed ~> down

-----------------------------------------------------------------------------
(* What the comments say, and the code does not do *)

\* "Maximum concurrent jobs running on this node": capacity is looked at before
\* the health check that startJob() awaits, and taken after it.
ConcurrencyBounded == Cardinality(active) <= MaxConcurrent

=============================================================================
