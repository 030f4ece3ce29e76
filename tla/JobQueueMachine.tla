---------------------------- MODULE JobQueueMachine ----------------------------
(***************************************************************************)
(* One JobQueue under an arbitrary client.  The public methods may be      *)
(* called in any order, for any job and in any state; the timers (timeout  *)
(* of an entry, fair scheduler, safety timer of a drain) fire whenever     *)
(* they are armed.  The clock only matters through ages, so it advances by *)
(* ticks.                                                                  *)
(***************************************************************************)
EXTENDS JobQueue

CONSTANTS
  MaxNow,       \* bound on the clock
  MaxAccepted   \* bound on the number of calls of enqueue() that succeed

ASSUME MachineAssumption == MaxNow \in Nat /\ MaxAccepted \in Nat

VARIABLES
  q,          \* the queue
  now,        \* the clock
  accepted    \* how many calls of enqueue() have succeeded

vars == <<q, now, accepted>>

TypeOK == q \in QueueType /\ now \in Nat /\ accepted \in Nat

Init == q = EmptyQueue /\ now = 0 /\ accepted = 0

-----------------------------------------------------------------------------

EnqueueJob(j) ==
  /\ accepted < MaxAccepted
  /\ CanEnqueue(q, j)
  /\ q' = Enqueue(q, j, now)
  /\ accepted' = accepted + 1
  /\ UNCHANGED now

DequeueJob(j) ==
  /\ IsNext(q, j, now)
  /\ q' = Dequeue(q, j)
  /\ UNCHANGED <<now, accepted>>

CompleteJob(j) ==
  /\ q.st[j] # "absent"
  /\ q' = MarkCompleted(q, j)
  /\ UNCHANGED <<now, accepted>>

FailJob(j) ==
  /\ q.st[j] # "absent"
  /\ \E retryable \in BOOLEAN : q' = MarkFailed(q, j, retryable)
  /\ UNCHANGED <<now, accepted>>

CancelQueuedJob(j) ==
  /\ q.st[j] = "queued"
  /\ q' = Cancel(q, j)
  /\ UNCHANGED <<now, accepted>>

CancelRunningJob(j) ==
  /\ q.st[j] = "running"
  /\ q' = CancelRunning(q, j)
  /\ UNCHANGED <<now, accepted>>

CallDrain(d) ==
  /\ q.drain[d] = "uncalled"
  /\ q' = Drain(q, d)
  /\ UNCHANGED <<now, accepted>>

\* Timers.

JobTimeout(j) ==
  /\ q.timer[j] /\ q.st[j] = "running"
  /\ q' = TimeoutEntry(q, j)
  /\ UNCHANGED <<now, accepted>>

SafetyTimer(d) ==
  /\ q.safety[d]
  /\ q' = SafetyTimeout(q, d)
  /\ UNCHANGED <<now, accepted>>

\* The interval of the fair scheduler is stopped once a drain is over.
FairScheduler ==
  /\ \A d \in Drains : q.drain[d] # "resolved"
  /\ q' = [q EXCEPT !.ahead = Reordered(q, now)]
  /\ UNCHANGED <<now, accepted>>

Tick ==
  /\ now < MaxNow
  /\ now' = now + 1
  /\ UNCHANGED <<q, accepted>>

JobStep(j) ==
  \/ EnqueueJob(j) \/ DequeueJob(j) \/ CompleteJob(j) \/ FailJob(j)
  \/ CancelQueuedJob(j) \/ CancelRunningJob(j) \/ JobTimeout(j)

DrainStep(d) == CallDrain(d) \/ SafetyTimer(d)

Next ==
  \/ \E j \in Jobs : JobStep(j)
  \/ \E d \in Drains : DrainStep(d)
  \/ FairScheduler
  \/ Tick

Spec == Init /\ [][Next]_vars

\* Timers that are armed fire; nothing is assumed of the client.
TimerFairness ==
  /\ \A d \in Drains : WF_vars(SafetyTimer(d))
  /\ \A j \in Jobs : WF_vars(JobTimeout(j))

FairSpec == Spec /\ TimerFairness

-----------------------------------------------------------------------------
(* Properties *)

\* The tracked counters that replace the O(n) scans (_pendingCount and
\* _runningCount) always equal what a scan of the entries would give, whatever
\* order completions, failures, cancellations, timeouts and drains come in.
CountersExact ==
  /\ q.pendingCount = Cardinality(Queued(q))
  /\ q.runningCount = Cardinality(Running(q))

\* The array stays an array: through splices in the middle, removals and the fair
\* scheduler's rebuilding, any two live entries stand in exactly one order and
\* nothing is left of an entry that went.
ArrayIsLinear ==
  /\ q.ahead \subseteq Live(q) \X Live(q)
  /\ \A j, k \in Live(q) : j # k => (<<j, k>> \in q.ahead <=> <<k, j>> \notin q.ahead)
  /\ \A j, k, m \in Live(q) :
       <<j, k>> \in q.ahead /\ <<k, m>> \in q.ahead => <<j, m>> \in q.ahead
  /\ \A j \in Live(q) : <<j, j>> \notin q.ahead

\* A job with a time limit has its timer armed exactly while it runs: no attempt
\* goes unlimited, and no timer of an attempt that ended is left to kill a later
\* one (clearJobTimeout on every path out of "running").
TimerArmedWhileRunning ==
  \A j \in TimedJobs : q.timer[j] <=> q.st[j] = "running"

\* Until the history has been trimmed, no accepted job is lost or recorded twice:
\* entries and history together number the calls of enqueue() that succeeded.
NothingLostUntilTrimmed ==
  q.historyLength < MaxHistory => Cardinality(Live(q)) + q.historyLength = accepted

\* A drain that had to wait resolves only in a step that leaves no job running
\* (checkDrainComplete, or the safety timer that fails what is left).
DrainResolvesWithNothingRunning ==
  [][\A d \in Drains :
       q.drain[d] = "waiting" /\ q'.drain[d] = "resolved" => Running(q') = {}]_vars

\* Fair scheduling as a bound: a job is only passed over for one that arrived no
\* later than the base priorities can make up for, so waiting never lasts for ever
\* behind newcomers (the age boost of effectivePriority).
OvertakingBounded ==
  [][StarvationThreshold > 0 =>
       \A j, k \in Jobs :
         ( /\ q.st[j] = "queued" /\ q'.st[j] = "running"
           /\ q.st[k] = "queued" /\ q'.st[k] = "queued" )
         => q.since[j] - q.since[k]
              < (Priority[j] - Priority[k] + 1) * StarvationThreshold]_vars

\* Every call of drain() resolves, even when it is overtaken by another call that
\* takes over drainResolver: its own safety timer is still there.
DrainTerminates ==
  \A d \in Drains : q.drain[d] = "waiting" ~> q.drain[d] = "resolved"

=============================================================================
