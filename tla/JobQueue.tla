------------------------------- MODULE JobQueue -------------------------------
(***************************************************************************)
(* The priority job queue of the render agent (class JobQueue in           *)
(* packages/render-agent/src/JobQueue.ts) as a data type: the state of one *)
(* queue is a record, every public method is an operator from the state it *)
(* finds to the state it leaves.  JobQueueMachine drives a single queue    *)
(* with an arbitrary client; RenderAgent composes several of these         *)
(* operators in one handler, as the agent's code does.                     *)
(*                                                                         *)
(* A queue is a record q with                                              *)
(*   st        the status of each job's entry ("absent": no entry)         *)
(*   ahead     the array `queue`: the pairs of entries <<j, k>> of which   *)
(*             j has the lower index                                       *)
(*   retries   retryCount of the entry                                     *)
(*   since     enqueuedAt of the entry, in clock ticks                     *)
(*   timer     whether the entry's timeoutTimer is armed                   *)
(*   pendingCount, runningCount  the two tracked counters                  *)
(*   historyLength  the length of the bounded array `history`              *)
(*   draining  the flag of that name                                       *)
(*   drain     what each call of drain() has come to                       *)
(*   resolver  the call whose promise drainResolver would resolve          *)
(*   safety    whether the safety timer of a call is still to fire         *)
(* Error texts, wait times, the records in the history and the counters    *)
(* that only feed getStats() are left out.                                 *)
(***************************************************************************)
EXTENDS Integers, FiniteSets

CONSTANTS
  Jobs,                 \* job ids
  Priority,             \* job.priority of each job
  TimedJobs,            \* jobs enqueued with maxDurationMs > 0
  MaxSize,              \* config.maxSize
  MaxRetries,           \* config.defaultMaxRetries
  MaxHistory,           \* config.maxHistorySize
  StarvationThreshold,  \* config.starvationThresholdMs, in clock ticks
  Drains,               \* calls of drain()
  NoDrain               \* drainResolver = null

ASSUME JobQueueAssumption ==
  /\ IsFiniteSet(Jobs)
  /\ Priority \in [Jobs -> Int]
  /\ TimedJobs \subseteq Jobs
  /\ MaxSize \in Nat /\ MaxRetries \in Nat /\ MaxHistory \in Nat
  /\ StarvationThreshold \in Nat
  /\ NoDrain \notin Drains

EntryStatus == {"absent", "queued", "running"}

QueueType ==
  [ st : [Jobs -> EntryStatus], ahead : SUBSET (Jobs \X Jobs),
    retries : [Jobs -> 0..MaxRetries], since : [Jobs -> Nat], timer : [Jobs -> BOOLEAN],
    pendingCount : Int, runningCount : Int, historyLength : 0..MaxHistory,
    draining : BOOLEAN, drain : [Drains -> {"uncalled", "waiting", "resolved"}],
    resolver : Drains \cup {NoDrain}, safety : [Drains -> BOOLEAN] ]

EmptyQueue ==
  [ st |-> [j \in Jobs |-> "absent"], ahead |-> {}, retries |-> [j \in Jobs |-> 0],
    since |-> [j \in Jobs |-> 0], timer |-> [j \in Jobs |-> FALSE],
    pendingCount |-> 0, runningCount |-> 0, historyLength |-> 0,
    draining |-> FALSE, drain |-> [d \in Drains |-> "uncalled"],
    resolver |-> NoDrain, safety |-> [d \in Drains |-> FALSE] ]

Queued(q)  == { j \in Jobs : q.st[j] = "queued" }
Running(q) == { j \in Jobs : q.st[j] = "running" }
Live(q)    == { j \in Jobs : q.st[j] # "absent" }

-----------------------------------------------------------------------------
(* Priorities and the order of the array *)

\* Mutant of EffectivePriority: no age boost.
BasePriorityOnly(q, j, now) == Priority[j]

\* The base priority, plus one for every full starvation interval waited.
EffectivePriority(q, j, now) ==
  Priority[j] + IF StarvationThreshold > 0
                THEN (now - q.since[j]) \div StarvationThreshold ELSE 0

\* j is the entry that dequeue() and peek() choose: the greatest effective
\* priority, and the first in the array among equals.
IsNext(q, j, now) ==
  /\ j \in Queued(q)
  /\ \A k \in Queued(q) \ {j} :
       \/ EffectivePriority(q, j, now) > EffectivePriority(q, k, now)
       \/ /\ EffectivePriority(q, j, now) = EffectivePriority(q, k, now)
          /\ <<j, k>> \in q.ahead

\* The entries that a new entry of j is spliced in behind: all those before the
\* first queued entry of lower base priority, or all of them.
AheadOfNew(q, j) ==
  { k \in Live(q) :
      ~ \E m \in Queued(q) : Priority[m] < Priority[j] /\ (m = k \/ <<m, k>> \in q.ahead) }

\* Mutant of Reordered: unstable for entries of the same age.
ReorderedUnstable(q, now) ==
  { p \in Live(q) \X Live(q) :
      LET j == p[1]
          k == p[2]
          pj == EffectivePriority(q, j, now)
          pk == EffectivePriority(q, k, now)
      IN  \/ q.st[j] = "running" /\ q.st[k] = "queued"
          \/ q.st[j] = "running" /\ q.st[k] = "running" /\ p \in q.ahead
          \/ /\ q.st[j] = "queued" /\ q.st[k] = "queued"
             /\ pj > pk \/ (pj = pk /\ q.since[j] < q.since[k]) }

\* The fair scheduler's rearrangement: running entries first, then the queued
\* ones by effective priority, older first, in their old order when tied.
Reordered(q, now) ==
  { p \in Live(q) \X Live(q) :
      LET j == p[1]
          k == p[2]
          pj == EffectivePriority(q, j, now)
          pk == EffectivePriority(q, k, now)
      IN  \/ q.st[j] = "running" /\ q.st[k] = "queued"
          \/ q.st[j] = "running" /\ q.st[k] = "running" /\ p \in q.ahead
          \/ /\ q.st[j] = "queued" /\ q.st[k] = "queued"
             /\ \/ pj > pk
                \/ pj = pk /\ q.since[j] < q.since[k]
                \/ pj = pk /\ q.since[j] = q.since[k] /\ p \in q.ahead }

-----------------------------------------------------------------------------
(* Leaving the queue *)

Recorded(n) == IF n > MaxHistory THEN MaxHistory ELSE n

\* Mutant of RetireAll: the entries are dropped instead of moved to the history.
RetireAllUnrecorded(q, S) ==
  [q EXCEPT !.st = [j \in Jobs |-> IF j \in S THEN "absent" ELSE @[j]],
            !.ahead = @ \cap ((Jobs \ S) \X (Jobs \ S)),
            !.retries = [j \in Jobs |-> IF j \in S THEN 0 ELSE @[j]],
            !.since = [j \in Jobs |-> IF j \in S THEN 0 ELSE @[j]],
            !.timer = [j \in Jobs |-> IF j \in S THEN FALSE ELSE @[j]]]

\* clearJobTimeout and moveToHistory for every job of S: its entry leaves the
\* array and is recorded in the history, which drops its oldest records.  (The
\* fields of an absent entry are back at their initial values.)
RetireAll(q, S) ==
  [q EXCEPT !.st = [j \in Jobs |-> IF j \in S THEN "absent" ELSE @[j]],
            !.ahead = @ \cap ((Jobs \ S) \X (Jobs \ S)),
            !.retries = [j \in Jobs |-> IF j \in S THEN 0 ELSE @[j]],
            !.since = [j \in Jobs |-> IF j \in S THEN 0 ELSE @[j]],
            !.timer = [j \in Jobs |-> IF j \in S THEN FALSE ELSE @[j]],
            !.historyLength = Recorded(@ + Cardinality(S))]

\* Mutant of CheckDrainComplete: looks at the pending jobs only.
CheckDrainPendingOnly(q) ==
  IF q.draining /\ q.pendingCount = 0 /\ q.resolver # NoDrain
  THEN [q EXCEPT !.drain[q.resolver] = "resolved", !.resolver = NoDrain]
  ELSE q

\* checkDrainComplete: the registered drain resolves once nothing is left.
CheckDrainComplete(q) ==
  IF q.draining /\ q.runningCount = 0 /\ q.pendingCount = 0 /\ q.resolver # NoDrain
  THEN [q EXCEPT !.drain[q.resolver] = "resolved", !.resolver = NoDrain]
  ELSE q

\* The end of the entry of j, in whatever state it is: adjust the counter of that
\* state, move to the history, see whether a drain waited for it.
Finish(q, j) ==
  CheckDrainComplete(
    [RetireAll(q, {j}) EXCEPT
       !.pendingCount = IF q.st[j] = "queued" THEN @ - 1 ELSE @,
       !.runningCount = IF q.st[j] = "running" THEN @ - 1 ELSE @])

-----------------------------------------------------------------------------
(* The public methods *)

\* enqueue() returns rather than throws.
CanEnqueue(q, j) ==
  /\ ~ q.draining
  /\ q.pendingCount < MaxSize
  /\ q.st[j] = "absent"

Enqueue(q, j, now) ==
  [q EXCEPT !.st[j] = "queued", !.since[j] = now,
            !.ahead = @ \cup { <<k, j>> : k \in AheadOfNew(q, j) }
                        \cup { <<j, k>> : k \in Live(q) \ AheadOfNew(q, j) },
            !.pendingCount = @ + 1]

\* dequeue() when j is the entry it chooses.
Dequeue(q, j) ==
  [q EXCEPT !.st[j] = "running", !.timer[j] = j \in TimedJobs,
            !.pendingCount = @ - 1, !.runningCount = @ + 1]

MarkCompleted(q, j) == IF q.st[j] = "absent" THEN q ELSE Finish(q, j)

\* Mutant of WillRetry: one retry too many.
WillRetryOnceMore(q, j, retryable) ==
  q.st[j] # "absent" /\ retryable /\ q.retries[j] <= MaxRetries

\* The condition under which markFailed() puts the entry back (and returns true).
WillRetry(q, j, retryable) ==
  q.st[j] # "absent" /\ retryable /\ q.retries[j] < MaxRetries

\* Mutants of Requeue: the counters move the wrong way for an entry that did not
\* run; the timer of the failed attempt is left armed.
RequeueMovesCounters(q, j) ==
  [q EXCEPT !.st[j] = "queued", !.retries[j] = @ + 1, !.timer[j] = FALSE,
            !.runningCount = @ - 1, !.pendingCount = @ + 1]

RequeueKeepsTimer(q, j) ==
  [q EXCEPT !.st[j] = "queued", !.retries[j] = @ + 1,
            !.runningCount = IF q.st[j] = "running" THEN @ - 1 ELSE @,
            !.pendingCount = IF q.st[j] = "running" THEN @ + 1 ELSE @]

\* The retry branch of markFailed(): the entry is queued again where it stands.
Requeue(q, j) ==
  [q EXCEPT !.st[j] = "queued", !.retries[j] = @ + 1, !.timer[j] = FALSE,
            !.runningCount = IF q.st[j] = "running" THEN @ - 1 ELSE @,
            !.pendingCount = IF q.st[j] = "running" THEN @ + 1 ELSE @]

MarkFailed(q, j, retryable) ==
  IF WillRetry(q, j, retryable) THEN Requeue(q, j)
  ELSE IF q.st[j] = "absent" THEN q ELSE Finish(q, j)

\* cancel(): only an entry that is still queued.
Cancel(q, j) == IF q.st[j] = "queued" THEN Finish(q, j) ELSE q

\* cancelRunning(): only an entry that runs.
CancelRunning(q, j) == IF q.st[j] = "running" THEN Finish(q, j) ELSE q

-----------------------------------------------------------------------------
(* Draining *)

\* Mutant of Drain: no safety timer.
DrainUnguarded(q, d) ==
  LET c == [RetireAll(q, Queued(q)) EXCEPT
              !.draining = TRUE, !.pendingCount = @ - Cardinality(Queued(q))]
  IN  IF c.runningCount = 0
      THEN [c EXCEPT !.drain[d] = "resolved"]
      ELSE [c EXCEPT !.drain[d] = "waiting", !.resolver = d]

\* drain(): refuse new entries, cancel the queued ones, and wait for the
\* running ones under a safety timer of this call's own.
Drain(q, d) ==
  LET c == [RetireAll(q, Queued(q)) EXCEPT
              !.draining = TRUE, !.pendingCount = @ - Cardinality(Queued(q))]
  IN  IF c.runningCount = 0
      THEN [c EXCEPT !.drain[d] = "resolved"]
      ELSE [c EXCEPT !.drain[d] = "waiting", !.resolver = d, !.safety[d] = TRUE]

\* Mutant of SafetyTimeout: resolves through drainResolver, which a later call of
\* drain() may have taken over.
SafetyTimeoutByResolver(q, d) ==
  [RetireAll(q, Running(q)) EXCEPT
     !.runningCount = @ - Cardinality(Running(q)), !.resolver = NoDrain,
     !.drain[d] = IF q.resolver = d THEN "resolved" ELSE @, !.safety[d] = FALSE]

\* The safety timer of call d: fail what still runs and resolve.  Nobody
\* clears it when the drain resolves earlier.
SafetyTimeout(q, d) ==
  [RetireAll(q, Running(q)) EXCEPT
     !.runningCount = @ - Cardinality(Running(q)), !.resolver = NoDrain,
     !.drain[d] = "resolved", !.safety[d] = FALSE]

\* handleJobTimeout() up to the handler it calls: the attempt counts as failed.
TimeoutEntry(q, j) == MarkFailed([q EXCEPT !.timer[j] = FALSE], j, TRUE)

\* dispose(): every timeout timer is cleared.
Dispose(q) == [q EXCEPT !.timer = [j \in Jobs |-> FALSE]]

=============================================================================
