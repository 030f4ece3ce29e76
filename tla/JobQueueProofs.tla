---------------------------- MODULE JobQueueProofs ----------------------------
(***************************************************************************)
(* Theorems about the render agent's job queue, for every set of jobs and  *)
(* every configuration.                                                    *)
(***************************************************************************)
EXTENDS JobQueueMachine, JobQueueLemmas

\* The invariant holds at first.
LEMMA InitOK ==
  Init => QueueOK(q)
<1>1. EmptyQueue \in QueueType
  BY JobQueueAssumption DEF EmptyQueue, QueueType, EntryStatus
<1>2. Queued(EmptyQueue) = {} /\ Running(EmptyQueue) = {}
  BY DEF EmptyQueue, Queued, Running
<1>3. EmptyQueue.pendingCount = 0 /\ EmptyQueue.runningCount = 0
  BY DEF EmptyQueue
<1> QED BY <1>1, <1>2, <1>3, FS_EmptySet DEF Init, QueueOK, Exact

\* The inductive invariant: the types, and counters that agree with the entries.
IInv == TypeOK /\ QueueOK(q)

\* Every step keeps the invariant.
LEMMA StepOK ==
  IInv /\ [Next]_vars => IInv'
<1> SUFFICES ASSUME IInv, [Next]_vars PROVE IInv'
  OBVIOUS
<1> USE DEF IInv
<1>0. q' \in QueueType /\ now' \in Nat /\ accepted' \in Nat => TypeOK'
  BY DEF TypeOK
<1>1. SUFFICES QueueOK(q') /\ now' \in Nat /\ accepted' \in Nat
  BY <1>0 DEF QueueOK, Exact, Queued, Running
<1>2. now \in Nat /\ accepted \in Nat
  BY DEF TypeOK
<1>3. ASSUME NEW j \in Jobs, JobStep(j) PROVE QueueOK(q') /\ now' \in Nat /\ accepted' \in Nat
  <2>1. CASE EnqueueJob(j)
    BY <1>2, <2>1, EnqueueOK DEF EnqueueJob
  <2>2. CASE DequeueJob(j)
    BY <1>2, <2>2, DequeueOK DEF DequeueJob, IsNext
  <2>3. CASE CompleteJob(j)
    BY <1>2, <2>3, FinishOK DEF CompleteJob, MarkCompleted, Live
  <2>4. CASE FailJob(j)
    BY <1>2, <2>4, MarkFailedOK DEF FailJob
  <2>5. CASE CancelQueuedJob(j)
    BY <1>2, <2>5, FinishOK DEF CancelQueuedJob, Cancel, Live
  <2>6. CASE CancelRunningJob(j)
    BY <1>2, <2>6, FinishOK DEF CancelRunningJob, CancelRunning, Live
  <2>7. CASE JobTimeout(j)
    BY <1>2, <2>7, TimeoutEntryOK DEF JobTimeout
  <2> QED BY <1>3, <2>1, <2>2, <2>3, <2>4, <2>5, <2>6, <2>7 DEF JobStep
<1>4. ASSUME NEW d \in Drains, DrainStep(d) PROVE QueueOK(q') /\ now' \in Nat /\ accepted' \in Nat
  BY <1>2, <1>4, DrainOK, SafetyTimeoutOK DEF DrainStep, CallDrain, SafetyTimer
<1>5. CASE FairScheduler
  BY <1>2, <1>5, ReorderOK DEF FairScheduler
<1>6. CASE Tick
  BY <1>2, <1>6 DEF Tick
<1>7. CASE UNCHANGED vars
  BY <1>2, <1>7 DEF vars
<1> QED BY <1>3, <1>4, <1>5, <1>6, <1>7 DEF Next

\* The variables keep their types whatever the client calls and whichever timer
\* fires; in particular retryCount never passes maxRetries.
THEOREM TypeCorrect == Spec => []TypeOK
<1>1. Init => IInv
  BY InitOK DEF Init, IInv, TypeOK, QueueOK
<1>2. IInv => TypeOK
  BY DEF IInv
<1> QED BY <1>1, <1>2, StepOK, PTL DEF Spec

\* The tracked counters of pending and running jobs equal a scan of the entries
\* in every reachable state, for any number of jobs.
THEOREM CountersCorrect == Spec => []CountersExact
<1>1. Init => IInv
  BY InitOK DEF Init, IInv, TypeOK, QueueOK
<1>2. IInv => CountersExact
  BY DEF IInv, QueueOK, Exact, CountersExact
<1> QED BY <1>1, <1>2, StepOK, PTL DEF Spec

-----------------------------------------------------------------------------
(* Fair scheduling *)

\* What the age boost rests on: the bounds of a quotient.
LEMMA DivBounds ==
  ASSUME NEW a \in Int, NEW T \in Nat, T > 0
  PROVE  a \div T \in Int /\ T * (a \div T) <= a /\ a < T * (a \div T) + T
OBVIOUS

\* Multiplication by a positive threshold keeps the order.
LEMMA MultMonotonic ==
  ASSUME NEW a \in Int, NEW b \in Int, NEW T \in Nat, T > 0, a <= b
  PROVE  T * a <= T * b
OBVIOUS

\* If boosting by full intervals of T puts priority p at age a at least level with
\* priority r at age b, then b exceeds a by less than p - r + 1 intervals.
LEMMA BoostBound ==
  ASSUME NEW a \in Int, NEW b \in Int, NEW p \in Int, NEW r \in Int,
         NEW T \in Nat, T > 0,
         p + (a \div T) >= r + (b \div T)
  PROVE  b - a < (p - r + 1) * T
<1>1. SUFFICES ASSUME NEW A \in Int, NEW B \in Int,
                      T * A <= a, b < T * B + T, p + A >= r + B
               PROVE  b - a < (p - r + 1) * T
  BY DivBounds
<1>2. T * B <= T * (A + p - r)
  <2>1. A + p - r \in Int /\ B <= A + p - r
    BY <1>1
  <2> QED BY <1>1, <2>1, MultMonotonic
<1>3. T * (A + p - r) = T * A + T * (p - r)
  OBVIOUS
<1>4. (p - r + 1) * T = T * (p - r) + T
  OBVIOUS
<1>5. T * (p - r) \in Int /\ T * A \in Int /\ T * B \in Int /\ T * (A + p - r) \in Int
  OBVIOUS
<1> QED BY <1>1, <1>2, <1>3, <1>4, <1>5

\* The only step that starts a job is a dequeue of it.
LEMMA OnlyDequeueStarts ==
  ASSUME IInv, [Next]_vars, NEW j \in Jobs, q.st[j] = "queued", q'.st[j] = "running"
  PROVE  DequeueJob(j)
<1>1. q \in QueueType /\ now \in Nat
  BY DEF IInv, QueueOK, TypeOK
<1>2. ASSUME NEW m \in Jobs, JobStep(m) PROVE DequeueJob(j)
  <2>0. q' # Finish(q, m)
    <3>1. Finish(q, m).st = [k \in Jobs |-> IF k = m THEN "absent" ELSE q.st[k]]
      BY <1>1, FinishStatus
    <3> QED BY <3>1
  <2>1. CASE EnqueueJob(m)
    <3>1. q'.st = [q.st EXCEPT ![m] = "queued"]
      BY <1>1, <2>1 DEF EnqueueJob, Enqueue, QueueType
    <3> QED BY <1>1, <3>1 DEF QueueType
  <2>2. CASE DequeueJob(m)
    <3>1. q'.st = [q.st EXCEPT ![m] = "running"]
      BY <1>1, <2>2 DEF DequeueJob, Dequeue, QueueType
    <3>2. m = j
      BY <1>1, <3>1 DEF QueueType
    <3> QED BY <2>2, <3>2
  <2>3. CASE CompleteJob(m)
    BY <2>0, <2>3 DEF CompleteJob, MarkCompleted
  <2>4. CASE FailJob(m)
    <3>1. PICK retryable \in BOOLEAN : q' = MarkFailed(q, m, retryable)
      BY <2>4 DEF FailJob
    <3> QED BY <1>1, <3>1, MarkFailedStatus
  <2>5. CASE CancelQueuedJob(m)
    BY <2>0, <2>5 DEF CancelQueuedJob, Cancel
  <2>6. CASE CancelRunningJob(m)
    BY <2>0, <2>6 DEF CancelRunningJob, CancelRunning
  <2>7. CASE JobTimeout(m)
    <3>1. SUFFICES ASSUME NEW c, c = [q EXCEPT !.timer[m] = FALSE] PROVE FALSE
      OBVIOUS
    <3>2. c \in QueueType /\ c.st = q.st
      BY <1>1, <3>1 DEF QueueType
    <3>3. q' = MarkFailed(c, m, TRUE)
      BY <2>7, <3>1 DEF JobTimeout, TimeoutEntry
    <3>4. q'.st[j] = "running" => c.st[j] = "running"
      BY <3>2, <3>3, MarkFailedStatus
    <3> QED BY <3>2, <3>4
  <2> QED BY <1>2, <2>1, <2>2, <2>3, <2>4, <2>5, <2>6, <2>7 DEF JobStep
<1>3. ASSUME NEW d \in Drains, DrainStep(d) PROVE DequeueJob(j)
  <2>1. CASE CallDrain(d)
    <3>1. SUFFICES ASSUME NEW a, a = RetireAll(q, Queued(q)) PROVE FALSE
      OBVIOUS
    <3>2. a.st[j] = "absent" /\ a \in QueueType
      BY <1>1, <3>1, RetireAllType DEF RetireAll, QueueType, Queued
    <3>3. q'.st = a.st
      BY <2>1, <3>1, <3>2 DEF CallDrain, Drain, QueueType
    <3> QED BY <3>2, <3>3
  <2>2. CASE SafetyTimer(d)
    <3>1. Running(q') = {}
      BY <2>2, SafetyTimeoutOK DEF SafetyTimer, IInv
    <3> QED BY <3>1 DEF Running
  <2> QED BY <1>3, <2>1, <2>2 DEF DrainStep
<1>4. CASE FairScheduler
  BY <1>1, <1>4 DEF FairScheduler, QueueType
<1>5. CASE Tick \/ UNCHANGED vars
  BY <1>5 DEF Tick, vars
<1> QED BY <1>2, <1>3, <1>4, <1>5 DEF Next

\* No starvation behind newcomers: whenever a waiting job is passed over, the job
\* chosen instead arrived within the head start its base priority buys.
THEOREM OvertakingCorrect == Spec => OvertakingBounded
<1>1. ASSUME IInv, [Next]_vars, StarvationThreshold > 0,
             NEW j \in Jobs, NEW k \in Jobs,
             q.st[j] = "queued", q'.st[j] = "running",
             q.st[k] = "queued", q'.st[k] = "queued"
      PROVE  q.since[j] - q.since[k] < (Priority[j] - Priority[k] + 1) * StarvationThreshold
  <2>1. IsNext(q, j, now)
    BY <1>1, OnlyDequeueStarts DEF DequeueJob
  <2>2. k \in Queued(q) \ {j}
    BY <1>1 DEF Queued
  <2>3. /\ now \in Nat /\ q.since[j] \in Nat /\ q.since[k] \in Nat
        /\ Priority[j] \in Int /\ Priority[k] \in Int /\ StarvationThreshold \in Nat
    BY <1>1, JobQueueAssumption DEF IInv, TypeOK, QueueType
  <2>4. SUFFICES ASSUME NEW a \in Int, NEW b \in Int,
                        a = now - q.since[j], b = now - q.since[k]
                 PROVE  b - a < (Priority[j] - Priority[k] + 1) * StarvationThreshold
    BY <2>3
  <2>5. EffectivePriority(q, j, now) >= EffectivePriority(q, k, now)
    <3>1. /\ EffectivePriority(q, j, now) = Priority[j] + (a \div StarvationThreshold)
          /\ EffectivePriority(q, k, now) = Priority[k] + (b \div StarvationThreshold)
      BY <1>1, <2>4 DEF EffectivePriority
    <3>2. EffectivePriority(q, j, now) \in Int /\ EffectivePriority(q, k, now) \in Int
      BY <1>1, <2>3, <3>1, DivBounds
    <3>3. \/ EffectivePriority(q, j, now) > EffectivePriority(q, k, now)
          \/ EffectivePriority(q, j, now) = EffectivePriority(q, k, now)
      BY <2>1, <2>2 DEF IsNext
    <3> QED BY <3>2, <3>3
  <2>6. Priority[j] + (a \div StarvationThreshold) >= Priority[k] + (b \div StarvationThreshold)
    BY <1>1, <2>4, <2>5 DEF EffectivePriority
  <2> QED BY <1>1, <2>3, <2>6, BoostBound
<1>2. Init => IInv
  BY InitOK DEF Init, IInv, TypeOK, QueueOK
<1>3. IInv /\ [Next]_vars =>
        [StarvationThreshold > 0 =>
           \A j, k \in Jobs :
             ( /\ q.st[j] = "queued" /\ q'.st[j] = "running"
               /\ q.st[k] = "queued" /\ q'.st[k] = "queued" )
             => q.since[j] - q.since[k]
                  < (Priority[j] - Priority[k] + 1) * StarvationThreshold]_vars
  BY <1>1
<1> QED BY <1>2, <1>3, StepOK, PTL DEF Spec, OvertakingBounded

-----------------------------------------------------------------------------
(* What a step may do to the entries *)

\* Every step of the machine adds an entry, starts one, puts one back, removes a
\* set of them, rearranges the array, or leaves the queue alone.
StepKind ==
  \/ \E j \in Jobs : EnqueueJob(j)
  \/ /\ accepted' = accepted
     /\ \/ \E j \in Jobs : q.st[j] = "queued" /\ q' = Dequeue(q, j)
        \/ \E j \in Live(q) : PutBack(q, q', j)
        \/ \E S \in SUBSET Live(q) : Left(q, q', S)
        \/ q' = [q EXCEPT !.ahead = Reordered(q, now)]
        \/ q' = q

\* The steps by kind.
LEMMA StepKinds ==
  ASSUME IInv, [Next]_vars
  PROVE  StepKind
<1>1. q \in QueueType
  BY DEF IInv, QueueOK
<1>2. ASSUME NEW j \in Jobs, JobStep(j) PROVE StepKind
  <2>0. j \in Live(q) => /\ q' = Finish(q, j) => \E S \in SUBSET Live(q) : Left(q, q', S)
                         /\ \A retryable \in BOOLEAN :
                              q' = MarkFailed(q, j, retryable) =>
                                \/ PutBack(q, q', j)
                                \/ \E S \in SUBSET Live(q) : Left(q, q', S)
                         /\ q' = TimeoutEntry(q, j) =>
                                \/ PutBack(q, q', j)
                                \/ \E S \in SUBSET Live(q) : Left(q, q', S)
    <3>1. SUFFICES ASSUME j \in Live(q), Left(q, q', {j})
                   PROVE  \E S \in SUBSET Live(q) : Left(q, q', S)
      BY <1>1, FinishLeft, MarkFailedMoves, TimeoutMoves
    <3> QED BY <3>1
  <2>1. CASE EnqueueJob(j)
    BY <2>1 DEF StepKind
  <2>2. CASE DequeueJob(j)
    BY <2>2 DEF StepKind, DequeueJob, IsNext, Queued
  <2>3. CASE CompleteJob(j)
    BY <2>0, <2>3 DEF StepKind, CompleteJob, MarkCompleted, Live
  <2>4. CASE FailJob(j)
    BY <2>0, <2>4 DEF StepKind, FailJob, Live
  <2>5. CASE CancelQueuedJob(j)
    BY <2>0, <2>5 DEF StepKind, CancelQueuedJob, Cancel, Live
  <2>6. CASE CancelRunningJob(j)
    BY <2>0, <2>6 DEF StepKind, CancelRunningJob, CancelRunning, Live
  <2>7. CASE JobTimeout(j)
    BY <2>0, <2>7 DEF StepKind, JobTimeout, Live
  <2> QED BY <1>2, <2>1, <2>2, <2>3, <2>4, <2>5, <2>6, <2>7 DEF JobStep
<1>3. ASSUME NEW d \in Drains, DrainStep(d) PROVE StepKind
  <2>1. Queued(q) \in SUBSET Live(q) /\ Running(q) \in SUBSET Live(q)
    BY DEF Queued, Running, Live
  <2>2. CASE CallDrain(d)
    <3>1. Left(q, q', Queued(q)) /\ accepted' = accepted
      BY <1>1, <2>2, DrainLeft DEF CallDrain
    <3> QED BY <2>1, <3>1 DEF StepKind
  <2>3. CASE SafetyTimer(d)
    <3>1. Left(q, q', Running(q)) /\ accepted' = accepted
      BY <1>1, <2>3, SafetyTimeoutLeft DEF SafetyTimer
    <3> QED BY <2>1, <3>1 DEF StepKind
  <2> QED BY <1>3, <2>2, <2>3 DEF DrainStep
<1>4. CASE FairScheduler
  BY <1>4 DEF FairScheduler, StepKind
<1>5. CASE Tick \/ UNCHANGED vars
  BY <1>5 DEF Tick, vars, StepKind
<1> QED BY <1>2, <1>3, <1>4, <1>5 DEF Next

\* The rearrangement touches the array alone.
LEMMA ReorderFields ==
  ASSUME NEW x \in QueueType, NEW t \in Nat, NEW e, e = [x EXCEPT !.ahead = Reordered(x, t)]
  PROVE  /\ e.ahead = Reordered(x, t) /\ e.st = x.st /\ e.timer = x.timer
         /\ e.historyLength = x.historyLength /\ e.drain = x.drain
BY DEF QueueType

-----------------------------------------------------------------------------
(* Timeout timers *)

\* Every path into and out of "running" sets or clears the timer.
LEMMA TimersStep ==
  ASSUME IInv, TimerArmedWhileRunning, [Next]_vars
  PROVE  TimerArmedWhileRunning'
<1>0. q \in QueueType /\ now \in Nat /\ TimedJobs \subseteq Jobs
  BY JobQueueAssumption DEF IInv, TypeOK
<1>1. SUFFICES ASSUME NEW i \in TimedJobs PROVE q'.timer[i] <=> q'.st[i] = "running"
  BY DEF TimerArmedWhileRunning
<1>2. /\ q.timer[i] <=> q.st[i] = "running"
      /\ i \in Jobs /\ q.timer \in [Jobs -> BOOLEAN] /\ q.st \in [Jobs -> EntryStatus]
  BY <1>0, <1>1 DEF TimerArmedWhileRunning, QueueType
<1>3. CASE \E j \in Jobs : EnqueueJob(j)
  <2>1. PICK j \in Jobs : EnqueueJob(j)
    BY <1>3
  <2>2. q.st[j] = "absent" /\ q'.st = [q.st EXCEPT ![j] = "queued"] /\ q'.timer = q.timer
    BY <1>0, <2>1, EnqueueFields DEF EnqueueJob, CanEnqueue
  <2> QED BY <1>2, <2>2
<1>4. CASE \E j \in Jobs : q.st[j] = "queued" /\ q' = Dequeue(q, j)
  <2>1. PICK j \in Jobs : q.st[j] = "queued" /\ q' = Dequeue(q, j)
    BY <1>4
  <2>2. q'.st = [q.st EXCEPT ![j] = "running"] /\ q'.timer = [q.timer EXCEPT ![j] = j \in TimedJobs]
    BY <1>0, <2>1, DequeueFields
  <2> QED BY <1>1, <1>2, <2>2
<1>5. CASE \E j \in Live(q) : PutBack(q, q', j)
  BY <1>2, <1>5 DEF PutBack, Live
<1>6. CASE \E S \in SUBSET Live(q) : Left(q, q', S)
  BY <1>2, <1>6 DEF Left
<1>7. CASE q' = [q EXCEPT !.ahead = Reordered(q, now)]
  BY <1>0, <1>2, <1>7, ReorderFields
<1>8. CASE q' = q
  BY <1>2, <1>8
<1> QED BY <1>3, <1>4, <1>5, <1>6, <1>7, <1>8, StepKinds DEF StepKind

\* No attempt of a job with a time limit goes unlimited, and no timer of an attempt
\* that has ended is left to kill a later one.
THEOREM TimersCorrect == Spec => []TimerArmedWhileRunning
<1>1. Init => IInv
  BY InitOK DEF Init, IInv, TypeOK, QueueOK
<1>2. Init => TimerArmedWhileRunning
  BY JobQueueAssumption DEF Init, EmptyQueue, TimerArmedWhileRunning
<1> QED BY <1>1, <1>2, StepOK, TimersStep, PTL DEF Spec

-----------------------------------------------------------------------------
(* The history *)

\* Live entries are finitely many.
LEMMA FiniteLive ==
  ASSUME NEW x
  PROVE  IsFiniteSet(Live(x)) /\ Cardinality(Live(x)) \in Nat
<1>1. Live(x) \subseteq Jobs
  BY DEF Live
<1> QED BY <1>1, JobQueueAssumption, FS_Subset, FS_CardinalityType

\* Every accepted job is an entry, or one record of a history that is not full.
LEMMA HistoryStep ==
  ASSUME IInv, NothingLostUntilTrimmed, [Next]_vars
  PROVE  NothingLostUntilTrimmed'
<1>0. q \in QueueType /\ now \in Nat /\ accepted \in Nat
  BY DEF IInv, TypeOK
<1>1. q.historyLength \in Nat /\ MaxHistory \in Nat
  BY <1>0, JobQueueAssumption DEF QueueType
<1>2. SUFFICES ASSUME q'.historyLength < MaxHistory
               PROVE  Cardinality(Live(q')) + q'.historyLength = accepted'
  BY DEF NothingLostUntilTrimmed, Live
<1>3. CASE \E j \in Jobs : EnqueueJob(j)
  <2>1. PICK j \in Jobs : EnqueueJob(j)
    BY <1>3
  <2>2. /\ q.st[j] = "absent" /\ q'.st = [q.st EXCEPT ![j] = "queued"]
        /\ q'.historyLength = q.historyLength /\ accepted' = accepted + 1
    BY <1>0, <2>1, EnqueueFields DEF EnqueueJob, CanEnqueue
  <2>3. Live(q') = Live(q) \cup {j} /\ j \in Jobs \ Live(q) /\ Live(q) \in SUBSET Jobs
    BY <1>0, <2>2 DEF Live, QueueType
  <2>4. Cardinality(Live(q')) = Cardinality(Live(q)) + 1
    BY <2>3, OneMore
  <2> QED BY <1>0, <1>1, <1>2, <2>2, <2>4, FiniteLive DEF NothingLostUntilTrimmed
<1>4. ASSUME Live(q') = Live(q), q'.historyLength = q.historyLength, accepted' = accepted
      PROVE  Cardinality(Live(q')) + q'.historyLength = accepted'
  BY <1>2, <1>4 DEF NothingLostUntilTrimmed
<1>5. CASE accepted' = accepted /\ \E j \in Jobs : q.st[j] = "queued" /\ q' = Dequeue(q, j)
  <2>1. PICK j \in Jobs : q.st[j] = "queued" /\ q' = Dequeue(q, j)
    BY <1>5
  <2>2. q'.st = [q.st EXCEPT ![j] = "running"] /\ q'.historyLength = q.historyLength
    BY <1>0, <2>1, DequeueFields
  <2>3. Live(q') = Live(q)
    BY <1>0, <2>1, <2>2 DEF Live, QueueType
  <2> QED BY <1>4, <1>5, <2>2, <2>3
<1>6. CASE accepted' = accepted /\ \E j \in Live(q) : PutBack(q, q', j)
  <2>1. PICK j \in Live(q) : PutBack(q, q', j)
    BY <1>6
  <2>2. Live(q') = Live(q) /\ q'.historyLength = q.historyLength
    BY <1>0, <2>1 DEF Live, PutBack, QueueType
  <2> QED BY <1>4, <1>6, <2>2
<1>7. CASE accepted' = accepted /\ \E S \in SUBSET Live(q) : Left(q, q', S)
  <2>1. PICK S \in SUBSET Live(q) : Left(q, q', S)
    BY <1>7
  <2>2. Live(q') = Live(q) \ S
    BY <2>1 DEF Live, Left
  <2>3. IsFiniteSet(S) /\ Cardinality(S) \in Nat
    BY FiniteLive, FS_Subset, FS_CardinalityType
  <2>4. Cardinality(Live(q')) = Cardinality(Live(q)) - Cardinality(S)
    <3>1. Live(q) \cap S = S
      OBVIOUS
    <3> QED BY <2>2, <3>1, FiniteLive, FS_Difference
  <2>5. q'.historyLength = q.historyLength + Cardinality(S) /\ q.historyLength < MaxHistory
    BY <1>1, <1>2, <2>1, <2>3 DEF Left, Recorded
  <2> QED BY <1>0, <1>1, <1>7, <2>3, <2>4, <2>5, FiniteLive DEF NothingLostUntilTrimmed
<1>8. CASE accepted' = accepted /\ q' = [q EXCEPT !.ahead = Reordered(q, now)]
  BY <1>0, <1>4, <1>8, ReorderFields DEF Live
<1>9. CASE accepted' = accepted /\ q' = q
  BY <1>4, <1>9
<1> QED BY <1>3, <1>5, <1>6, <1>7, <1>8, <1>9, StepKinds DEF StepKind

\* Until the history has been trimmed no accepted job is lost or recorded twice.
THEOREM HistoryCorrect == Spec => []NothingLostUntilTrimmed
<1>1. Init => IInv
  BY InitOK DEF Init, IInv, TypeOK, QueueOK
<1>2. Init => NothingLostUntilTrimmed
  <2>1. Live(EmptyQueue) = {} /\ EmptyQueue.historyLength = 0
    BY DEF EmptyQueue, Live
  <2> QED BY <2>1, FS_EmptySet DEF Init, NothingLostUntilTrimmed
<1> QED BY <1>1, <1>2, StepOK, HistoryStep, PTL DEF Spec

-----------------------------------------------------------------------------
(* The array *)

\* The four facts that make the relation of a queue an array of its entries.
Linear(x) ==
  /\ x.ahead \subseteq Live(x) \X Live(x)
  /\ \A j, k \in Live(x) : j # k => (<<j, k>> \in x.ahead <=> <<k, j>> \notin x.ahead)
  /\ \A j, k, m \in Live(x) :
       <<j, k>> \in x.ahead /\ <<k, m>> \in x.ahead => <<j, m>> \in x.ahead
  /\ \A j \in Live(x) : <<j, j>> \notin x.ahead

\* Removing entries leaves an array of the others.
LEMMA LeftLinear ==
  ASSUME NEW x, Linear(x), NEW e, NEW S \in SUBSET Live(x), Left(x, e, S)
  PROVE  Linear(e)
<1>1. Live(e) = Live(x) \ S
  BY DEF Live, Left
<1>2. e.ahead = x.ahead \cap ((Jobs \ S) \X (Jobs \ S))
  BY DEF Left
<1>3. Live(x) \subseteq Jobs
  BY DEF Live
<1>4. e.ahead \subseteq Live(e) \X Live(e)
  BY <1>1, <1>2, <1>3 DEF Linear
<1>5. \A j, k \in Live(e) : <<j, k>> \in e.ahead <=> <<j, k>> \in x.ahead
  BY <1>1, <1>2, <1>3
<1> QED BY <1>1, <1>4, <1>5 DEF Linear

\* The entries that a new one goes behind are a prefix of the array.
LEMMA AheadIsPrefix ==
  ASSUME NEW x, Linear(x), NEW j \in Jobs
  PROVE  /\ AheadOfNew(x, j) \subseteq Live(x)
         /\ \A k \in AheadOfNew(x, j), i \in Live(x) :
              <<i, k>> \in x.ahead => i \in AheadOfNew(x, j)
<1>1. AheadOfNew(x, j) \subseteq Live(x) /\ Queued(x) \subseteq Live(x)
  BY DEF AheadOfNew, Queued, Live
<1>2. ASSUME NEW k \in AheadOfNew(x, j), NEW i \in Live(x), <<i, k>> \in x.ahead,
             NEW m \in Queued(x), Priority[m] < Priority[j], m = i \/ <<m, i>> \in x.ahead
      PROVE  FALSE
  <2>1. <<m, k>> \in x.ahead
    BY <1>1, <1>2 DEF Linear
  <2> QED BY <1>2, <2>1 DEF AheadOfNew
<1> QED BY <1>1, <1>2 DEF AheadOfNew

\* The splice of a new entry leaves an array.
LEMMA EnqueueLinear ==
  ASSUME NEW x \in QueueType, Linear(x), NEW j \in Jobs, x.st[j] = "absent",
         NEW e, e.st = [x.st EXCEPT ![j] = "queued"],
         e.ahead = x.ahead \cup { <<k, j>> : k \in AheadOfNew(x, j) }
                           \cup { <<j, k>> : k \in Live(x) \ AheadOfNew(x, j) }
  PROVE  Linear(e)
<1>1. SUFFICES ASSUME NEW A, A = AheadOfNew(x, j), NEW L, L = Live(x) PROVE Linear(e)
  OBVIOUS
<1>2. Live(e) = L \cup {j} /\ j \notin L
  BY <1>1 DEF Live, QueueType
<1>3. A \subseteq L /\ \A k \in A, i \in L : <<i, k>> \in x.ahead => i \in A
  BY <1>1, AheadIsPrefix
<1>4. x.ahead \subseteq L \X L
  BY <1>1 DEF Linear
<1>5. /\ \A i, k \in L : <<i, k>> \in e.ahead <=> <<i, k>> \in x.ahead
      /\ \A k \in L : <<k, j>> \in e.ahead <=> k \in A
      /\ \A k \in L : <<j, k>> \in e.ahead <=> k \notin A
      /\ <<j, j>> \notin e.ahead
  BY <1>1, <1>2, <1>3, <1>4
<1>6. e.ahead \subseteq Live(e) \X Live(e)
  BY <1>1, <1>2, <1>3, <1>4
<1>7. \A i, k \in Live(e) : i # k => (<<i, k>> \in e.ahead <=> <<k, i>> \notin e.ahead)
  BY <1>1, <1>2, <1>5 DEF Linear
<1>8. \A i, k, m \in Live(e) :
        <<i, k>> \in e.ahead /\ <<k, m>> \in e.ahead => <<i, m>> \in e.ahead
  <2>1. SUFFICES ASSUME NEW i \in Live(e), NEW k \in Live(e), NEW m \in Live(e),
                        <<i, k>> \in e.ahead, <<k, m>> \in e.ahead
                 PROVE  <<i, m>> \in e.ahead
    OBVIOUS
  <2>2. CASE i \in L /\ k \in L /\ m \in L
    BY <1>1, <1>5, <2>1, <2>2 DEF Linear
  <2>3. CASE i = j /\ k \in L /\ m \in L
    BY <1>3, <1>5, <2>1, <2>3
  <2>4. CASE i \in L /\ k = j /\ m \in L
    <3>1. i \in A /\ m \in L \ A
      BY <1>5, <2>1, <2>4
    <3>2. <<m, i>> \notin x.ahead /\ i # m
      BY <1>3, <2>4, <3>1
    <3> QED BY <1>1, <1>5, <2>4, <3>2 DEF Linear
  <2>5. CASE i \in L /\ k \in L /\ m = j
    BY <1>3, <1>5, <2>1, <2>5
  <2>6. CASE i = j /\ k \in L /\ m = j
    BY <1>5, <2>1, <2>6
  <2> QED BY <1>2, <1>5, <2>1, <2>2, <2>3, <2>4, <2>5, <2>6
<1>9. \A i \in Live(e) : <<i, i>> \notin e.ahead
  BY <1>1, <1>2, <1>5 DEF Linear
<1> QED BY <1>6, <1>7, <1>8, <1>9 DEF Linear

\* The effective priority is a number.
LEMMA EffectivePriorityType ==
  ASSUME NEW x \in QueueType, NEW j \in Jobs, NEW t \in Nat
  PROVE  EffectivePriority(x, j, t) \in Int
<1>1. Priority[j] \in Int /\ x.since[j] \in Nat /\ StarvationThreshold \in Nat
  BY JobQueueAssumption DEF QueueType
<1>2. StarvationThreshold > 0 => (t - x.since[j]) \div StarvationThreshold \in Int
  BY <1>1, DivBounds
<1> QED BY <1>1, <1>2 DEF EffectivePriority

\* The fair scheduler's rearrangement is an array of the same entries.
LEMMA ReorderLinear ==
  ASSUME NEW x \in QueueType, Linear(x), NEW t \in Nat,
         NEW e, e.st = x.st, e.ahead = Reordered(x, t)
  PROVE  Linear(e)
<1>1. Live(e) = Live(x) /\ Live(x) \subseteq Jobs
  BY DEF Live
<1>2. SUFFICES ASSUME NEW P, P = [j \in Jobs |-> EffectivePriority(x, j, t)],
                      NEW N, N = x.since
               PROVE  Linear(e)
  OBVIOUS
<1>3. P \in [Jobs -> Int] /\ N \in [Jobs -> Nat]
  BY <1>2, EffectivePriorityType DEF QueueType
<1>4. \A j \in Live(x) : j \in Jobs /\ x.st[j] \in {"queued", "running"}
  BY DEF Live, QueueType, EntryStatus
<1>5. \A j, k \in Live(x) :
        <<j, k>> \in e.ahead <=>
          \/ x.st[j] = "running" /\ x.st[k] = "queued"
          \/ x.st[j] = "running" /\ x.st[k] = "running" /\ <<j, k>> \in x.ahead
          \/ /\ x.st[j] = "queued" /\ x.st[k] = "queued"
             /\ \/ P[j] > P[k]
                \/ P[j] = P[k] /\ N[j] < N[k]
                \/ P[j] = P[k] /\ N[j] = N[k] /\ <<j, k>> \in x.ahead
  BY <1>1, <1>2 DEF Reordered
<1>6. e.ahead \subseteq Live(x) \X Live(x)
  BY DEF Reordered
<1>7. ASSUME NEW j \in Live(x), NEW k \in Live(x), j # k
      PROVE  <<j, k>> \in e.ahead <=> <<k, j>> \notin e.ahead
  <2>1. <<j, k>> \in x.ahead <=> <<k, j>> \notin x.ahead
    BY <1>7 DEF Linear
  <2>2. P[j] \in Int /\ P[k] \in Int /\ N[j] \in Nat /\ N[k] \in Nat
    BY <1>3, <1>4
  <2> QED BY <1>4, <1>5, <2>1, <2>2
<1>8. ASSUME NEW j \in Live(x), NEW k \in Live(x), NEW m \in Live(x),
             <<j, k>> \in e.ahead, <<k, m>> \in e.ahead
      PROVE  <<j, m>> \in e.ahead
  <2>1. <<j, k>> \in x.ahead /\ <<k, m>> \in x.ahead => <<j, m>> \in x.ahead
    BY DEF Linear
  <2>2. /\ P[j] \in Int /\ P[k] \in Int /\ P[m] \in Int
        /\ N[j] \in Nat /\ N[k] \in Nat /\ N[m] \in Nat
    BY <1>3, <1>4
  <2> QED BY <1>4, <1>5, <1>8, <2>1, <2>2
<1>9. \A j \in Live(x) : <<j, j>> \notin e.ahead
  <2>1. SUFFICES ASSUME NEW j \in Live(x) PROVE <<j, j>> \notin e.ahead
    OBVIOUS
  <2>2. P[j] \in Int /\ N[j] \in Nat /\ <<j, j>> \notin x.ahead
    BY <1>3, <1>4 DEF Linear
  <2> QED BY <1>5, <2>2
<1> QED BY <1>1, <1>6, <1>7, <1>8, <1>9 DEF Linear

\* Every step leaves an array.
LEMMA LinearStep ==
  ASSUME IInv, ArrayIsLinear, [Next]_vars
  PROVE  ArrayIsLinear'
<1>0. q \in QueueType /\ now \in Nat /\ Linear(q)
  BY DEF IInv, TypeOK, ArrayIsLinear, Linear
<1>1. SUFFICES Linear(q')
  BY DEF ArrayIsLinear, Linear, Live
<1>3. CASE \E j \in Jobs : EnqueueJob(j)
  <2>1. PICK j \in Jobs : EnqueueJob(j)
    BY <1>3
  <2>2. q.st[j] = "absent" /\ q' = Enqueue(q, j, now)
    BY <2>1 DEF EnqueueJob, CanEnqueue
  <2>3. /\ q'.st = [q.st EXCEPT ![j] = "queued"]
        /\ q'.ahead = q.ahead \cup { <<k, j>> : k \in AheadOfNew(q, j) }
                              \cup { <<j, k>> : k \in Live(q) \ AheadOfNew(q, j) }
    BY <1>0, <2>2, EnqueueFields
  <2> QED BY <1>0, <2>2, <2>3, EnqueueLinear
<1>4. CASE \E j \in Jobs : q.st[j] = "queued" /\ q' = Dequeue(q, j)
  <2>1. PICK j \in Jobs : q.st[j] = "queued" /\ q' = Dequeue(q, j)
    BY <1>4
  <2>2. q'.st = [q.st EXCEPT ![j] = "running"] /\ q'.ahead = q.ahead
    BY <1>0, <2>1, DequeueFields
  <2>3. Live(q') = Live(q)
    BY <1>0, <2>1, <2>2 DEF Live, QueueType
  <2> QED BY <1>0, <2>2, <2>3 DEF Linear
<1>5. CASE \E j \in Live(q) : PutBack(q, q', j)
  <2>1. Live(q') = Live(q) /\ q'.ahead = q.ahead
    BY <1>0, <1>5 DEF Live, PutBack, QueueType
  <2> QED BY <1>0, <2>1 DEF Linear
<1>6. CASE \E S \in SUBSET Live(q) : Left(q, q', S)
  BY <1>0, <1>6, LeftLinear
<1>7. CASE q' = [q EXCEPT !.ahead = Reordered(q, now)]
  <2>1. q'.st = q.st /\ q'.ahead = Reordered(q, now)
    BY <1>0, <1>7, ReorderFields
  <2> QED BY <1>0, <2>1, ReorderLinear
<1>8. CASE q' = q
  BY <1>0, <1>8
<1> QED BY <1>3, <1>4, <1>5, <1>6, <1>7, <1>8, StepKinds DEF StepKind

\* Any two live entries stand in exactly one order, through splices in the middle,
\* removals and rebuilding, and nothing is left of an entry that went.
THEOREM ArrayCorrect == Spec => []ArrayIsLinear
<1>1. Init => IInv
  BY InitOK DEF Init, IInv, TypeOK, QueueOK
<1>2. Init => ArrayIsLinear
  BY DEF Init, EmptyQueue, ArrayIsLinear, Live
<1> QED BY <1>1, <1>2, StepOK, LinearStep, PTL DEF Spec

-----------------------------------------------------------------------------
(* Draining *)

\* A counter of running jobs that stands at zero tells the truth.
LEMMA NothingRuns ==
  ASSUME NEW x, Exact(x), x.runningCount = 0
  PROVE  Running(x) = {}
BY FiniteEntries, FS_EmptySet DEF Exact

\* A step that resolves a drain that had to wait leaves no job running.
LEMMA DrainStepOK ==
  ASSUME IInv, [Next]_vars, NEW f \in Drains, q.drain[f] = "waiting", q'.drain[f] = "resolved"
  PROVE  Running(q') = {}
<1>0. q \in QueueType /\ now \in Nat /\ q'.drain # q.drain
  BY DEF IInv, TypeOK
<1>1. SUFFICES q'.runningCount = 0 \/ Running(q') = {}
  <2>1. Exact(q')
    BY StepOK DEF IInv, QueueOK, Exact, Queued, Running
  <2> QED BY <2>1, NothingRuns
<1>2. ASSUME NEW j \in Jobs, JobStep(j) PROVE q'.runningCount = 0
  <2>1. CASE EnqueueJob(j)
    BY <1>0, <2>1, EnqueueFields DEF EnqueueJob
  <2>2. CASE DequeueJob(j)
    BY <1>0, <2>2, DequeueFields DEF DequeueJob
  <2>3. CASE CompleteJob(j)
    BY <1>0, <2>3, FinishLeft DEF CompleteJob, MarkCompleted
  <2>4. CASE FailJob(j)
    BY <1>0, <2>4, MarkFailedMoves DEF FailJob, Live
  <2>5. CASE CancelQueuedJob(j)
    BY <1>0, <2>5, FinishLeft DEF CancelQueuedJob, Cancel
  <2>6. CASE CancelRunningJob(j)
    BY <1>0, <2>6, FinishLeft DEF CancelRunningJob, CancelRunning
  <2>7. CASE JobTimeout(j)
    BY <1>0, <2>7, TimeoutMoves DEF JobTimeout, Live
  <2> QED BY <1>2, <2>1, <2>2, <2>3, <2>4, <2>5, <2>6, <2>7 DEF JobStep
<1>3. ASSUME NEW d \in Drains, DrainStep(d) PROVE Running(q') = {}
  <2>1. CASE CallDrain(d)
    <3>1. q.drain[d] = "uncalled" /\ \A g \in Drains \ {d} : q'.drain[g] = q.drain[g]
      BY <1>0, <2>1, DrainLeft DEF CallDrain
    <3> QED BY <3>1
  <2>2. CASE SafetyTimer(d)
    BY <2>2, SafetyTimeoutOK DEF SafetyTimer, IInv
  <2> QED BY <1>3, <2>1, <2>2 DEF DrainStep
<1>4. CASE FairScheduler
  BY <1>0, <1>4, ReorderFields DEF FairScheduler
<1>5. CASE Tick \/ UNCHANGED vars
  BY <1>0, <1>5 DEF Tick, vars
<1> QED BY <1>2, <1>3, <1>4, <1>5 DEF Next

\* A drain that had to wait resolves only in a step that leaves no job running.
THEOREM DrainCorrect == Spec => DrainResolvesWithNothingRunning
<1>1. Init => IInv
  BY InitOK DEF Init, IInv, TypeOK, QueueOK
<1>2. IInv /\ [Next]_vars =>
        [\A d \in Drains :
           q.drain[d] = "waiting" /\ q'.drain[d] = "resolved" => Running(q') = {}]_vars
  BY DrainStepOK
<1> QED BY <1>1, <1>2, StepOK, PTL DEF Spec, DrainResolvesWithNothingRunning

=============================================================================
