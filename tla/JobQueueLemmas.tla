---------------------------- MODULE JobQueueLemmas ----------------------------
(***************************************************************************)
(* What the operators of JobQueue do to a queue, for every set of jobs and *)
(* every configuration.  The proofs about the queue under an arbitrary     *)
(* client (JobQueueProofs) and about the agent that owns one               *)
(* (RenderAgentProofs) rest on these lemmas.                               *)
(***************************************************************************)
EXTENDS JobQueue, FiniteSetTheorems, TLAPS

\* The counters of a queue agree with its entries.
Exact(x) ==
  /\ x.pendingCount = Cardinality(Queued(x))
  /\ x.runningCount = Cardinality(Running(x))

\* What every operation preserves.
QueueOK(x) == x \in QueueType /\ Exact(x)

\* The entries in one state are finitely many.
LEMMA FiniteEntries ==
  ASSUME NEW x
  PROVE  /\ IsFiniteSet(Queued(x)) /\ Cardinality(Queued(x)) \in Nat
         /\ IsFiniteSet(Running(x)) /\ Cardinality(Running(x)) \in Nat
<1>1. Queued(x) \subseteq Jobs /\ Running(x) \subseteq Jobs
  BY DEF Queued, Running
<1> QED BY <1>1, JobQueueAssumption, FS_Subset, FS_CardinalityType

\* Retiring a set of entries keeps the type.
LEMMA RetireAllType ==
  ASSUME NEW x \in QueueType, NEW S \in SUBSET Jobs
  PROVE  RetireAll(x, S) \in QueueType
<1>1. Cardinality(S) \in Nat
  BY JobQueueAssumption, FS_Subset, FS_CardinalityType
<1>2. Recorded(x.historyLength + Cardinality(S)) \in 0..MaxHistory
  BY <1>1, JobQueueAssumption DEF Recorded, QueueType
<1> DEFINE c == RetireAll(x, S)
<1>3. [j \in Jobs |-> IF j \in S THEN "absent" ELSE x.st[j]] \in [Jobs -> EntryStatus]
  BY DEF QueueType, EntryStatus
<1>4. [j \in Jobs |-> IF j \in S THEN 0 ELSE x.retries[j]] \in [Jobs -> 0..MaxRetries]
  BY JobQueueAssumption DEF QueueType
<1>5. [j \in Jobs |-> IF j \in S THEN 0 ELSE x.since[j]] \in [Jobs -> Nat]
  BY DEF QueueType
<1>6. [j \in Jobs |-> IF j \in S THEN FALSE ELSE x.timer[j]] \in [Jobs -> BOOLEAN]
  BY DEF QueueType
<1>7. x.ahead \cap ((Jobs \ S) \X (Jobs \ S)) \in SUBSET (Jobs \X Jobs)
  BY DEF QueueType
<1> QED BY <1>2, <1>3, <1>4, <1>5, <1>6, <1>7 DEF RetireAll, QueueType

\* checkDrainComplete keeps the type.
LEMMA CheckDrainType ==
  ASSUME NEW x \in QueueType
  PROVE  CheckDrainComplete(x) \in QueueType
BY DEF CheckDrainComplete, QueueType

\* checkDrainComplete keeps the counters exact.
LEMMA CheckDrainExact ==
  ASSUME NEW x \in QueueType, Exact(x)
  PROVE  Exact(CheckDrainComplete(x))
BY DEF CheckDrainComplete, QueueType, Exact, Queued, Running

\* Moving one job into or out of a set of entries moves its cardinality by one.
LEMMA OneLess ==
  ASSUME NEW S \in SUBSET Jobs, NEW j \in S
  PROVE  Cardinality(S \ {j}) = Cardinality(S) - 1
BY JobQueueAssumption, FS_Subset, FS_RemoveElement

\* The same for a job that is added.
LEMMA OneMore ==
  ASSUME NEW S \in SUBSET Jobs, NEW j \in Jobs \ S
  PROVE  Cardinality(S \cup {j}) = Cardinality(S) + 1
BY JobQueueAssumption, FS_Subset, FS_AddElement

\* The end of one entry (moveToHistory with its counter adjusted).
LEMMA FinishOK ==
  ASSUME NEW x, QueueOK(x), NEW j \in Live(x)
  PROVE  QueueOK(Finish(x, j))
<1>0. SUFFICES ASSUME NEW a, a = RetireAll(x, {j}) PROVE QueueOK(Finish(x, j))
  OBVIOUS
<1> DEFINE r == [a EXCEPT !.pendingCount = IF x.st[j] = "queued" THEN @ - 1 ELSE @,
                          !.runningCount = IF x.st[j] = "running" THEN @ - 1 ELSE @]
<1>1. x \in QueueType /\ j \in Jobs /\ x.st[j] \in {"queued", "running"}
  BY DEF QueueOK, Live, QueueType, EntryStatus
<1>2. a \in QueueType
  BY <1>0, <1>1, RetireAllType
<1>3. r \in QueueType
  <2>1. /\ (IF x.st[j] = "queued" THEN a.pendingCount - 1 ELSE a.pendingCount) \in Int
        /\ (IF x.st[j] = "running" THEN a.runningCount - 1 ELSE a.runningCount) \in Int
    BY <1>2 DEF QueueType
  <2> QED BY <1>2, <2>1 DEF QueueType
<1>4. a.pendingCount = x.pendingCount /\ a.runningCount = x.runningCount
  BY <1>0, <1>1 DEF RetireAll, QueueType
<1>5. a.st = [k \in Jobs |-> IF k = j THEN "absent" ELSE x.st[k]]
  BY <1>0, <1>1 DEF RetireAll, QueueType
<1>6. r.st = a.st
  BY <1>2 DEF QueueType
<1>7. Exact(r)
  <2>1. CASE x.st[j] = "queued"
    <3>1. Queued(r) = Queued(x) \ {j} /\ Running(r) = Running(x)
      BY <1>5, <1>6, <2>1 DEF Queued, Running
    <3>2. Cardinality(Queued(x) \ {j}) = Cardinality(Queued(x)) - 1
      BY <1>1, <2>1, OneLess DEF Queued
    <3>3. r.pendingCount = x.pendingCount - 1 /\ r.runningCount = x.runningCount
      BY <1>2, <1>4, <2>1 DEF QueueType
    <3> QED BY <3>1, <3>2, <3>3 DEF Exact, QueueOK
  <2>2. CASE x.st[j] = "running"
    <3>1. Running(r) = Running(x) \ {j} /\ Queued(r) = Queued(x)
      BY <1>5, <1>6, <2>2 DEF Queued, Running
    <3>2. Cardinality(Running(x) \ {j}) = Cardinality(Running(x)) - 1
      BY <1>1, <2>2, OneLess DEF Running
    <3>3. r.runningCount = x.runningCount - 1 /\ r.pendingCount = x.pendingCount
      BY <1>2, <1>4, <2>2 DEF QueueType
    <3> QED BY <3>1, <3>2, <3>3 DEF Exact, QueueOK
  <2> QED BY <1>1, <2>1, <2>2
<1>8. Finish(x, j) = CheckDrainComplete(r)
  BY <1>0 DEF Finish
<1> HIDE DEF r
<1> QED BY <1>3, <1>7, <1>8, CheckDrainType, CheckDrainExact DEF QueueOK

\* enqueue().
LEMMA EnqueueOK ==
  ASSUME NEW x, QueueOK(x), NEW j \in Jobs, CanEnqueue(x, j), NEW t \in Nat
  PROVE  QueueOK(Enqueue(x, j, t))
<1> SUFFICES ASSUME NEW e, e = Enqueue(x, j, t) PROVE QueueOK(e)
  OBVIOUS
<1>1. x \in QueueType /\ x.st[j] = "absent"
  BY DEF QueueOK, CanEnqueue
<1>2. AheadOfNew(x, j) \subseteq Jobs /\ Live(x) \subseteq Jobs
  BY DEF AheadOfNew, Live
<1>3. x.ahead \cup { <<k, j>> : k \in AheadOfNew(x, j) }
             \cup { <<j, k>> : k \in Live(x) \ AheadOfNew(x, j) } \in SUBSET (Jobs \X Jobs)
  BY <1>1, <1>2 DEF QueueType
<1>4. e \in QueueType
  <2>1. /\ [x.st EXCEPT ![j] = "queued"] \in [Jobs -> EntryStatus]
        /\ [x.since EXCEPT ![j] = t] \in [Jobs -> Nat]
        /\ x.pendingCount + 1 \in Int
    BY <1>1 DEF QueueType, EntryStatus
  <2> QED BY <1>1, <1>3, <2>1 DEF Enqueue, QueueType
<1>5. /\ e.st = [x.st EXCEPT ![j] = "queued"]
      /\ e.pendingCount = x.pendingCount + 1 /\ e.runningCount = x.runningCount
  BY <1>1 DEF Enqueue, QueueType
<1>6. Queued(e) = Queued(x) \cup {j} /\ Running(e) = Running(x) /\ j \notin Queued(x)
  BY <1>1, <1>5 DEF Queued, Running, QueueType
<1>7. Cardinality(Queued(x) \cup {j}) = Cardinality(Queued(x)) + 1
  BY <1>6, OneMore DEF Queued
<1> QED BY <1>4, <1>5, <1>6, <1>7 DEF QueueOK, Exact

\* dequeue().
LEMMA DequeueOK ==
  ASSUME NEW x, QueueOK(x), NEW j \in Queued(x)
  PROVE  QueueOK(Dequeue(x, j))
<1> SUFFICES ASSUME NEW e, e = Dequeue(x, j) PROVE QueueOK(e)
  OBVIOUS
<1>1. x \in QueueType /\ j \in Jobs /\ x.st[j] = "queued"
  BY DEF QueueOK, Queued
<1>2. e \in QueueType
  <2>1. /\ [x.st EXCEPT ![j] = "running"] \in [Jobs -> EntryStatus]
        /\ [x.timer EXCEPT ![j] = j \in TimedJobs] \in [Jobs -> BOOLEAN]
        /\ x.pendingCount - 1 \in Int /\ x.runningCount + 1 \in Int
    BY <1>1 DEF QueueType, EntryStatus
  <2> QED BY <1>1, <2>1 DEF Dequeue, QueueType
<1>3. /\ e.st = [x.st EXCEPT ![j] = "running"]
      /\ e.pendingCount = x.pendingCount - 1 /\ e.runningCount = x.runningCount + 1
  BY <1>1 DEF Dequeue, QueueType
<1>4. Queued(e) = Queued(x) \ {j} /\ Running(e) = Running(x) \cup {j} /\ j \notin Running(x)
  BY <1>1, <1>3 DEF Queued, Running, QueueType
<1>5. /\ Cardinality(Queued(x) \ {j}) = Cardinality(Queued(x)) - 1
      /\ Cardinality(Running(x) \cup {j}) = Cardinality(Running(x)) + 1
  BY <1>4, OneLess, OneMore DEF Queued, Running
<1> QED BY <1>2, <1>3, <1>4, <1>5 DEF QueueOK, Exact

\* The retry branch of markFailed().
LEMMA RequeueOK ==
  ASSUME NEW x, QueueOK(x), NEW j \in Jobs, WillRetry(x, j, TRUE)
  PROVE  QueueOK(Requeue(x, j))
<1> SUFFICES ASSUME NEW e, e = Requeue(x, j) PROVE QueueOK(e)
  OBVIOUS
<1>1. x \in QueueType /\ x.st[j] \in {"queued", "running"} /\ x.retries[j] < MaxRetries
  BY DEF QueueOK, WillRetry, QueueType, EntryStatus
<1>2. x.retries[j] + 1 \in 0..MaxRetries
  BY <1>1, JobQueueAssumption DEF QueueType
<1>3. e \in QueueType
  <2>1. /\ [x.st EXCEPT ![j] = "queued"] \in [Jobs -> EntryStatus]
        /\ [x.retries EXCEPT ![j] = x.retries[j] + 1] \in [Jobs -> 0..MaxRetries]
        /\ [x.timer EXCEPT ![j] = FALSE] \in [Jobs -> BOOLEAN]
        /\ (IF x.st[j] = "running" THEN x.runningCount - 1 ELSE x.runningCount) \in Int
        /\ (IF x.st[j] = "running" THEN x.pendingCount + 1 ELSE x.pendingCount) \in Int
    BY <1>1, <1>2 DEF QueueType, EntryStatus
  <2> QED BY <1>1, <2>1 DEF Requeue, QueueType
<1>4. e.st = [x.st EXCEPT ![j] = "queued"]
  BY <1>1 DEF Requeue, QueueType
<1>5. CASE x.st[j] = "queued"
  <2>1. e.pendingCount = x.pendingCount /\ e.runningCount = x.runningCount
    BY <1>1, <1>5 DEF Requeue, QueueType
  <2>2. Queued(e) = Queued(x) /\ Running(e) = Running(x)
    BY <1>1, <1>4, <1>5 DEF Queued, Running, QueueType
  <2> QED BY <1>3, <2>1, <2>2 DEF QueueOK, Exact
<1>6. CASE x.st[j] = "running"
  <2>1. e.pendingCount = x.pendingCount + 1 /\ e.runningCount = x.runningCount - 1
    BY <1>1, <1>6 DEF Requeue, QueueType
  <2>2. Queued(e) = Queued(x) \cup {j} /\ Running(e) = Running(x) \ {j}
        /\ j \notin Queued(x) /\ j \in Running(x)
    BY <1>1, <1>4, <1>6 DEF Queued, Running, QueueType
  <2>3. /\ Cardinality(Queued(x) \cup {j}) = Cardinality(Queued(x)) + 1
        /\ Cardinality(Running(x) \ {j}) = Cardinality(Running(x)) - 1
    BY <2>2, OneLess, OneMore DEF Queued, Running
  <2> QED BY <1>3, <2>1, <2>2, <2>3 DEF QueueOK, Exact
<1> QED BY <1>1, <1>5, <1>6

\* markFailed(), with and without a retry.
LEMMA MarkFailedOK ==
  ASSUME NEW x, QueueOK(x), NEW j \in Jobs, NEW retryable \in BOOLEAN
  PROVE  QueueOK(MarkFailed(x, j, retryable))
<1>1. CASE WillRetry(x, j, retryable)
  <2>1. WillRetry(x, j, TRUE)
    BY <1>1 DEF WillRetry
  <2> QED BY <1>1, <2>1, RequeueOK DEF MarkFailed
<1>2. CASE ~ WillRetry(x, j, retryable)
  <2>1. x.st[j] # "absent" => QueueOK(Finish(x, j))
    BY FinishOK DEF Live
  <2> QED BY <1>2, <2>1 DEF MarkFailed
<1> QED BY <1>1, <1>2

\* drain().
LEMMA DrainOK ==
  ASSUME NEW x, QueueOK(x), NEW d \in Drains
  PROVE  QueueOK(Drain(x, d))
<1>0. SUFFICES ASSUME NEW a, a = RetireAll(x, Queued(x)) PROVE QueueOK(Drain(x, d))
  OBVIOUS
<1>1. x \in QueueType /\ Queued(x) \subseteq Jobs
  BY DEF QueueOK, Queued
<1>2. a \in QueueType
  BY <1>0, <1>1, RetireAllType
<1>3. /\ a.pendingCount = x.pendingCount /\ a.runningCount = x.runningCount
      /\ a.st = [k \in Jobs |-> IF k \in Queued(x) THEN "absent" ELSE x.st[k]]
  BY <1>0, <1>1 DEF RetireAll, QueueType
<1>4. Queued(a) = {} /\ Running(a) = Running(x)
  BY <1>1, <1>3 DEF Queued, Running, QueueType
<1>5. SUFFICES ASSUME NEW c,
                      c = [a EXCEPT !.draining = TRUE,
                                    !.pendingCount = @ - Cardinality(Queued(x))]
               PROVE  QueueOK(Drain(x, d))
  OBVIOUS
<1>6. a.pendingCount - Cardinality(Queued(x)) = 0
  BY <1>3, FiniteEntries DEF QueueOK, Exact
<1>7. c \in QueueType
  <2>1. a.pendingCount - Cardinality(Queued(x)) \in Int
    BY <1>6
  <2> QED BY <1>2, <1>5, <2>1 DEF QueueType
<1>8. c.pendingCount = 0 /\ c.runningCount = x.runningCount /\ c.st = a.st
  BY <1>2, <1>3, <1>5, <1>6 DEF QueueType
<1>9. Queued(c) = {} /\ Running(c) = Running(x)
  BY <1>4, <1>8 DEF Queued, Running
<1>10. Drain(x, d) = IF c.runningCount = 0 THEN [c EXCEPT !.drain[d] = "resolved"]
                     ELSE [c EXCEPT !.drain[d] = "waiting", !.resolver = d, !.safety[d] = TRUE]
  BY <1>0, <1>5 DEF Drain
<1>11. SUFFICES ASSUME NEW e, e = Drain(x, d) PROVE QueueOK(e)
  OBVIOUS
<1>12. e \in QueueType
  <2>1. /\ [c.drain EXCEPT ![d] = "resolved"] \in [Drains -> {"uncalled", "waiting", "resolved"}]
        /\ [c.drain EXCEPT ![d] = "waiting"] \in [Drains -> {"uncalled", "waiting", "resolved"}]
        /\ [c.safety EXCEPT ![d] = TRUE] \in [Drains -> BOOLEAN]
    BY <1>7 DEF QueueType
  <2>2. CASE c.runningCount = 0
    <3>1. e = [c EXCEPT !.drain[d] = "resolved"]
      BY <1>10, <1>11, <2>2
    <3> QED BY <1>7, <2>1, <3>1 DEF QueueType
  <2>3. CASE c.runningCount # 0
    <3>1. e = [c EXCEPT !.drain[d] = "waiting", !.resolver = d, !.safety[d] = TRUE]
      BY <1>10, <1>11, <2>3
    <3> QED BY <1>7, <2>1, <3>1 DEF QueueType
  <2> QED BY <2>2, <2>3
<1>13. e.st = c.st /\ e.pendingCount = c.pendingCount /\ e.runningCount = c.runningCount
  BY <1>7, <1>10, <1>11 DEF QueueType
<1>14. Queued(e) = {} /\ Running(e) = Running(x)
  BY <1>9, <1>13 DEF Queued, Running
<1> QED BY <1>8, <1>12, <1>13, <1>14, FS_EmptySet DEF QueueOK, Exact

\* The safety timer of a drain.
LEMMA SafetyTimeoutOK ==
  ASSUME NEW x, QueueOK(x), NEW d \in Drains
  PROVE  QueueOK(SafetyTimeout(x, d)) /\ Running(SafetyTimeout(x, d)) = {}
<1>0. SUFFICES ASSUME NEW a, a = RetireAll(x, Running(x)),
                      NEW e, e = SafetyTimeout(x, d)
               PROVE  QueueOK(e) /\ Running(e) = {}
  OBVIOUS
<1>1. x \in QueueType /\ Running(x) \subseteq Jobs
  BY DEF QueueOK, Running
<1>2. a \in QueueType
  BY <1>0, <1>1, RetireAllType
<1>3. /\ a.pendingCount = x.pendingCount /\ a.runningCount = x.runningCount
      /\ a.st = [k \in Jobs |-> IF k \in Running(x) THEN "absent" ELSE x.st[k]]
  BY <1>0, <1>1 DEF RetireAll, QueueType
<1>4. a.runningCount - Cardinality(Running(x)) = 0
  BY <1>3, FiniteEntries DEF QueueOK, Exact
<1>5. e = [a EXCEPT !.runningCount = @ - Cardinality(Running(x)), !.resolver = NoDrain,
                    !.drain[d] = "resolved", !.safety[d] = FALSE]
  BY <1>0 DEF SafetyTimeout
<1>6. e \in QueueType
  <2>1. /\ [a.drain EXCEPT ![d] = "resolved"] \in [Drains -> {"uncalled", "waiting", "resolved"}]
        /\ [a.safety EXCEPT ![d] = FALSE] \in [Drains -> BOOLEAN]
        /\ a.runningCount - Cardinality(Running(x)) \in Int
    BY <1>2, <1>4 DEF QueueType
  <2> QED BY <1>2, <1>5, <2>1 DEF QueueType
<1>7. e.st = a.st /\ e.pendingCount = x.pendingCount /\ e.runningCount = 0
  BY <1>2, <1>3, <1>4, <1>5 DEF QueueType
<1>8. Queued(e) = Queued(x) /\ Running(e) = {}
  BY <1>1, <1>3, <1>7 DEF Queued, Running, QueueType
<1> QED BY <1>6, <1>7, <1>8, FS_EmptySet DEF QueueOK, Exact

\* The timeout of an entry.
LEMMA TimeoutEntryOK ==
  ASSUME NEW x, QueueOK(x), NEW j \in Jobs
  PROVE  QueueOK(TimeoutEntry(x, j))
<1>1. SUFFICES ASSUME NEW c, c = [x EXCEPT !.timer[j] = FALSE] PROVE QueueOK(TimeoutEntry(x, j))
  OBVIOUS
<1>2. /\ c \in QueueType /\ c.st = x.st
      /\ c.pendingCount = x.pendingCount /\ c.runningCount = x.runningCount
  BY <1>1 DEF QueueOK, QueueType
<1>3. Queued(c) = Queued(x) /\ Running(c) = Running(x)
  BY <1>2 DEF Queued, Running
<1>4. QueueOK(c)
  BY <1>2, <1>3 DEF QueueOK, Exact
<1>5. TimeoutEntry(x, j) = MarkFailed(c, j, TRUE)
  BY <1>1 DEF TimeoutEntry
<1> QED BY <1>4, <1>5, MarkFailedOK

\* The fair scheduler's rearrangement.
LEMMA ReorderOK ==
  ASSUME NEW x, QueueOK(x), NEW t \in Nat
  PROVE  QueueOK([x EXCEPT !.ahead = Reordered(x, t)])
<1>1. Reordered(x, t) \in SUBSET (Jobs \X Jobs)
  BY DEF Reordered, Live
<1>2. SUFFICES ASSUME NEW e, e = [x EXCEPT !.ahead = Reordered(x, t)] PROVE QueueOK(e)
  OBVIOUS
<1>3. /\ e \in QueueType /\ e.st = x.st
      /\ e.pendingCount = x.pendingCount /\ e.runningCount = x.runningCount
  BY <1>1, <1>2 DEF QueueOK, QueueType
<1>4. Queued(e) = Queued(x) /\ Running(e) = Running(x)
  BY <1>3 DEF Queued, Running
<1> QED BY <1>3, <1>4 DEF QueueOK, Exact

-----------------------------------------------------------------------------
(* What happens to the status of the entries *)

\* Ending, re-queueing or adding an entry starts no other job.
LEMMA FinishStatus ==
  ASSUME NEW x \in QueueType, NEW m \in Jobs
  PROVE  Finish(x, m).st = [k \in Jobs |-> IF k = m THEN "absent" ELSE x.st[k]]
<1>1. SUFFICES ASSUME NEW a, a = RetireAll(x, {m})
               PROVE  Finish(x, m).st = [k \in Jobs |-> IF k = m THEN "absent" ELSE x.st[k]]
  OBVIOUS
<1>2. a \in QueueType
  BY <1>1, RetireAllType
<1>3. a.st = [k \in Jobs |-> IF k = m THEN "absent" ELSE x.st[k]]
  BY <1>1 DEF RetireAll, QueueType
<1>4. SUFFICES ASSUME NEW r,
                      r = [a EXCEPT !.pendingCount = IF x.st[m] = "queued" THEN @ - 1 ELSE @,
                                    !.runningCount = IF x.st[m] = "running" THEN @ - 1 ELSE @]
               PROVE  Finish(x, m).st = a.st
  BY <1>3
<1>5. Finish(x, m) = CheckDrainComplete(r)
  BY <1>1, <1>4 DEF Finish
<1>6. r.st = a.st /\ DOMAIN r = DOMAIN a
  BY <1>2, <1>4 DEF QueueType
<1>7. CheckDrainComplete(r).st = r.st
  BY <1>2, <1>6 DEF CheckDrainComplete, QueueType
<1> QED BY <1>5, <1>6, <1>7

\* No failure makes another job run.
LEMMA MarkFailedStatus ==
  ASSUME NEW x \in QueueType, NEW m \in Jobs, NEW retryable \in BOOLEAN
  PROVE  \A k \in Jobs : MarkFailed(x, m, retryable).st[k] = "running" => x.st[k] = "running"
<1>1. CASE WillRetry(x, m, retryable)
  <2>1. MarkFailed(x, m, retryable).st = [x.st EXCEPT ![m] = "queued"]
    BY <1>1 DEF MarkFailed, Requeue, QueueType
  <2> QED BY <2>1 DEF QueueType
<1>2. CASE ~ WillRetry(x, m, retryable)
  <2>1. MarkFailed(x, m, retryable) = x \/ MarkFailed(x, m, retryable) = Finish(x, m)
    BY <1>2 DEF MarkFailed
  <2>2. \A k \in Jobs : Finish(x, m).st[k] = "running" => x.st[k] = "running"
    <3>1. Finish(x, m).st = [k \in Jobs |-> IF k = m THEN "absent" ELSE x.st[k]]
      BY FinishStatus
    <3> QED BY <3>1, Zenon
  <2> QED BY <2>1, <2>2
<1> QED BY <1>1, <1>2

-----------------------------------------------------------------------------
(* What leaves a queue, and what is put back *)

\* Queue e is x without the entries of S, which are recorded in the history.
Left(x, e, S) ==
  /\ e.st = [k \in Jobs |-> IF k \in S THEN "absent" ELSE x.st[k]]
  /\ e.ahead = x.ahead \cap ((Jobs \ S) \X (Jobs \ S))
  /\ e.timer = [k \in Jobs |-> IF k \in S THEN FALSE ELSE x.timer[k]]
  /\ e.historyLength = Recorded(x.historyLength + Cardinality(S))

\* Queue e is x with the entry of j queued again where it stands.
PutBack(x, e, j) ==
  /\ e.st = [x.st EXCEPT ![j] = "queued"]
  /\ e.ahead = x.ahead
  /\ e.timer = [x.timer EXCEPT ![j] = FALSE]
  /\ e.historyLength = x.historyLength

\* Retiring a set of entries and nothing else.
LEMMA RetireAllLeft ==
  ASSUME NEW x \in QueueType, NEW S \in SUBSET Jobs
  PROVE  /\ Left(x, RetireAll(x, S), S)
         /\ RetireAll(x, S).drain = x.drain /\ RetireAll(x, S).safety = x.safety
         /\ RetireAll(x, S).draining = x.draining
BY DEF RetireAll, Left, QueueType

\* The end of one entry: what leaves, and that a drain resolves with it only when
\* nothing runs any more.
LEMMA FinishLeft ==
  ASSUME NEW x \in QueueType, NEW j \in Jobs
  PROVE  /\ Left(x, Finish(x, j), {j})
         /\ Finish(x, j).safety = x.safety /\ Finish(x, j).draining = x.draining
         /\ Finish(x, j).drain = x.drain \/ Finish(x, j).runningCount = 0
<1>1. SUFFICES ASSUME NEW a, a = RetireAll(x, {j}),
                      NEW r,
                      r = [a EXCEPT !.pendingCount = IF x.st[j] = "queued" THEN @ - 1 ELSE @,
                                    !.runningCount = IF x.st[j] = "running" THEN @ - 1 ELSE @],
                      NEW e, e = CheckDrainComplete(r)
               PROVE  /\ Left(x, e, {j})
                      /\ e.safety = x.safety /\ e.draining = x.draining
                      /\ e.drain = x.drain \/ e.runningCount = 0
  BY DEF Finish
<1>2. /\ a \in QueueType /\ Left(x, a, {j})
      /\ a.drain = x.drain /\ a.safety = x.safety /\ a.draining = x.draining
  BY <1>1, RetireAllType, RetireAllLeft
<1>3. /\ r.st = a.st /\ r.ahead = a.ahead /\ r.timer = a.timer
      /\ r.historyLength = a.historyLength /\ r.drain = a.drain /\ r.safety = a.safety
      /\ r.draining = a.draining /\ DOMAIN r = DOMAIN a
  BY <1>1, <1>2 DEF QueueType
<1>4. /\ e.st = r.st /\ e.ahead = r.ahead /\ e.timer = r.timer
      /\ e.historyLength = r.historyLength /\ e.safety = r.safety
      /\ e.draining = r.draining
      /\ e.drain = r.drain \/ e.runningCount = 0
  BY <1>1, <1>2, <1>3 DEF CheckDrainComplete, QueueType
<1> QED BY <1>2, <1>3, <1>4 DEF Left

\* The retry branch of markFailed().
LEMMA RequeuePutsBack ==
  ASSUME NEW x \in QueueType, NEW j \in Jobs
  PROVE  /\ PutBack(x, Requeue(x, j), j)
         /\ Requeue(x, j).drain = x.drain /\ Requeue(x, j).safety = x.safety
         /\ Requeue(x, j).draining = x.draining
BY DEF Requeue, PutBack, QueueType

\* A failed entry goes or is put back.
LEMMA MarkFailedMoves ==
  ASSUME NEW x \in QueueType, NEW j \in Live(x), NEW retryable \in BOOLEAN,
         NEW e, e = MarkFailed(x, j, retryable)
  PROVE  /\ Left(x, e, {j}) \/ PutBack(x, e, j)
         /\ WillRetry(x, j, retryable) => PutBack(x, e, j)
         /\ ~ WillRetry(x, j, retryable) => Left(x, e, {j})
         /\ e.safety = x.safety /\ e.draining = x.draining
         /\ e.drain = x.drain \/ e.runningCount = 0
<1>1. j \in Jobs /\ x.st[j] # "absent"
  BY DEF Live
<1>2. CASE WillRetry(x, j, retryable)
  BY <1>1, <1>2, RequeuePutsBack DEF MarkFailed
<1>3. CASE ~ WillRetry(x, j, retryable)
  BY <1>1, <1>3, FinishLeft DEF MarkFailed
<1> QED BY <1>2, <1>3

\* The timeout of an entry that runs: it goes or is put back, as after a failure.
LEMMA TimeoutMoves ==
  ASSUME NEW x \in QueueType, NEW j \in Live(x), NEW e, e = TimeoutEntry(x, j)
  PROVE  /\ Left(x, e, {j}) \/ PutBack(x, e, j)
         /\ e.drain = x.drain \/ e.runningCount = 0
<1>0. j \in Jobs
  BY DEF Live
<1>1. SUFFICES ASSUME NEW c, c = [x EXCEPT !.timer[j] = FALSE]
               PROVE  /\ Left(x, e, {j}) \/ PutBack(x, e, j)
                      /\ e.drain = x.drain \/ e.runningCount = 0
  OBVIOUS
<1>2. /\ c \in QueueType /\ c.st = x.st /\ c.ahead = x.ahead /\ c.drain = x.drain
      /\ c.historyLength = x.historyLength /\ c.timer = [x.timer EXCEPT ![j] = FALSE]
  BY <1>0, <1>1 DEF QueueType
<1>3. e = MarkFailed(c, j, TRUE) /\ j \in Live(c)
  BY <1>1, <1>2 DEF TimeoutEntry, Live
<1>4. /\ Left(c, e, {j}) \/ PutBack(c, e, j)
      /\ e.drain = c.drain \/ e.runningCount = 0
  BY <1>2, <1>3, MarkFailedMoves
<1>5. Left(c, e, {j}) => Left(x, e, {j})
  BY <1>0, <1>2 DEF Left, QueueType
<1>6. PutBack(c, e, j) => PutBack(x, e, j)
  BY <1>0, <1>2 DEF PutBack, QueueType
<1> QED BY <1>2, <1>4, <1>5, <1>6

\* drain(): the queued entries leave, and only the drain called now may resolve.
LEMMA DrainLeft ==
  ASSUME NEW x \in QueueType, NEW d \in Drains, NEW e, e = Drain(x, d)
  PROVE  /\ Left(x, e, Queued(x))
         /\ \A f \in Drains \ {d} : e.drain[f] = x.drain[f]
<1>1. SUFFICES ASSUME NEW a, a = RetireAll(x, Queued(x)),
                      NEW c,
                      c = [a EXCEPT !.draining = TRUE,
                                    !.pendingCount = @ - Cardinality(Queued(x))]
               PROVE  /\ Left(x, e, Queued(x))
                      /\ \A f \in Drains \ {d} : e.drain[f] = x.drain[f]
  OBVIOUS
<1>2. Queued(x) \in SUBSET Jobs
  BY DEF Queued
<1>3. a \in QueueType /\ Left(x, a, Queued(x)) /\ a.drain = x.drain
  BY <1>1, <1>2, RetireAllType, RetireAllLeft
<1>4. /\ c.st = a.st /\ c.ahead = a.ahead /\ c.timer = a.timer
      /\ c.historyLength = a.historyLength /\ c.drain = a.drain
      /\ DOMAIN c = DOMAIN a
  BY <1>1, <1>3 DEF QueueType
<1>5. e = IF c.runningCount = 0 THEN [c EXCEPT !.drain[d] = "resolved"]
          ELSE [c EXCEPT !.drain[d] = "waiting", !.resolver = d, !.safety[d] = TRUE]
  BY <1>1 DEF Drain
<1>6. /\ e.st = c.st /\ e.ahead = c.ahead /\ e.timer = c.timer
      /\ e.historyLength = c.historyLength
      /\ \A f \in Drains \ {d} : e.drain[f] = c.drain[f]
  BY <1>3, <1>4, <1>5 DEF QueueType
<1> QED BY <1>3, <1>4, <1>6 DEF Left

\* The safety timer of a drain: the running entries leave.
LEMMA SafetyTimeoutLeft ==
  ASSUME NEW x \in QueueType, NEW d \in Drains, NEW e, e = SafetyTimeout(x, d)
  PROVE  Left(x, e, Running(x))
<1>1. SUFFICES ASSUME NEW a, a = RetireAll(x, Running(x)) PROVE Left(x, e, Running(x))
  OBVIOUS
<1>2. Running(x) \in SUBSET Jobs
  BY DEF Running
<1>3. a \in QueueType /\ Left(x, a, Running(x))
  BY <1>1, <1>2, RetireAllType, RetireAllLeft
<1>4. e.st = a.st /\ e.ahead = a.ahead /\ e.timer = a.timer /\ e.historyLength = a.historyLength
  BY <1>1, <1>3 DEF SafetyTimeout, QueueType
<1> QED BY <1>3, <1>4 DEF Left

\* What enqueue() changes.
LEMMA EnqueueFields ==
  ASSUME NEW x \in QueueType, NEW j \in Jobs, NEW t \in Nat
  PROVE  /\ Enqueue(x, j, t).st = [x.st EXCEPT ![j] = "queued"]
         /\ Enqueue(x, j, t).ahead =
              x.ahead \cup { <<k, j>> : k \in AheadOfNew(x, j) }
                      \cup { <<j, k>> : k \in Live(x) \ AheadOfNew(x, j) }
         /\ Enqueue(x, j, t).timer = x.timer
         /\ Enqueue(x, j, t).historyLength = x.historyLength
         /\ Enqueue(x, j, t).drain = x.drain
         /\ Enqueue(x, j, t).safety = x.safety
         /\ Enqueue(x, j, t).draining = x.draining
BY DEF Enqueue, QueueType

\* What dequeue() changes.
LEMMA DequeueFields ==
  ASSUME NEW x \in QueueType, NEW j \in Jobs
  PROVE  /\ Dequeue(x, j).st = [x.st EXCEPT ![j] = "running"]
         /\ Dequeue(x, j).ahead = x.ahead
         /\ Dequeue(x, j).timer = [x.timer EXCEPT ![j] = j \in TimedJobs]
         /\ Dequeue(x, j).historyLength = x.historyLength
         /\ Dequeue(x, j).drain = x.drain
         /\ Dequeue(x, j).safety = x.safety
         /\ Dequeue(x, j).draining = x.draining
BY DEF Dequeue, QueueType

=============================================================================
