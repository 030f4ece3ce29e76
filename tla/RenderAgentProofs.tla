--------------------------- MODULE RenderAgentProofs ---------------------------
(***************************************************************************)
(* Theorems about the render agent, for every set of jobs, every           *)
(* configuration and any number of attempts; and about agents and their    *)
(* coordinator together, for every set of workers, too.                    *)
(***************************************************************************)
EXTENDS
  RenderAgentMachine, RenderSystem, JobQueueLemmas, WellFoundedInduction, SequenceTheorems

PhaseType == [Jobs -> [Slots -> {"free", "preflight", "dispatch"}]]

Message == [type : MessageType, job : Jobs \cup {NoJob}, healthy : BOOLEAN]

\* At most one attempt of job j is under way, and one is exactly if its entry runs.
Lone(ph, st, j) ==
  /\ st[j] = "running" <=> \E n \in Slots : ph[j][n] # "free"
  /\ \A m, n \in Slots : ph[j][m] # "free" /\ ph[j][n] # "free" => m = n

\* Until shutdown, and without time limits: no timer is armed, each job's attempts
\* agree with its entry, and nothing is left of a job that was not assigned yet or
\* that is over.
Settled ==
  /\ \A d \in Drains : q.safety[d] = FALSE
  /\ \A j \in Jobs : q.timer[j] = FALSE
  /\ \A j \in Jobs : Lone(phase, q.st, j)
  /\ \A j \in Jobs \ assigned : q.st[j] = "absent" /\ told[j] \notin Terminal
  /\ \A j \in Jobs : told[j] \in Terminal => q.st[j] = "absent"

\* The inductive invariant.
IInv ==
  /\ TypeOK /\ QueueOK(q) /\ IdleMeansNoActive
  /\ TimedJobs = {} /\ ~ disposed => Settled

-----------------------------------------------------------------------------
(* Attempts *)

\* A slot for one more attempt: of some numbers, one is the least.
LEMMA LeastFree ==
  ASSUME NEW A \in SUBSET Slots, A # {}
  PROVE  (CHOOSE n \in A : \A m \in A : n <= m) \in A
<1> DEFINE R == OpToRel(<, Nat)
<1>1. IsWellFoundedOn(R, Nat) /\ A \subseteq Nat
  BY NatLessThanWellFounded, AgentAssumption
<1>2. \A m, n \in Nat : m < n => <<m, n>> \in R
  BY DEF OpToRel
<1> HIDE DEF R
<1>3. PICK n \in A : \A m \in A : ~ (<<m, n>> \in R)
  BY <1>1, WFMin
<1>4. ASSUME NEW m \in A PROVE n <= m
  <2>1. m \in Nat /\ n \in Nat /\ ~ (m < n)
    BY <1>1, <1>2, <1>3
  <2> QED BY <2>1
<1> QED BY <1>4

\* A new attempt of each job of S is under way, and nothing else has changed.
LEMMA StartedOK ==
  ASSUME NEW ph \in PhaseType, NEW S \in SUBSET Jobs, Room(ph, S)
  PROVE  /\ Started(ph, S) \in PhaseType
         /\ \A j \in S : \E n \in Slots :
              ph[j][n] = "free" /\ Started(ph, S)[j] = [ph[j] EXCEPT ![n] = "preflight"]
         /\ \A j \in Jobs \ S : Started(ph, S)[j] = ph[j]
<1>1. ASSUME NEW j \in S
      PROVE  \E n \in Slots :
               ph[j][n] = "free" /\ Started(ph, S)[j] = [ph[j] EXCEPT ![n] = "preflight"]
  <2> DEFINE n == CHOOSE n \in Free(ph, j) : \A m \in Free(ph, j) : n <= m
  <2>1. Free(ph, j) \in SUBSET Slots /\ Free(ph, j) # {}
    BY DEF Free, Room
  <2>2. n \in Free(ph, j)
    BY <2>1, LeastFree
  <2>3. Started(ph, S)[j] = [ph[j] EXCEPT ![n] = "preflight"]
    BY DEF Started
  <2> HIDE DEF n
  <2> QED BY <2>2, <2>3 DEF Free
<1>2. \A j \in Jobs \ S : Started(ph, S)[j] = ph[j]
  BY DEF Started
<1>3. Started(ph, S) \in PhaseType
  <2>1. DOMAIN Started(ph, S) = Jobs /\ Started(ph, S) = [j \in Jobs |-> Started(ph, S)[j]]
    BY DEF Started
  <2>2. ASSUME NEW j \in Jobs
        PROVE  Started(ph, S)[j] \in [Slots -> {"free", "preflight", "dispatch"}]
    <3>1. ph[j] \in [Slots -> {"free", "preflight", "dispatch"}]
      BY DEF PhaseType
    <3>2. CASE j \in S
      <4>1. PICK n \in Slots : Started(ph, S)[j] = [ph[j] EXCEPT ![n] = "preflight"]
        BY <1>1, <3>2
      <4> QED BY <3>1, <4>1
    <3>3. CASE j \notin S
      BY <1>2, <3>1, <3>3
    <3> QED BY <3>2, <3>3
  <2> QED BY <2>1, <2>2 DEF PhaseType
<1> QED BY <1>1, <1>2, <1>3

\* An attempt is over, and nothing else has changed.
LEMMA EndedOK ==
  ASSUME phase \in PhaseType, NEW j \in Jobs, NEW n \in Slots
  PROVE  /\ Ended(j, n) \in PhaseType
         /\ Ended(j, n)[j] = [phase[j] EXCEPT ![n] = "free"]
         /\ \A k \in Jobs \ {j} : Ended(j, n)[k] = phase[k]
BY DEF Ended, PhaseType

-----------------------------------------------------------------------------
(* The queue of the agent *)

\* dequeue() of every job of S in turn.
LEMMA DequeueEachOK ==
  ASSUME NEW x, QueueOK(x), NEW S, S = Queued(x) \/ S = {}
  PROVE  /\ QueueOK(DequeueEach(x, S))
         /\ DequeueEach(x, S).st = [j \in Jobs |-> IF j \in S THEN "running" ELSE x.st[j]]
         /\ DequeueEach(x, S).timer
              = [j \in Jobs |-> IF j \in S THEN j \in TimedJobs ELSE x.timer[j]]
         /\ DequeueEach(x, S).safety = x.safety
<1>1. SUFFICES ASSUME NEW e, e = DequeueEach(x, S)
               PROVE  /\ QueueOK(e)
                      /\ e.st = [j \in Jobs |-> IF j \in S THEN "running" ELSE x.st[j]]
                      /\ e.timer = [j \in Jobs |-> IF j \in S THEN j \in TimedJobs ELSE x.timer[j]]
                      /\ e.safety = x.safety
  OBVIOUS
<1>2. x \in QueueType /\ S \subseteq Queued(x)
  BY DEF QueueOK
<1>3. IsFiniteSet(S) /\ Cardinality(S) \in Nat
  BY <1>2, FiniteEntries, FS_Subset, FS_CardinalityType
<1>4. /\ e.st = [j \in Jobs |-> IF j \in S THEN "running" ELSE x.st[j]]
      /\ e.timer = [j \in Jobs |-> IF j \in S THEN j \in TimedJobs ELSE x.timer[j]]
      /\ e.safety = x.safety
      /\ e.pendingCount = x.pendingCount - Cardinality(S)
      /\ e.runningCount = x.runningCount + Cardinality(S)
  BY <1>1, <1>2 DEF DequeueEach, QueueType
<1>5. e \in QueueType
  <2>1. [j \in Jobs |-> IF j \in S THEN "running" ELSE x.st[j]] \in [Jobs -> EntryStatus]
    BY <1>2 DEF QueueType, EntryStatus
  <2>2. [j \in Jobs |-> IF j \in S THEN j \in TimedJobs ELSE x.timer[j]] \in [Jobs -> BOOLEAN]
    <3>1. x.timer \in [Jobs -> BOOLEAN]
      BY <1>2 DEF QueueType
    <3>2. ASSUME NEW j \in Jobs
          PROVE  (IF j \in S THEN j \in TimedJobs ELSE x.timer[j]) \in BOOLEAN
      <4>1. CASE j \in S
        BY <4>1
      <4>2. CASE j \notin S
        BY <3>1, <4>2
      <4> QED BY <4>1, <4>2
    <3> QED BY <3>2
  <2>3. x.pendingCount - Cardinality(S) \in Int /\ x.runningCount + Cardinality(S) \in Int
    BY <1>2, <1>3 DEF QueueType
  <2> QED BY <1>1, <1>2, <2>1, <2>2, <2>3 DEF DequeueEach, QueueType
<1>6. Queued(e) = Queued(x) \ S /\ Running(e) = Running(x) \cup S
  BY <1>2, <1>4 DEF Queued, Running
<1>7. Cardinality(Queued(e)) = Cardinality(Queued(x)) - Cardinality(S)
  <2>1. Queued(x) \cap S = S
    BY <1>2
  <2> QED BY <1>6, <2>1, FiniteEntries, FS_Difference
<1>8. Cardinality(Running(e)) = Cardinality(Running(x)) + Cardinality(S)
  <2>1. Running(x) \cap S = {}
    BY <1>2 DEF Running, Queued
  <2>2. Cardinality(Running(x) \cup S)
          = Cardinality(Running(x)) + Cardinality(S) - Cardinality(Running(x) \cap S)
    BY <1>3, FiniteEntries, FS_Union
  <2> QED BY <1>3, <1>6, <2>1, <2>2, FiniteEntries, FS_EmptySet
<1> QED BY <1>4, <1>5, <1>7, <1>8 DEF QueueOK, Exact

\* cancel(), cancelRunning() and markCompleted(), whether they find the entry or not.
LEMMA SettleOK ==
  ASSUME NEW x, QueueOK(x), NEW j \in Jobs
  PROVE  /\ QueueOK(MarkCompleted(x, j)) /\ QueueOK(Cancel(x, j))
         /\ QueueOK(CancelRunning(x, j))
<1>1. x.st[j] # "absent" => QueueOK(Finish(x, j))
  BY FinishOK DEF Live
<1> QED BY <1>1 DEF MarkCompleted, Cancel, CancelRunning

\* dispose().
LEMMA DisposeOK ==
  ASSUME NEW x, QueueOK(x)
  PROVE  /\ QueueOK(Dispose(x)) /\ Dispose(x).st = x.st /\ Dispose(x).safety = x.safety
         /\ \A j \in Jobs : Dispose(x).timer[j] = FALSE
<1>1. SUFFICES ASSUME NEW e, e = Dispose(x)
               PROVE  /\ QueueOK(e) /\ e.st = x.st /\ e.safety = x.safety
                      /\ \A j \in Jobs : e.timer[j] = FALSE
  OBVIOUS
<1>2. /\ e \in QueueType /\ e.st = x.st /\ e.safety = x.safety
      /\ e.timer = [j \in Jobs |-> FALSE]
      /\ e.pendingCount = x.pendingCount /\ e.runningCount = x.runningCount
  BY <1>1 DEF Dispose, QueueOK, QueueType
<1>3. Queued(e) = Queued(x) /\ Running(e) = Running(x)
  BY <1>2 DEF Queued, Running
<1> QED BY <1>2, <1>3 DEF QueueOK, Exact

\* processNextQueued(): all queued entries are started, or none.
LEMMA ProcessOK ==
  ASSUME NEW x, QueueOK(x), NEW ph \in PhaseType, NEW act, NEW stat,
         ProcessNextQueued(x, ph, act, stat)
  PROVE  /\ QueueOK(q') /\ phase' \in PhaseType /\ q'.safety = x.safety
         /\ \E S \in SUBSET Queued(x) :
              /\ q'.st = [j \in Jobs |-> IF j \in S THEN "running" ELSE x.st[j]]
              /\ q'.timer = [j \in Jobs |-> IF j \in S THEN j \in TimedJobs ELSE x.timer[j]]
              /\ Room(ph, S) /\ phase' = Started(ph, S)
<1>1. PICK S : /\ S = Queued(x) \/ S = {}
               /\ Room(ph, S) /\ q' = DequeueEach(x, S) /\ phase' = Started(ph, S)
  BY DEF ProcessNextQueued
<1>2. S \in SUBSET Queued(x) /\ S \in SUBSET Jobs
  BY <1>1 DEF Queued
<1>3. phase' \in PhaseType
  BY <1>1, <1>2, StartedOK
<1>4. /\ QueueOK(q') /\ q'.safety = x.safety
      /\ q'.st = [j \in Jobs |-> IF j \in S THEN "running" ELSE x.st[j]]
      /\ q'.timer = [j \in Jobs |-> IF j \in S THEN j \in TimedJobs ELSE x.timer[j]]
  BY <1>1, DequeueEachOK
<1> QED BY <1>1, <1>2, <1>3, <1>4

-----------------------------------------------------------------------------
(* Messages *)

\* A step sends nothing or one message.
LEMMA SentOK ==
  ASSUME NEW m \in Message, Send(m) \/ sent' = <<m>> \/ sent' = <<>>
  PROVE  /\ sent' \in Seq(Message)
         /\ \A i \in DOMAIN sent' : sent'[i] = m
<1>1. sent' = <<>> \/ sent' = <<m>>
  BY DEF Send
<1>2. CASE sent' = <<>>
  BY <1>2
<1>3. CASE sent' = <<m>>
  BY <1>3
<1> QED BY <1>1, <1>2, <1>3

\* What is said about a job.
LEMMA AboutType ==
  ASSUME NEW t \in MessageType, NEW j \in Jobs \cup {NoJob}
  PROVE  About(t, j) \in Message /\ About(t, j).type = t /\ About(t, j).job = j
BY DEF About, Message

\* The coordinator hears of a job what was said of it, or nothing new.
LEMMA HearOK ==
  ASSUME Hear, sent' \in Seq(Message), told \in [Jobs -> MessageType \cup {Nothing}]
  PROVE  /\ told' \in [Jobs -> MessageType \cup {Nothing}]
         /\ \A j \in Jobs :
              \/ told'[j] = told[j]
              \/ \E i \in DOMAIN sent' : sent'[i].job = j /\ told'[j] = sent'[i].type
<1> DEFINE M == { sent'[i] : i \in DOMAIN sent' }
<1>1. \A m \in M : m \in Message
  <2>1. \A i \in DOMAIN sent' : sent'[i] \in Message
    OBVIOUS
  <2> QED BY <2>1
<1>2. ASSUME NEW j \in Jobs
      PROVE  /\ told'[j] \in MessageType \cup {Nothing}
             /\ \/ told'[j] = told[j]
                \/ \E i \in DOMAIN sent' : sent'[i].job = j /\ told'[j] = sent'[i].type
  <2>1. CASE \E i \in DOMAIN sent' : sent'[i].job = j
    <3> DEFINE m == CHOOSE m \in M : m.job = j
    <3>1. m \in M /\ m.job = j
      <4>1. \E x \in M : x.job = j
        BY <2>1
      <4> QED BY <4>1
    <3>2. told'[j] = m.type
      BY <2>1 DEF Hear
    <3> HIDE DEF m
    <3>3. PICK i \in DOMAIN sent' : m = sent'[i]
      BY <3>1
    <3>4. m.type \in MessageType
      BY <1>1, <3>1 DEF Message
    <3> QED BY <3>1, <3>2, <3>3, <3>4
  <2>2. CASE ~ \E i \in DOMAIN sent' : sent'[i].job = j
    BY <2>2 DEF Hear
  <2> QED BY <2>1, <2>2
<1>3. told' = [j \in Jobs |-> told'[j]]
  BY DEF Hear
<1> QED BY <1>2, <1>3

\* A step that says nothing, and one that says one thing about a job or about none.
LEMMA SaidOK ==
  ASSUME NEW t \in MessageType, NEW j \in Jobs \cup {NoJob}, Send(About(t, j))
  PROVE  /\ sent' \in Seq(Message)
         /\ \A i \in DOMAIN sent' : sent'[i].job = j /\ sent'[i].type = t
<1>1. About(t, j) \in Message /\ About(t, j).type = t /\ About(t, j).job = j
  BY AboutType
<1> QED BY <1>1, SentOK

-----------------------------------------------------------------------------
(* Types *)

\* The types of the agent's variables, with the queue's own invariant.
AgentOK == AgentTypeOK /\ QueueOK(q) /\ IdleMeansNoActive

\* Every attempt that ends keeps the types, whatever it leaves of its entry.
LEMMA FinallyOK ==
  ASSUME AgentOK, NEW j \in Jobs, NEW n \in Slots, NEW x, QueueOK(x),
         NEW stat, stat = status \/ stat = "error", Finally(j, n, x, stat)
  PROVE  /\ QueueOK(q') /\ phase' \in PhaseType
         /\ active' \subseteq Jobs /\ controller' \in [Jobs -> Slots \cup {0}]
         /\ status' \in {"offline", "idle", "busy", "error"}
         /\ status' = "idle" => active' = {}
<1>1. Ended(j, n) \in PhaseType
  BY EndedOK DEF AgentOK, AgentTypeOK, PhaseType
<1>2. PICK act, s : /\ act = active \ {j}
                    /\ s = IF act = {} /\ stat \in {"busy", "error"} THEN "idle" ELSE stat
                    /\ active' = act /\ controller' = [controller EXCEPT ![j] = 0]
                    /\ status' = s /\ ProcessNextQueued(x, Ended(j, n), act, s)
  BY DEF Finally
<1>3. QueueOK(q') /\ phase' \in PhaseType
  BY <1>1, <1>2, ProcessOK
<1>4. controller' \in [Jobs -> Slots \cup {0}]
  BY <1>2 DEF AgentOK, AgentTypeOK
<1>5. active' \subseteq Jobs /\ status' \in {"offline", "idle", "busy", "error"}
  BY <1>2 DEF AgentOK, AgentTypeOK
<1>6. status' = "idle" => active' = {}
  BY <1>2 DEF AgentOK, IdleMeansNoActive
<1> QED BY <1>3, <1>4, <1>5, <1>6

\* The steps of one attempt.
LEMMA AttemptTypes ==
  ASSUME AgentOK, NEW j \in Jobs, NEW n \in Slots, AttemptStep(j, n)
  PROVE  AgentOK'
<1> USE DEF AgentOK
<1>0. phase \in PhaseType /\ QueueOK(q)
  BY DEF AgentTypeOK, PhaseType
<1>1. SUFFICES /\ QueueOK(q') /\ phase' \in PhaseType
               /\ active' \subseteq Jobs /\ controller' \in [Jobs -> Slots \cup {0}]
               /\ cancelled' \in BOOLEAN /\ status' \in {"offline", "idle", "busy", "error"}
               /\ status' = "idle" => active' = {}
               /\ UNCHANGED <<conn, disposed, down>>
               /\ sent' \in Seq(Message)
  BY DEF AgentTypeOK, PhaseType, Message, QueueOK, Exact, Queued, Running, IdleMeansNoActive
<1>2. CASE Preflight(j, n)
  <2>1. \/ /\ q' = MarkFailed(q, j, TRUE) /\ phase' = Ended(j, n)
           /\ Send(About("job:retrying", j))
           /\ UNCHANGED <<active, controller, cancelled, status>>
        \/ /\ active' = active \cup {j} /\ status' = "busy"
           /\ phase' = [phase EXCEPT ![j][n] = "dispatch"]
           /\ controller' = [controller EXCEPT ![j] = n] /\ cancelled' = FALSE
           /\ Send(About("job:started", j)) /\ UNCHANGED q
    BY <1>2 DEF Preflight
  <2>2. sent' \in Seq(Message)
    BY <2>1, SaidOK DEF MessageType
  <2>3. QueueOK(q')
    BY <1>0, <2>1, MarkFailedOK
  <2>4. phase' \in PhaseType
    <3>1. [phase EXCEPT ![j][n] = "dispatch"] \in PhaseType
      BY <1>0 DEF PhaseType
    <3>2. Ended(j, n) \in PhaseType
      BY <1>0, EndedOK
    <3>3. phase' = Ended(j, n) \/ phase' = [phase EXCEPT ![j][n] = "dispatch"]
      BY <2>1
    <3> QED BY <3>1, <3>2, <3>3
  <2>5. /\ active' \subseteq Jobs /\ controller' \in [Jobs -> Slots \cup {0}]
        /\ cancelled' \in BOOLEAN /\ status' \in {"offline", "idle", "busy", "error"}
        /\ status' = "idle" => active' = {}
    BY <2>1 DEF AgentTypeOK, IdleMeansNoActive
  <2> QED BY <1>2, <2>2, <2>3, <2>4, <2>5 DEF Preflight
<1>3. ASSUME NEW x, QueueOK(x), NEW stat, stat = status \/ stat = "error",
             NEW t \in MessageType, Send(About(t, j)), Finally(j, n, x, stat),
             UNCHANGED <<cancelled, conn, disposed, down>>
      PROVE  /\ QueueOK(q') /\ phase' \in PhaseType
             /\ active' \subseteq Jobs /\ controller' \in [Jobs -> Slots \cup {0}]
             /\ cancelled' \in BOOLEAN /\ status' \in {"offline", "idle", "busy", "error"}
             /\ status' = "idle" => active' = {}
             /\ UNCHANGED <<conn, disposed, down>>
             /\ sent' \in Seq(Message)
  <2>1. sent' \in Seq(Message)
    BY <1>3, SaidOK
  <2>2. cancelled' \in BOOLEAN
    BY <1>3 DEF AgentTypeOK
  <2> QED BY <1>3, <2>1, <2>2, FinallyOK
<1>4. QueueOK(MarkCompleted(q, j)) /\ QueueOK(CancelRunning(q, j))
  BY <1>0, SettleOK
<1>5. \A retryable \in BOOLEAN : QueueOK(MarkFailed(q, j, retryable))
  BY <1>0, MarkFailedOK
<1>6. CASE DispatchCompleted(j, n)
  BY <1>3, <1>4, <1>6 DEF DispatchCompleted, MessageType
<1>7. CASE DispatchCancelled(j, n)
  BY <1>3, <1>4, <1>7 DEF DispatchCancelled, MessageType
<1>8. CASE DispatchFailed(j, n)
  <2>1. PICK retryable \in BOOLEAN :
          IF WillRetry(q, j, retryable)
          THEN /\ Send(About("job:retrying", j))
               /\ Finally(j, n, MarkFailed(q, j, retryable), status)
          ELSE /\ Send(About("job:failed", j))
               /\ Finally(j, n, MarkFailed(q, j, retryable), "error")
    BY <1>8 DEF DispatchFailed
  <2>2. UNCHANGED <<cancelled, conn, disposed, down>>
    BY <1>8 DEF DispatchFailed
  <2>3. "job:retrying" \in MessageType /\ "job:failed" \in MessageType
    BY DEF MessageType
  <2>4. QueueOK(MarkFailed(q, j, retryable))
    BY <1>5
  <2>5. CASE WillRetry(q, j, retryable)
    BY <1>3, <2>1, <2>2, <2>3, <2>4, <2>5
  <2>6. CASE ~ WillRetry(q, j, retryable)
    BY <1>3, <2>1, <2>2, <2>3, <2>4, <2>6
  <2> QED BY <2>5, <2>6
<1> QED BY <1>2, <1>6, <1>7, <1>8 DEF AttemptStep

\* Messages from the coordinator, timers, connection and shutdown.
LEMMA OtherTypes ==
  ASSUME AgentOK,
         \/ \E j \in Jobs : Assign(j) \/ CancelMessage(j)
         \/ CancelAllMessage \/ TimerStep \/ ConnectionStep
         \/ \E d \in Drains : Disconnect(d) \/ ShutdownStep(d)
  PROVE  AgentOK'
<1> USE DEF AgentOK
<1>0. phase \in PhaseType /\ QueueOK(q) /\ q \in QueueType
  BY DEF AgentTypeOK, PhaseType
<1>1. SUFFICES /\ QueueOK(q') /\ phase' \in PhaseType
               /\ UNCHANGED <<active, controller>>
               /\ cancelled' \in BOOLEAN /\ status' \in {"offline", "idle", "busy", "error"}
               /\ status' = "idle" => active = {}
               /\ conn' \in {"closed", "connecting", "open"}
               /\ disposed' \in BOOLEAN /\ down' \in BOOLEAN
               /\ sent' \in Seq(Message)
  BY DEF AgentTypeOK, PhaseType, Message, QueueOK, Exact, Queued, Running, IdleMeansNoActive
<1>2. /\ cancelled \in BOOLEAN /\ status \in {"offline", "idle", "busy", "error"}
      /\ status = "idle" => active = {}
      /\ conn \in {"closed", "connecting", "open"}
      /\ disposed \in BOOLEAN /\ down \in BOOLEAN
      /\ <<>> \in Seq(Message)
      /\ controller \in [Jobs -> Slots \cup {0}]
  BY DEF AgentTypeOK, IdleMeansNoActive
<1>3. \A S \in SUBSET Jobs : Abort(S) => cancelled' \in BOOLEAN
  BY <1>2 DEF Abort
<1>4. ASSUME NEW j \in Jobs, Assign(j)
      PROVE  /\ QueueOK(q') /\ phase' \in PhaseType /\ sent' \in Seq(Message)
             /\ UNCHANGED <<active, controller, cancelled, status, conn, disposed, down>>
  <2>1. CASE Reject(j)
    BY <1>0, <1>4, <2>1, SaidOK DEF Reject, Assign, MessageType
  <2>2. CASE ~ Reject(j)
    <3>1. SUFFICES ASSUME NEW x, x = Enqueue(q, j, 0)
                   PROVE  QueueOK(q') /\ phase' \in PhaseType /\ sent' \in Seq(Message)
      BY <1>4 DEF Assign
    <3>2. QueueOK(x)
      BY <1>0, <1>4, <2>2, <3>1, EnqueueOK DEF Assign
    <3>3. \/ \E k \in Jobs : /\ IsNext(x, k, 0) /\ Room(phase, {k})
                             /\ q' = Dequeue(x, k) /\ phase' = Started(phase, {k})
                             /\ sent' = <<>>
          \/ q' = x /\ UNCHANGED phase /\ Send(About("job:queued", j))
      BY <1>4, <2>2, <3>1 DEF Assign
    <3>4. CASE q' = x /\ UNCHANGED phase /\ Send(About("job:queued", j))
      BY <1>0, <3>2, <3>4, SaidOK DEF MessageType
    <3>5. CASE \E k \in Jobs : /\ IsNext(x, k, 0) /\ Room(phase, {k})
                               /\ q' = Dequeue(x, k) /\ phase' = Started(phase, {k})
                               /\ sent' = <<>>
      <4>1. PICK k \in Jobs : /\ IsNext(x, k, 0) /\ Room(phase, {k})
                              /\ q' = Dequeue(x, k) /\ phase' = Started(phase, {k})
                              /\ sent' = <<>>
        BY <3>5
      <4>2. QueueOK(q')
        BY <3>2, <4>1, DequeueOK DEF IsNext
      <4>3. phase' \in PhaseType
        BY <1>0, <4>1, StartedOK
      <4> QED BY <1>2, <4>1, <4>2, <4>3
    <3> QED BY <3>3, <3>4, <3>5
  <2> QED BY <2>1, <2>2
<1>5. ASSUME NEW j \in Jobs, CancelMessage(j)
      PROVE  QueueOK(q') /\ cancelled' \in BOOLEAN
  BY <1>0, <1>2, <1>3, <1>5, SettleOK DEF CancelMessage
<1>6. CancelAllMessage => cancelled' \in BOOLEAN
  BY <1>3 DEF CancelAllMessage, AgentTypeOK
<1>7. ASSUME NEW j \in Jobs, JobTimer(j)
      PROVE  QueueOK(q') /\ cancelled' \in BOOLEAN
  BY <1>0, <1>3, <1>7, TimeoutEntryOK DEF JobTimer
<1>8. ASSUME NEW healthy \in BOOLEAN, HealthTimer(healthy)
      PROVE  /\ QueueOK(q') /\ phase' \in PhaseType /\ sent' \in Seq(Message)
             /\ status' \in {"offline", "idle", "busy", "error"}
             /\ status' = "idle" => active = {}
  <2>1. sent' \in Seq(Message)
    <3>1. [type |-> "health", job |-> NoJob, healthy |-> healthy] \in Message
      BY <1>8 DEF Message, MessageType
    <3> QED BY <1>8, <3>1, SentOK DEF HealthTimer
  <2>2. CASE healthy /\ status = "error" /\ active = {}
    BY <1>0, <1>8, <2>1, <2>2, ProcessOK DEF HealthTimer
  <2>3. CASE ~ (healthy /\ status = "error" /\ active = {})
    BY <1>0, <1>2, <1>8, <2>1, <2>3 DEF HealthTimer
  <2> QED BY <2>2, <2>3
<1>9. FairScheduler => QueueOK(q')
  BY <1>0, ReorderOK DEF FairScheduler
<1>10. ASSUME NEW d \in Drains, Disconnect(d) \/ SafetyTimer(d) \/ Disconnected(d)
       PROVE  QueueOK(q') /\ sent' \in Seq(Message)
  <2>1. CASE Disconnect(d) \/ SafetyTimer(d)
    BY <1>0, <1>2, <2>1, DrainOK, SafetyTimeoutOK DEF Disconnect, SafetyTimer
  <2>2. CASE Disconnected(d)
    BY <1>0, <2>2, DisposeOK, SaidOK DEF Disconnected, MessageType
  <2> QED BY <1>10, <2>1, <2>2
<1>11. ConnectionStep => sent' \in Seq(Message)
  <2>1. About("register", NoJob) \in Message
    BY AboutType DEF MessageType
  <2> QED BY <1>2, <2>1, SentOK DEF ConnectionStep, Connect, Open, Close
<1>12. CASE \E j \in Jobs : Assign(j)
  BY <1>2, <1>4, <1>12
<1>13. CASE \E j \in Jobs : CancelMessage(j)
  BY <1>0, <1>2, <1>5, <1>13 DEF CancelMessage
<1>14. CASE CancelAllMessage
  BY <1>0, <1>2, <1>6, <1>14 DEF CancelAllMessage
<1>15. CASE TimerStep
  <2>1. CASE \E j \in Jobs : JobTimer(j)
    BY <1>0, <1>2, <1>7, <2>1 DEF JobTimer
  <2>2. CASE \E healthy \in BOOLEAN : HealthTimer(healthy)
    BY <1>0, <1>2, <1>8, <2>2 DEF HealthTimer
  <2>3. CASE FairScheduler
    BY <1>0, <1>2, <1>9, <2>3 DEF FairScheduler
  <2>4. CASE MemoryMonitor
    BY <1>0, <1>2, <2>4 DEF MemoryMonitor
  <2> QED BY <1>15, <2>1, <2>2, <2>3, <2>4 DEF TimerStep
<1>16. CASE ConnectionStep
  BY <1>0, <1>2, <1>11, <1>16 DEF ConnectionStep, Connect, Open, Close
<1>17. CASE \E d \in Drains : Disconnect(d) \/ ShutdownStep(d)
  BY <1>0, <1>2, <1>10, <1>17 DEF ShutdownStep, Disconnect, SafetyTimer, Disconnected
<1> QED BY <1>12, <1>13, <1>14, <1>15, <1>16, <1>17

\* They hold at first.
LEMMA AgentInitOK ==
  AgentInit => AgentOK
<1>1. SUFFICES ASSUME AgentInit PROVE AgentOK
  OBVIOUS
<1>2. EmptyQueue \in QueueType
  BY JobQueueAssumption DEF EmptyQueue, QueueType, EntryStatus
<1>3. Queued(EmptyQueue) = {} /\ Running(EmptyQueue) = {}
  BY DEF EmptyQueue, Queued, Running
<1>4. EmptyQueue.pendingCount = 0 /\ EmptyQueue.runningCount = 0
  BY DEF EmptyQueue
<1>5. QueueOK(q)
  BY <1>1, <1>2, <1>3, <1>4, FS_EmptySet DEF AgentInit, QueueOK, Exact
<1>6. AgentTypeOK
  <2>1. [j \in Jobs |-> [n \in Slots |-> "free"]]
          \in [Jobs -> [Slots -> {"free", "preflight", "dispatch"}]]
    OBVIOUS
  <2>2. [j \in Jobs |-> 0] \in [Jobs -> Slots \cup {0}]
    OBVIOUS
  <2>3. q \in QueueType /\ phase = [j \in Jobs |-> [n \in Slots |-> "free"]]
    BY <1>1, <1>2 DEF AgentInit
  <2>4. sent \in Seq([type : MessageType, job : Jobs \cup {NoJob}, healthy : BOOLEAN])
    BY <1>1 DEF AgentInit
  <2>5. controller = [j \in Jobs |-> 0]
    BY <1>1 DEF AgentInit
  <2> QED BY <1>1, <2>1, <2>2, <2>3, <2>4, <2>5 DEF AgentInit, AgentTypeOK
<1> QED BY <1>1, <1>5, <1>6 DEF AgentOK, AgentInit, IdleMeansNoActive

\* The types of the machine, and the queue's counters.
MachineOK == TypeOK /\ QueueOK(q) /\ IdleMeansNoActive

\* At first the agent is idle and its queue is empty.
LEMMA MachineInit ==
  Init => MachineOK
<1>1. SUFFICES ASSUME Init PROVE MachineOK
  OBVIOUS
<1>2. AgentOK
  BY <1>1, AgentInitOK DEF Init
<1> QED BY <1>1, <1>2 DEF AgentOK, MachineOK, Init, TypeOK

\* Every step keeps them.
LEMMA MachineStep ==
  MachineOK /\ [Next]_vars => MachineOK'
<1>1. SUFFICES ASSUME MachineOK, [Next]_vars PROVE MachineOK'
  OBVIOUS
<1>2. AgentOK /\ assigned \subseteq Jobs /\ told \in [Jobs -> MessageType \cup {Nothing}]
  BY <1>1 DEF MachineOK, AgentOK, TypeOK
<1>3. ASSUME AgentOK', assigned' \subseteq Jobs, Hear PROVE MachineOK'
  <2>1. sent' \in Seq(Message)
    BY <1>3 DEF AgentOK, AgentTypeOK, Message
  <2>2. told' \in [Jobs -> MessageType \cup {Nothing}]
    BY <1>2, <1>3, <2>1, HearOK
  <2> QED BY <1>3, <2>2 DEF MachineOK, AgentOK, TypeOK
<1>4. CASE \E j \in Jobs : AssignJob(j) \/ CancelJob(j)
  BY <1>2, <1>3, <1>4, OtherTypes DEF AssignJob, CancelJob
<1>5. CASE CancelAll
  BY <1>2, <1>3, <1>5, OtherTypes DEF CancelAll
<1>6. CASE AgentStep
  <2>1. AgentNext /\ UNCHANGED assigned /\ Hear
    BY <1>6 DEF AgentStep
  <2>2. AgentOK'
    BY <1>2, <2>1, AttemptTypes, OtherTypes DEF AgentNext
  <2> QED BY <1>2, <1>3, <2>1, <2>2
<1>7. CASE UNCHANGED vars
  BY <1>1, <1>7 DEF vars, agentVars, MachineOK, TypeOK, AgentTypeOK, QueueOK, Exact, Queued,
                    Running, IdleMeansNoActive
<1> QED BY <1>1, <1>4, <1>5, <1>6, <1>7 DEF Next

\* The variables keep their types, whatever the coordinator, the network and the
\* workers do.
THEOREM TypeCorrect == Spec => []TypeOK
<1>1. MachineOK => TypeOK
  BY DEF MachineOK
<1> QED BY <1>1, MachineInit, MachineStep, PTL DEF Spec

\* A node never says idle while it runs something.
THEOREM IdleCorrect == Spec => []IdleMeansNoActive
<1>1. MachineOK => IdleMeansNoActive
  BY DEF MachineOK
<1> QED BY <1>1, MachineInit, MachineStep, PTL DEF Spec

-----------------------------------------------------------------------------
(* One attempt per running entry *)

\* Starting an attempt of each of some jobs that do not run, with their entries.
LEMMA LoneStarted ==
  ASSUME NEW ph \in PhaseType, NEW st, \A j \in Jobs : Lone(ph, st, j),
         NEW S \in SUBSET Jobs, Room(ph, S), \A j \in S : st[j] # "running",
         NEW new, new = [j \in Jobs |-> IF j \in S THEN "running" ELSE st[j]]
  PROVE  \A j \in Jobs : Lone(Started(ph, S), new, j)
<1>1. SUFFICES ASSUME NEW j \in Jobs PROVE Lone(Started(ph, S), new, j)
  OBVIOUS
<1>2. Lone(ph, st, j) /\ ph[j] \in [Slots -> {"free", "preflight", "dispatch"}]
  BY DEF PhaseType
<1>3. CASE j \in S
  <2>1. PICK n \in Slots : Started(ph, S)[j] = [ph[j] EXCEPT ![n] = "preflight"]
    BY <1>3, StartedOK
  <2>2. \A m \in Slots : ph[j][m] = "free"
    BY <1>2, <1>3 DEF Lone
  <2>3. \A m \in Slots : Started(ph, S)[j][m] # "free" <=> m = n
    BY <1>2, <2>1, <2>2
  <2>4. new[j] = "running"
    BY <1>3
  <2> QED BY <2>3, <2>4 DEF Lone
<1>4. CASE j \notin S
  <2>1. Started(ph, S)[j] = ph[j] /\ new[j] = st[j]
    BY <1>4, StartedOK
  <2> QED BY <1>2, <2>1 DEF Lone
<1> QED BY <1>3, <1>4

\* An attempt under way is the only one of a job whose entry runs; once it and the
\* run are over, nothing is under way.
LEMMA LoneEnded ==
  ASSUME phase \in PhaseType, \A k \in Jobs : Lone(phase, q.st, k),
         NEW j \in Jobs, NEW n \in Slots, phase[j][n] # "free"
  PROVE  /\ q.st[j] = "running"
         /\ \A st : st[j] # "running" /\ (\A k \in Jobs \ {j} : st[k] = q.st[k])
                      => \A k \in Jobs : Lone(Ended(j, n), st, k)
<1>1. Lone(phase, q.st, j)
  OBVIOUS
<1>2. q.st[j] = "running"
  BY <1>1 DEF Lone
<1>3. \A m \in Slots : Ended(j, n)[j][m] = "free"
  <2>1. phase[j] \in [Slots -> {"free", "preflight", "dispatch"}]
    BY DEF PhaseType
  <2>2. Ended(j, n)[j] = [phase[j] EXCEPT ![n] = "free"]
    BY EndedOK
  <2> QED BY <1>1, <2>1, <2>2 DEF Lone
<1>4. ASSUME NEW st, st[j] # "running", \A k \in Jobs \ {j} : st[k] = q.st[k], NEW k \in Jobs
      PROVE  Lone(Ended(j, n), st, k)
  <2>1. CASE k = j
    BY <1>3, <1>4, <2>1 DEF Lone
  <2>2. CASE k # j
    <3>1. k \in Jobs \ {j}
      BY <2>2
    <3>2. Ended(j, n)[k] = phase[k]
      BY <3>1, EndedOK
    <3>3. st[k] = q.st[k]
      BY <1>4, <3>1
    <3>4. Lone(phase, q.st, k)
      OBVIOUS
    <3> QED BY <3>2, <3>3, <3>4 DEF Lone
  <2> QED BY <2>1, <2>2
<1> QED BY <1>2, <1>4

\* What a queue may come to in one step, seen from its entries: nothing is armed,
\* and every job but j has the entry it had.
Moved(x, j) ==
  /\ x.safety = q.safety
  /\ \A k \in Jobs : x.timer[k] = FALSE
  /\ \A k \in Jobs \ {j} : x.st[k] = q.st[k]

\* The end or the retry of an entry moves nothing else.
LEMMA MovedOK ==
  ASSUME q \in QueueType, Settled, NEW j \in Jobs, NEW x, x.safety = q.safety
  PROVE  /\ Left(q, x, {j}) => Moved(x, j) /\ x.st[j] = "absent"
         /\ PutBack(q, x, j) => Moved(x, j) /\ x.st[j] = "queued"
<1>1. /\ q.timer \in [Jobs -> BOOLEAN] /\ q.st \in [Jobs -> EntryStatus]
      /\ \A k \in Jobs : q.timer[k] = FALSE
  BY DEF QueueType, Settled
<1>2. ASSUME Left(q, x, {j}) PROVE Moved(x, j) /\ x.st[j] = "absent"
  BY <1>1, <1>2 DEF Left, Moved
<1>3. ASSUME PutBack(q, x, j) PROVE Moved(x, j) /\ x.st[j] = "queued"
  BY <1>1, <1>3 DEF PutBack, Moved
<1> QED BY <1>2, <1>3

\* Settled, of the state a step leaves.
SettledNext ==
  /\ \A d \in Drains : q'.safety[d] = FALSE
  /\ \A j \in Jobs : q'.timer[j] = FALSE
  /\ \A j \in Jobs : Lone(phase', q'.st, j)
  /\ \A j \in Jobs \ assigned' : q'.st[j] = "absent" /\ told'[j] \notin Terminal
  /\ \A j \in Jobs : told'[j] \in Terminal => q'.st[j] = "absent"

\* Starting what is queued, or nothing, leaves the agent settled if it was.
LEMMA ProcessSettled ==
  ASSUME TimedJobs = {}, NEW x, QueueOK(x), NEW ph \in PhaseType,
         \A k \in Jobs : Lone(ph, x.st, k),
         \A d \in Drains : x.safety[d] = FALSE, \A k \in Jobs : x.timer[k] = FALSE,
         \A k \in Jobs \ assigned : x.st[k] = "absent" /\ told'[k] \notin Terminal,
         \A k \in Jobs : told'[k] \in Terminal => x.st[k] = "absent",
         NEW act, NEW stat, ProcessNextQueued(x, ph, act, stat), UNCHANGED assigned
  PROVE  SettledNext
<1>1. /\ q'.safety = x.safety
      /\ \E S \in SUBSET Queued(x) :
           /\ q'.st = [k \in Jobs |-> IF k \in S THEN "running" ELSE x.st[k]]
           /\ q'.timer = [k \in Jobs |-> IF k \in S THEN k \in TimedJobs ELSE x.timer[k]]
           /\ Room(ph, S) /\ phase' = Started(ph, S)
  BY ProcessOK
<1>2. PICK S \in SUBSET Queued(x) :
        /\ q'.st = [k \in Jobs |-> IF k \in S THEN "running" ELSE x.st[k]]
        /\ q'.timer = [k \in Jobs |-> IF k \in S THEN k \in TimedJobs ELSE x.timer[k]]
        /\ Room(ph, S) /\ phase' = Started(ph, S)
  BY <1>1
<1>3. S \in SUBSET Jobs /\ \A k \in S : x.st[k] = "queued"
  BY DEF Queued
<1>4. \A k \in Jobs : Lone(phase', q'.st, k)
  BY <1>2, <1>3, LoneStarted
<1>5. \A d \in Drains : q'.safety[d] = FALSE
  BY <1>1
<1>6. \A k \in Jobs : q'.timer[k] = FALSE
  <2>1. SUFFICES ASSUME NEW k \in Jobs PROVE q'.timer[k] = FALSE
    OBVIOUS
  <2>2. CASE k \in S
    <3>1. q'.timer[k] = (k \in TimedJobs)
      BY <1>2, <2>2
    <3>2. (k \in TimedJobs) = FALSE
      OBVIOUS
    <3> QED BY <3>1, <3>2, Zenon
  <2>3. CASE k \notin S
    BY <1>2, <2>3
  <2> QED BY <2>2, <2>3
<1>7. \A k \in Jobs : x.st[k] = "absent" => q'.st[k] = "absent"
  BY <1>2, <1>3
<1> QED BY <1>4, <1>5, <1>6, <1>7 DEF SettledNext

\* An attempt that ends, once its entry has gone or has been put back, leaves the
\* agent settled: what is started instead was queued.
LEMMA FinallySettled ==
  ASSUME AgentOK, Settled, TimedJobs = {}, NEW j \in Jobs, NEW n \in Slots,
         phase[j][n] # "free",
         NEW x, QueueOK(x), Moved(x, j), x.st[j] \in {"absent", "queued"},
         NEW act, NEW stat, ProcessNextQueued(x, Ended(j, n), act, stat),
         NEW t, t \in Terminal => x.st[j] = "absent",
         \A k \in Jobs : told'[k] = told[k] \/ (k = j /\ told'[k] = t),
         UNCHANGED assigned
  PROVE  SettledNext
<1>0. phase \in PhaseType /\ q \in QueueType
  BY DEF AgentOK, AgentTypeOK, PhaseType, QueueOK
<1>1. /\ q.st[j] = "running"
      /\ \A k \in Jobs : Lone(Ended(j, n), x.st, k)
  BY <1>0, LoneEnded DEF Settled, Moved
<1>2. Ended(j, n) \in PhaseType
  BY <1>0, EndedOK
<1>3. (\A d \in Drains : x.safety[d] = FALSE) /\ (\A k \in Jobs : x.timer[k] = FALSE)
  BY DEF Moved, Settled
<1>4. ASSUME NEW k \in Jobs \ assigned PROVE x.st[k] = "absent" /\ told'[k] \notin Terminal
  <2>1. q.st[k] = "absent" /\ told[k] \notin Terminal
    BY DEF Settled
  <2>2. k # j
    BY <1>1, <2>1
  <2> QED BY <2>1, <2>2 DEF Moved
<1>5. ASSUME NEW k \in Jobs, told'[k] \in Terminal PROVE x.st[k] = "absent"
  <2>1. CASE told'[k] = told[k]
    <3>1. q.st[k] = "absent"
      BY <1>5, <2>1 DEF Settled
    <3> QED BY <1>1, <3>1 DEF Moved
  <2>2. CASE k = j /\ told'[k] = t
    BY <1>5, <2>2
  <2> QED BY <2>1, <2>2
<1> QED BY <1>1, <1>2, <1>3, <1>4, <1>5, ProcessSettled

\* The steps of one attempt leave the agent settled.
LEMMA AttemptSettled ==
  ASSUME AgentOK, Settled, TimedJobs = {}, told \in [Jobs -> MessageType \cup {Nothing}],
         NEW j \in Jobs, NEW n \in Slots, AttemptStep(j, n), UNCHANGED assigned, Hear
  PROVE  SettledNext
<1>0. /\ phase \in PhaseType /\ q \in QueueType /\ QueueOK(q)
      /\ q.st \in [Jobs -> EntryStatus]
  BY DEF AgentOK, AgentTypeOK, PhaseType, QueueType
<1>1. phase[j][n] # "free"
  BY DEF AttemptStep, Preflight, DispatchCompleted, DispatchCancelled, DispatchFailed
<1>2. /\ q.st[j] = "running" /\ j \in Live(q)
      /\ \A st : st[j] # "running" /\ (\A k \in Jobs \ {j} : st[k] = q.st[k])
                   => \A k \in Jobs : Lone(Ended(j, n), st, k)
  BY <1>0, <1>1, LoneEnded DEF Settled, Live
<1>3. ASSUME NEW t \in MessageType, Send(About(t, j))
      PROVE  \A k \in Jobs : told'[k] = told[k] \/ (k = j /\ told'[k] = t)
  <2>1. sent' \in Seq(Message) /\ \A i \in DOMAIN sent' : sent'[i].job = j /\ sent'[i].type = t
    BY <1>3, SaidOK
  <2>2. \A k \in Jobs : \/ told'[k] = told[k]
                        \/ \E i \in DOMAIN sent' : sent'[i].job = k /\ told'[k] = sent'[i].type
    BY <2>1, HearOK
  <2> QED BY <2>1, <2>2
<1>4. /\ Moved(MarkCompleted(q, j), j) /\ MarkCompleted(q, j).st[j] = "absent"
      /\ Moved(CancelRunning(q, j), j) /\ CancelRunning(q, j).st[j] = "absent"
  <2>1. MarkCompleted(q, j) = Finish(q, j) /\ CancelRunning(q, j) = Finish(q, j)
    BY <1>2 DEF MarkCompleted, CancelRunning
  <2>2. Left(q, Finish(q, j), {j}) /\ Finish(q, j).safety = q.safety
    BY <1>0, FinishLeft
  <2> QED BY <1>0, <2>1, <2>2, MovedOK
<1>5. ASSUME NEW retryable \in BOOLEAN
      PROVE  /\ Moved(MarkFailed(q, j, retryable), j)
             /\ MarkFailed(q, j, retryable).st[j] \in {"absent", "queued"}
             /\ ~ WillRetry(q, j, retryable) => MarkFailed(q, j, retryable).st[j] = "absent"
  <2>1. SUFFICES ASSUME NEW x, x = MarkFailed(q, j, retryable)
                 PROVE  /\ Moved(x, j) /\ x.st[j] \in {"absent", "queued"}
                        /\ ~ WillRetry(q, j, retryable) => x.st[j] = "absent"
    OBVIOUS
  <2>2. /\ Left(q, x, {j}) \/ PutBack(q, x, j)
        /\ ~ WillRetry(q, j, retryable) => Left(q, x, {j})
        /\ x.safety = q.safety
    BY <1>0, <1>2, <2>1, MarkFailedMoves
  <2> QED BY <1>0, <2>2, MovedOK
<1>6. ASSUME NEW x, QueueOK(x), Moved(x, j), x.st[j] \in {"absent", "queued"}, NEW stat,
             NEW t \in MessageType, t \in Terminal => x.st[j] = "absent",
             Send(About(t, j)), Finally(j, n, x, stat)
      PROVE  SettledNext
  <2>1. \A k \in Jobs : told'[k] = told[k] \/ (k = j /\ told'[k] = t)
    BY <1>3, <1>6
  <2>2. \E act, s : ProcessNextQueued(x, Ended(j, n), act, s)
    BY <1>6 DEF Finally
  <2> QED BY <1>1, <1>6, <2>1, <2>2, FinallySettled
<1>7. /\ "job:complete" \in MessageType /\ "job:cancelled" \in MessageType
      /\ "job:failed" \in MessageType /\ "job:retrying" \in MessageType \ Terminal
      /\ "job:started" \in MessageType \ Terminal
  BY DEF MessageType, Terminal
<1>8. CASE Preflight(j, n)
  <2>1. told[j] \notin Terminal
    BY <1>2 DEF Settled
  <2>2. CASE /\ q' = MarkFailed(q, j, TRUE) /\ phase' = Ended(j, n)
             /\ Send(About("job:retrying", j))
    <3>1. Moved(q', j) /\ q'.st[j] \in {"absent", "queued"}
      BY <1>5, <2>2
    <3>2. \A k \in Jobs : told'[k] = told[k] \/ (k = j /\ told'[k] = "job:retrying")
      BY <1>3, <1>7, <2>2
    <3>3. \A k \in Jobs : Lone(phase', q'.st, k)
      BY <1>2, <2>2, <3>1 DEF Moved
    <3>4. \A k \in Jobs : told'[k] \in Terminal => told[k] \in Terminal /\ k # j
      BY <1>7, <2>1, <3>2
    <3>5. j \in assigned
      BY <1>2 DEF Settled
    <3>6. \A k \in Jobs \ assigned' : q'.st[k] = "absent" /\ told'[k] \notin Terminal
      BY <3>1, <3>4, <3>5 DEF Settled, Moved
    <3>7. \A k \in Jobs : told'[k] \in Terminal => q'.st[k] = "absent"
      BY <3>1, <3>4 DEF Settled, Moved
    <3> QED BY <3>1, <3>3, <3>6, <3>7 DEF Settled, SettledNext, Moved
  <2>3. CASE /\ phase' = [phase EXCEPT ![j][n] = "dispatch"] /\ q' = q
             /\ Send(About("job:started", j))
    <3>1. \A k \in Jobs : told'[k] = told[k] \/ (k = j /\ told'[k] = "job:started")
      BY <1>3, <1>7, <2>3
    <3>2. ASSUME NEW k \in Jobs PROVE Lone(phase', q'.st, k)
      <4>1. Lone(phase, q.st, k) /\ phase[k] \in [Slots -> {"free", "preflight", "dispatch"}]
        BY <1>0 DEF Settled, PhaseType
      <4>2. CASE k = j
        <5>1. phase'[k] = [phase[k] EXCEPT ![n] = "dispatch"]
          BY <1>0, <2>3, <4>2 DEF PhaseType
        <5>2. \A m \in Slots : phase'[k][m] # "free" <=> phase[k][m] # "free"
          BY <1>1, <4>1, <4>2, <5>1
        <5> QED BY <2>3, <4>1, <5>2 DEF Lone
      <4>3. CASE k # j
        <5>1. phase'[k] = phase[k]
          BY <1>0, <2>3, <4>3 DEF PhaseType
        <5> QED BY <2>3, <4>1, <5>1 DEF Lone
      <4> QED BY <4>2, <4>3
    <3>3. \A k \in Jobs : told'[k] \in Terminal => told[k] \in Terminal
      BY <1>7, <3>1
    <3> QED BY <2>3, <3>2, <3>3 DEF Settled, SettledNext
  <2> QED BY <1>8, <2>2, <2>3 DEF Preflight
<1>9. CASE DispatchCompleted(j, n)
  BY <1>0, <1>4, <1>6, <1>7, <1>9, SettleOK DEF DispatchCompleted
<1>10. CASE DispatchCancelled(j, n)
  BY <1>0, <1>4, <1>6, <1>7, <1>10, SettleOK DEF DispatchCancelled
<1>11. CASE DispatchFailed(j, n)
  <2>1. PICK retryable \in BOOLEAN :
          IF WillRetry(q, j, retryable)
          THEN /\ Send(About("job:retrying", j))
               /\ Finally(j, n, MarkFailed(q, j, retryable), status)
          ELSE /\ Send(About("job:failed", j))
               /\ Finally(j, n, MarkFailed(q, j, retryable), "error")
    BY <1>11 DEF DispatchFailed
  <2>2. /\ QueueOK(MarkFailed(q, j, retryable)) /\ Moved(MarkFailed(q, j, retryable), j)
        /\ MarkFailed(q, j, retryable).st[j] \in {"absent", "queued"}
        /\ ~ WillRetry(q, j, retryable) => MarkFailed(q, j, retryable).st[j] = "absent"
    BY <1>0, <1>5, MarkFailedOK
  <2>3. CASE WillRetry(q, j, retryable)
    BY <1>6, <1>7, <2>1, <2>2, <2>3
  <2>4. CASE ~ WillRetry(q, j, retryable)
    BY <1>6, <1>7, <2>1, <2>2, <2>4
  <2> QED BY <2>3, <2>4
<1> QED BY <1>8, <1>9, <1>10, <1>11 DEF AttemptStep

\* The entry that an assignment puts in, and the one it starts at once.
LEMMA AssignSettled ==
  ASSUME AgentOK, Settled, TimedJobs = {}, told \in [Jobs -> MessageType \cup {Nothing}],
         NEW j \in Jobs, j \notin assigned, Assign(j), assigned' = assigned \cup {j}, Hear
  PROVE  SettledNext
<1>0. /\ phase \in PhaseType /\ q \in QueueType /\ QueueOK(q)
      /\ q.st \in [Jobs -> EntryStatus] /\ q.timer \in [Jobs -> BOOLEAN]
  BY DEF AgentOK, AgentTypeOK, PhaseType, QueueType
<1>1. q.st[j] = "absent" /\ told[j] \notin Terminal
  BY DEF Settled
<1>2. ASSUME NEW t \in MessageType, Send(About(t, j))
      PROVE  \A k \in Jobs : told'[k] = told[k] \/ (k = j /\ told'[k] = t)
  <2>1. sent' \in Seq(Message) /\ \A i \in DOMAIN sent' : sent'[i].job = j /\ sent'[i].type = t
    BY <1>2, SaidOK
  <2>2. \A k \in Jobs : \/ told'[k] = told[k]
                        \/ \E i \in DOMAIN sent' : sent'[i].job = k /\ told'[k] = sent'[i].type
    BY <2>1, HearOK
  <2> QED BY <2>1, <2>2
<1>3. "job:reject" \in MessageType /\ "job:queued" \in MessageType \ Terminal
  BY DEF MessageType, Terminal
<1>4. CASE Reject(j)
  <2>1. q' = q /\ phase' = phase /\ Send(About("job:reject", j))
    BY <1>4 DEF Reject
  <2>2. \A k \in Jobs : told'[k] = told[k] \/ (k = j /\ told'[k] = "job:reject")
    BY <1>2, <1>3, <2>1
  <2> QED BY <1>1, <2>1, <2>2 DEF Settled, SettledNext
<1>5. CASE ~ Reject(j)
  <2>1. SUFFICES ASSUME NEW x, x = Enqueue(q, j, 0) PROVE SettledNext
    OBVIOUS
  <2>2. \/ \E k \in Jobs : /\ IsNext(x, k, 0) /\ Room(phase, {k})
                           /\ q' = Dequeue(x, k) /\ phase' = Started(phase, {k})
                           /\ sent' = <<>>
        \/ q' = x /\ UNCHANGED phase /\ Send(About("job:queued", j))
    BY <1>5, <2>1 DEF Assign
  <2>3. /\ x.st = [q.st EXCEPT ![j] = "queued"] /\ x.timer = q.timer /\ x.safety = q.safety
    BY <1>0, <2>1, EnqueueFields
  <2>4. \A k \in Jobs : Lone(phase, x.st, k)
    <3>1. SUFFICES ASSUME NEW k \in Jobs PROVE Lone(phase, x.st, k)
      OBVIOUS
    <3>2. Lone(phase, q.st, k) /\ (x.st[k] = "running" <=> q.st[k] = "running")
      BY <1>0, <1>1, <2>3 DEF Settled
    <3> QED BY <3>2 DEF Lone
  <2>5. \A k \in Jobs \ {j} : x.st[k] = q.st[k]
    BY <1>0, <2>3
  <2>6. CASE q' = x /\ UNCHANGED phase /\ Send(About("job:queued", j))
    <3>1. \A k \in Jobs : told'[k] = told[k] \/ (k = j /\ told'[k] = "job:queued")
      BY <1>2, <1>3, <2>6
    <3>2. \A k \in Jobs : told'[k] \in Terminal => told[k] \in Terminal /\ k # j
      BY <1>1, <1>3, <3>1
    <3> QED BY <2>3, <2>4, <2>5, <2>6, <3>2 DEF Settled, SettledNext
  <2>7. CASE \E k \in Jobs : /\ IsNext(x, k, 0) /\ Room(phase, {k})
                             /\ q' = Dequeue(x, k) /\ phase' = Started(phase, {k})
                             /\ sent' = <<>>
    <3>1. PICK k \in Jobs : /\ IsNext(x, k, 0) /\ Room(phase, {k})
                            /\ q' = Dequeue(x, k) /\ phase' = Started(phase, {k})
                            /\ sent' = <<>>
      BY <2>7
    <3>2. x.st[k] = "queued"
      BY <3>1 DEF IsNext, Queued
    <3>3. x \in QueueType
      <4>1. CanEnqueue(q, j)
        BY <1>5 DEF Assign
      <4> QED BY <1>0, <2>1, <4>1, EnqueueOK DEF QueueOK
    <3>4. /\ q'.st = [x.st EXCEPT ![k] = "running"]
          /\ q'.timer = [x.timer EXCEPT ![k] = k \in TimedJobs] /\ q'.safety = x.safety
      BY <3>1, <3>3, DequeueFields
    <3>5. q'.st = [i \in Jobs |-> IF i \in {k} THEN "running" ELSE x.st[i]]
      BY <3>3, <3>4 DEF QueueType
    <3>6. \A i \in Jobs : Lone(phase', q'.st, i)
      BY <1>0, <2>4, <3>1, <3>2, <3>5, LoneStarted
    <3>7. \A i \in Jobs : told'[i] = told[i]
      BY <3>1 DEF Hear
    <3>8. told[k] \notin Terminal
      BY <1>1, <2>5, <3>2 DEF Settled
    <3>9. \A i \in Jobs : q'.timer[i] = FALSE
      <4>1. SUFFICES ASSUME NEW i \in Jobs PROVE q'.timer[i] = FALSE
        OBVIOUS
      <4>2. q.timer[i] = FALSE /\ (k \in TimedJobs) = FALSE
        BY DEF Settled
      <4>3. q'.timer = [q.timer EXCEPT ![k] = FALSE]
        BY <2>3, <3>4, <4>2, Zenon
      <4> QED BY <1>0, <4>2, <4>3
    <3>10. k \in assigned'
      <4>1. k # j => q.st[k] = "queued"
        BY <2>5, <3>2
      <4> QED BY <4>1 DEF Settled
    <3>11. \A i \in Jobs \ {j, k} : q'.st[i] = q.st[i]
      BY <2>5, <3>5
    <3>12. \A i \in Jobs : told'[i] \in Terminal => q'.st[i] = "absent"
      BY <1>1, <3>7, <3>8, <3>11 DEF Settled
    <3>13. \A i \in Jobs \ assigned' : q'.st[i] = "absent" /\ told'[i] \notin Terminal
      BY <3>7, <3>10, <3>11 DEF Settled
    <3>14. \A d \in Drains : q'.safety[d] = FALSE
      BY <2>3, <3>4 DEF Settled
    <3> QED BY <3>6, <3>9, <3>12, <3>13, <3>14 DEF SettledNext
  <2> QED BY <2>2, <2>6, <2>7
<1> QED BY <1>4, <1>5

\* A step that only lets entries go which nobody runs, or none, and says nothing that
\* ends a job.
LEMMA QuietSettled ==
  ASSUME Settled, q \in QueueType, UNCHANGED <<phase, assigned>>,
         q'.safety = q.safety, \A k \in Jobs : q'.timer[k] = FALSE,
         \A k \in Jobs : q'.st[k] = q.st[k] \/ (q.st[k] = "queued" /\ q'.st[k] = "absent"),
         \A k \in Jobs : told'[k] = told[k] \/ told'[k] \notin Terminal
  PROVE  SettledNext
<1>1. ASSUME NEW k \in Jobs PROVE Lone(phase', q'.st, k)
  <2>1. Lone(phase, q.st, k) /\ (q'.st[k] = "running" <=> q.st[k] = "running")
    BY DEF Settled
  <2> QED BY <2>1 DEF Lone
<1>2. \A k \in Jobs : q.st[k] = "absent" => q'.st[k] = "absent"
  OBVIOUS
<1> QED BY <1>1, <1>2 DEF Settled, SettledNext

\* Everything else the agent does leaves it settled until it is shut down.
LEMMA OtherSettled ==
  ASSUME AgentOK, Settled, TimedJobs = {}, told \in [Jobs -> MessageType \cup {Nothing}],
         \/ \E j \in Jobs : CancelMessage(j)
         \/ CancelAllMessage \/ TimerStep \/ ConnectionStep
         \/ \E d \in Drains : ShutdownStep(d),
         UNCHANGED assigned, Hear
  PROVE  SettledNext
<1>0. /\ phase \in PhaseType /\ q \in QueueType /\ QueueOK(q)
      /\ q.st \in [Jobs -> EntryStatus]
      /\ \A d \in Drains : q.safety[d] = FALSE
      /\ \A k \in Jobs : q.timer[k] = FALSE
  BY DEF AgentOK, AgentTypeOK, PhaseType, QueueType, Settled
<1>1. sent' = <<>> => \A k \in Jobs : told'[k] = told[k]
  BY DEF Hear
<1>2. ASSUME NEW m \in Message, m.type \notin Terminal, Send(m) \/ sent' = <<m>>
      PROVE  \A k \in Jobs : told'[k] = told[k] \/ told'[k] \notin Terminal
  <2>1. sent' \in Seq(Message) /\ \A i \in DOMAIN sent' : sent'[i] = m
    BY <1>2, SentOK
  <2>2. \A k \in Jobs : \/ told'[k] = told[k]
                        \/ \E i \in DOMAIN sent' : sent'[i].job = k /\ told'[k] = sent'[i].type
    BY <2>1, HearOK
  <2> QED BY <1>2, <2>1, <2>2
<1>3. ASSUME q'.st = q.st, q'.timer = q.timer \/ (\A k \in Jobs : q'.timer[k] = FALSE),
             q'.safety = q.safety, UNCHANGED phase,
             \A k \in Jobs : told'[k] = told[k] \/ told'[k] \notin Terminal
      PROVE  SettledNext
  BY <1>0, <1>3, QuietSettled
<1>4. /\ About("register", NoJob) \in Message /\ About("register", NoJob).type \notin Terminal
      /\ About("unregister", NoJob) \in Message /\ About("unregister", NoJob).type \notin Terminal
  BY AboutType DEF MessageType, Terminal
<1>5. CASE \E j \in Jobs : CancelMessage(j)
  <2>1. PICK j \in Jobs : CancelMessage(j)
    BY <1>5
  <2>2. sent' = <<>> /\ UNCHANGED phase /\ (q' = q \/ q' = Cancel(q, j))
    BY <2>1 DEF CancelMessage
  <2>3. CASE q' = q
    BY <1>1, <1>3, <2>2, <2>3
  <2>4. CASE q' = Finish(q, j) /\ q.st[j] = "queued"
    <3>1. Left(q, q', {j}) /\ q'.safety = q.safety
      BY <1>0, <2>4, FinishLeft
    <3>2. Moved(q', j) /\ q'.st[j] = "absent"
      BY <1>0, <3>1, MovedOK
    <3>3. \A k \in Jobs : q'.st[k] = q.st[k] \/ (q.st[k] = "queued" /\ q'.st[k] = "absent")
      BY <2>4, <3>2 DEF Moved
    <3> QED BY <1>0, <1>1, <2>2, <3>1, <3>2, <3>3, QuietSettled DEF Moved
  <2> QED BY <2>2, <2>3, <2>4 DEF Cancel
<1>6. CASE CancelAllMessage
  BY <1>1, <1>3, <1>6 DEF CancelAllMessage
<1>7. CASE TimerStep
  <2>1. ~ \E j \in Jobs : JobTimer(j)
    BY <1>0 DEF JobTimer
  <2>2. CASE \E healthy \in BOOLEAN : HealthTimer(healthy)
    <3>1. PICK healthy \in BOOLEAN : HealthTimer(healthy)
      BY <2>2
    <3> DEFINE m == [type |-> "health", job |-> NoJob, healthy |-> healthy]
    <3>2. m \in Message /\ m.type \notin Terminal
      BY DEF Message, MessageType, Terminal
    <3>3. Send(m)
      BY <3>1 DEF HealthTimer
    <3> HIDE DEF m
    <3>4. \A k \in Jobs : told'[k] = told[k] \/ told'[k] \notin Terminal
      BY <1>2, <3>2, <3>3
    <3>5. CASE ProcessNextQueued(q, phase, active, "idle")
      <4>1. \A k \in Jobs \ assigned : q.st[k] = "absent" /\ told'[k] \notin Terminal
        BY <3>4 DEF Settled
      <4>2. \A k \in Jobs : told'[k] \in Terminal => q.st[k] = "absent"
        BY <3>4 DEF Settled
      <4>3. \A k \in Jobs : Lone(phase, q.st, k)
        BY DEF Settled
      <4> QED BY <1>0, <3>5, <4>1, <4>2, <4>3, ProcessSettled
    <3>6. CASE UNCHANGED <<q, phase>>
      BY <1>3, <3>4, <3>6
    <3> QED BY <3>1, <3>5, <3>6 DEF HealthTimer
  <2>3. CASE FairScheduler
    <3>1. q'.st = q.st /\ q'.timer = q.timer /\ q'.safety = q.safety
      BY <1>0, <2>3 DEF FairScheduler, QueueType
    <3> QED BY <1>1, <1>3, <2>3, <3>1 DEF FairScheduler
  <2>4. CASE MemoryMonitor
    BY <1>1, <1>3, <2>4 DEF MemoryMonitor
  <2> QED BY <1>7, <2>1, <2>2, <2>3, <2>4 DEF TimerStep
<1>8. CASE ConnectionStep
  <2>1. UNCHANGED <<q, phase>> /\ (sent' = <<>> \/ sent' = <<About("register", NoJob)>>)
    BY <1>8 DEF ConnectionStep, Connect, Open, Close
  <2>2. \A k \in Jobs : told'[k] = told[k] \/ told'[k] \notin Terminal
    BY <1>1, <1>2, <1>4, <2>1
  <2> QED BY <1>3, <2>1, <2>2
<1>9. CASE \E d \in Drains : ShutdownStep(d)
  <2>1. PICK d \in Drains : Disconnected(d)
    BY <1>0, <1>9 DEF ShutdownStep, SafetyTimer
  <2>2. UNCHANGED phase /\ q' = Dispose(q) /\ Send(About("unregister", NoJob))
    BY <2>1 DEF Disconnected
  <2>3. \A k \in Jobs : told'[k] = told[k] \/ told'[k] \notin Terminal
    BY <1>2, <1>4, <2>2
  <2>4. q'.st = q.st /\ q'.safety = q.safety /\ \A k \in Jobs : q'.timer[k] = FALSE
    BY <1>0, <2>2, DisposeOK
  <2> QED BY <1>3, <2>2, <2>3, <2>4
<1> QED BY <1>5, <1>6, <1>7, <1>8, <1>9

\* The invariant holds at first.
LEMMA InitOK ==
  Init => IInv
<1>1. ASSUME Init PROVE Settled
  <2>1. /\ q = EmptyQueue /\ assigned = {} /\ told = [j \in Jobs |-> Nothing]
        /\ phase = [j \in Jobs |-> [n \in Slots |-> "free"]]
    BY <1>1 DEF Init, AgentInit
  <2>2. Nothing \notin Terminal
    BY NothingAssumption DEF Terminal, MessageType
  <2>3. q.safety = [d \in Drains |-> FALSE] /\ q.timer = [j \in Jobs |-> FALSE]
        /\ q.st = [j \in Jobs |-> "absent"]
    BY <2>1 DEF EmptyQueue
  <2>4. \A j \in Jobs : Lone(phase, q.st, j)
    BY <2>1, <2>3 DEF Lone
  <2> QED BY <2>1, <2>2, <2>3, <2>4 DEF Settled
<1> QED BY <1>1, MachineInit DEF IInv, MachineOK

\* Every step keeps it.
LEMMA StepOK ==
  IInv /\ [Next]_vars => IInv'
<1>1. SUFFICES ASSUME IInv, [Next]_vars PROVE IInv'
  OBVIOUS
<1>2. MachineOK /\ AgentOK /\ told \in [Jobs -> MessageType \cup {Nothing}]
  BY <1>1 DEF IInv, MachineOK, AgentOK, TypeOK
<1>3. MachineOK'
  BY <1>1, <1>2, MachineStep
<1>4. SUFFICES ASSUME TimedJobs = {}, ~ disposed' PROVE Settled'
  BY <1>3 DEF IInv, MachineOK
<1>5. SUFFICES SettledNext
  BY DEF SettledNext, Settled, Lone
<1>6. ASSUME Settled, Next PROVE SettledNext
  <2>1. CASE \E j \in Jobs : AssignJob(j)
    BY <1>2, <1>4, <1>6, <2>1, AssignSettled DEF AssignJob
  <2>2. CASE \E j \in Jobs : CancelJob(j)
    BY <1>2, <1>4, <1>6, <2>2, OtherSettled DEF CancelJob
  <2>3. CASE CancelAll
    BY <1>2, <1>4, <1>6, <2>3, OtherSettled DEF CancelAll
  <2>4. CASE AgentStep
    <3>1. AgentNext /\ UNCHANGED assigned /\ Hear
      BY <2>4 DEF AgentStep
    <3>2. ~ \E d \in Drains : Disconnect(d)
      BY <1>4 DEF Disconnect
    <3> QED BY <1>2, <1>4, <1>6, <3>1, <3>2, AttemptSettled, OtherSettled DEF AgentNext
  <2> QED BY <1>6, <2>1, <2>2, <2>3, <2>4 DEF Next
<1>7. CASE UNCHANGED vars
  BY <1>1, <1>4, <1>7 DEF IInv, vars, agentVars, Settled, SettledNext, Lone
<1>8. CASE Next
  <2>1. ~ disposed
    <3>1. disposed' = disposed \/ disposed'
      BY <1>8 DEF Next, AssignJob, CancelJob, CancelAll, AgentStep, AgentNext, Assign,
                  CancelMessage, CancelAllMessage, AttemptStep, Preflight, DispatchCompleted,
                  DispatchCancelled, DispatchFailed, TimerStep, JobTimer, HealthTimer,
                  FairScheduler, MemoryMonitor, Disconnect, ShutdownStep, SafetyTimer,
                  Disconnected, ConnectionStep, Connect, Open, Close
    <3> QED BY <1>4, <3>1
  <2> QED BY <1>1, <1>4, <1>6, <1>8, <2>1 DEF IInv
<1> QED BY <1>1, <1>7, <1>8

\* A set with one element or with none.
LEMMA LoneCardinality ==
  ASSUME NEW j \in Jobs, Lone(phase, q.st, j)
  PROVE  /\ Cardinality(Attempts(j)) = (IF q.st[j] = "running" THEN 1 ELSE 0)
         /\ q.st[j] = "absent" => Attempts(j) = {}
<1>1. CASE q.st[j] = "running"
  <2>1. PICK n \in Slots : phase[j][n] # "free"
    BY <1>1 DEF Lone
  <2>2. Attempts(j) = {n}
    BY <2>1 DEF Lone, Attempts
  <2> QED BY <1>1, <2>2, FS_Singleton
<1>2. CASE q.st[j] # "running"
  <2>1. Attempts(j) = {}
    BY <1>2 DEF Lone, Attempts
  <2> QED BY <1>2, <2>1, FS_EmptySet
<1> QED BY <1>1, <1>2

\* Without time limits and until shutdown, an entry runs exactly while one attempt of
\* its job is under way: nothing is rendered twice at a time and nothing is stranded.
THEOREM AttemptsCorrect ==
  ASSUME TimedJobs = {}
  PROVE  Spec => []RunningHasOneAttempt
<1>1. IInv => RunningHasOneAttempt
  BY LoneCardinality DEF IInv, Settled, RunningHasOneAttempt
<1> QED BY <1>1, InitOK, StepOK, PTL DEF Spec

\* Without time limits and until shutdown, a job the coordinator was told is over has
\* no entry left to start it again and nothing that runs it.
THEOREM TerminalCorrect ==
  ASSUME TimedJobs = {}
  PROVE  Spec => []TerminalMeansGone
<1>1. IInv => TerminalMeansGone
  BY LoneCardinality DEF IInv, Settled, TerminalMeansGone
<1> QED BY <1>1, InitOK, StepOK, PTL DEF Spec

-----------------------------------------------------------------------------
(* The coordinator's handlers, as RenderSystem uses them *)

Waiting == {"new", "queued"}

\* No worker of farm f points at a job that is over or not its own.
FarmOK(f) ==
  /\ f \in Farm!FarmType
  /\ \A w \in Workers :
       f.current[w] # NoJob =>
         /\ f.status[w] \in Farm!Present
         /\ f.job[f.current[w]] \in Farm!Active
         /\ w \in f.assigned[f.current[w]]

\* What may become of the jobs from f to g: none goes back to waiting, none leaves its
\* end, and none is completed but those of C.
Forward(f, g, C) ==
  \A j \in Jobs :
    /\ g.job[j] \in Waiting => f.job[j] \in Waiting
    /\ f.job[j] \in Farm!Finished => g.job[j] = f.job[j]
    /\ g.job[j] = "completed" => f.job[j] = "completed" \/ j \in C

\* What is sent from f to g: jobs that waited, each to one worker, to each worker one.
Sends(f, g) ==
  /\ \A w \in Workers, j \in Jobs :
       <<w, j>> \in g.outbox =>
         f.job[j] \in Waiting /\ g.job[j] \notin Waiting /\ g.status[w] # "new"
  /\ \A v, w \in Workers, j \in Jobs :
       <<v, j>> \in g.outbox /\ <<w, j>> \in g.outbox => v = w
  /\ \A w \in Workers, j, k \in Jobs :
       <<w, j>> \in g.outbox /\ <<w, k>> \in g.outbox => j = k

\* What a worker points at in g it pointed at in f, or is sent.
Points(f, g) ==
  \A w \in Workers :
    g.current[w] # NoJob => g.current[w] = f.current[w] \/ <<w, g.current[w]>> \in g.outbox

\* The same workers have been registered.
SameKnown(f, g) == \A w \in Workers : g.status[w] = "new" <=> f.status[w] = "new"

Onward(f, g, C) ==
  FarmOK(g) /\ Forward(f, g, C) /\ Sends(f, g) /\ Points(f, g) /\ SameKnown(f, g)

\* A farm with a quiet outbox.
Quiet(f) == FarmOK(f) /\ f.outbox = {}

\* A farm that is left alone.
LEMMA SameOnward ==
  ASSUME NEW f, Quiet(f)
  PROVE  Onward(f, f, {})
BY DEF Quiet, Onward, Forward, Sends, Points, SameKnown

\* Scheduling gives jobs that wait to idle workers, one to each.
LEMMA ScheduleOnward ==
  ASSUME NEW f, Quiet(f), NEW g \in Farm!ScheduleNext(f)
  PROVE  Onward(f, g, {})
<1>1. PICK A \in Farm!Plans(f) : g = Farm!Assigned(f, A)
  BY DEF Farm!ScheduleNext
<1> DEFINE W == { w \in DOMAIN A : A[w] # NoJob }
<1>2. f \in Farm!FarmType /\ f.outbox = {}
  BY DEF FarmOK, Quiet
<1>3. /\ g = [status |-> g.status, current |-> g.current, job |-> g.job,
              assigned |-> g.assigned, created |-> g.created, outbox |-> g.outbox]
      /\ g.created = f.created
      /\ g.job = [j \in Jobs |-> IF \E w \in W : A[w] = j THEN "encoding" ELSE f.job[j]]
      /\ g.assigned = [j \in Jobs |-> f.assigned[j] \cup { w \in W : A[w] = j }]
      /\ g.status = [w \in Workers |-> IF w \in W THEN "busy" ELSE f.status[w]]
      /\ g.current = [w \in Workers |-> IF w \in W THEN A[w] ELSE f.current[w]]
      /\ g.outbox = { <<w, A[w]>> : w \in W }
  BY <1>1, <1>2 DEF Farm!Assigned, Farm!FarmType
<1>4. /\ W \subseteq Workers
      /\ \A w \in W : A[w] \in Jobs /\ f.job[A[w]] = "queued" /\ f.status[w] = "idle"
  BY DEF Farm!Plans, Farm!IdleWorkers, Farm!PendingJobs
<1>5. \A v, w \in W : A[v] = A[w] => v = w
  <2>0. W \subseteq Nat
    BY <1>4, SystemAssumption
  <2> SUFFICES ASSUME NEW v \in W, NEW w \in W, v < w PROVE A[v] # A[w]
    <3> HIDE DEF W
    <3>1. \A v, w \in W : v < w \/ w < v \/ v = w
      BY <2>0
    <3> QED
      BY <3>1
  <2>1. v \in Farm!IdleWorkers(f) /\ w \in Farm!IdleWorkers(f)
    BY DEF Farm!Plans
  <2> DEFINE P == Farm!PendingJobs(f) \ { A[u] : u \in { x \in Farm!IdleWorkers(f) : x < w } }
  <2>2. A[w] \in P
    BY <2>1 DEF Farm!Plans, Farm!IsFirst
  <2> QED
    BY <2>1, <2>2
<1> HIDE DEF W
<1>6. g \in Farm!FarmType
  <2>1. g.job \in [Jobs -> Farm!Active \cup Farm!Finished \cup {"new"}]
    BY <1>2, <1>3 DEF Farm!FarmType, Farm!Active
  <2>2. g.assigned \in [Jobs -> SUBSET Workers]
    BY <1>2, <1>3, <1>4 DEF Farm!FarmType
  <2>3. g.status \in [Workers -> Farm!Present \cup {"new", "removed"}]
    BY <1>2, <1>3 DEF Farm!FarmType, Farm!Present
  <2>4. g.current \in [Workers -> Jobs \cup {NoJob}]
    BY <1>2, <1>3, <1>4 DEF Farm!FarmType
  <2>5. g.outbox \in SUBSET (Workers \X Jobs)
    BY <1>3, <1>4 DEF Farm!FarmType
  <2>6. g.created \in [Jobs -> Int]
    BY <1>2, <1>3 DEF Farm!FarmType
  <2> QED
    BY <1>3, <2>1, <2>2, <2>3, <2>4, <2>5, <2>6 DEF Farm!FarmType
<1>7. ASSUME NEW w \in Workers, g.current[w] # NoJob
      PROVE  /\ g.status[w] \in Farm!Present
             /\ g.job[g.current[w]] \in Farm!Active
             /\ w \in g.assigned[g.current[w]]
  <2>1. CASE w \in W
    <3>1. g.current[w] = A[w] /\ A[w] \in Jobs
      BY <1>3, <1>4, <2>1
    <3> QED
      BY <1>3, <2>1, <3>1 DEF Farm!Present, Farm!Active
  <2>2. CASE w \notin W
    <3>1. g.current[w] = f.current[w] /\ g.status[w] = f.status[w]
      BY <1>3, <2>2
    <3>2. f.current[w] \in Jobs
      BY <1>2, <1>7, <3>1 DEF Farm!FarmType
    <3>3. f.status[w] \in Farm!Present /\ f.job[f.current[w]] \in Farm!Active
          /\ w \in f.assigned[f.current[w]]
      BY <1>7, <3>1 DEF FarmOK, Quiet
    <3> QED
      BY <1>3, <3>1, <3>2, <3>3 DEF Farm!Active
  <2> QED
    BY <2>1, <2>2
<1>8. FarmOK(g)
  BY <1>6, <1>7 DEF FarmOK
<1>9. Forward(f, g, {})
  BY <1>3, <1>4 DEF Forward, Farm!Finished, Waiting
<1>10. \A w \in Workers, j \in Jobs : <<w, j>> \in g.outbox => w \in W /\ A[w] = j
  BY <1>3
<1>11. Sends(f, g)
  <2>1. \A w \in Workers, j \in Jobs :
          <<w, j>> \in g.outbox =>
            f.job[j] \in Waiting /\ g.job[j] \notin Waiting /\ g.status[w] # "new"
    BY <1>3, <1>4, <1>10 DEF Waiting
  <2>2. \A v, w \in Workers, j \in Jobs :
          <<v, j>> \in g.outbox /\ <<w, j>> \in g.outbox => v = w
    BY <1>5, <1>10
  <2>3. \A w \in Workers, j, k \in Jobs :
          <<w, j>> \in g.outbox /\ <<w, k>> \in g.outbox => j = k
    BY <1>10
  <2> QED
    BY <2>1, <2>2, <2>3 DEF Sends
<1>12. Points(f, g)
  BY <1>3 DEF Points
<1>13. SameKnown(f, g)
  BY <1>3, <1>4 DEF SameKnown
<1> QED
  BY <1>8, <1>9, <1>11, <1>12, <1>13 DEF Onward

\* A change that sends nothing, and then another.
LEMMA Composed ==
  ASSUME NEW f, NEW h, NEW g, NEW C, Onward(f, h, C), h.outbox = {},
         Onward(h, g, C) \/ Onward(h, g, {})
  PROVE  Onward(f, g, C)
<1>1. FarmOK(g) /\ Sends(h, g) /\ Points(h, g) /\ SameKnown(h, g)
  BY DEF Onward
<1>2. Forward(f, g, C)
  BY DEF Onward, Forward
<1>3. Sends(f, g)
  BY <1>1 DEF Onward, Forward, Sends, SameKnown
<1>4. Points(f, g)
  BY <1>1 DEF Onward, Points
<1>5. SameKnown(f, g)
  BY <1>1 DEF Onward, SameKnown
<1> QED
  BY <1>1, <1>2, <1>3, <1>4, <1>5 DEF Onward

\* What is scheduled after a change that sends nothing.
LEMMA ThenScheduled ==
  ASSUME NEW f, NEW h, NEW C, Onward(f, h, C), h.outbox = {}, NEW g \in Farm!ScheduleNext(h)
  PROVE  Onward(f, g, C)
<1>1. Onward(h, g, {})
  BY ScheduleOnward DEF Quiet, Onward
<1> QED
  BY <1>1, Composed

\* Farm f when job j, whose workers are those of B from now on, has ended.
Over(f, j, outcome, B) ==
  [Farm!Freed(f, Farm!Holders(f, j)) EXCEPT !.job[j] = outcome, !.assigned[j] = B]

\* The end of a job frees the workers that pointed at it.
LEMMA OverOnward ==
  ASSUME NEW f, Quiet(f), NEW j \in Jobs, f.job[j] \in Farm!Active,
         NEW outcome \in Farm!Finished, NEW C, outcome = "completed" => j \in C,
         NEW B, B = {} \/ B = f.assigned[j]
  PROVE  /\ Onward(f, Over(f, j, outcome, B), C)
         /\ Over(f, j, outcome, B).outbox = {}
         /\ Over(f, j, outcome, B).job[j] = outcome
<1> DEFINE S == Farm!Holders(f, j)
<1>0. PICK h : h = Over(f, j, outcome, B)
  OBVIOUS
<1>1. f \in Farm!FarmType /\ f.outbox = {}
  BY DEF Quiet, FarmOK
<1>2. /\ h = [status |-> h.status, current |-> h.current, job |-> h.job,
              assigned |-> h.assigned, created |-> h.created, outbox |-> h.outbox]
      /\ h.created = f.created
      /\ h.job = [f.job EXCEPT ![j] = outcome]
      /\ h.assigned = [f.assigned EXCEPT ![j] = B]
      /\ h.status = [w \in Workers |-> IF w \in S THEN "idle" ELSE f.status[w]]
      /\ h.current = [w \in Workers |-> IF w \in S THEN NoJob ELSE f.current[w]]
      /\ h.outbox = {}
  BY <1>0, <1>1 DEF Over, Farm!Freed, Farm!FarmType
<1>3. \A w \in Workers : f.current[w] = j => w \in S
  <2> SUFFICES ASSUME NEW w \in Workers, f.current[w] = j PROVE w \in S
    OBVIOUS
  <2>1. f.current[w] # NoJob
    BY SystemAssumption DEF NoJob
  <2> QED
    BY <2>1 DEF Quiet, FarmOK, Farm!Holders, Farm!Registered
<1>4. \A w \in S : f.status[w] # "new"
  BY DEF Farm!Holders, Farm!Registered, Farm!Present
<1> HIDE DEF S
<1>5. h \in Farm!FarmType
  <2>0. /\ f.job \in [Jobs -> Farm!Active \cup Farm!Finished \cup {"new"}]
        /\ f.assigned \in [Jobs -> SUBSET Workers]
    BY <1>1 DEF Farm!FarmType
  <2>1. h.job \in [Jobs -> Farm!Active \cup Farm!Finished \cup {"new"}]
    <3>1. h.job = [f.job EXCEPT ![j] = outcome]
      BY <1>2
    <3> QED
      BY <2>0, <3>1
  <2>2. h.assigned \in [Jobs -> SUBSET Workers]
    <3>1. h.assigned = [f.assigned EXCEPT ![j] = B]
      BY <1>2
    <3>2. B \in SUBSET Workers
      BY <2>0
    <3> QED
      BY <2>0, <3>1, <3>2
  <2>3. h.status \in [Workers -> Farm!Present \cup {"new", "removed"}]
    BY <1>1, <1>2 DEF Farm!FarmType, Farm!Present
  <2>4. h.current \in [Workers -> Jobs \cup {NoJob}]
    BY <1>1, <1>2 DEF Farm!FarmType
  <2>5. h.created \in [Jobs -> Int]
    BY <1>1, <1>2 DEF Farm!FarmType
  <2> QED
    BY <1>2, <2>1, <2>2, <2>3, <2>4, <2>5 DEF Farm!FarmType
<1>6. ASSUME NEW w \in Workers, h.current[w] # NoJob
      PROVE  /\ h.current[w] = f.current[w]
             /\ h.status[w] \in Farm!Present
             /\ h.job[h.current[w]] \in Farm!Active
             /\ w \in h.assigned[h.current[w]]
  <2>1. w \notin S /\ h.current[w] = f.current[w] /\ h.status[w] = f.status[w]
    BY <1>2, <1>6
  <2>2. f.current[w] \in Jobs /\ f.current[w] # j
    BY <1>1, <1>3, <1>6, <2>1 DEF Farm!FarmType
  <2>3. f.status[w] \in Farm!Present /\ f.job[f.current[w]] \in Farm!Active
        /\ w \in f.assigned[f.current[w]]
    BY <1>6, <2>1 DEF Quiet, FarmOK
  <2>4. f.job \in [Jobs -> Farm!Active \cup Farm!Finished \cup {"new"}]
        /\ f.assigned \in [Jobs -> SUBSET Workers]
    BY <1>1 DEF Farm!FarmType
  <2> QED
    BY <1>2, <2>1, <2>2, <2>3, <2>4
<1>7. FarmOK(h)
  BY <1>5, <1>6 DEF FarmOK
<1>8. Forward(f, h, C)
  BY <1>1, <1>2 DEF Forward, Farm!Finished, Farm!Active, Waiting, Farm!FarmType
<1>9. Sends(f, h) /\ Points(f, h)
  BY <1>2, <1>6 DEF Sends, Points
<1>10. SameKnown(f, h)
  BY <1>2, <1>4 DEF SameKnown
<1>11. h.job[j] = outcome
  BY <1>1, <1>2 DEF Farm!FarmType
<1> QED
  BY <1>0, <1>2, <1>7, <1>8, <1>9, <1>10, <1>11 DEF Onward

\* handleJobComplete() and handleJobFailed(): afterwards the job is not active.
LEMMA JobEndedOnward ==
  ASSUME NEW f, Quiet(f), NEW j \in Jobs, NEW outcome \in Farm!Finished,
         NEW C, outcome = "completed" => j \in C,
         NEW g \in Farm!JobEnded(f, j, outcome)
  PROVE  Onward(f, g, C) /\ g.job[j] \notin Farm!Active
<1>1. CASE f.job[j] \in Farm!Active
  <2> DEFINE h == [Farm!Freed(f, Farm!Holders(f, j)) EXCEPT !.job[j] = outcome]
  <2>1. g \in Farm!ScheduleNext(h)
    BY <1>1 DEF Farm!JobEnded
  <2>2. h = Over(f, j, outcome, f.assigned[j])
    <3>1. f.assigned = [f.assigned EXCEPT ![j] = f.assigned[j]]
      BY DEF Quiet, FarmOK, Farm!FarmType
    <3>2. f \in Farm!FarmType
      BY DEF Quiet, FarmOK
    <3> QED
      BY <3>1, <3>2 DEF Over, Farm!Freed, Farm!FarmType
  <2> HIDE DEF h
  <2>3. Onward(f, h, C) /\ h.outbox = {} /\ h.job[j] = outcome
    BY <1>1, <2>2, OverOnward
  <2>4. Onward(f, g, C)
    BY <2>1, <2>3, ThenScheduled
  <2>5. Onward(h, g, {})
    BY <2>1, <2>3, ScheduleOnward DEF Onward, Quiet
  <2>6. g.job[j] = outcome
    BY <2>3, <2>5 DEF Onward, Forward
  <2> QED
    BY <2>4, <2>6 DEF Farm!Active, Farm!Finished
<1>2. CASE f.job[j] \notin Farm!Active
  <2>1. g = f
    BY <1>2 DEF Farm!JobEnded
  <2>2. Onward(f, f, {})
    BY SameOnward
  <2> QED
    BY <1>2, <2>1, <2>2 DEF Onward, Forward
<1> QED
  BY <1>1, <1>2

\* What changes the status of registered workers, or takes a worker's job away, is
\* no obstacle: k is g but for that.
Eased(g, k) ==
  /\ FarmOK(k) /\ k.job = g.job /\ k.outbox = g.outbox
  /\ SameKnown(g, k)
  /\ \A w \in Workers : k.current[w] # NoJob => k.current[w] = g.current[w]

\* Onward, and then eased, is onward.
LEMMA ThenEased ==
  ASSUME NEW f, NEW g, NEW k, NEW C, Onward(f, g, C), Eased(g, k)
  PROVE  Onward(f, k, C)
BY DEF Onward, Eased, Forward, Sends, Points, SameKnown

\* A heartbeat changes nothing but the status of a worker in the map.
LEMMA HeartbeatEased ==
  ASSUME NEW g, FarmOK(g), NEW w \in Workers, NEW s \in Farm!Present,
         NEW k, k = Farm!Heartbeat(g, w, s)
  PROVE  Eased(g, k)
<1>1. g \in Farm!FarmType
  BY DEF FarmOK
<1>2. CASE w \in Farm!Registered(g)
  <2>1. /\ k = [g EXCEPT !.status[w] = s]
        /\ k.job = g.job /\ k.outbox = g.outbox /\ k.current = g.current
        /\ k.assigned = g.assigned /\ k.created = g.created
        /\ k.status = [g.status EXCEPT ![w] = s]
    BY <1>1, <1>2 DEF Farm!Heartbeat, Farm!FarmType
  <2>2. k \in Farm!FarmType
    BY <1>1, <2>1 DEF Farm!FarmType
  <2>3. \A v \in Workers : g.status[v] \in Farm!Present => k.status[v] \in Farm!Present
    BY <1>1, <2>1 DEF Farm!FarmType
  <2>4. FarmOK(k)
    BY <2>1, <2>2, <2>3 DEF FarmOK
  <2>5. s # "new" /\ g.status[w] # "new"
    BY <1>2 DEF Farm!Registered, Farm!Present
  <2>6. SameKnown(g, k)
    BY <1>1, <2>1, <2>5 DEF SameKnown, Farm!FarmType
  <2> QED
    BY <2>1, <2>4, <2>6 DEF Eased
<1>3. CASE w \notin Farm!Registered(g)
  BY <1>3 DEF Farm!Heartbeat, Eased, SameKnown
<1> QED
  BY <1>2, <1>3

\* Taking a worker's job away, and then the worker may leave the map.
LEMMA DetachedEased ==
  ASSUME NEW g, FarmOK(g), NEW w \in Workers, g.status[w] # "new", NEW k,
         \/ k = [g EXCEPT !.current[w] = NoJob]
         \/ k = [g EXCEPT !.status[w] = "removed", !.current[w] = NoJob]
  PROVE  Eased(g, k)
<1>1. g \in Farm!FarmType
  BY DEF FarmOK
<1>2. /\ k.job = g.job /\ k.outbox = g.outbox /\ k.assigned = g.assigned
      /\ k.current = [g.current EXCEPT ![w] = NoJob]
      /\ k.status = g.status \/ k.status = [g.status EXCEPT ![w] = "removed"]
      /\ k = [status |-> k.status, current |-> k.current, job |-> k.job,
              assigned |-> k.assigned, created |-> k.created, outbox |-> k.outbox]
      /\ k.created = g.created
  BY <1>1 DEF Farm!FarmType
<1>3. k \in Farm!FarmType
  <2>1. k.status \in [Workers -> Farm!Present \cup {"new", "removed"}]
    BY <1>1, <1>2 DEF Farm!FarmType
  <2>2. k.current \in [Workers -> Jobs \cup {NoJob}]
    BY <1>1, <1>2 DEF Farm!FarmType
  <2> QED
    BY <1>1, <1>2, <2>1, <2>2 DEF Farm!FarmType
<1>4. \A v \in Workers : k.current[v] # NoJob =>
        v # w /\ k.current[v] = g.current[v] /\ k.status[v] = g.status[v]
  BY <1>1, <1>2 DEF Farm!FarmType
<1>5. FarmOK(k)
  BY <1>2, <1>3, <1>4 DEF FarmOK
<1>6. SameKnown(g, k)
  BY <1>1, <1>2 DEF SameKnown, Farm!FarmType
<1> QED
  BY <1>2, <1>4, <1>5, <1>6 DEF Eased

\* The reports of agents.
LEMMA ReportsOnward ==
  ASSUME NEW f, Quiet(f), NEW w \in Workers
  PROVE  /\ Onward(f, Farm!BusyReported(f, w), {})
         /\ \A healthy \in BOOLEAN : Onward(f, Farm!HealthReported(f, w, healthy), {})
         /\ \A C : \A j \in Jobs, outcome \in Farm!Finished :
              (outcome = "completed" => j \in C) =>
                \A k \in Farm!EndReported(f, w, j, outcome) :
                  Onward(f, k, C) /\ \A v \in Workers : k.current[v] # j
<1>1. \A s \in Farm!Present : Eased(f, Farm!Heartbeat(f, w, s))
  BY HeartbeatEased DEF Quiet
<1>2. \A s \in Farm!Present : Onward(f, Farm!Heartbeat(f, w, s), {})
  BY <1>1, SameOnward, ThenEased
<1>3. ASSUME NEW j \in Jobs, NEW outcome \in Farm!Finished, NEW C,
             outcome = "completed" => j \in C, NEW k \in Farm!EndReported(f, w, j, outcome)
      PROVE  Onward(f, k, C) /\ \A v \in Workers : k.current[v] # j
  <2>1. PICK g \in Farm!JobEnded(f, j, outcome) : k = Farm!Heartbeat(g, w, "idle")
    BY DEF Farm!EndReported
  <2>2. Onward(f, g, C) /\ g.job[j] \notin Farm!Active
    BY <1>3, <2>1, JobEndedOnward
  <2>3. Eased(g, k)
    <3>1. "idle" \in Farm!Present
      BY DEF Farm!Present
    <3> QED
      BY <2>1, <2>2, <3>1, HeartbeatEased DEF Onward
  <2>4. k.job[j] \notin Farm!Active /\ FarmOK(k)
    BY <2>2, <2>3 DEF Eased
  <2>5. \A v \in Workers : k.current[v] # j
    <3>1. j # NoJob
      BY SystemAssumption DEF NoJob
    <3> QED
      BY <2>4, <3>1 DEF FarmOK
  <2> QED
    BY <2>2, <2>3, <2>5, ThenEased
<1>4. /\ "busy" \in Farm!Present
      /\ \A healthy \in BOOLEAN : (IF healthy THEN "idle" ELSE "error") \in Farm!Present
  BY DEF Farm!Present
<1> QED
  BY <1>2, <1>3, <1>4 DEF Farm!BusyReported, Farm!HealthReported

\* The end of a worker's job, if it has one: afterwards it is not active.
LEMMA JobOfWorkerOnward ==
  ASSUME NEW f, Quiet(f), NEW w \in Workers, NEW g \in Farm!JobOfWorkerFailed(f, w)
  PROVE  Onward(f, g, {})
<1>1. CASE f.current[w] = NoJob
  BY <1>1, SameOnward DEF Farm!JobOfWorkerFailed
<1>2. CASE f.current[w] # NoJob
  <2>1. f.current[w] \in Jobs
    BY <1>2 DEF Quiet, FarmOK, Farm!FarmType
  <2>2. g \in Farm!JobEnded(f, f.current[w], "failed")
    BY <1>2 DEF Farm!JobOfWorkerFailed
  <2>3. "failed" \in Farm!Finished /\ "failed" # "completed"
    BY DEF Farm!Finished
  <2> QED
    BY <2>1, <2>2, <2>3, JobEndedOnward
<1> QED
  BY <1>1, <1>2

\* A worker that was in the map leaves it.
LEMMA RemoveOnward ==
  ASSUME NEW f, Quiet(f), NEW w \in Workers, f.status[w] # "new",
         NEW k \in Farm!RemoveWorker(f, w)
  PROVE  Onward(f, k, {})
<1>1. PICK g \in Farm!JobOfWorkerFailed(f, w) :
        k = [g EXCEPT !.status[w] = "removed", !.current[w] = NoJob]
  BY DEF Farm!RemoveWorker
<1>2. Onward(f, g, {})
  BY JobOfWorkerOnward
<1>3. g.status[w] # "new" /\ FarmOK(g)
  BY <1>2 DEF Onward, SameKnown
<1>4. Eased(g, k)
  BY <1>1, <1>3, DetachedEased
<1> QED
  BY <1>2, <1>4, ThenEased

\* The end of a job whose worker has gone offline.
LEMMA StaleOnward ==
  ASSUME NEW f, Quiet(f), NEW w \in Farm!Registered(f), NEW k \in Farm!StaleWorker(f, w)
  PROVE  Onward(f, k, {})
<1>0. w \in Workers /\ f \in Farm!FarmType /\ "offline" \in Farm!Present
  BY DEF Farm!Registered, Quiet, FarmOK, Farm!Present
<1> DEFINE h == [f EXCEPT !.status[w] = "offline"]
<1>1. h = Farm!Heartbeat(f, w, "offline")
  BY DEF Farm!Heartbeat
<1>2. h.outbox = {}
  BY <1>0 DEF Quiet, Farm!FarmType
<1>3. PICK g \in Farm!JobOfWorkerFailed(h, w) : k = [g EXCEPT !.current[w] = NoJob]
  BY DEF Farm!StaleWorker
<1> HIDE DEF h
<1>4. Eased(f, h)
  BY <1>0, <1>1, HeartbeatEased DEF Quiet
<1>5. Onward(f, h, {})
  BY <1>4, SameOnward, ThenEased
<1>6. Onward(h, g, {})
  BY <1>0, <1>2, <1>5, JobOfWorkerOnward DEF Quiet, Onward
<1>7. Onward(f, g, {})
  BY <1>2, <1>5, <1>6, Composed
<1>8. g.status[w] # "new" /\ FarmOK(g)
  BY <1>0, <1>7 DEF Onward, SameKnown, Farm!Registered, Farm!Present
<1>9. Eased(g, k)
  BY <1>0, <1>3, <1>8, DetachedEased
<1> QED
  BY <1>7, <1>9, ThenEased

\* A job that is submitted waits, and is scheduled with the others.
LEMMA SubmitOnward ==
  ASSUME NEW f, Quiet(f), NEW j \in Jobs, f.job[j] = "new", NEW g \in Farm!SubmitJob(f, j)
  PROVE  Onward(f, g, {})
<1> DEFINE h == [f EXCEPT !.job[j] = "queued"]
<1>1. f \in Farm!FarmType /\ g \in Farm!ScheduleNext(h)
  BY DEF Quiet, FarmOK, Farm!SubmitJob
<1>2. /\ h.job = [f.job EXCEPT ![j] = "queued"] /\ h.outbox = {}
      /\ h.status = f.status /\ h.current = f.current /\ h.assigned = f.assigned
  BY <1>1 DEF Quiet, Farm!FarmType
<1>3. h \in Farm!FarmType
  BY <1>1 DEF Farm!FarmType, Farm!Active
<1> HIDE DEF h
<1>4. \A k \in Jobs : f.job[k] \in Farm!Active => h.job[k] \in Farm!Active
  BY <1>1, <1>2 DEF Farm!FarmType, Farm!Active
<1>5. FarmOK(h)
  BY <1>1, <1>2, <1>3, <1>4 DEF Quiet, FarmOK, Farm!FarmType
<1>6. Forward(f, h, {})
  BY <1>1, <1>2 DEF Forward, Waiting, Farm!Finished, Farm!FarmType
<1>7. Onward(f, h, {})
  BY <1>2, <1>5, <1>6 DEF Onward, Sends, Points, SameKnown
<1> QED
  BY <1>1, <1>2, <1>7, ThenScheduled

\* A job that is cancelled.
LEMMA CancelOnward ==
  ASSUME NEW f, Quiet(f), NEW j \in Jobs, f.job[j] \in Farm!Active
  PROVE  Onward(f, Farm!CancelJob(f, j), {})
<1>1. Farm!CancelJob(f, j) = Over(f, j, "cancelled", {})
  BY DEF Farm!CancelJob, Over
<1>2. "cancelled" \in Farm!Finished /\ "cancelled" # "completed"
  BY DEF Farm!Finished
<1>3. Onward(f, Over(f, j, "cancelled", {}), {})
  BY <1>2, OverOnward
<1> QED
  BY <1>1, <1>3

\* What a handler leaves: it is on the way that Onward describes, and the workers of N
\* are in the map for the first time.
Leading(f, g, C, N) ==
  /\ FarmOK(g) /\ Forward(f, g, C) /\ Sends(f, g) /\ Points(f, g)
  /\ \A w \in Workers : g.status[w] = "new" <=> f.status[w] = "new" /\ w \notin N

\* What goes onward leads on without a new worker.
LEMMA OnwardLeading ==
  ASSUME NEW f, NEW g, NEW C, Onward(f, g, C)
  PROVE  Leading(f, g, C, {})
BY DEF Onward, Leading, SameKnown

\* A worker that registers is in the map, and is scheduled at once.
LEMMA RegisterLeading ==
  ASSUME NEW f, Quiet(f), NEW w \in Workers, f.status[w] = "new",
         NEW g \in Farm!RegisterWorker(f, w)
  PROVE  Leading(f, g, {}, {w})
<1> DEFINE h == [f EXCEPT !.status[w] = "idle"]
<1>1. f \in Farm!FarmType /\ g \in Farm!ScheduleNext(h)
  BY DEF Quiet, FarmOK, Farm!RegisterWorker
<1>2. /\ h.status = [f.status EXCEPT ![w] = "idle"] /\ h.outbox = {}
      /\ h.job = f.job /\ h.current = f.current /\ h.assigned = f.assigned
  BY <1>1 DEF Quiet, Farm!FarmType
<1>3. h \in Farm!FarmType
  BY <1>1 DEF Farm!FarmType, Farm!Present
<1> HIDE DEF h
<1>4. \A v \in Workers : f.status[v] \in Farm!Present => h.status[v] = f.status[v] \/ h.status[v] = "idle"
  BY <1>1, <1>2 DEF Farm!FarmType
<1>5. FarmOK(h)
  BY <1>1, <1>2, <1>3, <1>4 DEF Quiet, FarmOK, Farm!Present
<1>6. Onward(h, g, {})
  BY <1>1, <1>2, <1>5, ScheduleOnward DEF Quiet
<1>7. \A v \in Workers : h.status[v] = "new" <=> f.status[v] = "new" /\ v \notin {w}
  BY <1>1, <1>2 DEF Farm!FarmType
<1>8. Forward(f, g, {}) /\ Sends(f, g) /\ Points(f, g)
  BY <1>2, <1>6 DEF Onward, Forward, Sends, Points
<1> QED
  BY <1>6, <1>7, <1>8 DEF Onward, Leading, SameKnown

-----------------------------------------------------------------------------
(* Where jobs are *)

(***************************************************************************)
(* The following speaks of sets only: K are the workers known to the       *)
(* coordinator, D[w] the jobs in transit to the agent on the socket of w,  *)
(* E[w] those whose ends are in transit from it, and A those the agent     *)
(* has.                                                                    *)
(***************************************************************************)

\* Job j is in one place: in transit on one socket one way, or at the agent.
Single(D, E, A, j) ==
  /\ \A v, w \in Workers :
       /\ j \in D[v] /\ j \in D[w] => v = w
       /\ j \in E[v] /\ j \in E[w] => v = w
       /\ ~ (j \in D[v] /\ j \in E[w])
  /\ j \in A => \A w \in Workers : j \notin D[w] /\ j \notin E[w]

Anywhere(D, E, A, j) == j \in A \/ \E w \in Workers : j \in D[w] \/ j \in E[w]

\* Every job is in one place, and only if it has been started.
Apart(D, E, A, job) ==
  \A j \in Jobs : Single(D, E, A, j) /\ (Anywhere(D, E, A, j) => job[j] \notin Waiting)

\* What the coordinator's handlers change: what is sent waited, so it was nowhere.
LEMMA LeadingApart ==
  ASSUME NEW f, NEW g, NEW C, NEW N, Leading(f, g, C, N),
         NEW D, NEW E, NEW A, Apart(D, E, A, f.job), NEW D2, NEW E2,
         \A w \in Workers, j \in Jobs :
           /\ j \in D2[w] => j \in D[w] \/ <<w, j>> \in g.outbox
           /\ j \in E2[w] => j \in E[w]
  PROVE  Apart(D2, E2, A, g.job)
<1> SUFFICES ASSUME NEW j \in Jobs
             PROVE  Single(D2, E2, A, j) /\ (Anywhere(D2, E2, A, j) => g.job[j] \notin Waiting)
  BY DEF Apart
<1>1. Single(D, E, A, j) /\ (Anywhere(D, E, A, j) => f.job[j] \notin Waiting)
  BY DEF Apart
<1>2. /\ \A w \in Workers : <<w, j>> \in g.outbox => f.job[j] \in Waiting /\ g.job[j] \notin Waiting
      /\ \A v, w \in Workers : <<v, j>> \in g.outbox /\ <<w, j>> \in g.outbox => v = w
      /\ g.job[j] \in Waiting => f.job[j] \in Waiting
  BY DEF Leading, Sends, Forward
<1>3. CASE \E w \in Workers : <<w, j>> \in g.outbox
  <2>1. ~ Anywhere(D, E, A, j) /\ g.job[j] \notin Waiting
    BY <1>1, <1>2, <1>3
  <2>2. j \notin A /\ \A w \in Workers : j \notin E2[w] /\ (j \in D2[w] => <<w, j>> \in g.outbox)
    BY <2>1 DEF Anywhere
  <2> QED
    BY <1>2, <2>1, <2>2 DEF Single
<1>4. CASE \A w \in Workers : <<w, j>> \notin g.outbox
  <2>1. \A w \in Workers : (j \in D2[w] => j \in D[w]) /\ (j \in E2[w] => j \in E[w])
    BY <1>4
  <2>2. Single(D2, E2, A, j)
    BY <1>1, <2>1 DEF Single
  <2>3. Anywhere(D2, E2, A, j) => Anywhere(D, E, A, j)
    BY <2>1 DEF Anywhere
  <2> QED
    BY <1>1, <1>2, <2>2, <2>3
<1> QED
  BY <1>3, <1>4

\* One job moves.
LEMMA MoveApart ==
  ASSUME NEW D, NEW E, NEW A, NEW job, Apart(D, E, A, job), NEW D2, NEW E2, NEW A2,
         NEW j \in Jobs, Single(D2, E2, A2, j), Anywhere(D2, E2, A2, j) => Anywhere(D, E, A, j),
         \A k \in Jobs \ {j} :
           /\ k \in A2 => k \in A
           /\ \A w \in Workers : (k \in D2[w] => k \in D[w]) /\ (k \in E2[w] => k \in E[w])
  PROVE  Apart(D2, E2, A2, job)
<1>1. ASSUME NEW k \in Jobs \ {j}
      PROVE  Single(D2, E2, A2, k) /\ (Anywhere(D2, E2, A2, k) => job[k] \notin Waiting)
  <2>1. Single(D, E, A, k) /\ (Anywhere(D, E, A, k) => job[k] \notin Waiting)
    BY DEF Apart
  <2>2. Single(D2, E2, A2, k)
    BY <2>1 DEF Single
  <2>3. Anywhere(D2, E2, A2, k) => Anywhere(D, E, A, k)
    BY DEF Anywhere
  <2> QED
    BY <2>1, <2>2, <2>3
<1> QED
  BY <1>1 DEF Apart

\* The agent behind worker w has j.
Has(K, D, E, A, w, j) ==
  IF \E v \in K : w < v THEN j \in E[w] \/ j \in D[w]
  ELSE w \in K /\ (j \in D[w] \/ j \in A \/ \E v \in Workers : w <= v /\ j \in E[v])

Holding(K, D, E, A) == [w \in Workers |-> { j \in Jobs : Has(K, D, E, A, w, j) }]

\* Workers are known in the order of their numbers, nothing goes down to others, and
\* nothing is anywhere while none is known.
Numbered(K, D, E, A) ==
  /\ K \subseteq Workers
  /\ \A w \in K, v \in Workers : v < w => v \in K
  /\ \A w \in Workers, j \in Jobs : j \in D[w] => w \in K
  /\ K = {} => \A j \in Jobs : ~ Anywhere(D, E, A, j)

\* What the agents h have once they are sent the assignments of g on the sockets of o.
Given(h, g, o) == [w \in Workers |-> h[w] \cup { j \in Jobs : w \in o /\ <<w, j>> \in g.outbox }]

\* D2 is D and what is sent to the workers of o.
Sent(D, D2, g, o) ==
  \A w \in Workers, j \in Jobs :
    j \in D2[w] <=> j \in D[w] \/ (w \in o /\ <<w, j>> \in g.outbox)

\* Assignments go to known workers, in addition to what was in transit.
LEMMA SentHolding ==
  ASSUME NEW K, NEW D, NEW E, NEW A, Numbered(K, D, E, A), NEW o \in SUBSET K, NEW g, NEW D2,
         Sent(D, D2, g, o)
  PROVE  Holding(K, D2, E, A) = Given(Holding(K, D, E, A), g, o)
<1>1. ASSUME NEW w \in Workers, NEW j \in Jobs
      PROVE  Has(K, D2, E, A, w, j) <=> Has(K, D, E, A, w, j) \/ (w \in o /\ <<w, j>> \in g.outbox)
  BY DEF Has, Sent
<1> QED
  BY <1>1 DEF Holding, Given

\* Among some numbers below a bound one is the greatest.
LEMMA GreatestNumber ==
  ASSUME NEW B \in SUBSET Nat, B # {}, NEW n \in Nat, \A b \in B : b < n
  PROVE  \E m \in B : \A b \in B : b <= m
<1> DEFINE R == OpToRel(<, Nat)
           T == { n - b : b \in B }
<1>1. IsWellFoundedOn(R, Nat) /\ T \subseteq Nat /\ T # {}
  <2>1. \A b \in B : n - b \in Nat
    OBVIOUS
  <2> HIDE DEF R
  <2>2. T \subseteq Nat /\ T # {}
    BY <2>1
  <2> QED
    BY <2>2, NatLessThanWellFounded DEF R
<1>2. \A x, y \in Nat : x < y => <<x, y>> \in R
  BY DEF OpToRel
<1> HIDE DEF R
<1>3. PICK x \in T : \A y \in T : ~ (<<y, x>> \in R)
  BY <1>1, WFMin
<1>4. PICK m \in B : x = n - m
  OBVIOUS
<1>5. ASSUME NEW b \in B PROVE b <= m
  <2>1. n - b \in T /\ n - b \in Nat /\ x \in Nat
    BY <1>1
  <2>2. ~ (n - b < x)
    BY <1>2, <1>3, <2>1
  <2> QED
    BY <1>4, <2>1, <2>2
<1> QED
  BY <1>5

\* From H to G worker w has taken over what some worker v had; w has lost S.
TakesOver(H, G, w) ==
  \E v \in Workers, S \in SUBSET Jobs : S \subseteq H[v] /\ G = [H EXCEPT ![w] = S, ![v] = @ \ S]
Without(H, w, S) == [H EXCEPT ![w] = @ \ S]

\* A worker that becomes known takes over what the agent has from the latest.
LEMMA ConnectHolding ==
  ASSUME NEW K, NEW D, NEW E, NEW A, NEW job, Numbered(K, D, E, A), Apart(D, E, A, job),
         NEW w \in Workers \ K, \A v \in Workers : v < w => v \in K
  PROVE  TakesOver(Holding(K, D, E, A), Holding(K \cup {w}, D, E, A), w)
<1> DEFINE H == Holding(K, D, E, A)
           H2 == Holding(K \cup {w}, D, E, A)
<1>0. Workers \subseteq Nat /\ K \subseteq Workers
  BY SystemAssumption DEF Numbered
<1>1. \A v \in K : v < w
  <2> SUFFICES ASSUME NEW v \in K, ~ (v < w) PROVE FALSE
    OBVIOUS
  <2>1. w < v \/ w = v
    BY <1>0
  <2> QED
    BY <2>1 DEF Numbered
<1>2. \A v \in Workers, j \in Jobs : j \in H[v] <=> Has(K, D, E, A, v, j)
  BY DEF Holding
<1>3. \A v \in Workers, j \in Jobs : j \in H2[v] <=> Has(K \cup {w}, D, E, A, v, j)
  BY DEF Holding
<1>4. H \in [Workers -> SUBSET Jobs] /\ H2 \in [Workers -> SUBSET Jobs]
  BY DEF Holding
<1>5. H[w] = {}
  <2>1. \A j \in Jobs : ~ Has(K, D, E, A, w, j)
    <3>1. ~ \E v \in K : w < v
      BY <1>0, <1>1
    <3> QED
      BY <3>1 DEF Has
  <2> QED
    BY <1>2, <1>4, <2>1
<1>6. ASSUME NEW j \in Jobs
      PROVE  Has(K \cup {w}, D, E, A, w, j) <=> j \in A \/ \E u \in Workers : w <= u /\ j \in E[u]
  <2>1. ~ \E v \in K \cup {w} : w < v
    BY <1>0, <1>1
  <2>2. j \notin D[w]
    BY DEF Numbered
  <2> QED
    BY <2>1, <2>2 DEF Has
<1>7. ASSUME K = {} PROVE H2 = H
  <2>1. ASSUME NEW v \in Workers, NEW j \in Jobs
        PROVE  ~ Has(K \cup {w}, D, E, A, v, j) /\ ~ Has(K, D, E, A, v, j)
    BY <1>7 DEF Numbered, Anywhere, Has
  <2> QED
    BY <2>1 DEF Holding
<1>8. CASE K = {}
  <2>1. H2 = [H EXCEPT ![w] = {}, ![w] = @ \ {}]
    BY <1>4, <1>5, <1>7, <1>8
  <2> QED
    BY <2>1 DEF TakesOver
<1>9. CASE K # {}
  <2>1. PICK m \in K : \A v \in K : v <= m
    BY <1>0, <1>1, <1>9, GreatestNumber
  <2>2. m \in Workers /\ m # w /\ m < w
    BY <1>0, <1>1, <2>1
  <2>3. \A u \in Workers : m < u => w <= u
    BY <1>0, <2>1
  <2> DEFINE S == { j \in Jobs : j \in A \/ \E u \in Workers : w <= u /\ j \in E[u] }
  <2>4. ASSUME NEW j \in Jobs
        PROVE  Has(K, D, E, A, m, j)
                 <=> j \in D[m] \/ j \in A \/ \E u \in Workers : m <= u /\ j \in E[u]
    <3>1. ~ \E v \in K : m < v
      BY <1>0, <2>1
    <3> QED
      BY <2>1, <3>1 DEF Has
  <2>5. ASSUME NEW j \in Jobs PROVE j \in S => Has(K, D, E, A, m, j)
    BY <1>0, <2>2, <2>4
  <2>6. ASSUME NEW j \in Jobs
        PROVE  Has(K \cup {w}, D, E, A, m, j) <=> Has(K, D, E, A, m, j) /\ j \notin S
    <3>1. Has(K \cup {w}, D, E, A, m, j) <=> j \in E[m] \/ j \in D[m]
      BY <2>2 DEF Has
    <3>2. Has(K, D, E, A, m, j) <=> j \in D[m] \/ j \in E[m] \/ j \in S
      BY <1>0, <2>2, <2>3, <2>4
    <3>3. j \in D[m] \/ j \in E[m] => j \notin S
      <4>1. Single(D, E, A, j)
        BY DEF Apart
      <4>2. \A u \in Workers : w <= u => u # m
        BY <1>0, <2>2
      <4> QED
        BY <2>2, <4>1, <4>2 DEF Single
    <3> QED
      BY <3>1, <3>2, <3>3
  <2>7. ASSUME NEW v \in Workers \ {w, m}, NEW j \in Jobs
        PROVE  Has(K \cup {w}, D, E, A, v, j) <=> Has(K, D, E, A, v, j)
    <3>1. (\E u \in K \cup {w} : v < u) <=> (\E u \in K : v < u)
      BY <1>0, <2>1, <2>2, <2>3
    <3>2. v \in K \cup {w} <=> v \in K
      OBVIOUS
    <3>3. (\E u \in K : v < u) \/ v \notin K
      BY <1>0, <2>1
    <3> QED
      BY <3>1, <3>2, <3>3 DEF Has
  <2>8. H2 = [H EXCEPT ![w] = S, ![m] = @ \ S]
    <3>1. H2[w] = S
      BY <1>3, <1>4, <1>6
    <3>2. H2[m] = H[m] \ S
      BY <1>2, <1>3, <1>4, <2>2, <2>6
    <3>3. \A v \in Workers \ {w, m} : H2[v] = H[v]
      BY <1>2, <1>3, <1>4, <2>7
    <3> QED
      BY <1>4, <2>2, <3>1, <3>2, <3>3
  <2>9. S \in SUBSET Jobs /\ S \subseteq H[m]
    BY <1>2, <2>2, <2>5
  <2> QED
    BY <2>2, <2>8, <2>9 DEF TakesOver
<1> QED
  BY <1>8, <1>9

\* The end of job j that worker w reports is not in transit any more.
LEMMA EndHolding ==
  ASSUME NEW K, NEW D, NEW E, NEW A, Numbered(K, D, E, A), NEW w \in K, NEW j \in Jobs, NEW E2,
         \A v \in Workers, k \in Jobs :
           /\ k \in E2[v] => k \in E[v]
           /\ k \in E[v] => k \in E2[v] \/ (k = j /\ v = w)
  PROVE  \E S \in {{}, {j}} :
           Holding(K, D, E2, A) = Without(Holding(K, D, E, A), w, S)
<1> DEFINE H == Holding(K, D, E, A)
           H2 == Holding(K, D, E2, A)
           S == IF Has(K, D, E2, A, w, j) THEN {} ELSE {j}
<1>0. Workers \subseteq Nat /\ K \subseteq Workers
  BY SystemAssumption DEF Numbered
<1>1. ASSUME NEW v \in Workers \ {w}, NEW k \in Jobs
      PROVE  Has(K, D, E2, A, v, k) <=> Has(K, D, E, A, v, k)
  <2>1. CASE \E u \in K : v < u
    <3>1. k \in E2[v] <=> k \in E[v]
      OBVIOUS
    <3> QED
      BY <2>1, <3>1 DEF Has
  <2>2. CASE ~ (\E u \in K : v < u)
    <3>1. v \in K => ~ (v <= w)
      <4>1. v \in K => v < w \/ w < v
        BY <1>0
      <4> QED
        BY <1>0, <2>2, <4>1
    <3>2. v \in K => \A u \in Workers : v <= u => (k \in E2[u] <=> k \in E[u])
      BY <3>1
    <3> QED
      BY <2>2, <3>2 DEF Has
  <2> QED
    BY <2>1, <2>2
<1>2. ASSUME NEW k \in Jobs \ {j}
      PROVE  Has(K, D, E2, A, w, k) <=> Has(K, D, E, A, w, k)
  <2>1. \A u \in Workers : k \in E2[u] <=> k \in E[u]
    OBVIOUS
  <2> QED
    BY <1>0, <2>1 DEF Has
<1>3. Has(K, D, E2, A, w, j) => Has(K, D, E, A, w, j)
  BY <1>0 DEF Has
<1>4. H \in [Workers -> SUBSET Jobs] /\ H2 \in [Workers -> SUBSET Jobs]
  BY DEF Holding
<1>5. \A v \in Workers, k \in Jobs :
        /\ k \in H[v] <=> Has(K, D, E, A, v, k)
        /\ k \in H2[v] <=> Has(K, D, E2, A, v, k)
  BY DEF Holding
<1> HIDE DEF H, H2
<1>6. H2[w] = H[w] \ S
  BY <1>0, <1>2, <1>3, <1>4, <1>5
<1>7. \A v \in Workers \ {w} : H2[v] = H[v]
  BY <1>1, <1>4, <1>5
<1>8. H2 = [H EXCEPT ![w] = @ \ S]
  BY <1>0, <1>4, <1>6, <1>7
<1> QED
  BY <1>8 DEF H, H2, Without

\* What the latest worker had and is neither with the agent nor on a socket any more
\* has been forgotten.  Worker s is the latest or later.
LEMMA WorkHolding ==
  ASSUME NEW K, NEW D, NEW E, NEW A, Numbered(K, D, E, A), NEW s, \A v \in K : v <= s,
         NEW E2, NEW A2,
         \A k \in Jobs :
           /\ k \in A2 => k \in A
           /\ \A v \in Workers : k \in E2[v] => k \in E[v] \/ (v = s /\ k \in A)
           /\ \A v \in Workers : k \in E[v] => k \in E2[v]
  PROVE  \/ Holding(K, D, E2, A2) = Holding(K, D, E, A)
         \/ \E w \in Workers, S \in SUBSET Jobs :
              Holding(K, D, E2, A2) = Without(Holding(K, D, E, A), w, S)
<1> DEFINE H == Holding(K, D, E, A)
           H2 == Holding(K, D, E2, A2)
<1>0. Workers \subseteq Nat /\ K \subseteq Workers
  BY SystemAssumption DEF Numbered
<1>4. H \in [Workers -> SUBSET Jobs] /\ H2 \in [Workers -> SUBSET Jobs]
  BY DEF Holding
<1>5. \A v \in Workers, k \in Jobs :
        /\ k \in H[v] <=> Has(K, D, E, A, v, k)
        /\ k \in H2[v] <=> Has(K, D, E2, A2, v, k)
  BY DEF Holding
<1>6. ASSUME NEW v \in Workers, NEW k \in Jobs, v \notin K \/ \E u \in K : v < u
      PROVE  Has(K, D, E2, A2, v, k) <=> Has(K, D, E, A, v, k)
  <2>1. CASE \E u \in K : v < u
    <3>1. v # s
      <4>1. PICK u \in K : v < u
        BY <2>1
      <4>2. u <= s
        OBVIOUS
      <4> QED
        BY <1>0, <4>1, <4>2
    <3> QED
      BY <2>1, <3>1 DEF Has
  <2>2. CASE v \notin K
    BY <2>1, <2>2 DEF Has
  <2> QED
    BY <1>6, <2>1, <2>2
<1>7. ASSUME NEW v \in K, ~ \E u \in K : v < u, NEW k \in Jobs
      PROVE  Has(K, D, E2, A2, v, k) => Has(K, D, E, A, v, k)
  BY <1>0, <1>7 DEF Has
<1> HIDE DEF H, H2
<1>8. CASE \E v \in K : ~ \E u \in K : v < u
  <2>1. PICK w \in K : ~ \E u \in K : w < u
    BY <1>8
  <2>2. \A v \in Workers \ {w} : v \notin K \/ \E u \in K : v < u
    <3> SUFFICES ASSUME NEW v \in K \ {w}, ~ \E u \in K : v < u PROVE FALSE
      OBVIOUS
    <3> QED
      BY <1>0, <2>1
  <2>3. \A v \in Workers \ {w} : H2[v] = H[v]
    BY <1>4, <1>5, <1>6, <2>2
  <2>4. H2[w] = H[w] \ (H[w] \ H2[w])
    BY <1>0, <1>4, <1>5, <1>7, <2>1
  <2>5. H2 = [H EXCEPT ![w] = @ \ (H[w] \ H2[w])]
    BY <1>0, <1>4, <2>3, <2>4
  <2>6. w \in Workers /\ H[w] \ H2[w] \in SUBSET Jobs
    BY <1>0, <1>4
  <2> QED
    BY <2>5, <2>6 DEF H, H2, Without
<1>9. CASE ~ \E v \in K : ~ \E u \in K : v < u
  <2>1. \A v \in Workers : H2[v] = H[v]
    BY <1>4, <1>5, <1>6, <1>9
  <2> QED
    BY <1>4, <2>1 DEF H, H2
<1> QED
  BY <1>8, <1>9

\* What goes down the socket of the latest worker arrives at its agent, or is refused.
LEMMA ArriveHolding ==
  ASSUME NEW K, NEW D, NEW E, NEW A, Numbered(K, D, E, A), NEW s \in K, \A v \in K : v <= s,
         NEW j \in Jobs, j \in D[s], NEW D2, NEW E2, NEW A2,
         j \in A2 \/ j \in E2[s],
         \A k \in Jobs \ {j} :
           /\ k \in A2 <=> k \in A
           /\ \A v \in Workers : (k \in D2[v] <=> k \in D[v]) /\ (k \in E2[v] <=> k \in E[v]),
         \A v \in Workers \ {s} : (j \in D2[v] <=> j \in D[v]) /\ (j \in E2[v] <=> j \in E[v])
  PROVE  Holding(K, D2, E2, A2) = Holding(K, D, E, A)
<1>0. Workers \subseteq Nat /\ K \subseteq Workers
  BY SystemAssumption DEF Numbered
<1>1. ~ \E v \in K : s < v
  BY <1>0
<1>2. ASSUME NEW v \in Workers, NEW k \in Jobs
      PROVE  Has(K, D2, E2, A2, v, k) <=> Has(K, D, E, A, v, k)
  <2>1. CASE k # j
    BY <2>1 DEF Has
  <2>2. CASE k = j /\ v = s
    BY <1>0, <1>1, <2>2 DEF Has
  <2>3. CASE k = j /\ v # s
    <3>1. v \in K => \E u \in K : v < u
      BY <1>0, <2>3
    <3> QED
      BY <2>3, <3>1 DEF Has
  <2> QED
    BY <2>1, <2>2, <2>3
<1> QED
  BY <1>2 DEF Holding

\* What was in transit on the socket of worker w is lost.
LEMMA LoseHolding ==
  ASSUME NEW K, NEW D, NEW E, NEW A, Numbered(K, D, E, A), NEW w \in K, NEW D2, NEW E2,
         \A k \in Jobs :
           /\ k \notin D2[w] /\ k \notin E2[w]
           /\ \A v \in Workers \ {w} : (k \in D2[v] <=> k \in D[v]) /\ (k \in E2[v] <=> k \in E[v])
  PROVE  \E S \in SUBSET Jobs :
           Holding(K, D2, E2, A) = Without(Holding(K, D, E, A), w, S)
<1> DEFINE H == Holding(K, D, E, A)
           H2 == Holding(K, D2, E2, A)
<1>0. Workers \subseteq Nat /\ K \subseteq Workers
  BY SystemAssumption DEF Numbered
<1>1. ASSUME NEW v \in Workers \ {w}, NEW k \in Jobs
      PROVE  Has(K, D2, E2, A, v, k) <=> Has(K, D, E, A, v, k)
  <2>1. CASE \E u \in K : v < u
    BY <2>1 DEF Has
  <2>2. CASE ~ (\E u \in K : v < u)
    <3>1. v \in K => ~ (v <= w)
      <4>1. v \in K => v < w \/ w < v
        BY <1>0
      <4> QED
        BY <1>0, <2>2, <4>1
    <3> QED
      BY <2>2, <3>1 DEF Has
  <2> QED
    BY <2>1, <2>2
<1>2. ASSUME NEW k \in Jobs PROVE Has(K, D2, E2, A, w, k) => Has(K, D, E, A, w, k)
  BY <1>0 DEF Has
<1>4. H \in [Workers -> SUBSET Jobs] /\ H2 \in [Workers -> SUBSET Jobs]
  BY DEF Holding
<1>5. \A v \in Workers, k \in Jobs :
        /\ k \in H[v] <=> Has(K, D, E, A, v, k)
        /\ k \in H2[v] <=> Has(K, D2, E2, A, v, k)
  BY DEF Holding
<1> HIDE DEF H, H2
<1>6. H2[w] = H[w] \ (H[w] \ H2[w])
  BY <1>0, <1>2, <1>4, <1>5
<1>7. \A v \in Workers \ {w} : H2[v] = H[v]
  BY <1>1, <1>4, <1>5
<1>8. H2 = [H EXCEPT ![w] = @ \ (H[w] \ H2[w])]
  BY <1>0, <1>4, <1>6, <1>7
<1>9. H[w] \ H2[w] \in SUBSET Jobs
  BY <1>0, <1>4
<1> QED
  BY <1>8, <1>9 DEF H, H2, Without

-----------------------------------------------------------------------------
(* What the agent does *)

\* Starting what is queued, or nothing, brings nothing and takes nothing away.
LEMMA ProcessAlone ==
  ASSUME NEW x, QueueOK(x), NEW ph \in PhaseType, \A k \in Jobs : Lone(ph, x.st, k),
         NEW act, NEW stat, ProcessNextQueued(x, ph, act, stat)
  PROVE  /\ \A k \in Jobs : Lone(phase', q'.st, k)
         /\ \A k \in Jobs : q'.st[k] = "absent" <=> x.st[k] = "absent"
<1>1. PICK S \in SUBSET Queued(x) :
        /\ q'.st = [k \in Jobs |-> IF k \in S THEN "running" ELSE x.st[k]]
        /\ Room(ph, S) /\ phase' = Started(ph, S)
  BY ProcessOK
<1>2. S \in SUBSET Jobs /\ \A k \in S : x.st[k] = "queued"
  BY DEF Queued
<1>3. \A k \in Jobs : Lone(phase', q'.st, k)
  BY <1>1, <1>2, LoneStarted
<1>4. \A k \in Jobs : q'.st[k] = "absent" <=> x.st[k] = "absent"
  BY <1>1, <1>2
<1> QED
  BY <1>3, <1>4

\* A step of an attempt of job j that says t of it: nothing else comes or goes, and what
\* is said to be over has gone.
Says(j, t) ==
  /\ Send(About(t, j)) /\ conn' = conn
  /\ j \in Live(q) /\ (t \in Ends => j \notin Live(q'))
  /\ \A k \in Jobs \ {j} : k \in Live(q') <=> k \in Live(q)
  /\ \A k \in Jobs : Lone(phase', q'.st, k)

\* The end of an attempt.
LEMMA FinallySays ==
  ASSUME AgentOK, \A k \in Jobs : Lone(phase, q.st, k), NEW j \in Jobs, NEW n \in Slots,
         phase[j][n] # "free",
         NEW x, QueueOK(x), Left(q, x, {j}) \/ PutBack(q, x, j),
         NEW t, t \in Ends => Left(q, x, {j}),
         NEW stat, Send(About(t, j)), Finally(j, n, x, stat), conn' = conn
  PROVE  Says(j, t) /\ (PutBack(q, x, j) => j \in Live(q'))
<1>0. /\ phase \in PhaseType /\ q.st \in [Jobs -> EntryStatus]
  BY DEF AgentOK, AgentTypeOK, PhaseType, QueueType
<1>1. /\ q.st[j] = "running"
      /\ \A st : st[j] # "running" /\ (\A k \in Jobs \ {j} : st[k] = q.st[k])
                   => \A k \in Jobs : Lone(Ended(j, n), st, k)
  BY <1>0, LoneEnded
<1>2. /\ \A k \in Jobs \ {j} : x.st[k] = q.st[k]
      /\ Left(q, x, {j}) => x.st[j] = "absent"
      /\ PutBack(q, x, j) => x.st[j] = "queued"
  BY <1>0 DEF Left, PutBack
<1>3. \A k \in Jobs : Lone(Ended(j, n), x.st, k)
  <2>1. x.st[j] # "running"
    BY <1>2
  <2> QED
    BY <1>1, <1>2, <2>1
<1>4. PICK act, s : ProcessNextQueued(x, Ended(j, n), act, s)
  BY DEF Finally
<1>5. Ended(j, n) \in PhaseType
  BY <1>0, EndedOK
<1>6. /\ \A k \in Jobs : Lone(phase', q'.st, k)
      /\ \A k \in Jobs : q'.st[k] = "absent" <=> x.st[k] = "absent"
  BY <1>3, <1>4, <1>5, ProcessAlone
<1>7. \A k \in Jobs \ {j} : k \in Live(q') <=> k \in Live(q)
  BY <1>2, <1>6 DEF Live
<1>8. j \in Live(q) /\ (t \in Ends => j \notin Live(q'))
  BY <1>1, <1>2, <1>6 DEF Live
<1>9. PutBack(q, x, j) => j \in Live(q')
  BY <1>2, <1>6 DEF Live
<1> QED
  BY <1>6, <1>7, <1>8, <1>9 DEF Says

\* The steps of an attempt.
LEMMA AttemptSays ==
  ASSUME AgentOK, \A k \in Jobs : Lone(phase, q.st, k), NEW j \in Jobs, NEW n \in Slots
  PROVE  /\ Preflight(j, n) =>
              \/ Says(j, "job:started") /\ j \in Live(q')
              \/ Says(j, "job:retrying") /\ phase'[j][n] = "free"
         /\ DispatchCompleted(j, n) => Says(j, "job:complete")
         /\ DispatchFailed(j, n) =>
              Says(j, "job:failed") \/ (Says(j, "job:retrying") /\ j \in Live(q'))
<1>0. /\ phase \in PhaseType /\ q \in QueueType /\ QueueOK(q)
      /\ q.st \in [Jobs -> EntryStatus]
  BY DEF AgentOK, AgentTypeOK, PhaseType, QueueType
<1>1. ASSUME phase[j][n] # "free"
      PROVE  /\ q.st[j] = "running" /\ j \in Live(q)
             /\ \A st : st[j] # "running" /\ (\A k \in Jobs \ {j} : st[k] = q.st[k])
                          => \A k \in Jobs : Lone(Ended(j, n), st, k)
  BY <1>0, <1>1, LoneEnded DEF Live
<1>2. /\ "job:started" \notin Ends /\ "job:retrying" \notin Ends
  BY DEF Ends
<1>3. ASSUME Preflight(j, n)
      PROVE  \/ Says(j, "job:started") /\ j \in Live(q')
             \/ Says(j, "job:retrying") /\ phase'[j][n] = "free"
  <2>1. phase[j][n] # "free" /\ conn' = conn
    BY <1>3 DEF Preflight
  <2>2. CASE /\ q' = MarkFailed(q, j, TRUE) /\ phase' = Ended(j, n)
             /\ Send(About("job:retrying", j))
    <3>1. Left(q, q', {j}) \/ PutBack(q, q', j)
      BY <1>0, <1>1, <2>1, <2>2, MarkFailedMoves
    <3>2. (\A k \in Jobs \ {j} : q'.st[k] = q.st[k]) /\ q'.st[j] # "running"
      BY <1>0, <3>1 DEF Left, PutBack
    <3>3. \A k \in Jobs : Lone(phase', q'.st, k)
      BY <1>1, <2>1, <2>2, <3>2
    <3>4. phase'[j][n] = "free"
      <4>1. phase'[j] = [phase[j] EXCEPT ![n] = "free"]
        BY <1>0, <2>2, EndedOK
      <4>2. phase[j] \in [Slots -> {"free", "preflight", "dispatch"}]
        BY <1>0 DEF PhaseType
      <4> QED
        BY <4>1, <4>2
    <3>5. \A k \in Jobs \ {j} : k \in Live(q') <=> k \in Live(q)
      BY <3>2 DEF Live
    <3> QED
      BY <1>1, <1>2, <2>1, <2>2, <3>3, <3>4, <3>5 DEF Says
  <2>3. CASE /\ phase' = [phase EXCEPT ![j][n] = "dispatch"] /\ q' = q
             /\ Send(About("job:started", j))
    <3>2. ASSUME NEW k \in Jobs PROVE Lone(phase', q'.st, k)
      <4>1. Lone(phase, q.st, k) /\ phase[k] \in [Slots -> {"free", "preflight", "dispatch"}]
        BY <1>0 DEF PhaseType
      <4>2. CASE k = j
        <5>1. phase'[k] = [phase[k] EXCEPT ![n] = "dispatch"]
          BY <1>0, <2>3, <4>2 DEF PhaseType
        <5>2. \A m \in Slots : phase'[k][m] # "free" <=> phase[k][m] # "free"
          BY <2>1, <4>1, <4>2, <5>1
        <5> QED
          BY <2>3, <4>1, <5>2 DEF Lone
      <4>3. CASE k # j
        <5>1. phase'[k] = phase[k]
          BY <1>0, <2>3, <4>3 DEF PhaseType
        <5> QED
          BY <2>3, <4>1, <5>1 DEF Lone
      <4> QED
        BY <4>2, <4>3
    <3> QED
      BY <1>1, <1>2, <2>1, <2>3, <3>2 DEF Says
  <2> QED
    BY <1>3, <2>2, <2>3 DEF Preflight
<1>4. ASSUME DispatchCompleted(j, n) PROVE Says(j, "job:complete")
  <2>1. /\ phase[j][n] # "free" /\ conn' = conn /\ Send(About("job:complete", j))
        /\ Finally(j, n, MarkCompleted(q, j), status)
    BY <1>4 DEF DispatchCompleted
  <2>2. MarkCompleted(q, j) = Finish(q, j)
    BY <1>1, <2>1 DEF MarkCompleted
  <2>3. Left(q, MarkCompleted(q, j), {j}) /\ QueueOK(MarkCompleted(q, j))
    BY <1>0, <2>2, FinishLeft, SettleOK
  <2> QED
    BY <2>1, <2>3, FinallySays
<1>5. ASSUME DispatchFailed(j, n)
      PROVE  Says(j, "job:failed") \/ (Says(j, "job:retrying") /\ j \in Live(q'))
  <2>1. phase[j][n] # "free" /\ conn' = conn
    BY <1>5 DEF DispatchFailed
  <2>2. PICK retryable \in BOOLEAN :
          IF WillRetry(q, j, retryable)
          THEN /\ Send(About("job:retrying", j))
               /\ Finally(j, n, MarkFailed(q, j, retryable), status)
          ELSE /\ Send(About("job:failed", j))
               /\ Finally(j, n, MarkFailed(q, j, retryable), "error")
    BY <1>5 DEF DispatchFailed
  <2>3. PICK x : x = MarkFailed(q, j, retryable)
    OBVIOUS
  <2>4. QueueOK(x)
    BY <1>0, <2>3, MarkFailedOK
  <2>5. /\ WillRetry(q, j, retryable) => PutBack(q, x, j)
        /\ ~ WillRetry(q, j, retryable) => Left(q, x, {j})
    BY <1>0, <1>1, <2>1, <2>3, MarkFailedMoves
  <2>6. CASE WillRetry(q, j, retryable)
    BY <1>2, <2>1, <2>2, <2>3, <2>4, <2>5, <2>6, FinallySays
  <2>7. CASE ~ WillRetry(q, j, retryable)
    BY <2>1, <2>2, <2>3, <2>4, <2>5, <2>7, FinallySays
  <2> QED
    BY <2>6, <2>7
<1> QED
  BY <1>3, <1>4, <1>5

\* An assignment of a job the agent does not have is taken or refused.
LEMMA AssignTakes ==
  ASSUME AgentOK, \A k \in Jobs : Lone(phase, q.st, k), NEW j \in Jobs, j \notin Live(q), Assign(j)
  PROVE  /\ conn' = conn
         /\ \A k \in Jobs : Lone(phase', q'.st, k)
         /\ \A k \in Jobs \ {j} : k \in Live(q') <=> k \in Live(q)
         /\ \/ j \notin Live(q') /\ sent' = <<About("job:reject", j)>>
            \/ j \in Live(q') /\ sent' = <<About("job:queued", j)>>
            \/ j \in Live(q') /\ sent' = <<>>
<1>0. /\ phase \in PhaseType /\ q \in QueueType /\ QueueOK(q)
      /\ q.st \in [Jobs -> EntryStatus] /\ q.st[j] = "absent"
      /\ conn = "open" /\ conn' = conn
  BY DEF AgentOK, AgentTypeOK, PhaseType, QueueType, Live, Assign
<1>1. CASE Reject(j)
  <2>1. q' = q /\ phase' = phase /\ sent' = <<About("job:reject", j)>>
    BY <1>0, <1>1 DEF Reject, Send
  <2> QED
    BY <1>0, <2>1
<1>2. CASE ~ Reject(j)
  <2>1. PICK x : x = Enqueue(q, j, 0)
    OBVIOUS
  <2>2. \/ \E k \in Jobs : /\ IsNext(x, k, 0) /\ Room(phase, {k})
                           /\ q' = Dequeue(x, k) /\ phase' = Started(phase, {k})
                           /\ sent' = <<>>
        \/ q' = x /\ UNCHANGED phase /\ sent' = <<About("job:queued", j)>>
    BY <1>0, <1>2, <2>1 DEF Assign, Send
  <2>3. x.st = [q.st EXCEPT ![j] = "queued"]
    BY <1>0, <2>1, EnqueueFields
  <2>4. \A k \in Jobs : Lone(phase, x.st, k)
    <3>1. SUFFICES ASSUME NEW k \in Jobs PROVE Lone(phase, x.st, k)
      OBVIOUS
    <3>2. Lone(phase, q.st, k) /\ (x.st[k] = "running" <=> q.st[k] = "running")
      BY <1>0, <2>3
    <3> QED
      BY <3>2 DEF Lone
  <2>5. (\A k \in Jobs \ {j} : x.st[k] = q.st[k]) /\ x.st[j] = "queued"
    BY <1>0, <2>3
  <2>6. CASE q' = x /\ UNCHANGED phase /\ sent' = <<About("job:queued", j)>>
    <3>1. j \in Live(q') /\ \A k \in Jobs \ {j} : k \in Live(q') <=> k \in Live(q)
      BY <2>5, <2>6 DEF Live
    <3> QED
      BY <1>0, <2>4, <2>6, <3>1
  <2>7. CASE \E k \in Jobs : /\ IsNext(x, k, 0) /\ Room(phase, {k})
                             /\ q' = Dequeue(x, k) /\ phase' = Started(phase, {k})
                             /\ sent' = <<>>
    <3>1. PICK k \in Jobs : /\ IsNext(x, k, 0) /\ Room(phase, {k})
                            /\ q' = Dequeue(x, k) /\ phase' = Started(phase, {k})
                            /\ sent' = <<>>
      BY <2>7
    <3>2. x.st[k] = "queued"
      BY <3>1 DEF IsNext, Queued
    <3>3. x \in QueueType
      <4>1. CanEnqueue(q, j)
        BY <1>2 DEF Assign
      <4> QED
        BY <1>0, <2>1, <4>1, EnqueueOK DEF QueueOK
    <3>4. q'.st = [x.st EXCEPT ![k] = "running"]
      BY <3>1, <3>3, DequeueFields
    <3>5. q'.st = [i \in Jobs |-> IF i \in {k} THEN "running" ELSE x.st[i]]
      BY <3>3, <3>4 DEF QueueType
    <3>6. \A i \in Jobs : Lone(phase', q'.st, i)
      BY <1>0, <2>4, <3>1, <3>2, <3>5, LoneStarted
    <3>7. \A i \in Jobs : q'.st[i] = "absent" <=> x.st[i] = "absent"
      BY <3>2, <3>5
    <3>8. j \in Live(q') /\ \A i \in Jobs \ {j} : i \in Live(q') <=> i \in Live(q)
      BY <2>5, <3>7 DEF Live
    <3> QED
      BY <1>0, <3>1, <3>6, <3>8
  <2> QED
    BY <2>2, <2>6, <2>7
<1> QED
  BY <1>1, <1>2

-----------------------------------------------------------------------------
(* Messages in transit *)

\* The jobs whose ends are among the messages s.
EndsIn(s) == { m.job : m \in { m \in Range(s) : m.type \in Ends } }

Registers(s) == \E i \in DOMAIN s : s[i].type = "register"

\* What messages say of jobs: ends are about jobs, completions about rendered ones.
True(s, R) ==
  \A i \in DOMAIN s :
    /\ s[i].type \in Ends => s[i].job \in Jobs
    /\ s[i].type = "job:complete" => s[i].job \in R

\* The jobs whose ends are in a sequence of messages.
LEMMA EndsInJob ==
  ASSUME NEW s, NEW j
  PROVE  j \in EndsIn(s) <=> \E i \in DOMAIN s : s[i].type \in Ends /\ s[i].job = j
BY DEF EndsIn, Range

\* Another message is sent.
LEMMA MessageSent ==
  ASSUME NEW s \in Seq(Message), NEW m \in Message
  PROVE  /\ s \o <<m>> \in Seq(Message) /\ s \o <<m>> # <<>>
         /\ \A j : j \in EndsIn(s \o <<m>>) <=> j \in EndsIn(s) \/ (m.type \in Ends /\ j = m.job)
         /\ Registers(s \o <<m>>) <=> Registers(s) \/ m.type = "register"
         /\ s # <<>> => Head(s \o <<m>>) = Head(s) /\ Tail(s \o <<m>>) = Tail(s) \o <<m>>
         /\ s = <<>> => Head(s \o <<m>>) = m /\ Tail(s \o <<m>>) = <<>>
<1> DEFINE t == s \o <<m>>
<1>1. /\ t \in Seq(Message) /\ Len(s) \in Nat
      /\ DOMAIN s = 1..Len(s) /\ DOMAIN t = 1..(Len(s) + 1)
      /\ \A i \in DOMAIN s : t[i] = s[i]
      /\ t[Len(s) + 1] = m
  OBVIOUS
<1>2. \A i : i \in DOMAIN t <=> i \in DOMAIN s \/ i = Len(s) + 1
  BY <1>1
<1>3. t # <<>>
  BY <1>1
<1>4. s # <<>> => Head(t) = Head(s) /\ Tail(t) = Tail(s) \o <<m>>
  <2> SUFFICES ASSUME s # <<>> PROVE Head(t) = Head(s) /\ Tail(t) = Tail(s) \o <<m>>
    OBVIOUS
  <2>1. t = Append(s, m)
    BY AppendIsConcat
  <2>2. Tail(s) \in Seq(Message)
    OBVIOUS
  <2>3. Append(Tail(s), m) = Tail(s) \o <<m>>
    BY <2>2, AppendIsConcat
  <2> HIDE DEF t
  <2> QED
    BY <2>1, <2>3, HeadTailAppend
<1>5. s = <<>> => Head(t) = m /\ Tail(t) = <<>>
  OBVIOUS
<1> HIDE DEF t
<1>6. \A j : j \in EndsIn(t) <=> j \in EndsIn(s) \/ (m.type \in Ends /\ j = m.job)
  <2>1. \A j : j \in EndsIn(t) <=> \E i \in DOMAIN t : t[i].type \in Ends /\ t[i].job = j
    BY EndsInJob
  <2>2. \A j : j \in EndsIn(s) <=> \E i \in DOMAIN s : s[i].type \in Ends /\ s[i].job = j
    BY EndsInJob
  <2> QED
    BY <1>1, <1>2, <2>1, <2>2
<1>7. Registers(t) <=> Registers(s) \/ m.type = "register"
  BY <1>1, <1>2 DEF Registers
<1> QED
  BY <1>1, <1>3, <1>4, <1>5, <1>6, <1>7 DEF t

\* A true message sent after true ones.
LEMMA TrueSent ==
  ASSUME NEW s \in Seq(Message), NEW m \in Message, NEW R, True(s, R), NEW Q, R \subseteq Q,
         m.type \in Ends => m.job \in Jobs, m.type = "job:complete" => m.job \in Q
  PROVE  True(s \o <<m>>, Q)
<1> DEFINE t == s \o <<m>>
<1>1. \A i \in DOMAIN t : (i \in DOMAIN s /\ t[i] = s[i]) \/ t[i] = m
  OBVIOUS
<1> HIDE DEF t
<1>2. True(t, Q)
  BY <1>1 DEF True
<1> QED
  BY <1>2 DEF t

\* The first message arrives.
LEMMA MessageArrived ==
  ASSUME NEW s \in Seq(Message), s # <<>>
  PROVE  /\ Head(s) \in Message /\ Tail(s) \in Seq(Message)
         /\ \A j : j \in EndsIn(s) <=> j \in EndsIn(Tail(s)) \/ (Head(s).type \in Ends /\ j = Head(s).job)
         /\ Registers(s) <=> Registers(Tail(s)) \/ Head(s).type = "register"
         /\ \A R : True(s, R) =>
              /\ True(Tail(s), R)
              /\ Head(s).type \in Ends => Head(s).job \in Jobs
              /\ Head(s).type = "job:complete" => Head(s).job \in R
<1> DEFINE t == Tail(s)
<1>1. /\ t \in Seq(Message) /\ Len(s) \in Nat \ {0} /\ Head(s) \in Message /\ Head(s) = s[1]
      /\ DOMAIN s = 1..Len(s) /\ DOMAIN t = 1..(Len(s) - 1)
      /\ \A i \in DOMAIN t : t[i] = s[i + 1]
  OBVIOUS
<1> HIDE DEF t
<1>2. /\ 1 \in DOMAIN s
      /\ \A i \in DOMAIN t : i + 1 \in DOMAIN s
      /\ \A i \in DOMAIN s : i = 1 \/ (i - 1 \in DOMAIN t /\ t[i - 1] = s[i])
  BY <1>1
<1>3. \A j : j \in EndsIn(s) <=> j \in EndsIn(t) \/ (Head(s).type \in Ends /\ j = Head(s).job)
  <2>1. \A j : j \in EndsIn(t) <=> \E i \in DOMAIN t : t[i].type \in Ends /\ t[i].job = j
    BY EndsInJob
  <2>2. \A j : j \in EndsIn(s) <=> \E i \in DOMAIN s : s[i].type \in Ends /\ s[i].job = j
    BY EndsInJob
  <2> QED
    BY <1>1, <1>2, <2>1, <2>2
<1>4. Registers(s) <=> Registers(t) \/ Head(s).type = "register"
  BY <1>1, <1>2 DEF Registers
<1>5. \A R : True(s, R) =>
        /\ True(t, R)
        /\ Head(s).type \in Ends => Head(s).job \in Jobs
        /\ Head(s).type = "job:complete" => Head(s).job \in R
  BY <1>1, <1>2 DEF True
<1> QED
  BY <1>1, <1>3, <1>4, <1>5 DEF t

\* No job is twice among those sent down.
Once(d) == \A i, k \in DOMAIN d : d[i] = d[k] => i = k

\* Another job is sent down.
LEMMA JobSent ==
  ASSUME NEW d \in Seq(Jobs), NEW j \in Jobs, Once(d), j \notin Range(d)
  PROVE  /\ Append(d, j) \in Seq(Jobs) /\ Once(Append(d, j))
         /\ \A k : k \in Range(Append(d, j)) <=> k \in Range(d) \/ k = j
<1> DEFINE t == Append(d, j)
<1>1. /\ t \in Seq(Jobs) /\ Len(d) \in Nat
      /\ DOMAIN d = 1..Len(d) /\ DOMAIN t = 1..(Len(d) + 1)
      /\ \A i \in DOMAIN d : t[i] = d[i]
      /\ t[Len(d) + 1] = j
  OBVIOUS
<1> HIDE DEF t
<1>2. \A i : i \in DOMAIN t <=> i \in DOMAIN d \/ i = Len(d) + 1
  BY <1>1
<1>3. \A k : k \in Range(t) <=> k \in Range(d) \/ k = j
  BY <1>1, <1>2 DEF Range
<1>4. \A i \in DOMAIN d : d[i] # j
  BY DEF Range
<1>5. Once(t)
  BY <1>1, <1>2, <1>4 DEF Once
<1> QED
  BY <1>1, <1>3, <1>5 DEF t

\* The first job sent down arrives.
LEMMA JobArrived ==
  ASSUME NEW d \in Seq(Jobs), d # <<>>, Once(d)
  PROVE  /\ Head(d) \in Jobs /\ Tail(d) \in Seq(Jobs) /\ Once(Tail(d))
         /\ Head(d) \in Range(d)
         /\ \A k : k \in Range(Tail(d)) <=> k \in Range(d) /\ k # Head(d)
<1> DEFINE t == Tail(d)
<1>1. /\ t \in Seq(Jobs) /\ Len(d) \in Nat \ {0} /\ Head(d) \in Jobs /\ Head(d) = d[1]
      /\ DOMAIN d = 1..Len(d) /\ DOMAIN t = 1..(Len(d) - 1)
      /\ \A i \in DOMAIN t : t[i] = d[i + 1]
  OBVIOUS
<1> HIDE DEF t
<1>2. /\ 1 \in DOMAIN d
      /\ \A i \in DOMAIN t : i + 1 \in DOMAIN d /\ i + 1 # 1
      /\ \A i \in DOMAIN d : i = 1 \/ (i - 1 \in DOMAIN t /\ t[i - 1] = d[i])
      /\ \A i, k \in DOMAIN t : i + 1 = k + 1 => i = k
  BY <1>1
<1>3. Once(t)
  BY <1>1, <1>2 DEF Once
<1>4. \A k : k \in Range(t) <=> k \in Range(d) /\ k # Head(d)
  <2>1. \A i \in DOMAIN t : t[i] \in Range(d) /\ t[i] # Head(d)
    BY <1>1, <1>2 DEF Range, Once
  <2>2. \A i \in DOMAIN d : d[i] # Head(d) => \E k \in DOMAIN t : t[k] = d[i]
    BY <1>1, <1>2
  <2> QED
    BY <2>1, <2>2 DEF Range
<1>5. Head(d) \in Range(d)
  BY <1>1, <1>2 DEF Range
<1> QED
  BY <1>1, <1>3, <1>4, <1>5 DEF t

-----------------------------------------------------------------------------
(* The inductive invariant *)

DownOn == [w \in Workers |-> Range(downward[w])]

\* The messages u in transit to the coordinator on socket w, when n are opened, those
\* of K are known and R is rendered: a registration comes first and only then.
UpLink(w, K, u, n, R) ==
  /\ u \in Seq(Message) /\ True(u, R)
  /\ w \in K => w <= n /\ ~ Registers(u)
  /\ w \notin K => IF w <= n
                   THEN u # <<>> /\ Head(u).type = "register" /\ ~ Registers(Tail(u))
                   ELSE u = <<>>

\* The jobs d in transit to the agent: nothing goes down before the registration.
DownLink(w, K, d) == d \in Seq(Jobs) /\ Once(d) /\ (w \notin K => d = <<>>)

\* Nothing is in transit on a socket whose closing has been handled.
GoneLink(w) ==
  /\ w \in Known /\ up[w] = <<>> /\ downward[w] = <<>>
  /\ ~ (w = sockets /\ conn = "open")

Sockets ==
  /\ sockets \in Workers \cup {0} /\ (conn = "open" => sockets \in Workers)
  /\ gone \subseteq Workers /\ \A w \in gone : GoneLink(w)

Wires ==
  /\ DOMAIN up = Workers /\ up = [w \in Workers |-> up[w]]
  /\ DOMAIN downward = Workers /\ downward = [w \in Workers |-> downward[w]]
  /\ \A w \in Workers : UpLink(w, Known, up[w], sockets, rendered) /\ DownLink(w, Known, downward[w])

Agents ==
  /\ AgentOK /\ rendered \subseteq Jobs /\ dropped \subseteq Jobs
  /\ \A j \in Jobs : Lone(phase, q.st, j)

Places ==
  /\ Numbered(Known, DownOn, EndsOn, Live(q))
  /\ Apart(DownOn, EndsOn, Live(q), farm.job)

\* What the latest worker points at is on its way, at the agent, ended or dropped.
Remembered ==
  conn = "open" /\ farm.current[sockets] # NoJob
    => \/ farm.current[sockets] \in DownOn[sockets] \cup EndsOn[sockets]
       \/ farm.current[sockets] \in Live(q) \cup dropped

SystemInv ==
  Agents /\ Quiet(farm) /\ Sockets /\ Wires /\ Places /\ Remembered /\ CompletedWasRendered

\* What is held follows from where the jobs are.
LEMMA HeldIs ==
  Agents /\ Wires => Held = Holding(Known, DownOn, EndsOn, Live(q))
<1> SUFFICES ASSUME Agents, Wires PROVE Held = Holding(Known, DownOn, EndsOn, Live(q))
  OBVIOUS
<1>1. AtAgent = Live(q)
  BY DEF AtAgent, Live, Agents, Lone
<1>2. \A w \in Workers : EndsOn[w] \subseteq Jobs
  <2> SUFFICES ASSUME NEW w \in Workers, NEW j \in EndsIn(up[w]) PROVE j \in Jobs
    BY DEF EndsOn, EndsIn
  <2>1. True(up[w], rendered)
    BY DEF Wires, UpLink
  <2> QED
    BY <2>1, EndsInJob DEF True
<1>3. \A w \in Workers : DownOn[w] = Range(downward[w]) /\ Range(downward[w]) \subseteq Jobs
  BY DEF Wires, DownLink, DownOn, Range
<1>4. Live(q) \subseteq Jobs
  BY DEF Live
<1>5. ASSUME NEW w \in Workers
      PROVE  (IF \E v \in Known : w < v THEN EndsOn[w] \cup Range(downward[w])
              ELSE IF w \in Known
              THEN Range(downward[w]) \cup AtAgent \cup UNION { EndsOn[v] : v \in { v \in Workers : w <= v } }
              ELSE {})
             = { j \in Jobs : Has(Known, DownOn, EndsOn, Live(q), w, j) }
  <2>1. CASE \E v \in Known : w < v
    BY <1>2, <1>3, <2>1 DEF Has
  <2>2. CASE ~ (\E v \in Known : w < v) /\ w \in Known
    <3>1. UNION { EndsOn[v] : v \in { v \in Workers : w <= v } }
            = { j \in Jobs : \E v \in Workers : w <= v /\ j \in EndsOn[v] }
      BY <1>2
    <3> QED
      BY <1>1, <1>3, <1>4, <2>2, <3>1 DEF Has
  <2>3. CASE ~ (\E v \in Known : w < v) /\ w \notin Known
    BY <2>3 DEF Has
  <2> QED
    BY <2>1, <2>2, <2>3
<1> QED
  BY <1>5 DEF Held, Holding

\* A handler's farm, once its messages are on their way.
LEMMA Emptied ==
  ASSUME NEW g, FarmOK(g)
  PROVE  /\ Quiet([g EXCEPT !.outbox = {}])
         /\ [g EXCEPT !.outbox = {}].job = g.job
         /\ [g EXCEPT !.outbox = {}].status = g.status
         /\ [g EXCEPT !.outbox = {}].current = g.current
<1> DEFINE e == [g EXCEPT !.outbox = {}]
<1>1. g \in Farm!FarmType
  BY DEF FarmOK
<1>2. /\ e.job = g.job /\ e.status = g.status /\ e.current = g.current
      /\ e.assigned = g.assigned /\ e.outbox = {}
  BY <1>1 DEF Farm!FarmType
<1>3. e \in Farm!FarmType
  BY <1>1 DEF Farm!FarmType
<1> HIDE DEF e
<1>4. Quiet(e)
  BY <1>2, <1>3 DEF Quiet, FarmOK
<1> QED
  BY <1>2, <1>4 DEF e

\* What holds once a step has been taken.
LEMMA HeldIsNext ==
  ASSUME Agents', Wires'
  PROVE  Held' = Holding(Known', DownOn', EndsOn', Live(q'))
<1>1. (Held = Holding(Known, DownOn, EndsOn, Live(q)))'
  BY HeldIs, PTL
<1> QED
  BY <1>1 DEF Holding, Has, Live

-----------------------------------------------------------------------------
(* The steps of the coordinator *)

\* What the assignments of g, sent on the sockets that are not of G, do to those in transit.
Delivered(g, G) ==
  downward' = [w \in Workers |->
     IF w \in G THEN <<>>
     ELSE IF \E j \in Jobs : <<w, j>> \in g.outbox
     THEN Append(downward[w], CHOOSE j \in Jobs : <<w, j>> \in g.outbox)
     ELSE downward[w]]

\* What is in transit to the agents after an assignment is what was, and what was assigned.
LEMMA DeliveredOK ==
  ASSUME Places, Wires, NEW g, NEW C, NEW N, Leading(farm, g, C, N), NEW G, Delivered(g, G),
         \A w \in G : downward[w] = <<>>
  PROVE  \A w \in Workers :
           /\ DownLink(w, Known \cup N, downward'[w])
           /\ \A j \in Jobs :
                j \in Range(downward'[w])
                  <=> j \in Range(downward[w]) \/ (w \notin G /\ <<w, j>> \in g.outbox)
<1> SUFFICES ASSUME NEW w \in Workers
             PROVE  /\ DownLink(w, Known \cup N, downward'[w])
                    /\ \A j \in Jobs :
                         j \in Range(downward'[w])
                           <=> j \in Range(downward[w]) \/ (w \notin G /\ <<w, j>> \in g.outbox)
  OBVIOUS
<1>1. DownLink(w, Known, downward[w])
  BY DEF Wires
<1>2. ASSUME NEW j \in Jobs, <<w, j>> \in g.outbox
      PROVE  /\ w \in Known \cup N /\ j \notin Range(downward[w])
             /\ \A k \in Jobs : <<w, k>> \in g.outbox => k = j
  <2>1. farm.job[j] \in Waiting /\ g.status[w] # "new"
    BY <1>2 DEF Leading, Sends
  <2>2. w \in Known \cup N
    BY <2>1 DEF Leading, Known
  <2>3. ~ Anywhere(DownOn, EndsOn, Live(q), j)
    BY <2>1 DEF Places, Apart
  <2>4. j \notin Range(downward[w])
    BY <2>3 DEF Anywhere, DownOn
  <2>5. \A k \in Jobs : <<w, k>> \in g.outbox => k = j
    BY <1>2 DEF Leading, Sends
  <2> QED
    BY <2>2, <2>4, <2>5
<1>3. CASE w \in G
  <2>1. downward'[w] = <<>> /\ downward[w] = <<>>
    BY <1>3 DEF Delivered
  <2> QED
    BY <1>3, <2>1 DEF DownLink, Once, Range
<1>4. CASE w \notin G /\ \E j \in Jobs : <<w, j>> \in g.outbox
  <2>1. PICK j \in Jobs : j = CHOOSE k \in Jobs : <<w, k>> \in g.outbox
    BY <1>4
  <2>2. <<w, j>> \in g.outbox
    BY <1>4, <2>1
  <2>3. downward'[w] = Append(downward[w], j)
    BY <1>4, <2>1 DEF Delivered
  <2>4. downward[w] \in Seq(Jobs) /\ Once(downward[w])
    BY <1>1 DEF DownLink
  <2>5. /\ downward'[w] \in Seq(Jobs) /\ Once(downward'[w])
        /\ \A k : k \in Range(downward'[w]) <=> k \in Range(downward[w]) \/ k = j
    BY <1>2, <2>2, <2>3, <2>4, JobSent
  <2>6. DownLink(w, Known \cup N, downward'[w])
    BY <1>2, <2>2, <2>5 DEF DownLink
  <2> QED
    BY <1>2, <1>4, <2>2, <2>5, <2>6
<1>5. CASE w \notin G /\ ~ \E j \in Jobs : <<w, j>> \in g.outbox
  <2>1. downward'[w] = downward[w]
    BY <1>5 DEF Delivered
  <2> QED
    BY <1>1, <1>5, <2>1 DEF DownLink
<1> QED
  BY <1>3, <1>4, <1>5

\* A handler's step: from farm to g, once its messages are on their way; the workers of N
\* register, and G are the sockets that have closed.
FarmStep(g, C, N, G) ==
  /\ Leading(farm, g, C, N) /\ C \subseteq rendered
  /\ \A w \in N : w \in Workers \ Known /\ \A v \in Workers : v < w => v \in Known
  /\ farm' = [g EXCEPT !.outbox = {}] /\ Delivered(g, G)
  /\ gone' = G /\ G \subseteq Workers /\ gone \subseteq G
  /\ AgentIdles /\ UNCHANGED <<sockets, rendered, dropped>>

\* What it does to the messages from the agent.
UpStep(N, G) ==
  /\ up' = [w \in Workers |-> up'[w]] /\ DOMAIN up' = Workers
  /\ \A w \in Workers : UpLink(w, Known \cup N, up'[w], sockets, rendered)
  /\ \A w \in Workers : EndsIn(up'[w]) \subseteq EndsIn(up[w])
  /\ \A w \in G : /\ w \in Known \cup N /\ up'[w] = <<>> /\ downward[w] = <<>>
                  /\ ~ (w = sockets /\ conn = "open")

\* Such a step keeps the invariant, if what is not on its way back any more is not
\* pointed at, and is one of the abstract coordinator.
LEMMA FarmStepKeeps ==
  ASSUME SystemInv, NEW g, NEW C, NEW N, NEW G, FarmStep(g, C, N, G), UpStep(N, G),
         conn = "open" =>
           \A j \in EndsIn(up[sockets]) \ EndsIn(up'[sockets]) : g.current[sockets] # j
  PROVE  /\ SystemInv' /\ Known' = Known \cup N
         /\ Held' = Given(Holding(Known \cup N, DownOn, EndsOn', Live(q)), g, (Known \cup N) \ G)
<1>0. /\ Leading(farm, g, C, N) /\ Wires /\ Places /\ Agents /\ Sockets /\ Remembered
      /\ Quiet(farm) /\ CompletedWasRendered /\ Delivered(g, G) /\ gone' = G
      /\ q' = q /\ phase' = phase /\ conn' = conn /\ sockets' = sockets
      /\ rendered' = rendered /\ dropped' = dropped
  BY DEF SystemInv, FarmStep, AgentIdles
<1>1. Quiet(farm') /\ farm'.job = g.job /\ farm'.status = g.status /\ farm'.current = g.current
  BY <1>0, Emptied DEF Leading, FarmStep
<1>2. Known' = Known \cup N
  BY <1>0, <1>1 DEF Known, Leading, FarmStep
<1>3. Agents'
  <2>1. AgentOK'
    BY <1>0 DEF FarmStep, AgentIdles, Agents, AgentOK, AgentTypeOK, QueueOK, Exact, Queued, Running,
                IdleMeansNoActive
  <2>2. \A j \in Jobs : Lone(phase', q'.st, j)
    BY <1>0 DEF Agents
  <2> QED
    BY <1>0, <2>1, <2>2 DEF Agents
<1>4. \A w \in Workers :
        /\ DownLink(w, Known \cup N, downward'[w])
        /\ \A j \in Jobs :
             j \in Range(downward'[w])
               <=> j \in Range(downward[w]) \/ (w \notin G /\ <<w, j>> \in g.outbox)
  <2>1. \A w \in G : downward[w] = <<>>
    BY DEF UpStep
  <2> QED
    BY <1>0, <2>1, DeliveredOK
<1>5. DOMAIN downward' = Workers /\ downward' = [w \in Workers |-> downward'[w]]
  BY <1>0 DEF Delivered
<1>6. Wires'
  BY <1>0, <1>2, <1>4, <1>5 DEF Wires, UpStep
<1>7. Sockets'
  <2>1. \A w \in G : w \in Known' /\ up'[w] = <<>> /\ downward'[w] = <<>>
                     /\ ~ (w = sockets' /\ conn' = "open")
    BY <1>0, <1>2 DEF UpStep, Delivered, FarmStep
  <2> QED
    BY <1>0, <2>1 DEF Sockets, GoneLink, FarmStep
<1>8. /\ \A w \in Workers : DownOn'[w] = Range(downward'[w]) /\ DownOn[w] = Range(downward[w])
      /\ \A w \in Workers : EndsOn'[w] = EndsIn(up'[w]) /\ EndsOn[w] = EndsIn(up[w])
      /\ Live(q') = Live(q)
  BY <1>0 DEF DownOn, EndsOn, EndsIn
<1>9. \A w \in Workers, j \in Jobs :
        /\ j \in DownOn'[w] <=> j \in DownOn[w] \/ (w \notin G /\ <<w, j>> \in g.outbox)
        /\ j \in EndsOn'[w] => j \in EndsOn[w]
  <2>1. \A w \in Workers, j \in Jobs :
          j \in DownOn'[w] <=> j \in DownOn[w] \/ (w \notin G /\ <<w, j>> \in g.outbox)
    BY <1>4, <1>8
  <2>2. \A w \in Workers : EndsIn(up'[w]) \subseteq EndsIn(up[w])
    BY DEF UpStep
  <2>3. \A w \in Workers, j \in Jobs : j \in EndsOn'[w] => j \in EndsOn[w]
    BY <1>8, <2>2
  <2> QED
    BY <2>1, <2>3
<1>10. \A w \in Workers, j \in Jobs : <<w, j>> \in g.outbox => w \in Known \cup N
  <2> SUFFICES ASSUME NEW w \in Workers, NEW j \in Jobs, <<w, j>> \in g.outbox
               PROVE  w \in Known \cup N
    OBVIOUS
  <2>1. g.status[w] # "new"
    BY <1>0 DEF Leading, Sends
  <2> QED
    BY <1>0, <2>1 DEF Leading, Known
<1>11. Apart(DownOn', EndsOn', Live(q), farm'.job)
  BY <1>0, <1>1, <1>9, LeadingApart DEF Places
<1>12. /\ Numbered(Known \cup N, DownOn, EndsOn', Live(q))
       /\ Numbered(Known \cup N, DownOn', EndsOn', Live(q))
  <2>1. Numbered(Known, DownOn, EndsOn, Live(q))
    BY <1>0 DEF Places
  <2>2. /\ Known \cup N \subseteq Workers
        /\ \A w \in Known \cup N, v \in Workers : v < w => v \in Known \cup N
    BY <2>1 DEF Numbered, FarmStep
  <2>3. \A w \in Workers, j \in Jobs : j \in DownOn[w] \/ j \in DownOn'[w] => w \in Known \cup N
    BY <1>9, <1>10, <2>1 DEF Numbered
  <2>4. ASSUME Known \cup N = {}, NEW j \in Jobs
        PROVE  ~ Anywhere(DownOn, EndsOn', Live(q), j) /\ ~ Anywhere(DownOn', EndsOn', Live(q), j)
    <3>1. ~ Anywhere(DownOn, EndsOn, Live(q), j)
      BY <2>1, <2>4 DEF Numbered
    <3> QED
      BY <1>9, <2>3, <2>4, <3>1 DEF Anywhere
  <2> QED
    BY <2>2, <2>3, <2>4 DEF Numbered
<1>13. Places'
  <2>1. Live(q)' = Live(q)
    BY <1>0 DEF Live
  <2> QED
    BY <1>2, <1>11, <1>12, <2>1 DEF Places, Numbered, Apart, Single, Anywhere
<1>14. Remembered'
  <2> SUFFICES ASSUME conn = "open", g.current[sockets] # NoJob
               PROVE  \/ g.current[sockets] \in DownOn'[sockets] \cup EndsOn'[sockets]
                      \/ g.current[sockets] \in Live(q) \cup dropped
    BY <1>0, <1>1, <1>8 DEF Remembered, Live
  <2>1. sockets \in Workers /\ sockets \notin G
    BY <1>0 DEF Sockets, UpStep
  <2>2. g.current[sockets] \in Jobs
    BY <1>0, <2>1 DEF Leading, FarmOK, Farm!FarmType
  <2>3. g.current[sockets] = farm.current[sockets] \/ <<sockets, g.current[sockets]>> \in g.outbox
    BY <1>0, <2>1 DEF Leading, Points
  <2>4. CASE <<sockets, g.current[sockets]>> \in g.outbox
    BY <1>9, <2>1, <2>2, <2>4
  <2>5. CASE g.current[sockets] = farm.current[sockets]
    <3>1. \/ g.current[sockets] \in DownOn[sockets] \cup EndsOn[sockets]
          \/ g.current[sockets] \in Live(q) \cup dropped
      BY <1>0, <2>5 DEF Remembered
    <3>2. g.current[sockets] \in EndsOn[sockets] => g.current[sockets] \in EndsOn'[sockets]
      BY <1>8, <2>1
    <3> QED
      BY <1>9, <2>1, <2>2, <3>1, <3>2
  <2> QED
    BY <2>3, <2>4, <2>5
<1>15. CompletedWasRendered'
  BY <1>0, <1>1 DEF CompletedWasRendered, Leading, Forward, FarmStep
<1>16. SystemInv'
  BY <1>1, <1>3, <1>6, <1>7, <1>13, <1>14, <1>15 DEF SystemInv, Quiet, FarmOK
<1>17. Held' = Holding(Known \cup N, DownOn', EndsOn', Live(q))
  <2>1. Live(q') = Live(q)
    BY <1>8
  <2> QED
    BY <1>2, <1>3, <1>6, <2>1, HeldIsNext
<1>18. Holding(Known \cup N, DownOn', EndsOn', Live(q))
         = Given(Holding(Known \cup N, DownOn, EndsOn', Live(q)), g, (Known \cup N) \ G)
  <2>1. Sent(DownOn, DownOn', g, (Known \cup N) \ G)
    BY <1>9, <1>10 DEF Sent
  <2>2. Numbered(Known \cup N, DownOn, EndsOn', Live(q))
    BY <1>12
  <2>3. (Known \cup N) \ G \in SUBSET (Known \cup N)
    OBVIOUS
  <2> QED
    BY <2>1, <2>2, <2>3, SentHolding
<1> QED
  BY <1>2, <1>16, <1>17, <1>18

\* The handlers of the abstract coordinator are those of the real one.
LEMMA SameHandlers ==
  /\ \A f : AbstractFarm!Registered(f) = Farm!Registered(f)
  /\ \A f : AbstractFarm!ScheduleNext(f) = Farm!ScheduleNext(f)
  /\ \A f, j, outcome : AbstractFarm!JobEnded(f, j, outcome) = Farm!JobEnded(f, j, outcome)
  /\ \A f, j : AbstractFarm!Holders(f, j) = Farm!Holders(f, j)
  /\ \A f, S : AbstractFarm!Freed(f, S) = Farm!Freed(f, S)
  /\ AbstractFarm!Active = Farm!Active
<1>1. \A f : AbstractFarm!Registered(f) = Farm!Registered(f)
  BY DEF AbstractFarm!Registered, Farm!Registered, AbstractFarm!Present, Farm!Present
<1>2. \A f : AbstractFarm!ScheduleNext(f) = Farm!ScheduleNext(f)
  BY DEF AbstractFarm!ScheduleNext, Farm!ScheduleNext, AbstractFarm!Assigned, Farm!Assigned,
         AbstractFarm!Plans, Farm!Plans, AbstractFarm!IdleWorkers, Farm!IdleWorkers,
         AbstractFarm!PendingJobs, Farm!PendingJobs, AbstractFarm!IsFirst, Farm!IsFirst,
         AbstractFarm!Before, Farm!Before
<1>3. \A f, j : AbstractFarm!Holders(f, j) = Farm!Holders(f, j)
  BY <1>1 DEF AbstractFarm!Holders, Farm!Holders
<1>4. \A f, S : AbstractFarm!Freed(f, S) = Farm!Freed(f, S)
  BY DEF AbstractFarm!Freed, Farm!Freed
<1>5. AbstractFarm!Active = Farm!Active
  BY DEF AbstractFarm!Active, Farm!Active
<1>6. \A f, j, outcome : AbstractFarm!JobEnded(f, j, outcome) = Farm!JobEnded(f, j, outcome)
  BY <1>2, <1>3, <1>4, <1>5 DEF AbstractFarm!JobEnded, Farm!JobEnded
<1> QED
  BY <1>1, <1>2, <1>3, <1>4, <1>5, <1>6

\* So are the operations built from these handlers.
LEMMA SameWorkers ==
  /\ \A f, j : AbstractFarm!SubmitJob(f, j) = Farm!SubmitJob(f, j)
  /\ \A f, j : AbstractFarm!CancelJob(f, j) = Farm!CancelJob(f, j)
  /\ \A f, w : AbstractFarm!RegisterWorker(f, w) = Farm!RegisterWorker(f, w)
  /\ \A f, w : AbstractFarm!RemoveWorker(f, w) = Farm!RemoveWorker(f, w)
  /\ \A f, w : AbstractFarm!StaleWorker(f, w) = Farm!StaleWorker(f, w)
  /\ \A f, w, j, outcome : AbstractFarm!EndReported(f, w, j, outcome) = Farm!EndReported(f, w, j, outcome)
  /\ \A f, w : AbstractFarm!BusyReported(f, w) = Farm!BusyReported(f, w)
  /\ \A f, w, b : AbstractFarm!HealthReported(f, w, b) = Farm!HealthReported(f, w, b)
<1>1. \A f, j : AbstractFarm!SubmitJob(f, j) = Farm!SubmitJob(f, j)
  BY SameHandlers DEF AbstractFarm!SubmitJob, Farm!SubmitJob
<1>2. \A f, j : AbstractFarm!CancelJob(f, j) = Farm!CancelJob(f, j)
  BY SameHandlers DEF AbstractFarm!CancelJob, Farm!CancelJob
<1>3. \A f, w : AbstractFarm!RegisterWorker(f, w) = Farm!RegisterWorker(f, w)
  BY SameHandlers DEF AbstractFarm!RegisterWorker, Farm!RegisterWorker
<1>4. \A f, w : AbstractFarm!JobOfWorkerFailed(f, w) = Farm!JobOfWorkerFailed(f, w)
  BY SameHandlers DEF AbstractFarm!JobOfWorkerFailed, Farm!JobOfWorkerFailed
<1>5. \A f, w, s : AbstractFarm!Heartbeat(f, w, s) = Farm!Heartbeat(f, w, s)
  BY SameHandlers DEF AbstractFarm!Heartbeat, Farm!Heartbeat
<1>6. \A f, w : AbstractFarm!RemoveWorker(f, w) = Farm!RemoveWorker(f, w)
  BY <1>4 DEF AbstractFarm!RemoveWorker, Farm!RemoveWorker
<1>7. \A f, w : AbstractFarm!StaleWorker(f, w) = Farm!StaleWorker(f, w)
  BY <1>4 DEF AbstractFarm!StaleWorker, Farm!StaleWorker
<1>8. \A f, w, j, outcome : AbstractFarm!EndReported(f, w, j, outcome) = Farm!EndReported(f, w, j, outcome)
  BY <1>5, SameHandlers DEF AbstractFarm!EndReported, Farm!EndReported
<1>9. \A f, w : AbstractFarm!BusyReported(f, w) = Farm!BusyReported(f, w)
  BY <1>5 DEF AbstractFarm!BusyReported, Farm!BusyReported
<1>10. \A f, w, b : AbstractFarm!HealthReported(f, w, b) = Farm!HealthReported(f, w, b)
  BY <1>5 DEF AbstractFarm!HealthReported, Farm!HealthReported
<1> QED
  BY <1>1, <1>2, <1>3, <1>6, <1>7, <1>8, <1>9, <1>10

\* A handler's step is one of the abstract coordinator, with what the agents have when
\* the messages from them are those left.
LEMMA FarmStepLeads ==
  ASSUME SystemInv, NEW g, NEW C, NEW N, NEW G, FarmStep(g, C, N, G), UpStep(N, G),
         conn = "open" =>
           \A j \in EndsIn(up[sockets]) \ EndsIn(up'[sockets]) : g.current[sockets] # j,
         NEW results, g \in results,
         NEW h, h = Holding(Known \cup N, DownOn, EndsOn', Live(q)),
         NEW o, o = (Known \cup N) \ G
  PROVE  SystemInv' /\ AbstractFarm!Leads(results, h, o)
<1>1. /\ SystemInv' /\ Known' = Known \cup N
      /\ Held' = Given(h, g, o)
  <2>1. /\ SystemInv' /\ Known' = Known \cup N
        /\ Held' = Given(Holding(Known \cup N, DownOn, EndsOn', Live(q)), g, (Known \cup N) \ G)
    BY FarmStepKeeps
  <2> QED
    BY <2>1
<1>2. farm' = [g EXCEPT !.outbox = {}] /\ (Known \ gone)' = o
  BY <1>1 DEF FarmStep
<1> QED
  BY <1>1, <1>2 DEF AbstractFarm!Leads, Given

\* A step of users or of the timer of the coordinator.
LEMMA UsersKeep ==
  ASSUME SystemInv, NEW results, Users(results), \A g \in results : Leading(farm, g, {}, {})
  PROVE  SystemInv' /\ AbstractFarm!Leads(results, Held, Known \ gone)
<1>0. /\ Wires /\ Sockets /\ Agents
      /\ up' = up /\ gone' = gone /\ AgentIdles /\ UNCHANGED <<sockets, rendered, dropped>>
  BY DEF SystemInv, Users
<1>1. PICK g \in results : farm' = [g EXCEPT !.outbox = {}] /\ Delivered(g, gone)
  BY <1>0 DEF Users, Leads, Delivered
<1>2. FarmStep(g, {}, {}, gone)
  BY <1>0, <1>1 DEF FarmStep, Sockets
<1>3. UpStep({}, gone)
  <2>1. Known \cup {} = Known
    OBVIOUS
  <2> QED
    BY <1>0, <2>1 DEF UpStep, Wires, Sockets, GoneLink
<1>4. EndsOn' = EndsOn /\ Known \cup {} = Known
  BY <1>0 DEF EndsOn
<1>5. Held = Holding(Known \cup {}, DownOn, EndsOn', Live(q))
  BY <1>0, <1>4, HeldIs
<1>6. \A j \in EndsIn(up[sockets]) \ EndsIn(up'[sockets]) : g.current[sockets] # j
  BY <1>0
<1>7. Known \ gone = (Known \cup {}) \ gone
  OBVIOUS
<1> QED
  BY <1>2, <1>3, <1>5, <1>6, <1>7, FarmStepLeads

\* A step of the abstract coordinator, or none.
AbstractStep == [AbstractFarm!Next]_(AbstractFarm!vars)

\* Users submit and cancel jobs.
LEMMA UserStepKeeps ==
  ASSUME SystemInv, NEW j \in Jobs, UserStep(j)
  PROVE  SystemInv' /\ AbstractStep
<1>0. Quiet(farm)
  BY DEF SystemInv
<1>1. CASE /\ farm.job[j] = "new" /\ \A k \in Jobs : k < j => farm.job[k] # "new"
           /\ Users(Farm!SubmitJob(farm, j))
  <2>1. \A g \in Farm!SubmitJob(farm, j) : Leading(farm, g, {}, {})
    BY <1>0, <1>1, SubmitOnward, OnwardLeading
  <2>2. /\ SystemInv'
        /\ AbstractFarm!Leads(AbstractFarm!SubmitJob(farm, j), Held, Known \ gone)
    BY <1>1, <2>1, UsersKeep, SameWorkers
  <2>3. AbstractFarm!Submit(j)
    BY <1>1, <2>2 DEF AbstractFarm!Submit, AbstractFarm!IsNextNew
  <2> QED
    BY <2>2, <2>3 DEF AbstractStep, AbstractFarm!Next, AbstractFarm!JobStep
<1>2. CASE j \in Cancellable /\ farm.job[j] \in Farm!Active /\ Users({Farm!CancelJob(farm, j)})
  <2>1. \A g \in {Farm!CancelJob(farm, j)} : Leading(farm, g, {}, {})
    BY <1>0, <1>2, CancelOnward, OnwardLeading
  <2>2. SystemInv' /\ AbstractFarm!Leads({Farm!CancelJob(farm, j)}, Held, Known \ gone)
    BY <1>2, <2>1, UsersKeep
  <2>3. AbstractFarm!Cancel(j)
    BY <1>2, <2>2, SameWorkers, SameHandlers DEF AbstractFarm!Cancel
  <2> QED
    BY <2>2, <2>3 DEF AbstractStep, AbstractFarm!Next, AbstractFarm!JobStep
<1> QED
  BY <1>1, <1>2 DEF UserStep

\* Users remove workers, and the timer finds them stale.
LEMMA WorkerStepKeeps ==
  ASSUME SystemInv, NEW w \in Workers, WorkerStep(w)
  PROVE  SystemInv' /\ AbstractStep
<1>0. Quiet(farm)
  BY DEF SystemInv
<1>1. CASE w \in Removable \cap Farm!Registered(farm) /\ Users(Farm!RemoveWorker(farm, w))
  <2>0. farm.status[w] # "new"
    BY <1>1 DEF Farm!Registered, Farm!Present
  <2>1. \A g \in Farm!RemoveWorker(farm, w) : Leading(farm, g, {}, {})
    BY <1>0, <2>0, RemoveOnward, OnwardLeading
  <2>2. /\ SystemInv'
        /\ AbstractFarm!Leads(AbstractFarm!RemoveWorker(farm, w), Held, Known \ gone)
    BY <1>1, <2>1, UsersKeep, SameWorkers
  <2>3. AbstractFarm!Remove(w)
    BY <1>1, <2>2, SameHandlers DEF AbstractFarm!Remove
  <2> QED
    BY <2>2, <2>3 DEF AbstractStep, AbstractFarm!Next, AbstractFarm!WorkerStep
<1>2. CASE /\ w \in Silent \cap Farm!Registered(farm) /\ farm.status[w] # "offline"
           /\ Users(Farm!StaleWorker(farm, w))
  <2>1. \A g \in Farm!StaleWorker(farm, w) : Leading(farm, g, {}, {})
    BY <1>0, <1>2, StaleOnward, OnwardLeading
  <2>2. /\ SystemInv'
        /\ AbstractFarm!Leads(AbstractFarm!StaleWorker(farm, w), Held, Known \ gone)
    BY <1>2, <2>1, UsersKeep, SameWorkers
  <2>3. AbstractFarm!Stale(w)
    BY <1>2, <2>2, SameHandlers DEF AbstractFarm!Stale
  <2> QED
    BY <2>2, <2>3 DEF AbstractStep, AbstractFarm!Next, AbstractFarm!WorkerStep
<1> QED
  BY <1>1, <1>2 DEF WorkerStep

\* The coordinator notices that a socket has closed.
LEMMA SocketClosesKeeps ==
  ASSUME SystemInv, NEW w \in Workers, SocketCloses(w)
  PROVE  SystemInv' /\ AbstractStep
<1>0. /\ Quiet(farm) /\ Wires /\ Sockets /\ Agents
      /\ w <= sockets /\ ~ (w = sockets /\ conn = "open") /\ w \notin gone
      /\ up[w] = <<>> /\ downward[w] = <<>>
      /\ gone' = gone \cup {w} /\ Leads(Closed(w)) /\ AgentIdles
      /\ UNCHANGED <<sockets, up, rendered, dropped>>
  BY DEF SystemInv, SocketCloses
<1> DEFINE G == gone \cup {w}
<1>1. w \in Known
  BY <1>0 DEF Wires, UpLink
<1>2. PICK g \in Closed(w) : farm' = [g EXCEPT !.outbox = {}] /\ Delivered(g, G)
  BY <1>0 DEF Leads, Delivered
<1>3. Leading(farm, g, {}, {})
  <2>1. farm.status[w] # "new"
    BY <1>1 DEF Known
  <2> QED
    BY <1>0, <1>2, <2>1, RemoveOnward, SameOnward, OnwardLeading DEF Closed
<1>4. FarmStep(g, {}, {}, G)
  BY <1>0, <1>2, <1>3 DEF FarmStep, Sockets
<1>5. UpStep({}, G)
  <2>1. Known \cup {} = Known
    OBVIOUS
  <2> QED
    BY <1>0, <1>1, <2>1 DEF UpStep, Wires, Sockets, GoneLink
<1>6. EndsOn' = EndsOn /\ Known \cup {} = Known
  BY <1>0 DEF EndsOn
<1>7. Held = Holding(Known \cup {}, DownOn, EndsOn', Live(q))
  BY <1>0, <1>6, HeldIs
<1>8. \A j \in EndsIn(up[sockets]) \ EndsIn(up'[sockets]) : g.current[sockets] # j
  BY <1>0
<1>9. (Known \ gone) \ {w} = (Known \cup {}) \ G
  OBVIOUS
<1>10. SystemInv' /\ AbstractFarm!Leads(Closed(w), Held, (Known \ gone) \ {w})
  <2> HIDE DEF G
  <2> QED
    BY <1>2, <1>4, <1>5, <1>7, <1>8, <1>9, FarmStepLeads
<1>11. AbstractFarm!Disconnect(w)
  <2>1. Closed(w) = IF w \in AbstractFarm!Registered(farm)
                    THEN AbstractFarm!RemoveWorker(farm, w) ELSE {farm}
    BY SameWorkers, SameHandlers DEF Closed
  <2> QED
    BY <1>0, <1>1, <1>10, <2>1 DEF AbstractFarm!Disconnect
<1> QED
  BY <1>10, <1>11 DEF AbstractStep, AbstractFarm!Next, AbstractFarm!WorkerStep

\* The first message on a socket has been taken off it: nothing else has changed on the
\* way to the coordinator, and only a registration comes from a worker not known yet.
LEMMA ReceivedUp ==
  ASSUME SystemInv, NEW w \in Workers, up[w] # <<>>, up' = [up EXCEPT ![w] = Tail(@)],
         NEW N, N = IF Head(up[w]).type = "register" THEN {w} ELSE {}
  PROVE  /\ UpStep(N, gone) /\ w \notin gone
         /\ Head(up[w]).type = "register" <=> w \notin Known
         /\ Head(up[w]) \in Message
         /\ Head(up[w]).type \in Ends => Head(up[w]).job \in Jobs
         /\ Head(up[w]).type = "job:complete" => Head(up[w]).job \in rendered
         /\ \A v \in Workers \ {w} : EndsIn(up'[v]) = EndsIn(up[v])
         /\ \A j : j \in EndsIn(up[w])
                     <=> j \in EndsIn(up'[w]) \/ (Head(up[w]).type \in Ends /\ j = Head(up[w]).job)
<1>0. Wires /\ Sockets
  BY DEF SystemInv
<1>1. UpLink(w, Known, up[w], sockets, rendered)
  BY <1>0 DEF Wires
<1>2. /\ Head(up[w]) \in Message /\ Tail(up[w]) \in Seq(Message)
      /\ \A j : j \in EndsIn(up[w])
                  <=> j \in EndsIn(Tail(up[w])) \/ (Head(up[w]).type \in Ends /\ j = Head(up[w]).job)
      /\ Registers(up[w]) <=> Registers(Tail(up[w])) \/ Head(up[w]).type = "register"
      /\ True(Tail(up[w]), rendered)
      /\ Head(up[w]).type \in Ends => Head(up[w]).job \in Jobs
      /\ Head(up[w]).type = "job:complete" => Head(up[w]).job \in rendered
  BY <1>1, MessageArrived DEF UpLink
<1>3. /\ up'[w] = Tail(up[w]) /\ \A v \in Workers \ {w} : up'[v] = up[v]
      /\ DOMAIN up' = Workers /\ up' = [v \in Workers |-> up'[v]]
  BY <1>0 DEF Wires
<1>4. /\ Head(up[w]).type = "register" <=> w \notin Known
      /\ w <= sockets /\ ~ Registers(Tail(up[w]))
  BY <1>1, <1>2 DEF UpLink
<1>5. w \notin gone
  BY <1>0 DEF Sockets, GoneLink
<1>6. UpLink(w, Known \cup N, up'[w], sockets, rendered)
  BY <1>2, <1>3, <1>4 DEF UpLink
<1>7. \A v \in Workers \ {w} : UpLink(v, Known \cup N, up'[v], sockets, rendered)
  <2> SUFFICES ASSUME NEW v \in Workers \ {w}
               PROVE  UpLink(v, Known \cup N, up'[v], sockets, rendered)
    OBVIOUS
  <2>1. UpLink(v, Known, up[v], sockets, rendered) /\ up'[v] = up[v]
    BY <1>0, <1>3 DEF Wires
  <2>2. v \in Known \cup N <=> v \in Known
    OBVIOUS
  <2> QED
    BY <2>1, <2>2 DEF UpLink
<1>8. \A v \in Workers : EndsIn(up'[v]) \subseteq EndsIn(up[v])
  BY <1>2, <1>3
<1>9. \A v \in gone : /\ v \in Known \cup N /\ up'[v] = <<>> /\ downward[v] = <<>>
                      /\ ~ (v = sockets /\ conn = "open")
  BY <1>0, <1>3, <1>5 DEF Sockets, GoneLink
<1>10. UpStep(N, gone)
  BY <1>3, <1>6, <1>7, <1>8, <1>9 DEF UpStep
<1> QED
  BY <1>2, <1>3, <1>4, <1>5, <1>10

\* The farm that a handler of a message from the socket of w leaves.
LEMMA ReceiveStep ==
  ASSUME SystemInv, NEW w \in Workers, Receive(w), NEW C \in SUBSET rendered, NEW N,
         N = IF Head(up[w]).type = "register" THEN {w} ELSE {},
         \A g \in Handled(w, Head(up[w])) :
           /\ Leading(farm, g, C, N)
           /\ Head(up[w]).type \in Ends => \A v \in Workers : g.current[v] # Head(up[w]).job,
         NEW h, h = Holding(Known \cup N, DownOn, EndsOn', Live(q))
  PROVE  /\ SystemInv'
         /\ AbstractFarm!Leads(Handled(w, Head(up[w])), h, (Known \cup N) \ gone)
<1>0. /\ Quiet(farm) /\ Wires /\ Sockets /\ Agents
      /\ up[w] # <<>> /\ up' = [up EXCEPT ![w] = Tail(@)]
      /\ Head(up[w]).type = "register" => \A v \in Workers : v < w => farm.status[v] # "new"
      /\ gone' = gone /\ Leads(Handled(w, Head(up[w]))) /\ AgentIdles
      /\ UNCHANGED <<sockets, rendered, dropped>>
  BY DEF SystemInv, Receive
<1>1. PICK g \in Handled(w, Head(up[w])) : farm' = [g EXCEPT !.outbox = {}] /\ Delivered(g, gone)
  BY <1>0 DEF Leads, Delivered
<1>2. /\ UpStep(N, gone) /\ (Head(up[w]).type = "register" <=> w \notin Known)
      /\ \A v \in Workers \ {w} : EndsIn(up'[v]) = EndsIn(up[v])
      /\ \A j : j \in EndsIn(up[w])
                  <=> j \in EndsIn(up'[w]) \/ (Head(up[w]).type \in Ends /\ j = Head(up[w]).job)
  BY <1>0, ReceivedUp
<1>3. FarmStep(g, C, N, gone)
  <2>1. \A v \in N : v \in Workers \ Known /\ \A u \in Workers : u < v => u \in Known
    BY <1>0, <1>2 DEF Known
  <2> QED
    BY <1>0, <1>1, <2>1 DEF FarmStep, Sockets
<1>4. conn = "open" =>
        \A j \in EndsIn(up[sockets]) \ EndsIn(up'[sockets]) : g.current[sockets] # j
  <2> SUFFICES ASSUME conn = "open", NEW j \in EndsIn(up[sockets]) \ EndsIn(up'[sockets])
               PROVE  g.current[sockets] # j
    OBVIOUS
  <2>1. sockets \in Workers
    BY <1>0 DEF Sockets
  <2>2. sockets = w /\ Head(up[w]).type \in Ends /\ j = Head(up[w]).job
    BY <1>2, <2>1
  <2> QED
    BY <1>1, <2>1, <2>2
<1> QED
  BY <1>1, <1>2, <1>3, <1>4, FarmStepLeads

\* An agent registers.
LEMMA RegistrationKeeps ==
  ASSUME SystemInv, NEW w \in Workers, Receive(w), Head(up[w]).type = "register"
  PROVE  SystemInv' /\ AbstractStep
<1>0. /\ Quiet(farm) /\ Wires /\ Agents /\ Places /\ up[w] # <<>> /\ up' = [up EXCEPT ![w] = Tail(@)]
      /\ \A v \in Workers : v < w => farm.status[v] # "new"
      /\ Handled(w, Head(up[w])) = AbstractFarm!RegisterWorker(farm, w)
  BY SameWorkers DEF SystemInv, Receive, Handled
<1>1. /\ w \notin Known /\ w \notin gone /\ "register" \notin Ends
      /\ \A v \in Workers \ {w} : EndsIn(up'[v]) = EndsIn(up[v])
      /\ EndsIn(up'[w]) = EndsIn(up[w])
  <2>1. /\ w \notin Known /\ w \notin gone
        /\ \A v \in Workers \ {w} : EndsIn(up'[v]) = EndsIn(up[v])
        /\ \A j : j \in EndsIn(up[w])
                    <=> j \in EndsIn(up'[w]) \/ (Head(up[w]).type \in Ends /\ j = Head(up[w]).job)
    BY <1>0, ReceivedUp
  <2>2. "register" \notin Ends
    BY DEF Ends
  <2> QED
    BY <2>1, <2>2
<1>2. EndsOn' = EndsOn
  BY <1>1 DEF EndsOn, EndsIn
<1>3. \A g \in Handled(w, Head(up[w])) : Leading(farm, g, {}, {w})
  BY <1>0, <1>1, SameWorkers, RegisterLeading DEF Known
<1>4. SystemInv' /\ AbstractFarm!Leads(AbstractFarm!RegisterWorker(farm, w),
                                        Holding(Known \cup {w}, DownOn, EndsOn, Live(q)),
                                        (Known \cup {w}) \ gone)
  BY <1>0, <1>1, <1>2, <1>3, ReceiveStep
<1>5. TakesOver(Holding(Known, DownOn, EndsOn, Live(q)),
                Holding(Known \cup {w}, DownOn, EndsOn, Live(q)), w)
  <2>1. \A u \in Workers : u < w => u \in Known
    BY <1>0 DEF Known
  <2>2. /\ Numbered(Known, DownOn, EndsOn, Live(q))
        /\ Apart(DownOn, EndsOn, Live(q), farm.job)
        /\ w \in Workers \ Known
    BY <1>0, <1>1 DEF Places
  <2> QED
    BY <2>1, <2>2, ConnectHolding
<1>6. Held = Holding(Known, DownOn, EndsOn, Live(q))
  BY <1>0, HeldIs
<1>7. (Known \cup {w}) \ gone = (Known \ gone) \cup {w}
  BY <1>1
<1>8. AbstractFarm!Connect(w)
  <2>1. AbstractFarm!IsNextNew(w, Workers, farm.status)
    BY <1>0, <1>1 DEF AbstractFarm!IsNextNew, Known
  <2>2. PICK v \in Workers, S \in SUBSET Jobs :
          /\ S \subseteq Held[v]
          /\ Holding(Known \cup {w}, DownOn, EndsOn, Live(q)) = [Held EXCEPT ![w] = S, ![v] = @ \ S]
    BY <1>5, <1>6 DEF TakesOver
  <2>3. AbstractFarm!Leads(AbstractFarm!RegisterWorker(farm, w),
                           [Held EXCEPT ![w] = S, ![v] = @ \ S], (Known \ gone) \cup {w})
    BY <1>4, <1>7, <2>2
  <2> QED
    BY <2>1, <2>2, <2>3 DEF AbstractFarm!Connect
<1> QED
  BY <1>4, <1>8 DEF AbstractStep, AbstractFarm!Next, AbstractFarm!WorkerStep

\* An agent says that a job has ended: the abstract agent had been given it.
LEMMA EndKeeps ==
  ASSUME SystemInv, NEW w \in Workers, Receive(w), Head(up[w]).type \in Ends
  PROVE  SystemInv' /\ AbstractStep
<1>0. /\ Quiet(farm) /\ Wires /\ Agents /\ Places /\ up[w] # <<>> /\ up' = [up EXCEPT ![w] = Tail(@)]
      /\ Head(up[w]).type # "register" /\ Head(up[w]).type # "health"
  BY DEF SystemInv, Receive, Ends
<1>1. PICK j, outcome :
        /\ j = Head(up[w]).job
        /\ outcome = IF Head(up[w]).type = "job:complete" THEN "completed" ELSE "failed"
  OBVIOUS
<1> DEFINE C == IF outcome = "completed" THEN {j} ELSE {}
<1>2. /\ w \in Known /\ w \notin gone /\ j \in Jobs
      /\ outcome = "completed" => j \in rendered
      /\ \A v \in Workers \ {w} : EndsIn(up'[v]) = EndsIn(up[v])
      /\ \A k : k \in EndsIn(up[w]) <=> k \in EndsIn(up'[w]) \/ k = j
  BY <1>0, <1>1, ReceivedUp
<1>3. outcome \in Farm!Finished /\ outcome \in {"completed", "failed"}
  BY <1>1 DEF Farm!Finished
<1>4. Handled(w, Head(up[w])) = Farm!EndReported(farm, w, j, outcome)
  BY <1>0, <1>1 DEF Handled, Ends
<1>5. \A g \in Handled(w, Head(up[w])) :
        /\ Leading(farm, g, C, {})
        /\ \A v \in Workers : g.current[v] # Head(up[w]).job
  <2>1. outcome = "completed" => j \in C
    OBVIOUS
  <2> HIDE DEF C
  <2>2. \A D : \A k \in Jobs, o \in Farm!Finished :
          (o = "completed" => k \in D) =>
            \A g \in Farm!EndReported(farm, w, k, o) :
              Onward(farm, g, D) /\ \A v \in Workers : g.current[v] # k
    BY <1>0, ReportsOnward
  <2>3. \A g \in Farm!EndReported(farm, w, j, outcome) :
          Onward(farm, g, C) /\ \A v \in Workers : g.current[v] # j
    BY <1>2, <1>3, <2>1, <2>2
  <2> QED
    BY <1>1, <1>4, <2>3, OnwardLeading
<1>6. SystemInv' /\ AbstractFarm!Leads(AbstractFarm!EndReported(farm, w, j, outcome),
                                        Holding(Known, DownOn, EndsOn', Live(q)), Known \ gone)
  <2>1. C \in SUBSET rendered /\ Known \cup {} = Known
    BY <1>2
  <2> HIDE DEF C
  <2>2. /\ SystemInv'
        /\ AbstractFarm!Leads(Handled(w, Head(up[w])), Holding(Known \cup {}, DownOn, EndsOn', Live(q)),
                              (Known \cup {}) \ gone)
    BY <1>0, <1>5, <2>1, ReceiveStep
  <2> QED
    BY <1>4, <2>1, <2>2, SameWorkers
<1>7. Held = Holding(Known, DownOn, EndsOn, Live(q))
  BY <1>0, HeldIs
<1>8. \A v \in Workers, k \in Jobs :
        /\ k \in EndsOn'[v] => k \in EndsOn[v]
        /\ k \in EndsOn[v] => k \in EndsOn'[v] \/ (k = j /\ v = w)
  BY <1>2 DEF EndsOn, EndsIn
<1>9. PICK S \in {{}, {j}} :
        Holding(Known, DownOn, EndsOn', Live(q)) = Without(Holding(Known, DownOn, EndsOn, Live(q)), w, S)
  <2>1. Numbered(Known, DownOn, EndsOn, Live(q))
    BY <1>0 DEF Places
  <2> QED
    BY <1>2, <1>8, <2>1, EndHolding
<1>10. j \in Held[w]
  <2>1. j \in EndsOn[w]
    BY <1>2 DEF EndsOn, EndsIn
  <2>2. Has(Known, DownOn, EndsOn, Live(q), w, j)
    <3>1. w <= w
      BY SystemAssumption
    <3> QED
      BY <1>2, <2>1, <3>1 DEF Has
  <2> QED
    BY <1>2, <1>7, <2>2 DEF Holding
<1>11. AbstractFarm!ReportEnd(w, j)
  <2>1. AbstractFarm!Leads(AbstractFarm!EndReported(farm, w, j, outcome),
                           [Held EXCEPT ![w] = @ \ S], Known \ gone)
    BY <1>6, <1>7, <1>9 DEF Without
  <2> QED
    BY <1>2, <1>3, <1>10, <2>1 DEF AbstractFarm!ReportEnd
<1> QED
  BY <1>2, <1>6, <1>11 DEF AbstractStep, AbstractFarm!Next, AbstractFarm!WorkerStep

\* An agent says how it is.
LEMMA StatusKeeps ==
  ASSUME SystemInv, NEW w \in Workers, Receive(w),
         Head(up[w]).type # "register", Head(up[w]).type \notin Ends
  PROVE  SystemInv' /\ AbstractStep
<1>0. /\ Quiet(farm) /\ Wires /\ Agents /\ up[w] # <<>> /\ up' = [up EXCEPT ![w] = Tail(@)]
  BY DEF SystemInv, Receive
<1>1. /\ w \in Known /\ w \notin gone /\ Head(up[w]).healthy \in BOOLEAN
      /\ \A v \in Workers \ {w} : EndsIn(up'[v]) = EndsIn(up[v])
      /\ EndsIn(up'[w]) = EndsIn(up[w])
  <2>1. /\ w \in Known /\ w \notin gone /\ Head(up[w]) \in Message
        /\ \A v \in Workers \ {w} : EndsIn(up'[v]) = EndsIn(up[v])
        /\ \A j : j \in EndsIn(up[w])
                    <=> j \in EndsIn(up'[w]) \/ (Head(up[w]).type \in Ends /\ j = Head(up[w]).job)
    BY <1>0, ReceivedUp
  <2> QED
    BY <2>1 DEF Message
<1>2. Held = Holding(Known \cup {}, DownOn, EndsOn', Live(q))
  <2>1. EndsOn' = EndsOn /\ Known \cup {} = Known
    BY <1>1 DEF EndsOn, EndsIn
  <2> QED
    BY <1>0, <2>1, HeldIs
<1>3. \/ \E healthy \in BOOLEAN :
           Handled(w, Head(up[w])) = {Farm!HealthReported(farm, w, healthy)}
      \/ Handled(w, Head(up[w])) = {Farm!BusyReported(farm, w)}
  BY <1>1 DEF Handled, Ends
<1>4. \A g \in Handled(w, Head(up[w])) : Leading(farm, g, {}, {})
  BY <1>0, <1>3, ReportsOnward, OnwardLeading
<1>5. SystemInv' /\ AbstractFarm!Leads(Handled(w, Head(up[w])), Held, Known \ gone)
  <2>1. /\ SystemInv'
        /\ AbstractFarm!Leads(Handled(w, Head(up[w])), Held, (Known \cup {}) \ gone)
    BY <1>2, <1>4, ReceiveStep
  <2>2. Known \cup {} = Known
    OBVIOUS
  <2> QED
    BY <2>1, <2>2
<1>6. AbstractFarm!ReportHealth(w) \/ AbstractFarm!ReportBusy(w)
  BY <1>1, <1>3, <1>5, SameWorkers DEF AbstractFarm!ReportHealth, AbstractFarm!ReportBusy
<1> QED
  BY <1>5, <1>6 DEF AbstractStep, AbstractFarm!Next, AbstractFarm!WorkerStep

\* A message arrives at the coordinator.
LEMMA ReceiveKeeps ==
  ASSUME SystemInv, NEW w \in Workers, Receive(w)
  PROVE  SystemInv' /\ AbstractStep
BY RegistrationKeeps, EndKeeps, StatusKeeps

-----------------------------------------------------------------------------
(* The steps of the network and of the agent *)

\* What is in transit is lost.
LEMMA LoseKeeps ==
  ASSUME SystemInv, NEW w \in Workers, Lose(w)
  PROVE  SystemInv' /\ AbstractStep
<1>0. /\ Quiet(farm) /\ Wires /\ Sockets /\ Agents /\ Places /\ Remembered /\ CompletedWasRendered
      /\ ~ (w = sockets /\ conn = "open") /\ farm.status[w] # "new"
      /\ up' = [up EXCEPT ![w] = <<>>] /\ downward' = [downward EXCEPT ![w] = <<>>]
      /\ farm' = farm /\ sockets' = sockets /\ gone' = gone
      /\ rendered' = rendered /\ dropped' = dropped
      /\ q' = q /\ phase' = phase /\ conn' = conn
  BY DEF SystemInv, Lose, AgentIdles
<1>1. w \in Known /\ Known' = Known
  BY <1>0 DEF Known
<1>2. Agents'
  <2>1. AgentOK'
    BY <1>0 DEF Lose, AgentIdles, Agents, AgentOK, AgentTypeOK, QueueOK, Exact, Queued, Running,
                IdleMeansNoActive
  <2>2. \A j \in Jobs : Lone(phase', q'.st, j)
    BY <1>0 DEF Agents
  <2> QED
    BY <1>0, <2>1, <2>2 DEF Agents
<1>3. /\ up'[w] = <<>> /\ downward'[w] = <<>>
      /\ \A v \in Workers \ {w} : up'[v] = up[v] /\ downward'[v] = downward[v]
      /\ DOMAIN up' = Workers /\ up' = [v \in Workers |-> up'[v]]
      /\ DOMAIN downward' = Workers /\ downward' = [v \in Workers |-> downward'[v]]
  BY <1>0 DEF Wires
<1>4. Wires'
  <2>1. UpLink(w, Known, <<>>, sockets, rendered) /\ DownLink(w, Known, <<>>)
    <3>1. UpLink(w, Known, up[w], sockets, rendered)
      BY <1>0 DEF Wires
    <3> QED
      BY <1>1, <3>1 DEF UpLink, DownLink, True, Registers, Once
  <2>2. \A v \in Workers : UpLink(v, Known, up'[v], sockets, rendered) /\ DownLink(v, Known, downward'[v])
    BY <1>0, <1>3, <2>1 DEF Wires
  <2> QED
    BY <1>0, <1>1, <1>3, <2>2 DEF Wires
<1>5. Sockets'
  BY <1>0, <1>1, <1>3 DEF Sockets, GoneLink
<1>6. /\ \A v \in Workers, k \in Jobs : k \notin DownOn'[w] /\ k \notin EndsOn'[w]
      /\ \A v \in Workers \ {w}, k \in Jobs :
           (k \in DownOn'[v] <=> k \in DownOn[v]) /\ (k \in EndsOn'[v] <=> k \in EndsOn[v])
  <2>1. Range(<<>>) = {} /\ EndsIn(<<>>) = {}
    BY DEF Range, EndsIn
  <2>2. /\ \A v \in Workers : DownOn'[v] = Range(downward'[v]) /\ DownOn[v] = Range(downward[v])
        /\ \A v \in Workers : EndsOn'[v] = EndsIn(up'[v]) /\ EndsOn[v] = EndsIn(up[v])
    BY DEF DownOn, EndsOn, EndsIn
  <2> QED
    BY <1>3, <2>1, <2>2
<1>7. Places'
  <2>1. Leading(farm, farm, {}, {})
    BY <1>0, SameOnward, OnwardLeading
  <2>2. \A v \in Workers, j \in Jobs :
          /\ j \in DownOn'[v] => j \in DownOn[v] \/ <<v, j>> \in farm.outbox
          /\ j \in EndsOn'[v] => j \in EndsOn[v]
    BY <1>6
  <2>3. Apart(DownOn', EndsOn', Live(q), farm.job)
    <3>1. Apart(DownOn, EndsOn, Live(q), farm.job)
      BY <1>0 DEF Places
    <3> QED
      BY <2>1, <2>2, <3>1, LeadingApart
  <2>4. Numbered(Known, DownOn', EndsOn', Live(q))
    BY <1>0, <1>6 DEF Places, Numbered, Anywhere
  <2> QED
    BY <1>0, <1>1, <2>3, <2>4 DEF Places, Numbered, Apart, Single, Anywhere, Live
<1>8. Remembered'
  <2> SUFFICES ASSUME conn = "open", farm.current[sockets] # NoJob
               PROVE  \/ farm.current[sockets] \in DownOn'[sockets] \cup EndsOn'[sockets]
                      \/ farm.current[sockets] \in Live(q) \cup dropped
    BY <1>0 DEF Remembered, Live
  <2>1. sockets \in Workers \ {w}
    BY <1>0 DEF Sockets
  <2>2. farm.current[sockets] \in Jobs
    BY <1>0, <2>1 DEF Quiet, FarmOK, Farm!FarmType
  <2> QED
    BY <1>0, <1>6, <2>1, <2>2 DEF Remembered
<1>9. SystemInv'
  <2>1. Quiet(farm') /\ CompletedWasRendered'
    BY <1>0 DEF CompletedWasRendered
  <2> QED
    BY <1>2, <1>4, <1>5, <1>7, <1>8, <2>1 DEF SystemInv, Quiet, FarmOK
<1>10. PICK S \in SUBSET Jobs :
         Holding(Known, DownOn', EndsOn', Live(q)) = Without(Holding(Known, DownOn, EndsOn, Live(q)), w, S)
  <2>1. Numbered(Known, DownOn, EndsOn, Live(q))
    BY <1>0 DEF Places
  <2> QED
    BY <1>1, <1>6, <2>1, LoseHolding
<1>11. Held' = [Held EXCEPT ![w] = @ \ S]
  <2>1. Held = Holding(Known, DownOn, EndsOn, Live(q))
    BY <1>0, HeldIs
  <2>2. Held' = Holding(Known, DownOn', EndsOn', Live(q))
    BY <1>0, <1>1, <1>2, <1>4, HeldIsNext
  <2> QED
    BY <1>10, <2>1, <2>2 DEF Without
<1>12. AbstractFarm!Forget(w)
  BY <1>0, <1>1, <1>11 DEF AbstractFarm!Forget
<1> QED
  BY <1>9, <1>12 DEF AbstractStep, AbstractFarm!Next, AbstractFarm!WorkerStep

\* The agent says m, or nothing.
LEMMA WireUp ==
  ASSUME Wires, Sockets, sockets' = sockets, Known' = Known, rendered \subseteq rendered', OnTheWire,
         NEW m \in Message, m.type # "register", m.type \in Ends => m.job \in Jobs,
         m.type = "job:complete" => m.job \in rendered',
         sent' = <<>> \/ (sent' = <<m>> /\ conn' = "open" /\ sockets \in Workers)
  PROVE  /\ DOMAIN up' = Workers /\ up' = [w \in Workers |-> up'[w]]
         /\ \A w \in Workers : UpLink(w, Known', up'[w], sockets', rendered')
         /\ \A w \in Workers, k \in Jobs :
              k \in EndsOn'[w]
                <=> k \in EndsOn[w] \/ (sent' = <<m>> /\ w = sockets /\ m.type \in Ends /\ k = m.job)
<1>0. up' = [w \in Workers |-> IF w = sockets /\ conn' = "open" THEN up[w] \o sent' ELSE up[w]]
  BY DEF OnTheWire
<1>1. \A w \in Workers : EndsOn'[w] = EndsIn(up'[w]) /\ EndsOn[w] = EndsIn(up[w])
  BY DEF EndsOn, EndsIn
<1>2. \A w \in Workers : UpLink(w, Known, up[w], sockets, rendered) /\ up[w] \in Seq(Message)
  BY DEF Wires, UpLink
<1>3. \A w \in Workers :
        \A u : UpLink(w, Known, u, sockets, rendered) => UpLink(w, Known, u, sockets, rendered')
  BY DEF UpLink, True
<1>4. CASE sent' = <<>>
  <2>1. \A w \in Workers : up'[w] = up[w]
    BY <1>0, <1>2, <1>4, ConcatEmptySeq
  <2>2. sent' # <<m>>
    BY <1>4
  <2> QED
    BY <1>0, <1>1, <1>2, <1>3, <2>1, <2>2
<1>5. CASE sent' = <<m>> /\ conn' = "open" /\ sockets \in Workers
  <2>1. /\ up'[sockets] = up[sockets] \o <<m>>
        /\ \A w \in Workers \ {sockets} : up'[w] = up[w]
    BY <1>0, <1>5
  <2>2. UpLink(sockets, Known, up[sockets], sockets, rendered)
    BY <1>2, <1>5
  <2> DEFINE u == up[sockets]
  <2>a. u \in Seq(Message) /\ up'[sockets] = u \o <<m>>
    BY <1>2, <1>5, <2>1
  <2> HIDE DEF u
  <2>b. /\ u \o <<m>> \in Seq(Message) /\ u \o <<m>> # <<>>
        /\ \A j : j \in EndsIn(u \o <<m>>) <=> j \in EndsIn(u) \/ (m.type \in Ends /\ j = m.job)
        /\ Registers(u \o <<m>>) <=> Registers(u) \/ m.type = "register"
        /\ u # <<>> => Head(u \o <<m>>) = Head(u) /\ Tail(u \o <<m>>) = Tail(u) \o <<m>>
    BY <2>a, MessageSent
  <2>3. /\ up'[sockets] \in Seq(Message) /\ up'[sockets] # <<>>
        /\ \A j : j \in EndsIn(up'[sockets]) <=> j \in EndsIn(up[sockets]) \/ (m.type \in Ends /\ j = m.job)
        /\ Registers(up'[sockets]) <=> Registers(up[sockets]) \/ m.type = "register"
        /\ up[sockets] # <<>> =>
             /\ Head(up'[sockets]) = Head(up[sockets])
             /\ Tail(up'[sockets]) = Tail(up[sockets]) \o <<m>>
    BY <2>a, <2>b DEF u
  <2>4. True(up'[sockets], rendered')
    BY <1>2, <1>5, <2>1, <2>2, TrueSent DEF UpLink
  <2>5. sockets <= sockets
    BY <1>5, SystemAssumption
  <2>6. ASSUME sockets \notin Known
        PROVE  Head(up'[sockets]).type = "register" /\ ~ Registers(Tail(up'[sockets]))
    <3>1. up[sockets] # <<>> /\ Head(up[sockets]).type = "register" /\ ~ Registers(Tail(up[sockets]))
      BY <2>2, <2>5, <2>6 DEF UpLink
    <3>2. Tail(up[sockets]) \in Seq(Message)
      BY <1>2, <1>5, <3>1
    <3>3. ~ Registers(Tail(up[sockets]) \o <<m>>)
      BY <3>1, <3>2, MessageSent
    <3>4. /\ Head(up'[sockets]) = Head(up[sockets])
          /\ Tail(up'[sockets]) = Tail(up[sockets]) \o <<m>>
      BY <2>3, <3>1
    <3> QED
      BY <3>1, <3>3, <3>4
  <2>7. UpLink(sockets, Known, up'[sockets], sockets, rendered')
    BY <2>2, <2>3, <2>4, <2>5, <2>6 DEF UpLink
  <2>8. \A w \in Workers : UpLink(w, Known, up'[w], sockets, rendered')
    BY <1>2, <1>3, <2>1, <2>7
  <2>9. \A w \in Workers, k \in Jobs :
          k \in EndsOn'[w] <=> k \in EndsOn[w] \/ (w = sockets /\ m.type \in Ends /\ k = m.job)
    BY <1>1, <1>5, <2>1, <2>3
  <2> QED
    BY <1>0, <1>5, <2>8, <2>9
<1> QED
  BY <1>4, <1>5

\* The coordinator sees nothing of what the agent does, but that it forgets jobs.
LEMMA Unseen ==
  ASSUME SystemInv, farm' = farm, gone' = gone, rendered \subseteq rendered',
         Agents', Wires', Sockets', Places', Remembered',
         Held' = Held \/ \E w \in Workers, S \in SUBSET Jobs : Held' = Without(Held, w, S)
  PROVE  SystemInv' /\ AbstractStep
<1>1. Known' = Known
  BY DEF Known
<1>2. SystemInv'
  <2>1. Quiet(farm') /\ CompletedWasRendered'
    BY DEF SystemInv, CompletedWasRendered
  <2> QED
    BY <2>1 DEF SystemInv, Quiet, FarmOK
<1>3. ASSUME Held' = Held PROVE AbstractStep
  BY <1>1, <1>3 DEF AbstractStep, AbstractFarm!vars
<1>4. ASSUME NEW w \in Workers, NEW S \in SUBSET Jobs, Held' = Without(Held, w, S) PROVE AbstractStep
  <2>1. AbstractFarm!Forget(w)
    BY <1>1, <1>4 DEF AbstractFarm!Forget, Without
  <2> QED
    BY <2>1 DEF AbstractStep, AbstractFarm!Next, AbstractFarm!WorkerStep
<1> QED
  BY <1>2, <1>3, <1>4

\* The sockets stay what they are.
LEMMA SocketsKept ==
  ASSUME SystemInv, farm' = farm, sockets' = sockets, gone' = gone, OnTheWire, sent' \in Seq(Message),
         conn' = "open" => conn = "open",
         \A w \in gone : downward'[w] = downward[w]
  PROVE  Sockets'
<1>1. Sockets /\ Wires /\ Known' = Known
  BY DEF SystemInv, Known
<1>2. ASSUME NEW w \in gone PROVE GoneLink(w)'
  <2>1. GoneLink(w) /\ w \in Workers
    BY <1>1 DEF Sockets
  <2>2. up'[w] = up[w]
    BY <2>1 DEF OnTheWire, GoneLink
  <2> QED
    BY <1>1, <2>1, <2>2 DEF GoneLink
<1> QED
  BY <1>1, <1>2 DEF Sockets

\* The agent says t of job j.
LEMMA SaysKeeps ==
  ASSUME SystemInv, NEW j \in Jobs, NEW t \in MessageType \ {"register"}, Says(j, t), AgentOK',
         OnTheWire, UNCHANGED <<farm, sockets, gone, downward>>,
         rendered \subseteq rendered', rendered' \subseteq Jobs,
         dropped \subseteq dropped', dropped' \subseteq Jobs,
         t = "job:complete" => j \in rendered',
         t \notin Ends => j \in Live(q') \cup dropped'
  PROVE  SystemInv' /\ AbstractStep
<1> DEFINE m == About(t, j)
<1>0. /\ Quiet(farm) /\ Wires /\ Sockets /\ Agents /\ Places /\ Remembered
      /\ Known' = Known /\ conn' = conn /\ DownOn' = DownOn
  BY DEF SystemInv, Known, Says, DownOn
<1>1. m \in Message /\ m.type = t /\ m.job = j
  BY AboutType
<1>2. sent' = <<>> \/ (sent' = <<m>> /\ conn' = "open" /\ sockets \in Workers)
  BY <1>0 DEF Says, Send, Sockets
<1>3. conn = "open" => sent' = <<m>>
  BY DEF Says, Send
<1>4. Agents'
  BY DEF Agents, Says
<1> HIDE DEF m
<1>5. /\ DOMAIN up' = Workers /\ up' = [w \in Workers |-> up'[w]]
      /\ \A w \in Workers : UpLink(w, Known', up'[w], sockets', rendered')
      /\ \A w \in Workers, k \in Jobs :
           k \in EndsOn'[w]
             <=> k \in EndsOn[w] \/ (sent' = <<m>> /\ w = sockets /\ t \in Ends /\ k = j)
  BY <1>0, <1>1, <1>2, WireUp
<1>6. sent' \in Seq(Message)
  BY <1>1, <1>2, SentOK
<1>7. Wires'
  BY <1>0, <1>5 DEF Wires
<1>8. Sockets'
  BY <1>0, <1>6, SocketsKept
<1>9. /\ j \in Live(q) /\ (t \in Ends => j \notin Live(q'))
      /\ \A k \in Jobs \ {j} : k \in Live(q') <=> k \in Live(q)
  BY DEF Says
<1>10. Apart(DownOn, EndsOn', Live(q'), farm.job)
  <2>1. Apart(DownOn, EndsOn, Live(q), farm.job) /\ Single(DownOn, EndsOn, Live(q), j)
    BY <1>0 DEF Places, Apart
  <2>2. \A w \in Workers : j \notin DownOn[w] /\ j \notin EndsOn[w]
    BY <1>9, <2>1 DEF Single
  <2>3. \A w \in Workers : j \in EndsOn'[w] => w = sockets /\ j \notin Live(q')
    BY <1>5, <1>9, <2>2
  <2>4. Single(DownOn, EndsOn', Live(q'), j)
    BY <2>2, <2>3 DEF Single
  <2>5. Anywhere(DownOn, EndsOn', Live(q'), j) => Anywhere(DownOn, EndsOn, Live(q), j)
    BY <1>9 DEF Anywhere
  <2>6. \A k \in Jobs \ {j} :
          /\ k \in Live(q') => k \in Live(q)
          /\ \A w \in Workers : (k \in DownOn[w] => k \in DownOn[w]) /\ (k \in EndsOn'[w] => k \in EndsOn[w])
    BY <1>5, <1>9
  <2> QED
    BY <2>1, <2>4, <2>5, <2>6, MoveApart
<1>11. Numbered(Known, DownOn, EndsOn, Live(q))
  BY <1>0 DEF Places
<1>12. Known # {}
  BY <1>9, <1>11 DEF Numbered, Anywhere
<1>13. Places'
  <2>1. Numbered(Known, DownOn, EndsOn', Live(q'))
    BY <1>11, <1>12 DEF Numbered
  <2> QED
    BY <1>0, <1>10, <2>1 DEF Places, Numbered, Apart, Single, Anywhere, Live
<1>14. Remembered'
  <2> SUFFICES ASSUME conn = "open", farm.current[sockets] # NoJob
               PROVE  \/ farm.current[sockets] \in DownOn[sockets] \cup EndsOn'[sockets]
                      \/ farm.current[sockets] \in Live(q') \cup dropped'
    BY <1>0 DEF Remembered, Live
  <2>1. sockets \in Workers
    BY <1>0 DEF Sockets
  <2>2. farm.current[sockets] \in Jobs
    BY <1>0, <2>1 DEF Quiet, FarmOK, Farm!FarmType
  <2>3. \/ farm.current[sockets] \in DownOn[sockets] \cup EndsOn[sockets]
        \/ farm.current[sockets] \in Live(q) \cup dropped
    BY <1>0 DEF Remembered
  <2>4. t \in Ends => j \in EndsOn'[sockets]
    BY <1>3, <1>5, <2>1
  <2> QED
    BY <1>5, <1>9, <2>1, <2>2, <2>3, <2>4
<1>15. Held' = Held \/ \E w \in Workers, S \in SUBSET Jobs : Held' = Without(Held, w, S)
  <2>1. \A v \in Known : v <= sockets
    BY <1>0 DEF Wires, UpLink, Known
  <2>2. \A k \in Jobs :
          /\ k \in Live(q') => k \in Live(q)
          /\ \A v \in Workers : k \in EndsOn'[v] => k \in EndsOn[v] \/ (v = sockets /\ k \in Live(q))
          /\ \A v \in Workers : k \in EndsOn[v] => k \in EndsOn'[v]
    BY <1>5, <1>9
  <2>3. Held = Holding(Known, DownOn, EndsOn, Live(q))
    BY <1>0, HeldIs
  <2>4. Held' = Holding(Known, DownOn, EndsOn', Live(q'))
    BY <1>0, <1>4, <1>7, HeldIsNext
  <2>5. \/ Holding(Known, DownOn, EndsOn', Live(q')) = Holding(Known, DownOn, EndsOn, Live(q))
        \/ \E w \in Workers, S \in SUBSET Jobs :
             Holding(Known, DownOn, EndsOn', Live(q'))
               = Without(Holding(Known, DownOn, EndsOn, Live(q)), w, S)
    BY <1>11, <2>1, <2>2, WorkHolding
  <2> QED
    BY <2>3, <2>4, <2>5
<1> QED
  BY <1>4, <1>7, <1>8, <1>13, <1>14, <1>15, Unseen

\* The agent says nothing of jobs.
LEMMA SilentKeeps ==
  ASSUME SystemInv, Agents', Live(q') = Live(q), OnTheWire,
         UNCHANGED <<farm, sockets, gone, downward, rendered, dropped>>,
         conn' = "open" => conn = "open",
         NEW m \in Message, m.type = "health", sent' = <<>> \/ (sent' = <<m>> /\ conn' = "open")
  PROVE  SystemInv' /\ AbstractStep
<1>0. /\ Quiet(farm) /\ Wires /\ Sockets /\ Agents /\ Places /\ Remembered
      /\ Known' = Known /\ DownOn' = DownOn
      /\ "health" \notin Ends
  BY DEF SystemInv, Known, DownOn, Ends
<1>1. /\ DOMAIN up' = Workers /\ up' = [w \in Workers |-> up'[w]]
      /\ \A w \in Workers : UpLink(w, Known', up'[w], sockets', rendered')
      /\ \A w \in Workers, k \in Jobs : k \in EndsOn'[w] <=> k \in EndsOn[w]
  <2>1. sent' = <<>> \/ (sent' = <<m>> /\ conn' = "open" /\ sockets \in Workers)
    BY <1>0 DEF Sockets
  <2>2. m.type # "register" /\ m.type # "job:complete" /\ m.type \notin Ends
    BY <1>0
  <2> QED
    BY <1>0, <2>1, <2>2, WireUp
<1>2. sent' \in Seq(Message)
  BY SentOK
<1>3. Wires'
  BY <1>0, <1>1 DEF Wires
<1>4. Sockets'
  BY <1>0, <1>2, SocketsKept
<1>5. /\ Numbered(Known, DownOn, EndsOn', Live(q'))
      /\ Apart(DownOn, EndsOn', Live(q'), farm.job)
  BY <1>0, <1>1 DEF Places, Numbered, Apart, Single, Anywhere
<1>6. Places'
  BY <1>0, <1>5 DEF Places, Numbered, Apart, Single, Anywhere, Live
<1>7. Remembered'
  <2> SUFFICES ASSUME conn = "open", farm.current[sockets] # NoJob
               PROVE  \/ farm.current[sockets] \in DownOn[sockets] \cup EndsOn'[sockets]
                      \/ farm.current[sockets] \in Live(q') \cup dropped
    BY <1>0 DEF Remembered, Live
  <2>1. sockets \in Workers
    BY <1>0 DEF Sockets
  <2>2. farm.current[sockets] \in Jobs
    BY <1>0, <2>1 DEF Quiet, FarmOK, Farm!FarmType
  <2> QED
    BY <1>0, <1>1, <2>1, <2>2 DEF Remembered
<1>8. Held' = Held
  <2>1. Held = Holding(Known, DownOn, EndsOn, Live(q))
    BY <1>0, HeldIs
  <2>2. Held' = Holding(Known, DownOn, EndsOn', Live(q'))
    BY <1>0, <1>3, HeldIsNext
  <2>3. \A w \in Workers, k \in Jobs :
          Has(Known, DownOn, EndsOn', Live(q'), w, k) <=> Has(Known, DownOn, EndsOn, Live(q), w, k)
    BY <1>1 DEF Has
  <2> QED
    BY <2>1, <2>2, <2>3 DEF Holding
<1> QED
  BY <1>3, <1>4, <1>6, <1>7, <1>8, Unseen

\* The agent opens a socket: it is not known yet.
LEMMA ConnectsKeeps ==
  ASSUME SystemInv, AgentConnects
  PROVE  SystemInv' /\ AbstractStep
<1> DEFINE m == About("register", NoJob)
           n == sockets + 1
<1>0. /\ Quiet(farm) /\ Wires /\ Sockets /\ Agents /\ Places /\ Remembered
      /\ Known' = Known /\ DownOn' = DownOn
      /\ n \in Workers /\ sockets' = n /\ conn' = "open" /\ sent' = <<m>>
      /\ farm' = farm /\ gone' = gone /\ downward' = downward
      /\ rendered' = rendered /\ dropped' = dropped /\ q' = q /\ phase' = phase
      /\ Workers \subseteq Nat /\ sockets \in Nat
  BY SystemAssumption DEF SystemInv, Known, DownOn, AgentConnects, Open, Sockets
<1>1. m \in Message /\ m.type = "register"
  BY AboutType DEF MessageType
<1>2. up' = [w \in Workers |-> IF w = n THEN up[w] \o <<m>> ELSE up[w]]
  BY <1>0 DEF AgentConnects, OnTheWire
<1>3. \A w \in Workers : w <= n <=> w <= sockets \/ w = n
  BY <1>0
<1>4. ~ (n <= sockets)
  BY <1>0
<1> HIDE DEF m, n
<1>5. Agents'
  <2>1. AgentOK'
    BY <1>0, OtherTypes DEF AgentConnects, ConnectionStep, Agents
  <2> QED
    BY <1>0, <2>1 DEF Agents
<1>6. n \notin Known /\ up[n] = <<>> /\ n \notin gone
  <2>1. UpLink(n, Known, up[n], sockets, rendered)
    BY <1>0 DEF Wires
  <2>2. n \notin Known /\ up[n] = <<>>
    BY <1>4, <2>1 DEF UpLink
  <2> QED
    BY <1>0, <2>2 DEF Sockets, GoneLink
<1>7. /\ up'[n] = <<m>> /\ \A w \in Workers \ {n} : up'[w] = up[w]
      /\ DOMAIN up' = Workers /\ up' = [w \in Workers |-> up'[w]]
  <2>1. <<>> \o <<m>> = <<m>>
    <3>1. <<m>> \in Seq(Message)
      BY <1>1
    <3> QED
      BY <3>1, ConcatEmptySeq
  <2> QED
    BY <1>0, <1>2, <1>6, <2>1
<1>8. UpLink(n, Known, up'[n], n, rendered)
  <2>1. <<m>> \in Seq(Message) /\ <<m>> # <<>> /\ Head(<<m>>) = m /\ Tail(<<m>>) = <<>>
    BY <1>1
  <2>2. True(<<m>>, rendered)
    BY <1>1 DEF True, Ends
  <2>3. ~ Registers(<<>>)
    BY DEF Registers
  <2> QED
    BY <1>0, <1>1, <1>6, <1>7, <2>1, <2>2, <2>3 DEF UpLink
<1>9. \A w \in Workers \ {n} : UpLink(w, Known, up'[w], n, rendered)
  <2> SUFFICES ASSUME NEW w \in Workers \ {n} PROVE UpLink(w, Known, up[w], n, rendered)
    BY <1>7
  <2>1. UpLink(w, Known, up[w], sockets, rendered) /\ (w <= n <=> w <= sockets)
    BY <1>0, <1>3 DEF Wires
  <2> QED
    BY <2>1 DEF UpLink
<1>10. Wires'
  BY <1>0, <1>7, <1>8, <1>9 DEF Wires
<1>11. Sockets'
  BY <1>0, <1>6, <1>7 DEF Sockets, GoneLink
<1>12. EndsOn' = EndsOn
  <2>1. EndsIn(<<m>>) = {} /\ EndsIn(<<>>) = {}
    BY <1>1 DEF EndsIn, Range, Ends
  <2>2. \A w \in Workers : EndsIn(up'[w]) = EndsIn(up[w])
    BY <1>0, <1>6, <1>7, <2>1
  <2> QED
    BY <2>2 DEF EndsOn, EndsIn
<1>13. Places'
  BY <1>0, <1>12 DEF Places, Numbered, Apart, Single, Anywhere, Live
<1>14. Remembered'
  <2>1. farm.status[n] = "new"
    BY <1>0, <1>6 DEF Known
  <2>2. farm.current[n] = NoJob
    BY <1>0, <2>1 DEF Quiet, FarmOK, Farm!Present
  <2> QED
    BY <1>0, <2>2 DEF Remembered
<1>15. Held' = Held
  <2>1. Held = Holding(Known, DownOn, EndsOn, Live(q))
    BY <1>0, HeldIs
  <2>2. Held' = Holding(Known, DownOn, EndsOn, Live(q))
    BY <1>0, <1>5, <1>10, <1>12, HeldIsNext
  <2> QED
    BY <2>1, <2>2
<1> QED
  BY <1>0, <1>5, <1>10, <1>11, <1>13, <1>14, <1>15, Unseen

\* An assignment arrives at the agent.
LEMMA ReceivesKeeps ==
  ASSUME SystemInv, AgentReceives
  PROVE  SystemInv' /\ AbstractStep
<1> DEFINE s == sockets
<1>0. /\ Quiet(farm) /\ Wires /\ Sockets /\ Agents /\ Places /\ Remembered
      /\ Known' = Known /\ s \in Workers /\ sockets' = sockets
      /\ downward[s] # <<>> /\ Assign(Head(downward[s]))
      /\ downward' = [downward EXCEPT ![s] = Tail(@)]
      /\ farm' = farm /\ gone' = gone /\ rendered' = rendered /\ dropped' = dropped
      /\ conn = "open" /\ OnTheWire
  BY DEF SystemInv, Known, AgentReceives, Sockets
<1>1. PICK j : j = Head(downward[s])
  OBVIOUS
<1>2. UpLink(s, Known, up[s], s, rendered) /\ DownLink(s, Known, downward[s])
  BY <1>0 DEF Wires
<1>3. /\ j \in Jobs /\ Tail(downward[s]) \in Seq(Jobs) /\ Once(Tail(downward[s]))
      /\ j \in Range(downward[s])
      /\ \A k : k \in Range(Tail(downward[s])) <=> k \in Range(downward[s]) /\ k # j
  BY <1>0, <1>1, <1>2, JobArrived DEF DownLink
<1>4. s \in Known
  BY <1>0, <1>2 DEF DownLink
<1>5. /\ downward'[s] = Tail(downward[s])
      /\ \A w \in Workers \ {s} : downward'[w] = downward[w]
      /\ DOMAIN downward' = Workers /\ downward' = [w \in Workers |-> downward'[w]]
  BY <1>0 DEF Wires
<1>6. \A w \in Workers : DownOn'[w] = Range(downward'[w]) /\ DownOn[w] = Range(downward[w])
  BY DEF DownOn
<1>7. /\ \A k : k \in DownOn'[s] <=> k \in DownOn[s] /\ k # j
      /\ \A w \in Workers \ {s} : DownOn'[w] = DownOn[w]
      /\ j \in DownOn[s]
  BY <1>0, <1>3, <1>5, <1>6
<1>8. /\ Apart(DownOn, EndsOn, Live(q), farm.job) /\ Numbered(Known, DownOn, EndsOn, Live(q))
      /\ Single(DownOn, EndsOn, Live(q), j)
  BY <1>0, <1>3 DEF Places, Apart
<1>9. /\ j \notin Live(q) /\ \A w \in Workers : j \notin EndsOn[w]
      /\ \A w \in Workers \ {s} : j \notin DownOn[w]
  BY <1>0, <1>7, <1>8 DEF Single
<1>10. AgentOK /\ AgentOK'
  BY <1>0, <1>1, <1>3, OtherTypes DEF Agents
<1>11. /\ conn' = conn
       /\ \A k \in Jobs : Lone(phase', q'.st, k)
       /\ \A k \in Jobs \ {j} : k \in Live(q') <=> k \in Live(q)
       /\ \/ j \notin Live(q') /\ sent' = <<About("job:reject", j)>>
          \/ j \in Live(q') /\ sent' = <<About("job:queued", j)>>
          \/ j \in Live(q') /\ sent' = <<>>
  BY <1>0, <1>1, <1>3, <1>9, <1>10, AssignTakes DEF Agents
<1>12. Agents'
  BY <1>0, <1>10, <1>11 DEF Agents
<1>13. PICK t \in {"job:reject", "job:queued"} :
         /\ sent' = <<>> \/ sent' = <<About(t, j)>>
         /\ (j \notin Live(q') /\ t \in Ends /\ sent' = <<About(t, j)>>)
            \/ (j \in Live(q') /\ t \notin Ends)
  BY <1>11 DEF Ends
<1>14. /\ DOMAIN up' = Workers /\ up' = [w \in Workers |-> up'[w]]
       /\ \A w \in Workers : UpLink(w, Known', up'[w], sockets', rendered')
       /\ \A w \in Workers, k \in Jobs :
            k \in EndsOn'[w] <=> k \in EndsOn[w] \/ (w = s /\ t \in Ends /\ k = j)
       /\ sent' \in Seq(Message)
  <2> DEFINE m == About(t, j)
  <2>1. m \in Message /\ m.type = t /\ m.job = j
    BY <1>3, AboutType DEF MessageType
  <2>2. sent' = <<>> \/ (sent' = <<m>> /\ conn' = "open" /\ sockets \in Workers)
    BY <1>0, <1>11, <1>13
  <2>3. t \in Ends => sent' = <<m>>
    BY <1>13
  <2> HIDE DEF m
  <2>4. /\ DOMAIN up' = Workers /\ up' = [w \in Workers |-> up'[w]]
        /\ \A w \in Workers : UpLink(w, Known', up'[w], sockets', rendered')
        /\ \A w \in Workers, k \in Jobs :
             k \in EndsOn'[w]
               <=> k \in EndsOn[w] \/ (sent' = <<m>> /\ w = sockets /\ t \in Ends /\ k = j)
    BY <1>0, <1>3, <2>1, <2>2, WireUp
  <2>5. sent' \in Seq(Message)
    BY <2>1, <2>2, SentOK
  <2> QED
    BY <2>3, <2>4, <2>5
<1>15. Wires'
  <2>1. \A w \in Workers : DownLink(w, Known, downward'[w])
    BY <1>0, <1>3, <1>4, <1>5 DEF Wires, DownLink
  <2> QED
    BY <1>0, <1>5, <1>14, <2>1 DEF Wires
<1>16. Sockets'
  <2>1. \A w \in gone : downward'[w] = downward[w]
    BY <1>0, <1>5 DEF Sockets, GoneLink
  <2> QED
    BY <1>0, <1>11, <1>14, <2>1, SocketsKept
<1>17. Apart(DownOn', EndsOn', Live(q'), farm.job)
  <2>1. Single(DownOn', EndsOn', Live(q'), j)
    BY <1>7, <1>9, <1>13, <1>14, <1>3 DEF Single
  <2>2. Anywhere(DownOn, EndsOn, Live(q), j)
    BY <1>0, <1>7 DEF Anywhere
  <2>3. \A k \in Jobs \ {j} :
          /\ k \in Live(q') => k \in Live(q)
          /\ \A w \in Workers : (k \in DownOn'[w] => k \in DownOn[w]) /\ (k \in EndsOn'[w] => k \in EndsOn[w])
    BY <1>7, <1>11, <1>14
  <2> QED
    BY <1>3, <1>8, <2>1, <2>2, <2>3, MoveApart
<1>18. Numbered(Known, DownOn', EndsOn', Live(q'))
  BY <1>4, <1>7, <1>8 DEF Numbered
<1>19. Places'
  BY <1>0, <1>17, <1>18 DEF Places, Numbered, Apart, Single, Anywhere, Live
<1>20. Remembered'
  <2> SUFFICES ASSUME farm.current[s] # NoJob
               PROVE  \/ farm.current[s] \in DownOn'[s] \cup EndsOn'[s]
                      \/ farm.current[s] \in Live(q') \cup dropped
    BY <1>0 DEF Remembered, Live
  <2>1. farm.current[s] \in Jobs
    BY <1>0 DEF Quiet, FarmOK, Farm!FarmType
  <2>2. \/ farm.current[s] \in DownOn[s] \cup EndsOn[s]
        \/ farm.current[s] \in Live(q) \cup dropped
    BY <1>0 DEF Remembered
  <2> QED
    BY <1>0, <1>7, <1>11, <1>13, <1>14, <2>1, <2>2
<1>21. Held' = Held
  <2>1. Held = Holding(Known, DownOn, EndsOn, Live(q))
    BY <1>0, HeldIs
  <2>2. Held' = Holding(Known, DownOn', EndsOn', Live(q'))
    BY <1>0, <1>12, <1>15, HeldIsNext
  <2>3. \A v \in Known : v <= s
    BY <1>0 DEF Wires, UpLink, Known
  <2>4. j \in Live(q') \/ j \in EndsOn'[s]
    BY <1>0, <1>3, <1>13, <1>14
  <2>5. \A k \in Jobs \ {j} :
          /\ k \in Live(q') <=> k \in Live(q)
          /\ \A v \in Workers :
               (k \in DownOn'[v] <=> k \in DownOn[v]) /\ (k \in EndsOn'[v] <=> k \in EndsOn[v])
    BY <1>7, <1>11, <1>14
  <2>6. \A v \in Workers \ {s} :
          (j \in DownOn'[v] <=> j \in DownOn[v]) /\ (j \in EndsOn'[v] <=> j \in EndsOn[v])
    BY <1>3, <1>7, <1>14
  <2> HIDE DEF s
  <2>7. Holding(Known, DownOn', EndsOn', Live(q')) = Holding(Known, DownOn, EndsOn, Live(q))
    BY <1>3, <1>4, <1>7, <1>8, <2>3, <2>4, <2>5, <2>6, ArriveHolding
  <2> QED
    BY <2>1, <2>2, <2>7
<1> QED
  BY <1>0, <1>12, <1>15, <1>16, <1>19, <1>20, <1>21, Unseen

\* An attempt goes on.
LEMMA AttemptKeeps ==
  ASSUME SystemInv, NEW j \in Jobs, NEW n \in Slots,
         \/ Preflight(j, n)
            /\ dropped' = dropped \cup { k \in {j} : phase'[j][n] = "free" /\ q'.st[j] = "absent" }
            /\ UNCHANGED rendered
         \/ DispatchCompleted(j, n) /\ rendered' = rendered \cup {j} /\ UNCHANGED dropped
         \/ DispatchFailed(j, n) /\ UNCHANGED <<rendered, dropped>>,
         UNCHANGED <<farm, sockets, gone, downward>>, OnTheWire
  PROVE  SystemInv' /\ AbstractStep
<1>0. Agents /\ AgentOK /\ \A k \in Jobs : Lone(phase, q.st, k)
  BY DEF SystemInv, Agents
<1>1. AgentOK'
  BY <1>0, AttemptTypes DEF AttemptStep
<1>2. /\ rendered \subseteq rendered' /\ rendered' \subseteq Jobs
      /\ dropped \subseteq dropped' /\ dropped' \subseteq Jobs
  BY <1>0 DEF Agents
<1>3. /\ {"job:started", "job:retrying", "job:complete", "job:failed"} \subseteq MessageType \ {"register"}
      /\ "job:started" \notin Ends /\ "job:retrying" \notin Ends
      /\ "job:complete" \in Ends /\ "job:failed" \in Ends
  BY DEF MessageType, Ends
<1>4. CASE /\ Preflight(j, n)
           /\ dropped' = dropped \cup { k \in {j} : phase'[j][n] = "free" /\ q'.st[j] = "absent" }
  <2>1. CASE Says(j, "job:started") /\ j \in Live(q')
    BY <1>1, <1>2, <1>3, <2>1, SaysKeeps
  <2>2. CASE Says(j, "job:retrying") /\ phase'[j][n] = "free"
    <3>1. j \in Live(q') \cup dropped'
      BY <1>4, <2>2 DEF Live
    <3> QED
      BY <1>1, <1>2, <1>3, <2>2, <3>1, SaysKeeps
  <2> QED
    BY <1>0, <1>4, <2>1, <2>2, AttemptSays
<1>5. CASE DispatchCompleted(j, n) /\ rendered' = rendered \cup {j}
  <2>1. Says(j, "job:complete") /\ j \in rendered'
    BY <1>0, <1>5, AttemptSays
  <2> QED
    BY <1>1, <1>2, <1>3, <2>1, SaysKeeps
<1>6. CASE DispatchFailed(j, n)
  <2>1. Says(j, "job:failed") \/ (Says(j, "job:retrying") /\ j \in Live(q'))
    BY <1>0, <1>6, AttemptSays
  <2> QED
    BY <1>1, <1>2, <1>3, <2>1, SaysKeeps
<1> QED
  BY <1>4, <1>5, <1>6

\* The periodic health check, and a connection that is begun or lost.
LEMMA HealthKeeps ==
  ASSUME SystemInv, NEW healthy \in BOOLEAN, HealthTimer(healthy),
         UNCHANGED <<farm, sockets, gone, downward, rendered, dropped>>, OnTheWire
  PROVE  SystemInv' /\ AbstractStep
<1>0. /\ Agents /\ AgentOK /\ \A k \in Jobs : Lone(phase, q.st, k)
      /\ phase \in PhaseType /\ QueueOK(q)
  BY DEF SystemInv, Agents, AgentOK, AgentTypeOK, PhaseType
<1>1. AgentOK'
  BY <1>0, OtherTypes DEF TimerStep
<1>2. (\A k \in Jobs : Lone(phase', q'.st, k)) /\ (\A k \in Jobs : k \in Live(q') <=> k \in Live(q))
  <2>1. CASE ProcessNextQueued(q, phase, active, "idle")
    BY <1>0, <2>1, ProcessAlone DEF Live
  <2>2. CASE UNCHANGED <<q, phase>>
    BY <1>0, <2>2 DEF Live
  <2> QED
    BY <2>1, <2>2 DEF HealthTimer
<1>3. Agents' /\ Live(q') = Live(q)
  BY <1>0, <1>1, <1>2 DEF Agents, Live
<1>4. PICK m : m = [type |-> "health", job |-> NoJob, healthy |-> healthy]
  OBVIOUS
<1>5. m \in Message /\ m.type = "health"
  BY <1>4 DEF Message, MessageType
<1>6. conn' = conn /\ (sent' = <<>> \/ (sent' = <<m>> /\ conn' = "open"))
  BY <1>4 DEF HealthTimer, Send
<1> QED
  BY <1>3, <1>5, <1>6, SilentKeeps

\* A connection that opens or closes keeps the system's invariant, and takes the abstract
\* coordinator a step or none.
LEMMA ConnectionKeeps ==
  ASSUME SystemInv, Connect \/ Close,
         UNCHANGED <<farm, sockets, gone, downward, rendered, dropped>>, OnTheWire
  PROVE  SystemInv' /\ AbstractStep
<1>0. Agents /\ AgentOK /\ \A k \in Jobs : Lone(phase, q.st, k)
  BY DEF SystemInv, Agents
<1>1. AgentOK'
  BY <1>0, OtherTypes DEF ConnectionStep
<1>2. q' = q /\ phase' = phase /\ conn' # "open" /\ sent' = <<>>
  BY DEF Connect, Close
<1>3. Agents' /\ Live(q') = Live(q)
  BY <1>0, <1>1, <1>2 DEF Agents
<1>4. PICK m : m = About("health", NoJob)
  OBVIOUS
<1>5. m \in Message /\ m.type = "health"
  BY <1>4, AboutType DEF MessageType
<1> QED
  BY <1>2, <1>3, <1>5, SilentKeeps

-----------------------------------------------------------------------------
(* The theorems *)

\* Nothing is anywhere at first.
LEMMA SystemInitOK ==
  SystemInit => SystemInv /\ AbstractFarm!Init
<1>1. SUFFICES ASSUME SystemInit PROVE SystemInv /\ AbstractFarm!Init
  OBVIOUS
<1>2. /\ AgentInit /\ farm = Farm!EmptyFarm /\ sockets = 0 /\ gone = {}
      /\ up = [w \in Workers |-> <<>>] /\ downward = [w \in Workers |-> <<>>]
      /\ rendered = {} /\ dropped = {}
  BY <1>1 DEF SystemInit
<1>3. q.st = [j \in Jobs |-> "absent"] /\ phase = [j \in Jobs |-> [n \in Slots |-> "free"]]
      /\ conn = "closed"
  BY <1>2 DEF AgentInit, EmptyQueue
<1>4. AgentOK
  BY <1>2, AgentInitOK
<1>5. Agents
  BY <1>2, <1>3, <1>4 DEF Agents, Lone
<1>6. Quiet(farm)
  <2>1. /\ farm.status = [w \in Workers |-> "new"] /\ farm.current = [w \in Workers |-> NoJob]
        /\ farm.job = [j \in Jobs |-> "new"] /\ farm.assigned = [j \in Jobs |-> {}]
        /\ farm.created = SubmittedAt /\ farm.outbox = {}
        /\ farm = [status |-> farm.status, current |-> farm.current, job |-> farm.job,
                   assigned |-> farm.assigned, created |-> farm.created, outbox |-> farm.outbox]
    BY <1>2 DEF Farm!EmptyFarm
  <2>2. farm \in Farm!FarmType
    BY <2>1, SystemAssumption DEF Farm!FarmType
  <2> QED
    BY <2>1, <2>2 DEF Quiet, FarmOK
<1>7. Known = {} /\ Live(q) = {}
  BY <1>2, <1>3 DEF Known, Farm!EmptyFarm, Live
<1>8. \A w \in Workers, j \in Jobs : j \notin DownOn[w] /\ j \notin EndsOn[w]
  BY <1>2 DEF DownOn, EndsOn, Range
<1>9. Wires
  <2>1. \A w \in Workers : ~ (w <= 0)
    BY SystemAssumption
  <2> QED
    BY <1>2, <1>7, <2>1 DEF Wires, UpLink, DownLink, True, Once
<1>10. Sockets
  BY <1>2, <1>3 DEF Sockets
<1>11. Places
  BY <1>7, <1>8 DEF Places, Numbered, Apart, Single, Anywhere
<1>12. Remembered
  BY <1>3 DEF Remembered
<1>13. CompletedWasRendered
  BY <1>2 DEF CompletedWasRendered, Farm!EmptyFarm
<1>14. Held = [w \in Workers |-> {}]
  <2>1. Held = Holding(Known, DownOn, EndsOn, Live(q))
    BY <1>5, <1>9, HeldIs
  <2>2. \A w \in Workers, j \in Jobs : ~ Has(Known, DownOn, EndsOn, Live(q), w, j)
    BY <1>7, <1>8 DEF Has
  <2> QED
    BY <2>1, <2>2 DEF Holding
<1>15. AbstractFarm!Init
  BY <1>2, <1>7, <1>14 DEF AbstractFarm!Init, AbstractFarm!EmptyFarm, Farm!EmptyFarm
<1> QED
  BY <1>5, <1>6, <1>9, <1>10, <1>11, <1>12, <1>13, <1>15 DEF SystemInv

\* Every step keeps the invariant, and is a step of the abstract coordinator or none.
LEMMA SystemStep ==
  SystemInv /\ [SystemNext]_systemVars => SystemInv' /\ AbstractStep
<1>1. SUFFICES ASSUME SystemInv, [SystemNext]_systemVars PROVE SystemInv' /\ AbstractStep
  OBVIOUS
<1>2. CASE AgentConnects
  BY <1>1, <1>2, ConnectsKeeps
<1>3. CASE AgentWorks
  BY <1>1, <1>3, AttemptKeeps, HealthKeeps, ConnectionKeeps DEF AgentWorks
<1>4. CASE AgentReceives
  BY <1>1, <1>4, ReceivesKeeps
<1>5. CASE \E w \in Workers : Receive(w) \/ Lose(w) \/ SocketCloses(w) \/ WorkerStep(w)
  BY <1>1, <1>5, ReceiveKeeps, LoseKeeps, SocketClosesKeeps, WorkerStepKeeps
<1>6. CASE \E j \in Jobs : UserStep(j)
  BY <1>1, <1>6, UserStepKeeps
<1>7. CASE UNCHANGED systemVars
  <2>1. /\ UNCHANGED agentVars /\ farm' = farm /\ sockets' = sockets /\ gone' = gone
        /\ up' = up /\ downward' = downward /\ rendered' = rendered /\ dropped' = dropped
    BY <1>7 DEF systemVars
  <2>2. /\ Known' = Known /\ DownOn' = DownOn /\ EndsOn' = EndsOn /\ Held' = Held
    BY <2>1 DEF Known, DownOn, EndsOn, Held, AtAgent, agentVars
  <2>3. Agents'
    BY <1>1, <2>1 DEF SystemInv, agentVars, Agents, AgentOK, AgentTypeOK, QueueOK, Exact, Queued,
                      Running, IdleMeansNoActive
  <2>4. Wires' /\ Sockets' /\ Places' /\ Remembered'
    BY <1>1, <2>1, <2>2 DEF SystemInv, agentVars, Wires, Sockets, GoneLink, Places, Remembered,
                            Numbered, Apart, Single, Anywhere, Live
  <2> QED
    BY <1>1, <2>1, <2>2, <2>3, <2>4, Unseen
<1> QED
  BY <1>1, <1>2, <1>3, <1>4, <1>5, <1>6, <1>7 DEF SystemNext

\* A job is only completed if the agent has rendered it to the end, whatever is lost,
\* and however often the agent comes back.
THEOREM RenderedCorrect == SystemSpec => []CompletedWasRendered
<1>1. SystemInv => CompletedWasRendered
  BY DEF SystemInv
<1> QED
  BY <1>1, SystemInitOK, SystemStep, PTL DEF SystemSpec

\* The coordinator never waits for something that nobody will ever say: a job that the
\* worker of the open socket points at is in transit or at the agent, or was dropped.
THEOREM ForgetsCorrect == SystemSpec => []NobodyForgets
<1>1. SystemInv => NobodyForgets
  <2> SUFFICES ASSUME SystemInv, NEW w \in Farm!Registered(farm), w = sockets, conn = "open",
                      farm.current[w] # NoJob
               PROVE  farm.current[w] \in Held[w] \cup dropped
    BY DEF NobodyForgets
  <2>1. /\ Agents /\ Wires /\ Remembered /\ Quiet(farm)
        /\ w \in Workers /\ w \in Known
    BY DEF SystemInv, Farm!Registered, Farm!Present, Known
  <2>2. farm.current[w] \in Jobs
    BY <2>1 DEF Quiet, FarmOK, Farm!FarmType
  <2>3. \/ farm.current[w] \in DownOn[w] \cup EndsOn[w]
        \/ farm.current[w] \in Live(q) \cup dropped
    BY DEF SystemInv, Remembered
  <2>4. ~ (\E v \in Known : w < v) /\ w <= w
    <3>1. \A v \in Known : v <= w /\ v \in Workers
      BY <2>1 DEF Wires, UpLink, Known
    <3>2. Workers \subseteq Nat
      BY SystemAssumption
    <3> QED
      BY <2>1, <3>1, <3>2
  <2>5. farm.current[w] \in dropped \/ Has(Known, DownOn, EndsOn, Live(q), w, farm.current[w])
    BY <2>1, <2>3, <2>4 DEF Has
  <2>6. Held = Holding(Known, DownOn, EndsOn, Live(q))
    BY <2>1, HeldIs
  <2> QED
    BY <2>1, <2>2, <2>5, <2>6 DEF Holding
<1> QED
  BY <1>1, SystemInitOK, SystemStep, PTL DEF SystemSpec

\* The coordinator with the real agent implements the coordinator with abstract agents.
THEOREM SystemImplementsFarm == SystemSpec => ImplementsFarm
<1>1. SystemInv /\ [SystemNext]_systemVars => SystemInv' /\ [AbstractFarm!Next]_(AbstractFarm!vars)
  BY SystemStep DEF AbstractStep
<1> QED
  BY <1>1, SystemInitOK, PTL DEF SystemSpec, ImplementsFarm, AbstractFarm!Spec

=============================================================================
