--------------------------- MODULE OrchestratorProofs ---------------------------
(***************************************************************************)
(* The agent orchestrator and the wallet of its tokens.                    *)
(*                                                                         *)
(* What OrchestratorMachine keeps for any number of steps, any batches,    *)
(* numbers of attempts and budgets, in every mode: each operator from plan *)
(* to plan has a lemma that it keeps a plan Safe; those that move the loop *)
(* of the execution have another that they keep it on its way, and that it *)
(* ends well only when all has been done.                                  *)
(*                                                                         *)
(* Then, of TokenWallet: what the wallet holds adds up, and the wallet and *)
(* the metering service implement TokenAccount, for any number of jobs,    *)
(* any quotes and any amounts.  The totals are the library's folds: their  *)
(* recursion is given by a CHOOSE, so that a function with that recursion  *)
(* exists is the first thing to prove of them.                             *)
(***************************************************************************)
EXTENDS OrchestratorMachine, TokenWallet, FiniteSetTheorems, WellFoundedInduction, TLAPS

\* Among some numbers one is the least.
LEMMA LeastNumber ==
  ASSUME NEW A \in SUBSET Nat, A # {}
  PROVE  \E x \in A : \A y \in A : x <= y
<1> DEFINE R == OpToRel(<, Nat)
<1>1. IsWellFoundedOn(R, Nat)
  BY NatLessThanWellFounded
<1>2. \A x, y \in Nat : x < y => <<x, y>> \in R
  BY DEF OpToRel
<1> HIDE DEF R
<1>3. PICK x \in A : \A y \in A : ~ (<<y, x>> \in R)
  BY <1>1, WFMin
<1>4. ASSUME NEW y \in A PROVE x <= y
  <2>1. x \in Nat /\ y \in Nat /\ <<y, x>> \notin R
    BY <1>3
  <2>2. ~ (y < x)
    BY <1>2, <2>1
  <2> QED
    BY <2>1, <2>2
<1> QED
  BY <1>4

\* The least of some numbers is one of them, and none of them is less.
LEMMA MinIsMember ==
  ASSUME NEW A \in SUBSET Nat, A # {}
  PROVE  Min(A) \in A /\ \A y \in A : Min(A) <= y
BY LeastNumber DEF Min

\* So is the greatest, when they are finitely many: the number with the fewest above
\* it has none above it.
LEMMA MaxIsMember ==
  ASSUME NEW A \in SUBSET Nat, IsFiniteSet(A), A # {}
  PROVE  Max(A) \in A
<1> DEFINE Above(x) == { y \in A : x < y }
           N == { Cardinality(Above(x)) : x \in A }
<1>1. \A x \in A : IsFiniteSet(Above(x)) /\ Cardinality(Above(x)) \in Nat
  BY FS_Subset, FS_CardinalityType
<1>2. N \in SUBSET Nat /\ N # {}
  BY <1>1
<1>3. PICK x \in A : \A y \in A : Cardinality(Above(x)) <= Cardinality(Above(y))
  <2> HIDE DEF N, Above
  <2>1. Min(N) \in N /\ \A n \in N : Min(N) <= n
    BY <1>2, MinIsMember
  <2> QED
    BY <2>1 DEF N
<1>4. ASSUME NEW y \in A PROVE y <= x
  <2> SUFFICES ASSUME x < y PROVE FALSE
    OBVIOUS
  <2>1. Above(y) \subseteq Above(x) /\ y \in Above(x) /\ y \notin Above(y)
    <3>1. \A z \in A : y < z => x < z
      <4>1. A \subseteq Nat /\ x \in Nat /\ y \in Nat
        OBVIOUS
      <4> QED
        BY <4>1
    <3>2. ~ (y < y)
      <4>1. y \in Nat
        OBVIOUS
      <4> QED
        BY <4>1
    <3> QED
      BY <3>1, <3>2
  <2>2. Cardinality(Above(y)) < Cardinality(Above(x))
    <3> HIDE DEF Above
    <3>1. /\ Cardinality(Above(y)) <= Cardinality(Above(x))
          /\ Cardinality(Above(y)) = Cardinality(Above(x)) => Above(y) = Above(x)
      BY <1>1, <2>1, FS_Subset
    <3> QED
      BY <1>1, <2>1, <3>1
  <2> QED
    BY <1>1, <1>3, <2>2
<1> QED
  BY <1>4 DEF Max

-----------------------------------------------------------------------------
(* The invariant *)

\* A tool is called at most MaxAttempts times and a destructive one once, never before
\* its step is begun; a step that executes awaits its tool.
CallOK(p, s) ==
  /\ p.step[s] \in {"pending", "approved"} => p.tries[s] = 0
  /\ p.call[s] # "none" => p.tries[s] >= 1
  /\ p.call[s] = "backoff" => p.tries[s] < MaxAttempts
  /\ s \in Destructive => p.tries[s] <= 1 /\ p.call[s] # "backoff"
  /\ p.step[s] = "executing" => p.call[s] # "none"

\* A step that is approved is on the list of an execution that goes on.  A parallel
\* execution does not look at its list again: none of it may have been called, nor be
\* open to an approval of its own.
ListOK(p, s) ==
  /\ p.step[s] = "approved" => p.main = "racing" /\ s \in p.todo
  /\ p.mode = "parallel" /\ s \in p.todo => p.tries[s] = 0 /\ p.step[s] # "pending"

\* Only steps that completed have a compensation, what is marked has been undone, and
\* somebody is still to mark what has been undone.
EntryOK(p, s) ==
  /\ p.entry[s] # "none" =>
       /\ s \in Destructive /\ p.tries[s] >= 1 /\ p.call[s] = "none"
       /\ p.step[s] \in {"completed", "compensated"}
  /\ p.step[s] = "compensated" => p.entry[s] = "undone"
  /\ p.entry[s] = "undone" /\ p.step[s] = "completed" => \E c \in Callers : p.comp[c].on

\* What is undone had a compensation, the mark of a cancellation is taken away by the
\* one that set it, and a plan in preview has no execution.
WholeOK(p) ==
  /\ \A c \in Callers : p.comp[c].cur \in Steps => p.entry[p.comp[c].cur] # "none"
  /\ p.flag => p.comp["cancel"].on
  /\ p.comp["execution"].on => p.main = "compensating"
  /\ p.status = "preview" => p.main = "none" /\ p.todo = {} /\ p.waiting = {} /\ p.ok

StepsOK(p) == \A s \in Steps : CallOK(p, s) /\ ListOK(p, s) /\ EntryOK(p, s)

Safe(p) == p \in PlanType /\ StepsOK(p) /\ WholeOK(p)

\* While the execution goes on, each step but those of S is awaited, approved, done or
\* taken back with the plan, unless something went wrong.  The plan may be cancelled
\* under it, and nothing else becomes of it.
Racing(p, S) ==
  /\ p.status \in {"executing", "cancelled"} /\ (p.mode = "sequential" => p.ok)
  /\ \A s \in Steps \ S :
       /\ p.call[s] # "none" => s \in p.waiting
       /\ p.ok => s \in p.waiting \/ p.step[s] \in {"approved"} \cup Accounted(p.status)

\* So it is all the way; before, each of these steps is pending.
UnderWay(p, S) ==
  /\ p.status = "preview" => \A s \in Steps \ S : p.step[s] = "pending"
  /\ p.status = "executing" => p.main = "racing"
  /\ p.main = "racing" => Racing(p, S)

\* A plan becomes completed only when all these steps are accounted for.
EndsHonestly(p, q, S) ==
  p.status # "completed" /\ q.status = "completed" =>
    \A s \in Steps \ S : q.step[s] \in Accounted(p.status)

\* A step from p to q that keeps all this.
Fine(p, q, S) == Safe(q) /\ UnderWay(q, S) /\ EndsHonestly(p, q, S)

\* A new plan is safe.
LEMMA NewPlanSafe ==
  ASSUME NEW mode \in Modes
  PROVE  Safe(NewPlan(mode)) /\ UnderWay(NewPlan(mode), {})
<1> DEFINE p == NewPlan(mode)
<1>1. p \in PlanType
  BY OrchestratorAssumption DEF NewPlan, PlanType, Resting, StepStatus
<1>2. /\ p.step = [s \in Steps |-> "pending"] /\ p.call = [s \in Steps |-> "none"]
      /\ p.tries = [s \in Steps |-> 0] /\ p.entry = [s \in Steps |-> "none"]
      /\ p.comp = [c \in Callers |-> Resting] /\ p.flag = FALSE /\ p.status = "preview"
      /\ p.main = "none" /\ p.todo = {} /\ p.waiting = {} /\ p.ok = TRUE
  BY DEF NewPlan
<1> HIDE DEF p
<1>3. StepsOK(p)
  BY <1>2, OrchestratorAssumption DEF StepsOK, CallOK, ListOK, EntryOK
<1>4. WholeOK(p)
  BY <1>2, OrchestratorAssumption DEF WholeOK, Resting, Callers
<1>5. UnderWay(p, {})
  BY <1>2 DEF UnderWay
<1> QED
  BY <1>1, <1>3, <1>4, <1>5 DEF Safe, p

-----------------------------------------------------------------------------
(* Giving steps a status *)

\* Where two plans differ in nothing but the status of their steps.
SameButSteps(p, q) ==
  /\ q.mode = p.mode /\ q.status = p.status /\ q.active = p.active /\ q.call = p.call
  /\ q.tries = p.tries /\ q.used = p.used /\ q.flag = p.flag /\ q.main = p.main
  /\ q.todo = p.todo /\ q.waiting = p.waiting /\ q.ok = p.ok /\ q.entry = p.entry
  /\ q.comp = p.comp

\* SetSteps() does that.
LEMMA SetStepsFields ==
  ASSUME NEW p \in PlanType, NEW S, NEW t \in StepStatus
  PROVE  /\ SetSteps(p, S, t) \in PlanType /\ SameButSteps(p, SetSteps(p, S, t))
         /\ SetSteps(p, S, t).step = [s \in Steps |-> IF s \in S THEN t ELSE p.step[s]]
BY DEF SetSteps, PlanType, SameButSteps

\* Steps without a compensation may be given up.
LEMMA SetStepsSafe ==
  ASSUME NEW p, Safe(p), NEW S, NEW t \in {"failed", "cancelled"},
         \A s \in S \cap Steps : p.entry[s] = "none"
  PROVE  Safe(SetSteps(p, S, t))
<1> DEFINE q == SetSteps(p, S, t)
<1>1. t \in StepStatus
  BY DEF StepStatus
<1>2. p \in PlanType
  BY DEF Safe
<1>3. q \in PlanType /\ SameButSteps(p, q) /\ q.step = [s \in Steps |-> IF s \in S THEN t ELSE p.step[s]]
  BY <1>1, <1>2, SetStepsFields
<1> HIDE DEF q
<1>4. StepsOK(q)
  <2> SUFFICES ASSUME NEW s \in Steps PROVE CallOK(q, s) /\ ListOK(q, s) /\ EntryOK(q, s)
    BY DEF StepsOK
  <2>1. CallOK(p, s) /\ ListOK(p, s) /\ EntryOK(p, s)
    BY DEF Safe, StepsOK
  <2>2. CASE s \in S
    <3>1. q.step[s] = t /\ p.entry[s] = "none"
      BY <1>3, <2>2
    <3> QED
      BY <1>3, <2>1, <3>1 DEF SameButSteps, CallOK, ListOK, EntryOK
  <2>3. CASE s \notin S
    <3>1. q.step[s] = p.step[s]
      BY <1>3, <2>3
    <3> QED
      BY <1>3, <2>1, <3>1 DEF SameButSteps, CallOK, ListOK, EntryOK
  <2> QED
    BY <2>2, <2>3
<1>5. WholeOK(q)
  BY <1>3 DEF SameButSteps, Safe, WholeOK
<1> QED
  BY <1>3, <1>4, <1>5 DEF Safe, q

\* So may those that have not completed.
LEMMA UncompletedSafe ==
  ASSUME NEW p, Safe(p), NEW states, states \cap {"completed", "compensated"} = {},
         NEW t \in {"failed", "cancelled"}
  PROVE  Safe(SetSteps(p, StepsIn(p, states), t))
<1> DEFINE S == StepsIn(p, states)
<1>1. \A s \in S \cap Steps : p.entry[s] = "none"
  BY DEF StepsIn, Safe, StepsOK, EntryOK
<1> HIDE DEF S
<1>2. Safe(SetSteps(p, S, t))
  BY <1>1, SetStepsSafe
<1> QED
  BY <1>2 DEF S

\* CancelApproved() leaves no step approved.
LEMMA CancelApprovedSafe ==
  ASSUME NEW p, Safe(p)
  PROVE  /\ Safe(CancelApproved(p)) /\ SameButSteps(p, CancelApproved(p))
         /\ \A s \in Steps : CancelApproved(p).step[s] # "approved"
<1>1. {"approved"} \cap {"completed", "compensated"} = {}
  OBVIOUS
<1>2. Safe(CancelApproved(p))
  BY <1>1, UncompletedSafe DEF CancelApproved
<1>3. p \in PlanType /\ "cancelled" \in StepStatus
  BY DEF Safe, StepStatus
<1>4. /\ SameButSteps(p, CancelApproved(p))
      /\ CancelApproved(p).step =
           [s \in Steps |-> IF s \in StepsIn(p, {"approved"}) THEN "cancelled" ELSE p.step[s]]
  BY <1>3, SetStepsFields DEF CancelApproved
<1>5. \A s \in Steps : CancelApproved(p).step[s] # "approved"
  BY <1>4 DEF StepsIn
<1> QED
  BY <1>2, <1>4, <1>5

-----------------------------------------------------------------------------
(* Compensation *)

\* What a compensation leaves alone: it marks completed steps, and no more.
Beside(p, q) ==
  /\ q.mode = p.mode /\ q.status = p.status /\ q.call = p.call /\ q.tries = p.tries
  /\ q.todo = p.todo /\ q.waiting = p.waiting /\ q.ok = p.ok
  /\ \A s \in Steps : \/ q.step[s] = p.step[s]
                      \/ p.step[s] = "completed" /\ q.step[s] = "compensated"

\* A compensation beside an execution does not disturb it.
LEMMA BesideUnderWay ==
  ASSUME NEW p, NEW q, NEW S, UnderWay(p, S), Beside(p, q), q.main = p.main
  PROVE  UnderWay(q, S) /\ EndsHonestly(p, q, S)
<1>1. q.status = p.status
  BY DEF Beside
<1>2. EndsHonestly(p, q, S)
  BY <1>1 DEF EndsHonestly
<1>3. q.main = "racing" => Racing(q, S)
  <2> SUFFICES ASSUME p.main = "racing" PROVE Racing(q, S)
    OBVIOUS
  <2>1. Racing(p, S)
    BY DEF UnderWay
  <2> QED
    BY <2>1 DEF Racing, Beside, Accounted
<1>4. q.status = "preview" => \A s \in Steps \ S : q.step[s] = "pending"
  BY <1>1 DEF UnderWay, Beside
<1> QED
  BY <1>1, <1>2, <1>3, <1>4 DEF UnderWay

\* The last caller leaves nothing undone that is not marked.
LEMMA CompensatedSafe ==
  ASSUME NEW p, Safe(p), NEW c \in Callers, c = "execution" => p.main = "compensating"
  PROVE  /\ Safe(Compensated(p, c)) /\ Beside(p, Compensated(p, c))
         /\ Compensated(p, c).main = IF c = "execution" THEN "over" ELSE p.main
<1> DEFINE m == Marked(p)
           q == Compensated(p, c)
           S == { s \in StepsIn(p, {"completed"}) : p.entry[s] = "undone" }
<1>1. p \in PlanType /\ "compensated" \in StepStatus
  BY DEF Safe, StepStatus
<1>2. /\ m \in PlanType /\ SameButSteps(p, m)
      /\ m.step = [s \in Steps |-> IF s \in S THEN "compensated" ELSE p.step[s]]
  BY <1>1, SetStepsFields DEF Marked
<1>3. q = CASE c = "execution" -> [[m EXCEPT !.comp[c] = Resting] EXCEPT !.main = "over", !.active = FALSE]
            [] c = "cancel" -> [[m EXCEPT !.comp[c] = Resting] EXCEPT !.flag = FALSE, !.active = FALSE]
            [] c = "user" -> [m EXCEPT !.comp[c] = Resting]
  BY DEF Compensated
<1> HIDE DEF m, q
<1>4. /\ q \in PlanType
      /\ q.mode = m.mode /\ q.status = m.status /\ q.step = m.step /\ q.call = m.call
      /\ q.tries = m.tries /\ q.todo = m.todo /\ q.waiting = m.waiting /\ q.ok = m.ok
      /\ q.entry = m.entry /\ q.comp = [m.comp EXCEPT ![c] = Resting]
      /\ q.main = IF c = "execution" THEN "over" ELSE m.main
      /\ q.flag = IF c = "cancel" THEN FALSE ELSE m.flag
  <2>1. m.comp \in [Callers -> [on : BOOLEAN, todo : SUBSET Steps, cur : Steps \cup {0}]]
    BY <1>2 DEF PlanType
  <2>2. [m.comp EXCEPT ![c] = Resting]
          \in [Callers -> [on : BOOLEAN, todo : SUBSET Steps, cur : Steps \cup {0}]]
    BY <2>1 DEF Resting
  <2>3. CASE c = "execution"
    <3>1. q = [m EXCEPT !.comp = [m.comp EXCEPT ![c] = Resting], !.main = "over", !.active = FALSE]
      BY <1>2, <1>3, <2>3 DEF PlanType
    <3> QED
      BY <1>2, <2>2, <2>3, <3>1 DEF PlanType
  <2>4. CASE c = "cancel"
    <3>1. q = [m EXCEPT !.comp = [m.comp EXCEPT ![c] = Resting], !.flag = FALSE, !.active = FALSE]
      BY <1>2, <1>3, <2>4 DEF PlanType
    <3> QED
      BY <1>2, <2>2, <2>4, <3>1 DEF PlanType
  <2>5. CASE c = "user"
    <3>1. q = [m EXCEPT !.comp = [m.comp EXCEPT ![c] = Resting]]
      BY <1>2, <1>3, <2>5 DEF PlanType
    <3> QED
      BY <1>2, <2>2, <2>5, <3>1 DEF PlanType
  <2> QED
    BY <2>3, <2>4, <2>5 DEF Callers
<1>5. /\ q.mode = p.mode /\ q.status = p.status /\ q.call = p.call
      /\ q.tries = p.tries /\ q.todo = p.todo /\ q.waiting = p.waiting /\ q.ok = p.ok
      /\ q.entry = p.entry /\ q.comp = [p.comp EXCEPT ![c] = Resting]
      /\ q.main = IF c = "execution" THEN "over" ELSE p.main
      /\ q.flag = IF c = "cancel" THEN FALSE ELSE p.flag
      /\ q.step = [s \in Steps |-> IF s \in S THEN "compensated" ELSE p.step[s]]
  BY <1>2, <1>4 DEF SameButSteps
<1>6. StepsOK(q)
  <2> SUFFICES ASSUME NEW s \in Steps PROVE CallOK(q, s) /\ ListOK(q, s) /\ EntryOK(q, s)
    BY DEF StepsOK
  <2>1. CallOK(p, s) /\ ListOK(p, s) /\ EntryOK(p, s)
    BY DEF Safe, StepsOK
  <2>2. CASE s \in S
    <3>1. q.step[s] = "compensated" /\ p.step[s] = "completed" /\ p.entry[s] = "undone"
      BY <1>5, <2>2 DEF StepsIn
    <3> QED
      BY <1>5, <2>1, <3>1 DEF CallOK, ListOK, EntryOK
  <2>3. CASE s \notin S
    <3>1. q.step[s] = p.step[s] /\ ~ (p.step[s] = "completed" /\ p.entry[s] = "undone")
      BY <1>5, <2>3 DEF StepsIn
    <3> QED
      BY <1>5, <2>1, <3>1 DEF CallOK, ListOK, EntryOK
  <2> QED
    BY <2>2, <2>3
<1>7. WholeOK(q)
  <2>1. WholeOK(p) /\ p.comp \in [Callers -> [on : BOOLEAN, todo : SUBSET Steps, cur : Steps \cup {0}]]
    BY DEF Safe, PlanType
  <2>2. q.comp[c] = Resting /\ \A d \in Callers \ {c} : q.comp[d] = p.comp[d]
    BY <1>5, <2>1
  <2>3. Resting.cur \notin Steps /\ Resting.on = FALSE
    BY OrchestratorAssumption DEF Resting
  <2>4. \A d \in Callers : q.comp[d].cur \in Steps => q.entry[q.comp[d].cur] # "none"
    BY <1>5, <2>1, <2>2, <2>3 DEF WholeOK
  <2>5. "cancel" \in Callers /\ "execution" \in Callers
    BY DEF Callers
  <2>6. q.flag => q.comp["cancel"].on
    BY <1>5, <2>1, <2>2, <2>5 DEF WholeOK
  <2>7. q.comp["execution"].on => q.main = "compensating"
    BY <1>5, <2>1, <2>2, <2>3, <2>5 DEF WholeOK
  <2>8. q.status = "preview" => q.main = "none" /\ q.todo = {} /\ q.waiting = {} /\ q.ok
    BY <1>5, <2>1 DEF WholeOK
  <2> QED
    BY <2>4, <2>6, <2>7, <2>8 DEF WholeOK
<1>8. Beside(p, q)
  BY <1>5 DEF Beside, StepsIn
<1> QED
  BY <1>4, <1>5, <1>6, <1>7, <1>8 DEF Safe, q

\* compensatePlan() moves on to the next step, or returns to its caller.
LEMMA NextCompensationSafe ==
  ASSUME NEW p, Safe(p), NEW c \in Callers, c = "execution" => p.main = "compensating"
  PROVE  /\ Safe(NextCompensation(p, c)) /\ Beside(p, NextCompensation(p, c))
         /\ NextCompensation(p, c).main \in {p.main} \cup IF c = "execution" THEN {"over"} ELSE {}
<1> DEFINE R == { s \in p.comp[c].todo : p.entry[s] = "registered" }
           k == [p.comp[c] EXCEPT !.cur = Max(R), !.todo = { s \in @ : s < Max(R) }]
           q == [p EXCEPT !.comp[c] = k]
<1>1. p \in PlanType /\ p.comp[c] \in [on : BOOLEAN, todo : SUBSET Steps, cur : Steps \cup {0}]
  BY DEF Safe, PlanType
<1>2. CASE R = {}
  <2>1. NextCompensation(p, c) = Compensated(p, c)
    BY <1>2 DEF NextCompensation
  <2> QED
    BY <2>1, CompensatedSafe
<1>3. CASE R # {}
  <2>1. NextCompensation(p, c) = q
    BY <1>1, <1>3 DEF NextCompensation, PlanType
  <2>2. R \in SUBSET Nat /\ R \subseteq Steps /\ IsFiniteSet(R)
    BY <1>1, OrchestratorAssumption, FS_Subset
  <2>3. Max(R) \in R
    <3> HIDE DEF R
    <3> QED
      BY <1>3, <2>2, MaxIsMember
  <2>4. Max(R) \in Steps /\ p.entry[Max(R)] = "registered"
    BY <2>2, <2>3
  <2> HIDE DEF R
  <2>5. /\ k \in [on : BOOLEAN, todo : SUBSET Steps, cur : Steps \cup {0}]
        /\ k.on = p.comp[c].on /\ k.cur = Max(R)
    BY <1>1, <2>4
  <2> HIDE DEF k
  <2>6. /\ q \in PlanType
        /\ q.mode = p.mode /\ q.status = p.status /\ q.step = p.step /\ q.call = p.call
        /\ q.tries = p.tries /\ q.todo = p.todo /\ q.waiting = p.waiting /\ q.ok = p.ok
        /\ q.entry = p.entry /\ q.comp = [p.comp EXCEPT ![c] = k]
        /\ q.main = p.main /\ q.flag = p.flag
    BY <1>1, <2>5 DEF PlanType
  <2> HIDE DEF q
  <2>7. \A d \in Callers : q.comp[d].on = p.comp[d].on
    BY <1>1, <2>5, <2>6 DEF PlanType
  <2>8. StepsOK(q)
    <3> SUFFICES ASSUME NEW s \in Steps PROVE CallOK(q, s) /\ ListOK(q, s) /\ EntryOK(q, s)
      BY DEF StepsOK
    <3>1. CallOK(p, s) /\ ListOK(p, s) /\ EntryOK(p, s)
      BY DEF Safe, StepsOK
    <3> QED
      BY <2>6, <2>7, <3>1 DEF CallOK, ListOK, EntryOK
  <2>9. WholeOK(q)
    <3>1. WholeOK(p) /\ "cancel" \in Callers /\ "execution" \in Callers
      BY DEF Safe, Callers
    <3>2. \A d \in Callers \ {c} : q.comp[d] = p.comp[d]
      BY <1>1, <2>6 DEF PlanType
    <3>3. q.comp[c] = k
      BY <1>1, <2>6 DEF PlanType
    <3>4. \A d \in Callers : q.comp[d].cur \in Steps => q.entry[q.comp[d].cur] # "none"
      BY <2>4, <2>5, <2>6, <3>1, <3>2, <3>3 DEF WholeOK
    <3> QED
      BY <2>6, <2>7, <3>1, <3>4 DEF WholeOK
  <2>10. Safe(q) /\ Beside(p, q)
    BY <2>6, <2>8, <2>9 DEF Safe, Beside
  <2> QED
    BY <2>1, <2>6, <2>10
<1> QED
  BY <1>2, <1>3

\* A call of compensatePlan() of the manager, up to its first await.  A cancellation
\* has marked the plan just before.
LEMMA StartCompensationSafe ==
  ASSUME NEW p, Safe(p), NEW c \in Callers, c = "execution" => p.main = "compensating",
         NEW b \in BOOLEAN, b = p.flag \/ c = "cancel",
         NEW f, f = [p EXCEPT !.flag = b]
  PROVE  /\ Safe(StartCompensation(f, c)) /\ Beside(p, StartCompensation(f, c))
         /\ StartCompensation(f, c).main \in {p.main} \cup IF c = "execution" THEN {"over"} ELSE {}
<1> DEFINE k == [Compensating EXCEPT !.todo = StepsIn(f, {"completed", "failed"})]
           q == [f EXCEPT !.comp[c] = k]
<1>1. p \in PlanType /\ p.comp \in [Callers -> [on : BOOLEAN, todo : SUBSET Steps, cur : Steps \cup {0}]]
  BY DEF Safe, PlanType
<1>2. /\ k \in [on : BOOLEAN, todo : SUBSET Steps, cur : Steps \cup {0}]
      /\ k.on = TRUE /\ k.cur \notin Steps
  BY OrchestratorAssumption DEF Compensating, StepsIn
<1>3. StartCompensation(f, c) = NextCompensation(q, c)
  BY DEF StartCompensation
<1> HIDE DEF k
<1>4. q = [p EXCEPT !.flag = b, !.comp = [p.comp EXCEPT ![c] = k]]
  BY <1>1 DEF PlanType
<1> HIDE DEF q
<1>5. /\ q \in PlanType
      /\ q.mode = p.mode /\ q.status = p.status /\ q.step = p.step /\ q.call = p.call
      /\ q.tries = p.tries /\ q.todo = p.todo /\ q.waiting = p.waiting /\ q.ok = p.ok
      /\ q.entry = p.entry /\ q.comp = [p.comp EXCEPT ![c] = k]
      /\ q.main = p.main /\ q.flag = b
  BY <1>1, <1>2, <1>4 DEF PlanType
<1>6. q.comp[c] = k /\ \A d \in Callers \ {c} : q.comp[d] = p.comp[d]
  BY <1>1, <1>5
<1>7. StepsOK(q)
  <2> SUFFICES ASSUME NEW s \in Steps PROVE CallOK(q, s) /\ ListOK(q, s) /\ EntryOK(q, s)
    BY DEF StepsOK
  <2>1. CallOK(p, s) /\ ListOK(p, s) /\ EntryOK(p, s)
    BY DEF Safe, StepsOK
  <2>2. \E d \in Callers : q.comp[d].on
    BY <1>2, <1>6
  <2> QED
    BY <1>5, <2>1, <2>2 DEF CallOK, ListOK, EntryOK
<1>8. WholeOK(q)
  <2>1. WholeOK(p) /\ "cancel" \in Callers /\ "execution" \in Callers
    BY DEF Safe, Callers
  <2>2. \A d \in Callers : q.comp[d].cur \in Steps => q.entry[q.comp[d].cur] # "none"
    BY <1>2, <1>5, <1>6, <2>1 DEF WholeOK
  <2>3. q.flag => q.comp["cancel"].on
    BY <1>2, <1>5, <1>6, <2>1 DEF WholeOK
  <2>4. q.comp["execution"].on => q.main = "compensating"
    BY <1>5, <1>6, <2>1 DEF WholeOK
  <2> QED
    BY <1>5, <2>1, <2>2, <2>3, <2>4 DEF WholeOK
<1>9. Safe(q)
  BY <1>5, <1>7, <1>8 DEF Safe
<1>10. /\ Safe(NextCompensation(q, c)) /\ Beside(q, NextCompensation(q, c))
       /\ NextCompensation(q, c).main \in {q.main} \cup IF c = "execution" THEN {"over"} ELSE {}
  BY <1>5, <1>9, NextCompensationSafe
<1>11. Beside(p, NextCompensation(q, c))
  BY <1>5, <1>10 DEF Beside
<1> QED
  BY <1>3, <1>5, <1>10, <1>11

\* It goes on after an await.
LEMMA CompensationReturnedSafe ==
  ASSUME NEW p, Safe(p), NEW c \in Callers, p.comp[c].on, NEW S, UnderWay(p, S)
  PROVE  Fine(p, CompensationReturned(p, c), S)
<1> DEFINE u == p.comp[c].cur
           q == [p EXCEPT !.entry[u] = "undone"]
           r == NextCompensation(q, c)
<1>1. p \in PlanType /\ p.entry \in [Steps -> {"none", "registered", "undone"}]
  BY DEF Safe, PlanType
<1>2. CompensationReturned(p, c) = r
  BY DEF CompensationReturned
<1>3. u \in Steps => p.entry[u] # "none"
  BY DEF Safe, WholeOK
<1> HIDE DEF u
<1>4. /\ q \in PlanType
      /\ q.mode = p.mode /\ q.status = p.status /\ q.step = p.step /\ q.call = p.call
      /\ q.tries = p.tries /\ q.todo = p.todo /\ q.waiting = p.waiting /\ q.ok = p.ok
      /\ q.entry = [p.entry EXCEPT ![u] = "undone"] /\ q.comp = p.comp
      /\ q.main = p.main /\ q.flag = p.flag
  BY <1>1 DEF PlanType
<1> HIDE DEF q
<1>5. StepsOK(q)
  <2> SUFFICES ASSUME NEW s \in Steps PROVE CallOK(q, s) /\ ListOK(q, s) /\ EntryOK(q, s)
    BY DEF StepsOK
  <2>1. CallOK(p, s) /\ ListOK(p, s) /\ EntryOK(p, s)
    BY DEF Safe, StepsOK
  <2>2. CallOK(q, s) /\ ListOK(q, s)
    BY <1>4, <2>1 DEF CallOK, ListOK
  <2>3. CASE s = u
    <3>1. p.entry[s] # "none" /\ q.entry[s] = "undone"
      BY <1>1, <1>3, <1>4, <2>3
    <3> QED
      BY <1>4, <2>1, <2>2, <3>1 DEF EntryOK
  <2>4. CASE s # u
    <3>1. q.entry[s] = p.entry[s]
      BY <1>1, <1>4, <2>4
    <3> QED
      BY <1>4, <2>1, <2>2, <3>1 DEF EntryOK
  <2> QED
    BY <2>3, <2>4
<1>6. WholeOK(q)
  <2>1. \A s \in Steps : p.entry[s] # "none" => q.entry[s] # "none"
    BY <1>1, <1>4
  <2> QED
    BY <1>4, <2>1 DEF Safe, WholeOK
<1>7. Safe(q) /\ (c = "execution" => q.main = "compensating")
  BY <1>4, <1>5, <1>6 DEF Safe, WholeOK
<1>8. Safe(r) /\ Beside(q, r) /\ r.main \in {q.main} \cup IF c = "execution" THEN {"over"} ELSE {}
  BY <1>7, NextCompensationSafe
<1> HIDE DEF r
<1>9. Beside(p, r) /\ r.main \in {p.main} \cup IF c = "execution" THEN {"over"} ELSE {}
  BY <1>4, <1>8 DEF Beside
<1>10. UnderWay(r, S) /\ EndsHonestly(p, r, S)
  <2>1. CASE c # "execution"
    BY <1>9, <2>1, BesideUnderWay
  <2>2. CASE c = "execution"
    <3>1. p.main = "compensating" /\ r.status = p.status /\ r.main # "racing"
      BY <1>4, <1>7, <1>9, <2>2 DEF Beside
    <3>2. p.status \notin {"preview", "executing"}
      BY <3>1 DEF UnderWay, Safe, WholeOK
    <3> QED
      BY <3>1, <3>2 DEF UnderWay, EndsHonestly
  <2> QED
    BY <2>1, <2>2
<1> QED
  BY <1>2, <1>8, <1>10 DEF Fine

-----------------------------------------------------------------------------
(* The end of an execution *)

\* No step is approved.
Unapproved(p) == \A s \in Steps : p.step[s] # "approved"

\* The execution settles, whoever wins the race.
LEMMA SettledSafe ==
  ASSUME NEW p, Safe(p), p.main = "racing", NEW ok \in BOOLEAN, NEW timedOut \in BOOLEAN,
         timedOut \/ Unapproved(p)
  PROVE  /\ Safe(Settled(p, ok, timedOut))
         /\ Settled(p, ok, timedOut).status = IF ok THEN "completed" ELSE "failed"
         /\ Settled(p, ok, timedOut).main # "racing"
         /\ ok /\ ~ timedOut => Settled(p, ok, timedOut).step = p.step
<1> DEFINE b == IF timedOut THEN SetSteps(p, StepsIn(p, {"approved", "executing"}), "cancelled")
                ELSE p
           q == [b EXCEPT !.status = IF ok THEN "completed" ELSE "failed",
                          !.flag = IF timedOut THEN FALSE ELSE @]
           m == [q EXCEPT !.main = "compensating"]
           e == [q EXCEPT !.main = "over", !.active = FALSE]
<1>1. Safe(b) /\ SameButSteps(p, b) /\ Unapproved(b)
  <2>1. CASE timedOut
    <3> DEFINE S == StepsIn(p, {"approved", "executing"})
    <3>1. b = SetSteps(p, S, "cancelled")
      BY <2>1
    <3>2. {"approved", "executing"} \cap {"completed", "compensated"} = {}
      OBVIOUS
    <3>3. Safe(b)
      BY <3>1, <3>2, UncompletedSafe
    <3>4. p \in PlanType /\ "cancelled" \in StepStatus
      BY DEF Safe, StepStatus
    <3>5. SameButSteps(p, b) /\ b.step = [s \in Steps |-> IF s \in S THEN "cancelled" ELSE p.step[s]]
      BY <3>1, <3>4, SetStepsFields
    <3>6. Unapproved(b)
      BY <3>5 DEF Unapproved, StepsIn
    <3> QED
      BY <3>3, <3>5, <3>6
  <2>2. CASE ~ timedOut
    BY <2>2 DEF SameButSteps
  <2> QED
    BY <2>1, <2>2
<1>2. Settled(p, ok, timedOut) =
        IF ~ ok /\ StepsIn(q, {"completed"}) # {} THEN StartCompensation(m, "execution") ELSE e
  BY DEF Settled
<1>3. ~ timedOut => b = p
  OBVIOUS
<1> HIDE DEF b
<1>4. b \in PlanType /\ b.main = "racing" /\ ~ b.comp["execution"].on
  BY <1>1 DEF Safe, WholeOK, SameButSteps
<1>5. /\ q \in PlanType
      /\ q.mode = b.mode /\ q.step = b.step /\ q.call = b.call /\ q.tries = b.tries
      /\ q.todo = b.todo /\ q.waiting = b.waiting /\ q.ok = b.ok /\ q.entry = b.entry
      /\ q.comp = b.comp /\ q.flag = (IF timedOut THEN FALSE ELSE b.flag)
      /\ q.status = (IF ok THEN "completed" ELSE "failed")
  BY <1>4 DEF PlanType
<1> HIDE DEF q
<1>6. /\ m \in PlanType
      /\ m.mode = q.mode /\ m.step = q.step /\ m.call = q.call /\ m.tries = q.tries
      /\ m.todo = q.todo /\ m.waiting = q.waiting /\ m.ok = q.ok /\ m.entry = q.entry
      /\ m.comp = q.comp /\ m.flag = q.flag /\ m.status = q.status /\ m.main = "compensating"
  BY <1>5 DEF PlanType
<1>7. /\ e \in PlanType
      /\ e.mode = q.mode /\ e.step = q.step /\ e.call = q.call /\ e.tries = q.tries
      /\ e.todo = q.todo /\ e.waiting = q.waiting /\ e.ok = q.ok /\ e.entry = q.entry
      /\ e.comp = q.comp /\ e.flag = q.flag /\ e.status = q.status
      /\ e.main = "over"
  BY <1>5 DEF PlanType
<1> HIDE DEF m, e
<1>8. ASSUME NEW r \in {m, e} PROVE Safe(r)
  <2>1. /\ r \in PlanType
        /\ r.mode = b.mode /\ r.step = b.step /\ r.call = b.call /\ r.tries = b.tries
        /\ r.todo = b.todo /\ r.waiting = b.waiting /\ r.ok = b.ok /\ r.entry = b.entry
        /\ r.comp = b.comp /\ r.flag = (IF timedOut THEN FALSE ELSE b.flag)
        /\ r.status = (IF ok THEN "completed" ELSE "failed")
    BY <1>5, <1>6, <1>7
  <2>2. StepsOK(r)
    <3> SUFFICES ASSUME NEW s \in Steps PROVE CallOK(r, s) /\ ListOK(r, s) /\ EntryOK(r, s)
      BY DEF StepsOK
    <3>1. CallOK(b, s) /\ ListOK(b, s) /\ EntryOK(b, s) /\ b.step[s] # "approved"
      BY <1>1 DEF Safe, StepsOK, Unapproved
    <3> QED
      BY <2>1, <3>1 DEF CallOK, ListOK, EntryOK
  <2>3. WholeOK(r)
    <3>1. WholeOK(b) /\ r.status # "preview"
      BY <1>1, <2>1 DEF Safe
    <3>2. ~ r.comp["execution"].on
      BY <1>4, <2>1
    <3> QED
      BY <2>1, <3>1, <3>2 DEF WholeOK
  <2> QED
    BY <2>1, <2>2, <2>3 DEF Safe
<1>9. /\ Safe(StartCompensation(m, "execution")) /\ Beside(m, StartCompensation(m, "execution"))
      /\ StartCompensation(m, "execution").main # "racing"
  <2>1. Safe(m) /\ m.flag \in BOOLEAN
    BY <1>6, <1>8 DEF PlanType
  <2>2. m = [m EXCEPT !.flag = m.flag]
    BY <1>6 DEF PlanType
  <2>3. "execution" \in Callers
    BY DEF Callers
  <2> QED
    BY <1>6, <2>1, <2>2, <2>3, StartCompensationSafe
<1>10. StartCompensation(m, "execution").status = q.status
  BY <1>6, <1>9 DEF Beside
<1>11. ok /\ ~ timedOut => e.step = p.step
  BY <1>3, <1>5, <1>7
<1> QED
  BY <1>2, <1>5, <1>7, <1>8, <1>9, <1>10, <1>11

\* The loop of the execution ends: if somebody listens, the plan is completed or failed.
LEMMA ConcludedSafe ==
  ASSUME NEW p, Safe(p), NEW ok \in BOOLEAN, Unapproved(p),
         p.status # "preview", p.status = "executing" => p.main = "racing"
  PROVE  /\ Safe(Concluded(p, ok)) /\ Concluded(p, ok).status \notin {"preview", "executing"}
         /\ Concluded(p, ok).main # "racing"
         /\ p.status # "completed" /\ Concluded(p, ok).status = "completed" =>
              p.main = "racing" /\ ok /\ Concluded(p, ok).step = p.step
<1> DEFINE q == [p EXCEPT !.todo = {}, !.waiting = {}]
<1>1. p \in PlanType
  BY DEF Safe
<1>2. Concluded(p, ok) = IF p.main = "racing" THEN Settled(q, ok, FALSE) ELSE q
  BY DEF Concluded
<1>3. /\ q \in PlanType
      /\ q.mode = p.mode /\ q.status = p.status /\ q.step = p.step /\ q.call = p.call
      /\ q.tries = p.tries /\ q.todo = {} /\ q.waiting = {} /\ q.ok = p.ok
      /\ q.entry = p.entry /\ q.comp = p.comp /\ q.main = p.main /\ q.flag = p.flag
  BY <1>1 DEF PlanType
<1> HIDE DEF q
<1>4. StepsOK(q)
  <2> SUFFICES ASSUME NEW s \in Steps PROVE CallOK(q, s) /\ ListOK(q, s) /\ EntryOK(q, s)
    BY DEF StepsOK
  <2>1. CallOK(p, s) /\ ListOK(p, s) /\ EntryOK(p, s) /\ p.step[s] # "approved"
    BY DEF Safe, StepsOK, Unapproved
  <2> QED
    BY <1>3, <2>1 DEF CallOK, ListOK, EntryOK
<1>5. Safe(q) /\ Unapproved(q)
  BY <1>3, <1>4 DEF Safe, WholeOK, Unapproved
<1>6. CASE p.main = "racing"
  <2> DEFINE r == Settled(q, ok, FALSE)
  <2>1. /\ Safe(r) /\ r.status = (IF ok THEN "completed" ELSE "failed")
        /\ r.main # "racing" /\ (ok => r.step = q.step)
    BY <1>3, <1>5, <1>6, SettledSafe
  <2> HIDE DEF r
  <2>2. Concluded(p, ok) = r
    BY <1>2, <1>6 DEF r
  <2> QED
    BY <1>3, <1>6, <2>1, <2>2
<1>7. CASE p.main # "racing"
  BY <1>2, <1>3, <1>5, <1>7
<1> QED
  BY <1>6, <1>7

\* An execution that ends otherwise than well.
LEMMA ConcludedBadly ==
  ASSUME NEW p, NEW q, Safe(q), Unapproved(q), q.status = p.status, q.main = p.main,
         p.status # "preview", NEW R, UnderWay(p, R), NEW S
  PROVE  Fine(p, Concluded(q, FALSE), S)
<1> DEFINE r == Concluded(q, FALSE)
<1>1. p.status = "executing" => p.main = "racing"
  BY DEF UnderWay
<1>2. /\ Safe(r) /\ r.status \notin {"preview", "executing"} /\ r.main # "racing"
      /\ ~ (p.status # "completed" /\ r.status = "completed")
  BY <1>1, ConcludedSafe
<1> HIDE DEF r
<1>3. Fine(p, r, S)
  BY <1>2 DEF Fine, UnderWay, EndsHonestly
<1> QED
  BY <1>3 DEF r

\* An execution that ends well, if it does, with nothing left to run.
LEMMA ConcludedWell ==
  ASSUME NEW p, Safe(p), Unapproved(p), p.status # "preview", p.waiting = {},
         NEW S, UnderWay(p, S), NEW ok \in BOOLEAN, ok => p.ok \/ p.mode = "sequential"
  PROVE  Fine(p, Concluded(p, ok), S)
<1> DEFINE r == Concluded(p, ok)
<1>1. p.status = "executing" => p.main = "racing"
  BY DEF UnderWay
<1>2. /\ Safe(r) /\ r.status \notin {"preview", "executing"} /\ r.main # "racing"
      /\ p.status # "completed" /\ r.status = "completed" =>
           p.main = "racing" /\ ok /\ r.step = p.step
  BY <1>1, ConcludedSafe
<1> HIDE DEF r
<1>3. EndsHonestly(p, r, S)
  <2> SUFFICES ASSUME p.status # "completed", r.status = "completed", NEW s \in Steps \ S
               PROVE  r.step[s] \in Accounted(p.status)
    BY DEF EndsHonestly
  <2>1. ok /\ r.step = p.step /\ Racing(p, S)
    BY <1>2 DEF UnderWay
  <2>2. p.ok
    BY <2>1 DEF Racing
  <2>3. p.step[s] \in {"approved"} \cup Accounted(p.status) /\ p.step[s] # "approved"
    BY <2>1, <2>2 DEF Racing, Unapproved
  <2> QED
    BY <2>1, <2>3
<1>4. Fine(p, r, S)
  BY <1>2, <1>3 DEF Fine, UnderWay
<1> QED
  BY <1>4 DEF r

-----------------------------------------------------------------------------
(* Steps that begin *)

\* From p to q the steps of B are given up.
GivenUp(p, q, B) ==
  \A s \in Steps : IF s \in B THEN q.step[s] \in {"failed", "cancelled"} ELSE q.step[s] = p.step[s]

\* Steps that may not run any more are cancelled, or fail for want of tokens.
LEMMA BegunIdle ==
  ASSUME NEW p, Safe(p), NEW B, NEW late, ~ WillRun(p, late),
         \A s \in B \cap Steps : p.entry[s] = "none"
  PROVE  /\ Safe(Begun(p, B, late)) /\ SameButSteps(p, Begun(p, B, late))
         /\ GivenUp(p, Begun(p, B, late), B)
<1>1. PICK t \in {"failed", "cancelled"} : Begun(p, B, late) = SetSteps(p, B, t)
  BY DEF Begun, WillRun
<1>2. t \in StepStatus /\ p \in PlanType
  BY DEF StepStatus, Safe
<1>3. /\ SameButSteps(p, SetSteps(p, B, t))
      /\ SetSteps(p, B, t).step = [s \in Steps |-> IF s \in B THEN t ELSE p.step[s]]
  BY <1>2, SetStepsFields
<1>4. Safe(SetSteps(p, B, t))
  BY SetStepsSafe
<1>5. GivenUp(p, SetSteps(p, B, t), B)
  BY <1>3 DEF GivenUp
<1> QED
  BY <1>1, <1>3, <1>4, <1>5

\* From p to q the tools of the steps of B are called for the first time.
Calls(p, q, B) ==
  /\ q.mode = p.mode /\ q.status = p.status /\ q.flag = p.flag
  /\ q.main = p.main /\ q.ok = p.ok /\ q.entry = p.entry /\ q.comp = p.comp
  /\ q.step = [s \in Steps |-> IF s \in B THEN "executing" ELSE p.step[s]]
  /\ q.call = [s \in Steps |-> IF s \in B THEN "routing" ELSE p.call[s]]
  /\ q.tries = [s \in Steps |-> IF s \in B THEN 1 ELSE p.tries[s]]

\* Steps that run have their tools called.
LEMMA BegunFields ==
  ASSUME NEW p \in PlanType, NEW B \in SUBSET Steps, NEW late, WillRun(p, late),
         \A s \in B : p.tries[s] = 0
  PROVE  /\ Begun(p, B, late) \in PlanType /\ Calls(p, Begun(p, B, late), B)
         /\ Begun(p, B, late).todo = p.todo /\ Begun(p, B, late).waiting = p.waiting
<1> DEFINE q == Begun(p, B, late)
           f == [s \in Steps |-> IF s \in B THEN "executing" ELSE p.step[s]]
           g == [s \in Steps |-> IF s \in B THEN "routing" ELSE p.call[s]]
           h == [s \in Steps |-> IF s \in B THEN p.tries[s] + 1 ELSE p.tries[s]]
<1>1. q = [p EXCEPT !.step = f, !.call = g, !.tries = h]
  BY DEF Begun, WillRun, SetSteps, PlanType
<1>2. /\ f \in [Steps -> StepStatus]
      /\ g \in [Steps -> {"none", "routing", "backoff"}]
  BY DEF PlanType, StepStatus
<1>3. h = [s \in Steps |-> IF s \in B THEN 1 ELSE p.tries[s]]
  OBVIOUS
<1>4. h \in [Steps -> 0..MaxAttempts]
  <2>1. 1 \in 0..MaxAttempts
    BY OrchestratorAssumption
  <2>2. p.tries \in [Steps -> 0..MaxAttempts]
    BY DEF PlanType
  <2> HIDE DEF h
  <2> QED
    BY <1>3, <2>1, <2>2
<1> HIDE DEF q, f, g, h
<1>5. /\ q \in PlanType
      /\ q.mode = p.mode /\ q.status = p.status /\ q.flag = p.flag
      /\ q.main = p.main /\ q.todo = p.todo /\ q.waiting = p.waiting /\ q.ok = p.ok
      /\ q.entry = p.entry /\ q.comp = p.comp
      /\ q.step = f /\ q.call = g /\ q.tries = h
  BY <1>1, <1>2, <1>4 DEF PlanType
<1>6. Calls(p, q, B)
  BY <1>3, <1>5 DEF Calls, f, g
<1> QED
  BY <1>5, <1>6 DEF q

\* The loop awaits W and has T to come.
Awaiting(q, W, T) == [q EXCEPT !.waiting = W, !.todo = T]

Awaits(r, W, T) == r.waiting = W /\ r.todo = T

\* The steps of B may begin, and T be left for later: no step that is approved is lost,
\* and none of a parallel list stays on it that has begun.
MayBegin(p, B, T) ==
  /\ B \in SUBSET Steps /\ T \in SUBSET Steps /\ T \subseteq p.todo
  /\ \A s \in B : p.tries[s] = 0
  /\ \A s \in p.todo : p.step[s] = "approved" => s \in B \cup T
  /\ p.mode = "parallel" => B \cap T = {}

\* The plan stays safe when they begin.
LEMMA BeginSafe ==
  ASSUME NEW p, NEW B, NEW T, NEW W, Safe(p), WillRun(p, FALSE), MayBegin(p, B, T),
         W \in SUBSET Steps, p.status = "preview" => W = {}
  PROVE  /\ Safe(Awaiting(Begun(p, B, FALSE), W, T))
         /\ Calls(p, Awaiting(Begun(p, B, FALSE), W, T), B)
         /\ Awaits(Awaiting(Begun(p, B, FALSE), W, T), W, T)
<1> DEFINE q == Begun(p, B, FALSE)
           r == Awaiting(q, W, T)
<1>0. /\ B \in SUBSET Steps /\ T \in SUBSET Steps /\ T \subseteq p.todo
      /\ \A s \in B : p.tries[s] = 0
      /\ \A s \in p.todo : p.step[s] = "approved" => s \in B \cup T
      /\ p.mode = "parallel" => B \cap T = {}
  BY DEF MayBegin
<1>1. q \in PlanType /\ Calls(p, q, B)
  <2>1. p \in PlanType
    BY DEF Safe
  <2> QED
    BY <1>0, <2>1, BegunFields
<1> HIDE DEF q
<1>3. r \in PlanType /\ r.todo = T /\ r.waiting = W /\ Calls(p, r, B)
  BY <1>0, <1>1 DEF PlanType, Awaiting, Calls
<1> HIDE DEF r
<1>4. StepsOK(r)
  <2> SUFFICES ASSUME NEW s \in Steps PROVE CallOK(r, s) /\ ListOK(r, s) /\ EntryOK(r, s)
    BY DEF StepsOK
  <2>1. CallOK(p, s) /\ ListOK(p, s) /\ EntryOK(p, s)
    BY DEF Safe, StepsOK
  <2>2. CASE s \in B
    <3>1. /\ r.step[s] = "executing" /\ r.call[s] = "routing" /\ r.tries[s] = 1
          /\ p.tries[s] = 0 /\ r.entry[s] = p.entry[s]
      BY <1>0, <1>3, <2>2 DEF Calls
    <3>2. p.entry[s] = "none"
      BY <2>1, <3>1 DEF EntryOK
    <3>3. r.mode = "parallel" => s \notin r.todo
      BY <1>0, <1>3, <2>2 DEF Calls
    <3>4. CallOK(r, s)
      BY <3>1 DEF CallOK
    <3>5. ListOK(r, s)
      BY <3>1, <3>3 DEF ListOK
    <3>6. EntryOK(r, s)
      BY <3>1, <3>2 DEF EntryOK
    <3> QED
      BY <3>4, <3>5, <3>6
  <2>3. CASE s \notin B
    <3>1. /\ r.step[s] = p.step[s] /\ r.call[s] = p.call[s] /\ r.tries[s] = p.tries[s]
          /\ r.entry[s] = p.entry[s] /\ r.comp = p.comp
      BY <1>0, <1>3, <2>3 DEF Calls
    <3>2. CallOK(r, s) /\ EntryOK(r, s)
      BY <2>1, <3>1 DEF CallOK, EntryOK
    <3>3. ListOK(r, s)
      BY <1>0, <1>3, <2>1, <2>3, <3>1 DEF Calls, ListOK
    <3> QED
      BY <3>2, <3>3
  <2> QED
    BY <2>2, <2>3
<1>5. WholeOK(r)
  <2>1. WholeOK(p)
    BY DEF Safe
  <2>2. r.status = "preview" => r.main = "none" /\ r.todo = {} /\ r.waiting = {} /\ r.ok
    BY <1>0, <1>3, <2>1 DEF Calls, WholeOK
  <2>3. /\ r.entry = p.entry /\ r.comp = p.comp /\ r.flag = p.flag /\ r.main = p.main
    BY <1>3 DEF Calls
  <2> QED
    BY <2>1, <2>2, <2>3 DEF WholeOK
<1> QED
  BY <1>3, <1>4, <1>5 DEF Safe, Awaits, r, q

\* So does the loop on its way: it awaits all that it begins.
LEMMA BeginUnderWay ==
  ASSUME NEW p, Safe(p), WillRun(p, FALSE), NEW B, NEW T, MayBegin(p, B, T),
         p.status # "preview", p.waiting = {}, NEW S, UnderWay(p, S)
  PROVE  Fine(p, Awaiting(Begun(p, B, FALSE), B, T), S)
<1> DEFINE r == Awaiting(Begun(p, B, FALSE), B, T)
<1>0. B \in SUBSET Steps
  BY DEF MayBegin
<1>1. Safe(r) /\ Calls(p, r, B) /\ Awaits(r, B, T)
  BY <1>0, BeginSafe
<1> HIDE DEF r
<1>2. UnderWay(r, S)
  <2> SUFFICES ASSUME p.main = "racing" PROVE Racing(r, S)
    BY <1>1 DEF Calls, UnderWay
  <2>1. Racing(p, S)
    BY DEF UnderWay
  <2>2. ASSUME NEW s \in Steps \ S
        PROVE  /\ r.call[s] # "none" => s \in r.waiting
               /\ r.ok => s \in r.waiting \/ r.step[s] \in {"approved"} \cup Accounted(p.status)
    <3>1. CASE s \in B
      <4>1. s \in r.waiting
        BY <1>1, <3>1 DEF Awaits
      <4> QED
        BY <4>1, Zenon
    <3>2. CASE s \notin B
      <4>1. r.call[s] = p.call[s] /\ r.step[s] = p.step[s] /\ r.ok = p.ok
        BY <1>1, <3>2 DEF Calls
      <4>2. /\ p.call[s] = "none"
            /\ p.ok => p.step[s] \in {"approved"} \cup Accounted(p.status)
        BY <2>1 DEF Racing
      <4> QED
        BY <4>1, <4>2
    <3> QED
      BY <3>1, <3>2
  <2> QED
    BY <1>1, <2>1, <2>2 DEF Calls, Racing
<1>3. EndsHonestly(p, r, S)
  BY <1>1 DEF EndsHonestly, Calls
<1> QED
  BY <1>1, <1>2, <1>3 DEF Fine, r

\* The first step that is approved, in the modes that run one at a time.
LEMMA BeginFirst ==
  ASSUME NEW p, Safe(p), p.mode # "parallel", WillRun(p, FALSE),
         p.status # "preview", p.waiting = {}, NEW S, UnderWay(p, S),
         NEW A, A = p.todo \cap StepsIn(p, {"approved"}), A # {}
  PROVE  Fine(p, Awaiting(Begun(p, {Min(A)}, FALSE), {Min(A)}, { s \in p.todo : s > Min(A) }), S)
         /\ Begun(p, {Min(A)}, FALSE).todo = p.todo
<1> DEFINE m == Min(A)
           T == { s \in p.todo : s > m }
<1>1. p \in PlanType /\ p.todo \subseteq Steps /\ Steps \subseteq Nat
  BY OrchestratorAssumption DEF Safe, PlanType
<1>2. m \in A /\ \A y \in A : m <= y
  <2>1. A \in SUBSET Nat
    BY <1>1
  <2> QED
    BY <2>1, MinIsMember
<1> HIDE DEF m
<1>3. m \in Steps /\ p.step[m] = "approved"
  BY <1>2 DEF StepsIn
<1>4. p.tries[m] = 0
  BY <1>3 DEF Safe, StepsOK, CallOK
<1>5. \A s \in p.todo : p.step[s] = "approved" => s \in {m} \cup T
  <2> SUFFICES ASSUME NEW s \in p.todo, p.step[s] = "approved" PROVE s = m \/ s > m
    OBVIOUS
  <2>1. s \in A
    BY <1>1 DEF StepsIn
  <2>2. m <= s /\ m \in Nat /\ s \in Nat
    BY <1>1, <1>2, <1>3, <2>1
  <2> QED
    BY <2>2
<1>6. MayBegin(p, {m}, T)
  BY <1>1, <1>3, <1>4, <1>5 DEF MayBegin
<1> HIDE DEF T
<1>7. Fine(p, Awaiting(Begun(p, {m}, FALSE), {m}, T), S)
  BY <1>6, BeginUnderWay
<1>8. Begun(p, {m}, FALSE).todo = p.todo
  BY <1>1, <1>3, <1>4, BegunFields
<1> QED
  BY <1>7, <1>8 DEF m, T


-----------------------------------------------------------------------------
(* The loop goes on *)

\* Once no step of the list is approved, none is.
LEMMA NoneApproved ==
  ASSUME NEW p, Safe(p), p.todo \cap StepsIn(p, {"approved"}) = {}
  PROVE  Unapproved(p)
<1> SUFFICES ASSUME NEW s \in Steps, p.step[s] = "approved" PROVE FALSE
  BY DEF Unapproved
<1>1. s \in p.todo
  BY DEF Safe, StepsOK, ListOK
<1> QED
  BY <1>1 DEF StepsIn

\* Steps that are approved have no compensation.
LEMMA ApprovedHasNoEntry ==
  ASSUME NEW p, Safe(p), NEW s \in Steps, p.step[s] = "approved"
  PROVE  p.entry[s] = "none"
BY DEF Safe, StepsOK, EntryOK

\* Executing one step after another.
LEMMA SequentialFine ==
  ASSUME NEW p, Safe(p), p.mode = "sequential", p.status # "preview", p.waiting = {},
         NEW S, UnderWay(p, S), NEW late
  PROVE  Fine(p, ProceedSequential(p, late), S)
<1> DEFINE A == p.todo \cap StepsIn(p, {"approved"})
           q == Begun(p, {Min(A)}, FALSE)
           r == [q EXCEPT !.waiting = {Min(A)}, !.todo = { s \in @ : s > Min(A) }]
<1>1. CASE p.todo # {} /\ Stopped(p, late)
  <2>1. Safe(CancelApproved(p)) /\ SameButSteps(p, CancelApproved(p)) /\ Unapproved(CancelApproved(p))
    BY CancelApprovedSafe DEF Unapproved
  <2>2. Fine(p, Concluded(CancelApproved(p), FALSE), S)
    BY <2>1, ConcludedBadly DEF SameButSteps
  <2> QED
    BY <1>1, <2>2 DEF ProceedSequential
<1>2. CASE ~ (p.todo # {} /\ Stopped(p, late)) /\ A = {}
  <2>1. Unapproved(p)
    BY <1>2, NoneApproved
  <2>2. Fine(p, Concluded(p, TRUE), S)
    BY <2>1, ConcludedWell
  <2> QED
    BY <1>2, <2>2 DEF ProceedSequential
<1>3. CASE ~ (p.todo # {} /\ Stopped(p, late)) /\ A # {} /\ WillRun(p, FALSE)
  <2>1. ProceedSequential(p, late) = r
    BY <1>3 DEF ProceedSequential
  <2>2. /\ Fine(p, Awaiting(q, {Min(A)}, { s \in p.todo : s > Min(A) }), S)
        /\ q.todo = p.todo
    BY <1>3, BeginFirst
  <2>3. r = Awaiting(q, {Min(A)}, { s \in p.todo : s > Min(A) })
    <3> HIDE DEF A, q
    <3> QED
      BY <2>2 DEF Awaiting
  <2> QED
    BY <2>1, <2>2, <2>3
<1>4. CASE ~ (p.todo # {} /\ Stopped(p, late)) /\ A # {} /\ ~ WillRun(p, FALSE)
  <2>1. ProceedSequential(p, late) = Concluded(CancelApproved(q), FALSE)
    BY <1>4 DEF ProceedSequential
  <2>2. Min(A) \in A
    <3>1. A \in SUBSET Nat
      BY OrchestratorAssumption DEF StepsIn
    <3> QED
      BY <1>4, <3>1, MinIsMember
  <2>3. \A s \in {Min(A)} \cap Steps : p.entry[s] = "none"
    BY <2>2, ApprovedHasNoEntry DEF StepsIn
  <2>4. Safe(q) /\ SameButSteps(p, q)
    BY <1>4, <2>3, BegunIdle
  <2> HIDE DEF q
  <2>5. Safe(CancelApproved(q)) /\ SameButSteps(q, CancelApproved(q)) /\ Unapproved(CancelApproved(q))
    BY <2>4, CancelApprovedSafe DEF Unapproved
  <2>6. Fine(p, Concluded(CancelApproved(q), FALSE), S)
    BY <2>4, <2>5, ConcludedBadly DEF SameButSteps
  <2> QED
    BY <2>1, <2>6
<1> QED
  BY <1>1, <1>2, <1>3, <1>4

\* Executing them with a look at the failures only at the end.
LEMMA ConditionalFine ==
  ASSUME NEW p, Safe(p), p.mode = "conditional", p.status # "preview", p.waiting = {},
         NEW S, UnderWay(p, S), NEW late \in BOOLEAN
  PROVE  Fine(p, ProceedConditional(p, late), S)
<1> DEFINE A == p.todo \cap StepsIn(p, {"approved"})
           q == Begun(p, {Min(A)}, FALSE)
           r == [q EXCEPT !.waiting = {Min(A)}, !.todo = { s \in @ : s > Min(A) }]
<1>1. CASE A = {}
  <2>1. Unapproved(p) /\ p.ok \in BOOLEAN
    BY <1>1, NoneApproved DEF Safe, PlanType
  <2>2. Fine(p, Concluded(p, p.ok), S)
    BY <2>1, ConcludedWell
  <2> QED
    BY <1>1, <2>2 DEF ProceedConditional
<1>2. CASE A # {} /\ WillRun(p, late)
  <2>1. ProceedConditional(p, late) = r
    BY <1>2 DEF ProceedConditional
  <2>2. WillRun(p, FALSE)
    BY <1>2 DEF WillRun, Stopped
  <2>3. /\ Fine(p, Awaiting(q, {Min(A)}, { s \in p.todo : s > Min(A) }), S)
        /\ q.todo = p.todo
    BY <1>2, <2>2, BeginFirst
  <2>4. r = Awaiting(q, {Min(A)}, { s \in p.todo : s > Min(A) })
    <3> HIDE DEF A, q
    <3> QED
      BY <2>3 DEF Awaiting
  <2> QED
    BY <2>1, <2>3, <2>4
<1>3. CASE A # {} /\ ~ WillRun(p, late)
  <2> DEFINE b == Begun(p, A, late)
  <2>1. ProceedConditional(p, late) = Concluded(b, FALSE)
    BY <1>3 DEF ProceedConditional
  <2>2. \A s \in A \cap Steps : p.entry[s] = "none"
    BY ApprovedHasNoEntry DEF StepsIn
  <2>3. Safe(b) /\ SameButSteps(p, b) /\ GivenUp(p, b, A)
    BY <1>3, <2>2, BegunIdle
  <2> HIDE DEF b
  <2>4. Unapproved(b)
    <3> SUFFICES ASSUME NEW s \in Steps, b.step[s] = "approved" PROVE FALSE
      BY DEF Unapproved
    <3>1. s \notin A /\ p.step[s] = "approved"
      <4> HIDE DEF A
      <4> QED
        BY <2>3 DEF GivenUp
    <3>2. s \in p.todo
      BY <3>1 DEF Safe, StepsOK, ListOK
    <3> QED
      BY <3>1, <3>2 DEF StepsIn
  <2>5. Fine(p, Concluded(b, FALSE), S)
    BY <2>3, <2>4, ConcludedBadly DEF SameButSteps
  <2> QED
    BY <2>1, <2>5
<1> QED
  BY <1>1, <1>2, <1>3

\* What is on the list of a parallel execution has not begun.
LEMMA ListedUnbegun ==
  ASSUME NEW p, Safe(p), p.mode = "parallel", NEW s \in p.todo
  PROVE  s \in Steps /\ p.tries[s] = 0 /\ p.call[s] = "none" /\ p.entry[s] = "none"
<1>1. s \in Steps
  BY DEF Safe, PlanType
<1>2. CallOK(p, s) /\ ListOK(p, s) /\ EntryOK(p, s)
  BY <1>1 DEF Safe, StepsOK
<1>3. p.tries[s] = 0
  BY <1>2 DEF ListOK
<1> QED
  BY <1>1, <1>2, <1>3 DEF CallOK, EntryOK

\* Executing them in batches.
LEMMA ParallelFine ==
  ASSUME NEW p, Safe(p), p.mode = "parallel", p.status # "preview", p.waiting = {},
         NEW S, UnderWay(p, S), NEW late \in BOOLEAN
  PROVE  Fine(p, ProceedParallel(p, late), S)
<1> DEFINE B == { s \in p.todo : Cardinality({ t \in p.todo : t < s }) < BatchSize }
<1>1. B \subseteq p.todo /\ p.todo \subseteq Steps /\ p.ok \in BOOLEAN
  BY DEF Safe, PlanType
<1>2. ProceedParallel(p, late) =
        IF p.todo = {} THEN Concluded(p, p.ok)
        ELSE IF ~ p.ok THEN Concluded(SetSteps(p, p.todo, "cancelled"), FALSE)
        ELSE IF WillRun(p, late)
        THEN [Begun(p, B, FALSE) EXCEPT !.waiting = B, !.todo = @ \ B]
        ELSE Concluded(SetSteps(Begun(p, B, late), p.todo \ B, "cancelled"), FALSE)
  BY DEF ProceedParallel
<1> HIDE DEF B
<1>3. \A s \in Steps : p.step[s] = "approved" => s \in p.todo
  BY DEF Safe, StepsOK, ListOK
<1>4. \A s \in p.todo : p.tries[s] = 0 /\ p.entry[s] = "none"
  BY ListedUnbegun
<1>5. Fine(p, Concluded(p, p.ok), S) \/ p.todo # {}
  <2> SUFFICES ASSUME p.todo = {} PROVE Fine(p, Concluded(p, p.ok), S)
    OBVIOUS
  <2>1. Unapproved(p)
    BY <1>3 DEF Unapproved
  <2> QED
    BY <1>1, <2>1, ConcludedWell
<1>6. Fine(p, Concluded(SetSteps(p, p.todo, "cancelled"), FALSE), S)
  <2> DEFINE b == SetSteps(p, p.todo, "cancelled")
  <2>1. Safe(b)
    BY <1>4, SetStepsSafe
  <2>2. p \in PlanType /\ "cancelled" \in StepStatus
    BY DEF Safe, StepStatus
  <2>3. SameButSteps(p, b) /\ b.step = [s \in Steps |-> IF s \in p.todo THEN "cancelled" ELSE p.step[s]]
    BY <2>2, SetStepsFields
  <2> HIDE DEF b
  <2>4. Unapproved(b)
    BY <1>3, <2>3 DEF Unapproved
  <2>5. Fine(p, Concluded(b, FALSE), S)
    BY <2>1, <2>3, <2>4, ConcludedBadly DEF SameButSteps
  <2> QED
    BY <2>5 DEF b
<1>7. WillRun(p, late) =>
        Fine(p, [Begun(p, B, FALSE) EXCEPT !.waiting = B, !.todo = @ \ B], S)
  <2> SUFFICES ASSUME WillRun(p, late)
               PROVE  Fine(p, [Begun(p, B, FALSE) EXCEPT !.waiting = B, !.todo = @ \ B], S)
    OBVIOUS
  <2> DEFINE q == Begun(p, B, FALSE)
             T == p.todo \ B
  <2>1. WillRun(p, FALSE)
    BY DEF WillRun, Stopped
  <2>2. MayBegin(p, B, T)
    BY <1>1, <1>4 DEF MayBegin
  <2>3. q.todo = p.todo
    <3>1. p \in PlanType /\ B \in SUBSET Steps /\ \A s \in B : p.tries[s] = 0
      BY <1>1, <1>4 DEF Safe
    <3> QED
      BY <2>1, <3>1, BegunFields
  <2>4. Fine(p, Awaiting(q, B, T), S)
    <3> HIDE DEF T, q
    <3>1. Fine(p, Awaiting(Begun(p, B, FALSE), B, T), S)
      BY <2>1, <2>2, BeginUnderWay
    <3> QED
      BY <3>1 DEF q
  <2>5. [q EXCEPT !.waiting = B, !.todo = @ \ B] = Awaiting(q, B, T)
    <3> HIDE DEF q
    <3> QED
      BY <2>3 DEF Awaiting
  <2> QED
    BY <2>4, <2>5
<1>8. ~ WillRun(p, late) =>
        Fine(p, Concluded(SetSteps(Begun(p, B, late), p.todo \ B, "cancelled"), FALSE), S)
  <2> SUFFICES ASSUME ~ WillRun(p, late)
               PROVE  Fine(p, Concluded(SetSteps(Begun(p, B, late), p.todo \ B, "cancelled"), FALSE), S)
    OBVIOUS
  <2> DEFINE b == Begun(p, B, late)
             d == SetSteps(b, p.todo \ B, "cancelled")
  <2>1. \A s \in B \cap Steps : p.entry[s] = "none"
    BY <1>1, <1>4
  <2>2. Safe(b) /\ SameButSteps(p, b) /\ GivenUp(p, b, B)
    BY <2>1, BegunIdle
  <2> HIDE DEF b
  <2>3. Safe(d)
    <3>1. \A s \in (p.todo \ B) \cap Steps : b.entry[s] = "none"
      BY <1>4, <2>2 DEF SameButSteps
    <3> QED
      BY <2>2, <3>1, SetStepsSafe
  <2>4. b \in PlanType /\ "cancelled" \in StepStatus
    BY <2>2 DEF Safe, StepStatus
  <2>5. /\ SameButSteps(b, d)
        /\ d.step = [s \in Steps |-> IF s \in p.todo \ B THEN "cancelled" ELSE b.step[s]]
    BY <2>4, SetStepsFields
  <2> HIDE DEF d
  <2>6. Unapproved(d)
    <3> SUFFICES ASSUME NEW s \in Steps, d.step[s] = "approved" PROVE FALSE
      BY DEF Unapproved
    <3>1. s \notin p.todo \ B /\ b.step[s] = "approved"
      BY <2>5
    <3>2. s \notin B /\ p.step[s] = "approved"
      BY <2>2, <3>1 DEF GivenUp
    <3> QED
      BY <1>3, <3>1, <3>2
  <2>7. Fine(p, Concluded(d, FALSE), S)
    BY <2>2, <2>3, <2>5, <2>6, ConcludedBadly DEF SameButSteps
  <2> QED
    BY <2>7 DEF d, b
<1>9. CASE p.todo = {}
  BY <1>2, <1>5, <1>9
<1>10. CASE p.todo # {} /\ ~ p.ok
  BY <1>2, <1>6, <1>10
<1>11. CASE p.todo # {} /\ p.ok /\ WillRun(p, late)
  BY <1>2, <1>7, <1>11
<1>12. CASE p.todo # {} /\ p.ok /\ ~ WillRun(p, late)
  BY <1>2, <1>8, <1>12
<1> QED
  BY <1>9, <1>10, <1>11, <1>12

\* In every mode.
LEMMA ProceedFine ==
  ASSUME NEW p, Safe(p), p.status # "preview", p.waiting = {},
         NEW S, UnderWay(p, S), NEW late \in BOOLEAN
  PROVE  Fine(p, Proceed(p, late), S)
<1>1. p.mode \in {"sequential", "parallel", "conditional"}
  BY OrchestratorAssumption DEF Safe, PlanType
<1>2. CASE p.mode = "sequential"
  <2>1. Proceed(p, late) = ProceedSequential(p, late)
    BY <1>2 DEF Proceed
  <2> QED
    BY <1>2, <2>1, SequentialFine
<1>3. CASE p.mode = "conditional"
  <2>1. Proceed(p, late) = ProceedConditional(p, late)
    BY <1>3 DEF Proceed
  <2> QED
    BY <1>3, <2>1, ConditionalFine
<1>4. CASE p.mode = "parallel"
  <2>1. Proceed(p, late) = ProceedParallel(p, late)
    BY <1>4 DEF Proceed
  <2> QED
    BY <1>4, <2>1, ParallelFine
<1> QED
  BY <1>1, <1>2, <1>3, <1>4

-----------------------------------------------------------------------------
(* A tool returns *)

\* A step has ended, and the loop is told if it awaits it.
LEMMA StepEndedFine ==
  ASSUME NEW p, Safe(p), NEW s \in Steps, p.call[s] = "none",
         NEW ok \in BOOLEAN, ok => p.step[s] = "completed",
         NEW S, UnderWay(p, S \cup {s}), p.status = "preview" => s \in S,
         s \in p.waiting \/ s \in S \/ p.main # "racing", NEW late \in BOOLEAN
  PROVE  Fine(p, StepEnded(p, s, ok, late), S)
<1> DEFINE q == [p EXCEPT !.waiting = @ \ {s}, !.ok = @ /\ ok]
<1>1. StepEnded(p, s, ok, late) =
        IF s \notin p.waiting THEN p
        ELSE IF p.mode = "sequential" /\ ~ ok THEN Concluded(CancelApproved(q), FALSE)
             ELSE IF q.waiting = {} THEN Proceed(q, late) ELSE q
  BY DEF StepEnded
<1>2. p \in PlanType /\ p.ok \in BOOLEAN
  BY DEF Safe, PlanType
<1>3. CASE s \notin p.waiting
  <2>1. UnderWay(p, S)
    <3>1. CASE s \in S
      <4>1. S \cup {s} = S
        BY <3>1
      <4> QED
        BY <4>1
    <3>2. CASE s \notin S
      BY <1>3, <3>2 DEF UnderWay, Racing
    <3> QED
      BY <3>1, <3>2
  <2>2. Fine(p, p, S)
    BY <2>1 DEF Fine, EndsHonestly
  <2> QED
    BY <1>1, <1>3, <2>2
<1>4. CASE s \in p.waiting
  <2>1. p.status # "preview"
    BY <1>4 DEF Safe, WholeOK
  <2>2. /\ q \in PlanType
        /\ q.mode = p.mode /\ q.status = p.status /\ q.step = p.step /\ q.call = p.call
        /\ q.tries = p.tries /\ q.todo = p.todo /\ q.entry = p.entry /\ q.comp = p.comp
        /\ q.main = p.main /\ q.flag = p.flag
        /\ q.waiting = p.waiting \ {s}
    BY <1>2 DEF PlanType
  <2>3. q.ok <=> p.ok /\ ok
    BY <1>2 DEF PlanType
  <2> HIDE DEF q
  <2>4. StepsOK(q)
    <3> SUFFICES ASSUME NEW t \in Steps PROVE CallOK(q, t) /\ ListOK(q, t) /\ EntryOK(q, t)
      BY DEF StepsOK
    <3>1. CallOK(p, t) /\ ListOK(p, t) /\ EntryOK(p, t)
      BY DEF Safe, StepsOK
    <3> QED
      BY <2>2, <3>1 DEF CallOK, ListOK, EntryOK
  <2>5. WholeOK(q)
    BY <2>1, <2>2 DEF Safe, WholeOK
  <2>6. Safe(q)
    BY <2>2, <2>4, <2>5 DEF Safe
  <2>7. CASE p.mode = "sequential" /\ ~ ok
    <3> DEFINE b == CancelApproved(q)
    <3>1. Safe(b) /\ SameButSteps(q, b) /\ Unapproved(b)
      BY <2>6, CancelApprovedSafe DEF Unapproved
    <3> HIDE DEF b
    <3>2. b.status = p.status /\ b.main = p.main
      BY <2>2, <3>1 DEF SameButSteps
    <3>3. Fine(p, Concluded(b, FALSE), S)
      BY <2>1, <3>1, <3>2, ConcludedBadly
    <3>4. StepEnded(p, s, ok, late) = Concluded(b, FALSE)
      BY <1>1, <1>4, <2>7 DEF b
    <3> QED
      BY <3>3, <3>4
  <2>8. CASE ~ (p.mode = "sequential" /\ ~ ok)
    <3>1. UnderWay(q, S)
      <4> SUFFICES ASSUME p.main = "racing" PROVE Racing(q, S)
        BY <2>1, <2>2 DEF UnderWay
      <4>1. Racing(p, S \cup {s})
        BY DEF UnderWay
      <4>2. p.status \in {"executing", "cancelled"} /\ (q.mode = "sequential" => q.ok)
        BY <2>2, <2>3, <2>8, <4>1 DEF Racing
      <4>3. ASSUME NEW t \in Steps \ S
            PROVE  /\ q.call[t] # "none" => t \in q.waiting
                   /\ q.ok => \/ t \in q.waiting
                              \/ q.step[t] \in {"approved"} \cup Accounted(p.status)
        <5>1. CASE t = s
          BY <2>2, <2>3, <5>1 DEF Accounted
        <5>2. CASE t # s
          <6>1. /\ p.call[t] # "none" => t \in p.waiting
                /\ p.ok => t \in p.waiting \/ p.step[t] \in {"approved"} \cup Accounted(p.status)
            BY <4>1, <5>2 DEF Racing
          <6> QED
            BY <2>2, <2>3, <5>2, <6>1
        <5> QED
          BY <5>1, <5>2
      <4> QED
        BY <2>2, <4>2, <4>3 DEF Racing
    <3>2. CASE q.waiting = {}
      <4>1. Fine(q, Proceed(q, late), S)
        BY <2>1, <2>2, <2>6, <3>1, <3>2, ProceedFine
      <4>2. Fine(p, Proceed(q, late), S)
        BY <2>2, <4>1 DEF Fine, EndsHonestly
      <4> QED
        BY <1>1, <1>4, <2>8, <3>2, <4>2
    <3>3. CASE q.waiting # {}
      <4>1. Fine(p, q, S)
        BY <2>2, <2>6, <3>1 DEF Fine, EndsHonestly
      <4> QED
        BY <1>1, <1>4, <2>8, <3>3, <4>1
    <3> QED
      BY <3>2, <3>3
  <2> QED
    BY <2>7, <2>8
<1> QED
  BY <1>3, <1>4

\* From p to q the call of step s ends, and the step with it, in status t.
Ended(p, q, s, t) ==
  /\ q \in PlanType
  /\ q.mode = p.mode /\ q.status = p.status /\ q.flag = p.flag /\ q.main = p.main
  /\ q.todo = p.todo /\ q.waiting = p.waiting /\ q.ok = p.ok /\ q.comp = p.comp
  /\ q.tries = p.tries
  /\ q.step = [p.step EXCEPT ![s] = t]
  /\ q.call = [p.call EXCEPT ![s] = "none"]
  /\ q.entry = [p.entry EXCEPT ![s] =
                  IF t = "completed" /\ s \in Destructive THEN "registered" ELSE @]

\* The plan stays safe when it does.
LEMMA EndedSafe ==
  ASSUME NEW p, Safe(p), NEW s \in Steps, p.call[s] # "none",
         NEW t \in {"completed", "failed", "cancelled"}, NEW q, Ended(p, q, s, t)
  PROVE  Safe(q)
<1>1. CallOK(p, s) /\ ListOK(p, s) /\ EntryOK(p, s) /\ p \in PlanType
  BY DEF Safe, StepsOK
<1>2. p.tries[s] >= 1 /\ p.tries[s] \in Nat /\ p.entry[s] = "none"
  BY <1>1, OrchestratorAssumption DEF CallOK, EntryOK, PlanType
<1>3. StepsOK(q)
  <2> SUFFICES ASSUME NEW r \in Steps PROVE CallOK(q, r) /\ ListOK(q, r) /\ EntryOK(q, r)
    BY DEF StepsOK
  <2>1. CallOK(p, r) /\ ListOK(p, r) /\ EntryOK(p, r)
    BY DEF Safe, StepsOK
  <2>2. CASE r = s
    <3>1. /\ q.step[s] = t /\ q.call[s] = "none" /\ q.tries[s] = p.tries[s]
          /\ q.entry[s] = IF t = "completed" /\ s \in Destructive THEN "registered" ELSE "none"
      BY <1>1, <1>2 DEF Ended, PlanType
    <3>2. CallOK(q, s)
      BY <1>1, <3>1 DEF CallOK
    <3>3. ListOK(q, s)
      BY <1>1, <1>2, <3>1 DEF ListOK, Ended
    <3>4. EntryOK(q, s)
      BY <1>2, <3>1 DEF EntryOK
    <3> QED
      BY <2>2, <3>2, <3>3, <3>4
  <2>3. CASE r # s
    <3>1. /\ q.step[r] = p.step[r] /\ q.call[r] = p.call[r] /\ q.tries[r] = p.tries[r]
          /\ q.entry[r] = p.entry[r] /\ q.main = p.main /\ q.todo = p.todo
          /\ q.mode = p.mode /\ q.comp = p.comp
      BY <1>1, <2>3 DEF Ended, PlanType
    <3> QED
      BY <2>1, <3>1 DEF CallOK, ListOK, EntryOK
  <2> QED
    BY <2>2, <2>3
<1>4. WholeOK(q)
  <2>1. WholeOK(p)
    BY DEF Safe
  <2>2. \A r \in Steps : p.entry[r] # "none" => q.entry[r] # "none"
    BY <1>1, <1>2 DEF Ended, PlanType
  <2>3. \A c \in Callers : q.comp[c].cur \in Steps => q.entry[q.comp[c].cur] # "none"
    BY <2>1, <2>2 DEF Ended, WholeOK
  <2> QED
    BY <2>1, <2>3 DEF Ended, WholeOK
<1> QED
  BY <1>3, <1>4 DEF Safe, Ended

\* So does the loop on its way.
LEMMA EndedFine ==
  ASSUME NEW p, Safe(p), NEW s \in Steps, p.call[s] # "none",
         NEW t \in {"completed", "failed", "cancelled"}, NEW q, Ended(p, q, s, t),
         NEW ok \in BOOLEAN, ok => t = "completed",
         NEW S, UnderWay(p, S), NEW late \in BOOLEAN
  PROVE  Fine(p, StepEnded(q, s, ok, late), S)
<1>1. Safe(q)
  BY EndedSafe
<1>2. p \in PlanType
  BY DEF Safe
<1>3. q.call[s] = "none" /\ q.step[s] = t /\ q.status = p.status /\ q.waiting = p.waiting
  BY <1>2 DEF Ended, PlanType
<1>4. UnderWay(q, S \cup {s})
  <2>1. \A r \in Steps \ {s} : q.step[r] = p.step[r] /\ q.call[r] = p.call[r]
    BY <1>2 DEF Ended, PlanType
  <2>2. Steps \ (S \cup {s}) \subseteq Steps \ S
    OBVIOUS
  <2> QED
    BY <2>1, <2>2 DEF UnderWay, Racing, Ended
<1>5. p.step[s] # "pending"
  <2>1. CallOK(p, s) /\ p.tries[s] \in Nat
    BY <1>2 DEF Safe, StepsOK, PlanType
  <2> QED
    BY <2>1 DEF CallOK
<1>6. q.status = "preview" => s \in S
  BY <1>3, <1>5 DEF UnderWay
<1>7. s \in q.waiting \/ s \in S \/ q.main # "racing"
  BY <1>3 DEF UnderWay, Racing, Ended
<1>8. Fine(q, StepEnded(q, s, ok, late), S)
  BY <1>1, <1>3, <1>4, <1>6, <1>7, StepEndedFine
<1> QED
  BY <1>3, <1>8 DEF Fine, EndsHonestly

\* A tool that succeeds.
LEMMA SucceededFine ==
  ASSUME NEW p, Safe(p), NEW s \in Steps, p.call[s] # "none",
         NEW cost \in Consumption, NEW late \in BOOLEAN, NEW S, UnderWay(p, S)
  PROVE  Fine(p, ToolSucceeded(p, s, cost, late), S)
<1> DEFINE q == [p EXCEPT !.step[s] = "completed", !.call[s] = "none", !.used = @ + cost,
                          !.entry[s] = IF s \in Destructive THEN "registered" ELSE @]
<1>1. p \in PlanType /\ cost \in Nat
  BY OrchestratorAssumption DEF Safe
<1>2. /\ "completed" \in StepStatus /\ p.used + cost \in Nat
      /\ (IF s \in Destructive THEN "registered" ELSE p.entry[s]) \in {"none", "registered", "undone"}
  BY <1>1 DEF StepStatus, PlanType
<1>3. Ended(p, q, s, "completed")
  BY <1>1, <1>2 DEF Ended, PlanType
<1>4. ToolSucceeded(p, s, cost, late) = StepEnded(q, s, TRUE, late)
  BY DEF ToolSucceeded
<1> HIDE DEF q
<1>5. Fine(p, StepEnded(q, s, TRUE, late), S)
  BY <1>3, EndedFine
<1> QED
  BY <1>4, <1>5

\* Where two plans differ only in the call of step s.
SameButCall(p, q, s) ==
  /\ q \in PlanType
  /\ q.mode = p.mode /\ q.status = p.status /\ q.flag = p.flag /\ q.main = p.main
  /\ q.todo = p.todo /\ q.waiting = p.waiting /\ q.ok = p.ok /\ q.comp = p.comp
  /\ q.step = p.step /\ q.entry = p.entry
  /\ \A r \in Steps \ {s} : q.call[r] = p.call[r] /\ q.tries[r] = p.tries[r]

\* A call that goes on.
LEMMA GoesOnFine ==
  ASSUME NEW p, Safe(p), NEW s \in Steps, p.call[s] # "none", NEW q, SameButCall(p, q, s),
         s \notin Destructive, q.call[s] # "none", q.tries[s] >= p.tries[s],
         q.call[s] = "backoff" => q.tries[s] < MaxAttempts, NEW S, UnderWay(p, S)
  PROVE  Fine(p, q, S)
<1>1. /\ CallOK(p, s) /\ ListOK(p, s) /\ EntryOK(p, s)
      /\ p \in PlanType /\ p.tries[s] \in Nat /\ q.tries[s] \in Nat
  BY DEF Safe, StepsOK, PlanType, SameButCall
<1>2. p.tries[s] >= 1 /\ q.tries[s] >= 1 /\ q.tries[s] # 0 /\ p.tries[s] # 0
  <2>1. p.tries[s] >= 1
    BY <1>1 DEF CallOK
  <2> QED
    BY <1>1, <2>1
<1>3. StepsOK(q)
  <2> SUFFICES ASSUME NEW r \in Steps PROVE CallOK(q, r) /\ ListOK(q, r) /\ EntryOK(q, r)
    BY DEF StepsOK
  <2>1. CallOK(p, r) /\ ListOK(p, r) /\ EntryOK(p, r)
    BY DEF Safe, StepsOK
  <2>2. CASE r = s
    <3>1. q.step[s] = p.step[s] /\ q.entry[s] = p.entry[s]
      BY DEF SameButCall
    <3>2. CallOK(q, s)
      BY <1>1, <1>2, <3>1 DEF CallOK
    <3>3. ListOK(q, s)
      BY <1>1, <1>2, <3>1 DEF ListOK, SameButCall
    <3>4. EntryOK(q, s)
      BY <1>1, <3>1 DEF EntryOK, SameButCall
    <3> QED
      BY <2>2, <3>2, <3>3, <3>4
  <2>3. CASE r # s
    <3>1. /\ q.step[r] = p.step[r] /\ q.call[r] = p.call[r] /\ q.tries[r] = p.tries[r]
          /\ q.entry[r] = p.entry[r] /\ q.main = p.main /\ q.todo = p.todo
          /\ q.mode = p.mode /\ q.comp = p.comp
      BY <2>3 DEF SameButCall
    <3> QED
      BY <2>1, <3>1 DEF CallOK, ListOK, EntryOK
  <2> QED
    BY <2>2, <2>3
<1>4. WholeOK(q)
  BY DEF Safe, WholeOK, SameButCall
<1>5. \A r \in Steps : q.call[r] # "none" => p.call[r] # "none"
  BY DEF SameButCall
<1>6. UnderWay(q, S) /\ EndsHonestly(p, q, S)
  BY <1>5 DEF UnderWay, Racing, EndsHonestly, SameButCall
<1> QED
  BY <1>3, <1>4, <1>6 DEF Fine, Safe, SameButCall

\* A tool that fails.
LEMMA FailedFine ==
  ASSUME NEW p, Safe(p), NEW s \in Steps, p.call[s] = "routing",
         NEW cost \in Consumption, NEW late \in BOOLEAN, NEW S, UnderWay(p, S)
  PROVE  Fine(p, ToolFailed(p, s, cost, late), S)
<1>1. p \in PlanType /\ cost \in Nat /\ p.tries[s] \in 0..MaxAttempts /\ MaxAttempts \in Nat
  BY OrchestratorAssumption DEF Safe, PlanType
<1>2. CASE LastTry(p, s)
  <2> DEFINE q == [p EXCEPT !.step[s] = "failed", !.call[s] = "none", !.used = @ + cost]
  <2>1. "failed" \in StepStatus /\ p.used + cost \in Nat
    BY <1>1 DEF StepStatus, PlanType
  <2>2. Ended(p, q, s, "failed")
    BY <1>1, <2>1 DEF Ended, PlanType
  <2>3. ToolFailed(p, s, cost, late) = StepEnded(q, s, FALSE, late)
    BY <1>2 DEF ToolFailed
  <2> HIDE DEF q
  <2>4. Fine(p, StepEnded(q, s, FALSE, late), S)
    BY <2>2, EndedFine
  <2> QED
    BY <2>3, <2>4
<1>3. CASE ~ LastTry(p, s) /\ Stopped(p, late)
  <2> DEFINE q == [p EXCEPT !.step[s] = "cancelled", !.call[s] = "none"]
  <2>1. "cancelled" \in StepStatus
    BY DEF StepStatus
  <2>2. Ended(p, q, s, "cancelled")
    BY <1>1, <2>1 DEF Ended, PlanType
  <2>3. ToolFailed(p, s, cost, late) = StepEnded(q, s, FALSE, late)
    BY <1>3 DEF ToolFailed
  <2> HIDE DEF q
  <2>4. Fine(p, StepEnded(q, s, FALSE, late), S)
    BY <2>2, EndedFine
  <2> QED
    BY <2>3, <2>4
<1>4. CASE ~ LastTry(p, s) /\ ~ Stopped(p, late)
  <2> DEFINE q == [p EXCEPT !.call[s] = "backoff"]
  <2>1. ToolFailed(p, s, cost, late) = q
    BY <1>4 DEF ToolFailed
  <2>2. s \notin Destructive /\ p.tries[s] < MaxAttempts
    BY <1>1, <1>4 DEF LastTry
  <2>3. SameButCall(p, q, s) /\ q.call[s] = "backoff" /\ q.tries[s] = p.tries[s]
    BY <1>1 DEF PlanType, SameButCall
  <2> HIDE DEF q
  <2>4. q.tries[s] >= p.tries[s] /\ q.tries[s] < MaxAttempts
    BY <1>1, <2>2, <2>3
  <2>5. Fine(p, q, S)
    BY <2>2, <2>3, <2>4, GoesOnFine
  <2> QED
    BY <2>1, <2>5
<1> QED
  BY <1>2, <1>3, <1>4

\* A retry, after its delay.
LEMMA BackedOffFine ==
  ASSUME NEW p, Safe(p), NEW s \in Steps, p.call[s] = "backoff", NEW S, UnderWay(p, S)
  PROVE  Fine(p, BackedOff(p, s), S)
<1> DEFINE q == [p EXCEPT !.call[s] = "routing", !.tries[s] = @ + 1]
<1>1. p \in PlanType /\ p.tries[s] \in 0..MaxAttempts /\ MaxAttempts \in Nat
  BY OrchestratorAssumption DEF Safe, PlanType
<1>2. s \notin Destructive /\ p.tries[s] < MaxAttempts
  BY DEF Safe, StepsOK, CallOK
<1>3. p.tries[s] + 1 \in 0..MaxAttempts
  BY <1>1, <1>2
<1>4. SameButCall(p, q, s) /\ q.call[s] = "routing" /\ q.tries[s] = p.tries[s] + 1
  BY <1>1, <1>3 DEF PlanType, SameButCall
<1> HIDE DEF q
<1>5. q.tries[s] >= p.tries[s]
  BY <1>1, <1>4
<1>6. Fine(p, q, S)
  BY <1>2, <1>4, <1>5, GoesOnFine
<1> QED
  BY <1>6 DEF BackedOff, q

-----------------------------------------------------------------------------
(* Requests *)

\* A step is approved on its own, with the others left as they are.
LEMMA ApproveStepFine ==
  ASSUME NEW p, Safe(p), NEW s \in Steps, p.step[s] = "pending", NEW S, UnderWay(p, S)
  PROVE  /\ Safe(Begun(p, {s}, FALSE)) /\ UnderWay(Begun(p, {s}, FALSE), S \cup {s})
         /\ Begun(p, {s}, FALSE).status = p.status
<1> DEFINE q == Begun(p, {s}, FALSE)
<1>1. CallOK(p, s) /\ ListOK(p, s) /\ EntryOK(p, s) /\ p \in PlanType
  BY DEF Safe, StepsOK
<1>2. p.tries[s] = 0 /\ p.entry[s] = "none"
  BY <1>1 DEF CallOK, EntryOK
<1>3. Steps \ (S \cup {s}) \subseteq Steps \ S /\ s \notin Steps \ (S \cup {s})
  OBVIOUS
<1>4. CASE WillRun(p, FALSE)
  <2>1. p.todo \in SUBSET Steps /\ p.waiting \in SUBSET Steps
    BY <1>1 DEF PlanType
  <2>2. MayBegin(p, {s}, p.todo)
    <3>1. p.mode = "parallel" => s \notin p.todo
      BY <1>1 DEF ListOK
    <3> QED
      BY <1>2, <2>1, <3>1 DEF MayBegin
  <2>3. p.status = "preview" => p.waiting = {}
    BY DEF Safe, WholeOK
  <2>4. Safe(Awaiting(q, p.waiting, p.todo)) /\ Calls(p, Awaiting(q, p.waiting, p.todo), {s})
    <3>1. /\ Safe(Awaiting(Begun(p, {s}, FALSE), p.waiting, p.todo))
          /\ Calls(p, Awaiting(Begun(p, {s}, FALSE), p.waiting, p.todo), {s})
      BY <1>4, <2>1, <2>2, <2>3, BeginSafe
    <3> QED
      BY <3>1
  <2>5. q \in PlanType /\ q.todo = p.todo /\ q.waiting = p.waiting
    <3>1. {s} \in SUBSET Steps /\ \A r \in {s} : p.tries[r] = 0
      BY <1>2
    <3> QED
      BY <1>1, <1>4, <3>1, BegunFields
  <2> HIDE DEF q
  <2>6. Awaiting(q, p.waiting, p.todo) = q
    BY <2>5 DEF Awaiting, PlanType
  <2>7. Safe(q) /\ Calls(p, q, {s})
    BY <2>4, <2>6
  <2>8. \A r \in Steps \ (S \cup {s}) : q.step[r] = p.step[r] /\ q.call[r] = p.call[r]
    BY <2>7 DEF Calls
  <2>9. /\ q.status = p.status /\ q.main = p.main /\ q.mode = p.mode /\ q.ok = p.ok
        /\ q.waiting = p.waiting
    BY <2>5, <2>7 DEF Calls
  <2>10. UnderWay(q, S \cup {s})
    BY <1>3, <2>8, <2>9 DEF UnderWay, Racing
  <2> QED
    BY <2>7, <2>9, <2>10 DEF q
<1>5. CASE ~ WillRun(p, FALSE)
  <2>1. \A r \in {s} \cap Steps : p.entry[r] = "none"
    BY <1>2
  <2>2. Safe(q) /\ SameButSteps(p, q) /\ GivenUp(p, q, {s})
    BY <1>5, <2>1, BegunIdle
  <2> HIDE DEF q
  <2>3. \A r \in Steps \ (S \cup {s}) : q.step[r] = p.step[r] /\ q.call[r] = p.call[r]
    BY <2>2 DEF SameButSteps, GivenUp
  <2>4. UnderWay(q, S \cup {s})
    BY <1>3, <2>2, <2>3 DEF UnderWay, Racing, SameButSteps
  <2> QED
    BY <2>2, <2>4 DEF SameButSteps, q
<1> QED
  BY <1>4, <1>5

\* The plan is approved, and its execution begins.
LEMMA ApprovedFine ==
  ASSUME NEW p, Safe(p), p.status = "preview", NEW S, UnderWay(p, S)
  PROVE  Fine(p, Approved(p), S)
<1> DEFINE A == StepsIn(p, {"pending"})
           b == SetSteps(p, A, "approved")
           q == [b EXCEPT !.status = "executing", !.main = "racing"]
           T == IF p.mode = "parallel" THEN StepsIn(q, {"approved"}) ELSE Steps
           r == [q EXCEPT !.todo = T]
<1>1. Approved(p) = Proceed(r, FALSE)
  BY DEF Approved
<1>2. p \in PlanType /\ "approved" \in StepStatus
  BY DEF Safe, StepStatus
<1>3. /\ b \in PlanType /\ SameButSteps(p, b)
      /\ b.step = [s \in Steps |-> IF s \in A THEN "approved" ELSE p.step[s]]
  BY <1>2, SetStepsFields
<1> HIDE DEF b
<1>4. /\ q \in PlanType /\ q.step = b.step /\ T \subseteq Steps
      /\ \A s \in T : p.mode = "parallel" => b.step[s] = "approved"
      /\ \A s \in Steps : b.step[s] = "approved" => s \in T
  BY <1>3 DEF PlanType, StepsIn
<1>5. /\ r \in PlanType
      /\ r.mode = b.mode /\ r.status = "executing" /\ r.step = b.step /\ r.call = b.call
      /\ r.tries = b.tries /\ r.todo = T /\ r.waiting = b.waiting /\ r.ok = b.ok
      /\ r.entry = b.entry /\ r.comp = b.comp /\ r.main = "racing" /\ r.flag = b.flag
  <2> HIDE DEF T
  <2> QED
    BY <1>3, <1>4 DEF PlanType
<1> HIDE DEF q, r, T
<1>6. /\ p.main = "none" /\ p.todo = {} /\ p.waiting = {} /\ p.ok
      /\ ~ p.comp["execution"].on
  BY DEF Safe, WholeOK
<1>7. /\ r.mode = p.mode /\ r.call = p.call /\ r.tries = p.tries /\ r.waiting = {}
      /\ r.entry = p.entry /\ r.comp = p.comp /\ r.flag = p.flag /\ r.ok = p.ok
      /\ \A s \in Steps : /\ p.step[s] = "pending" => r.step[s] = "approved"
                          /\ p.step[s] # "pending" => r.step[s] = p.step[s]
                          /\ r.step[s] = "approved" => s \in r.todo
                          /\ s \in r.todo /\ r.mode = "parallel" => r.step[s] = "approved"
  BY <1>3, <1>4, <1>5, <1>6 DEF SameButSteps, StepsIn
<1>8. StepsOK(r)
  <2> SUFFICES ASSUME NEW s \in Steps PROVE CallOK(r, s) /\ ListOK(r, s) /\ EntryOK(r, s)
    BY DEF StepsOK
  <2>1. CallOK(p, s) /\ ListOK(p, s) /\ EntryOK(p, s)
    BY DEF Safe, StepsOK
  <2>2. CASE p.step[s] = "pending"
    <3>1. r.step[s] = "approved" /\ p.tries[s] = 0 /\ p.entry[s] = "none"
      BY <1>7, <2>1, <2>2 DEF CallOK, EntryOK
    <3>2. CallOK(r, s)
      BY <1>7, <2>1, <2>2, <3>1 DEF CallOK
    <3>3. ListOK(r, s)
      BY <1>5, <1>7, <3>1 DEF ListOK
    <3>4. EntryOK(r, s)
      BY <1>7, <3>1 DEF EntryOK
    <3> QED
      BY <3>2, <3>3, <3>4
  <2>3. CASE p.step[s] # "pending"
    <3>1. r.step[s] = p.step[s]
      BY <1>7, <2>3
    <3>2. CallOK(r, s)
      BY <1>7, <2>1, <3>1 DEF CallOK
    <3>3. ListOK(r, s)
      <4>1. r.step[s] = "approved" => p.tries[s] = 0
        BY <2>1, <3>1 DEF CallOK
      <4> QED
        BY <1>5, <1>7, <4>1 DEF ListOK
    <3>4. EntryOK(r, s)
      BY <1>7, <2>1, <3>1 DEF EntryOK
    <3> QED
      BY <3>2, <3>3, <3>4
  <2> QED
    BY <2>2, <2>3
<1>9. WholeOK(r)
  BY <1>5, <1>6, <1>7 DEF Safe, WholeOK
<1>10. Safe(r)
  BY <1>5, <1>8, <1>9 DEF Safe
<1>11. UnderWay(r, S)
  <2>1. \A s \in Steps \ S : r.step[s] = "approved" /\ r.call[s] = "none"
    <3> SUFFICES ASSUME NEW s \in Steps \ S PROVE r.step[s] = "approved" /\ r.call[s] = "none"
      OBVIOUS
    <3>1. p.step[s] = "pending"
      BY DEF UnderWay
    <3>2. CallOK(p, s)
      BY DEF Safe, StepsOK
    <3> QED
      BY <1>7, <3>1, <3>2 DEF CallOK
  <2> QED
    BY <1>5, <1>6, <1>7, <2>1 DEF UnderWay, Racing
<1>12. Fine(r, Proceed(r, FALSE), S)
  BY <1>5, <1>7, <1>10, <1>11, ProceedFine
<1>13. Fine(p, Proceed(r, FALSE), S)
  <2>1. Accounted(r.status) = Accounted(p.status)
    BY <1>5 DEF Accounted
  <2> QED
    BY <1>5, <1>12, <2>1 DEF Fine, EndsHonestly
<1> QED
  BY <1>1, <1>13

\* Users take a plan back: its steps are cancelled or left as they are, and an execution
\* that goes on is not told.
TakenBack(p, q) ==
  /\ q.mode = p.mode /\ q.status = "cancelled" /\ q.main = p.main /\ q.call = p.call
  /\ q.waiting = p.waiting /\ q.ok = p.ok
  /\ \A s \in Steps : q.step[s] # "cancelled" => q.step[s] = p.step[s] /\ q.step[s] # "approved"

\* What is taken back is fine, whatever goes on.
LEMMA TakenBackFine ==
  ASSUME NEW p, NEW q, Safe(q), TakenBack(p, q), NEW S, UnderWay(p, S)
  PROVE  Fine(p, q, S)
<1>1. q.main = "racing" => Racing(q, S)
  <2> SUFFICES ASSUME p.main = "racing" PROVE Racing(q, S)
    BY DEF TakenBack
  <2>1. Racing(p, S)
    BY DEF UnderWay
  <2> QED
    BY <2>1 DEF Racing, TakenBack, Accounted
<1> QED
  BY <1>1 DEF Fine, UnderWay, EndsHonestly, TakenBack

\* A plan whose steps have been given up stays safe when it is cancelled, whether its
\* mark is taken away and it is archived or not.
LEMMA CancelledSafe ==
  ASSUME NEW o, NEW p, Safe(p), SameButSteps(o, p),
         \A s \in Steps : p.step[s] # "cancelled" => p.step[s] = o.step[s] /\ p.step[s] # "approved",
         NEW q,
         \/ q = [p EXCEPT !.status = "cancelled"]
         \/ q = [p EXCEPT !.status = "cancelled", !.active = FALSE]
         \/ q = [p EXCEPT !.status = "cancelled", !.flag = FALSE, !.active = FALSE]
  PROVE  Safe(q) /\ TakenBack(o, q)
<1>1. p \in PlanType
  BY DEF Safe
<1>2. Safe(q) /\ TakenBack(o, q)
  <2>1. /\ q \in PlanType
        /\ q.mode = p.mode /\ q.status = "cancelled" /\ q.step = p.step /\ q.call = p.call
        /\ q.tries = p.tries /\ q.todo = p.todo /\ q.waiting = p.waiting /\ q.ok = p.ok
        /\ q.entry = p.entry /\ q.comp = p.comp /\ q.main = p.main
        /\ q.flag => p.flag
    <3>1. CASE q = [p EXCEPT !.status = "cancelled"]
      BY <1>1, <3>1 DEF PlanType
    <3>2. CASE q = [p EXCEPT !.status = "cancelled", !.active = FALSE]
      BY <1>1, <3>2 DEF PlanType
    <3>3. CASE q = [p EXCEPT !.status = "cancelled", !.flag = FALSE, !.active = FALSE]
      BY <1>1, <3>3 DEF PlanType
    <3> QED
      BY <3>1, <3>2, <3>3
  <2>2. StepsOK(q)
    <3> SUFFICES ASSUME NEW s \in Steps PROVE CallOK(q, s) /\ ListOK(q, s) /\ EntryOK(q, s)
      BY DEF StepsOK
    <3>1. CallOK(p, s) /\ ListOK(p, s) /\ EntryOK(p, s)
      BY DEF Safe, StepsOK
    <3> QED
      BY <2>1, <3>1 DEF CallOK, ListOK, EntryOK
  <2>3. WholeOK(q)
    BY <2>1 DEF Safe, WholeOK
  <2>4. TakenBack(o, q)
    BY <2>1 DEF TakenBack, SameButSteps
  <2> QED
    BY <2>1, <2>2, <2>3, <2>4 DEF Safe
<1> QED
  BY <1>2

\* Giving up the steps in some states, that of the approved steps among them.
LEMMA GivenUpSteps ==
  ASSUME NEW p, Safe(p), NEW states, "approved" \in states,
         states \cap {"completed", "compensated"} = {},
         NEW b, b = SetSteps(p, StepsIn(p, states), "cancelled")
  PROVE  /\ Safe(b) /\ SameButSteps(p, b)
         /\ \A s \in Steps : b.step[s] # "cancelled" => b.step[s] = p.step[s] /\ b.step[s] # "approved"
<1>1. Safe(b)
  BY UncompletedSafe
<1>2. p \in PlanType /\ "cancelled" \in StepStatus
  BY DEF Safe, StepStatus
<1>3. /\ SameButSteps(p, b)
      /\ b.step = [s \in Steps |-> IF s \in StepsIn(p, states) THEN "cancelled" ELSE p.step[s]]
  BY <1>2, SetStepsFields
<1> QED
  BY <1>1, <1>3 DEF StepsIn

\* rejectPlan()
LEMMA RejectedFine ==
  ASSUME NEW p, Safe(p), NEW S, UnderWay(p, S)
  PROVE  Fine(p, Rejected(p), S)
<1> DEFINE b == SetSteps(p, StepsIn(p, {"pending", "approved"}), "cancelled")
           q == [b EXCEPT !.status = "cancelled", !.active = FALSE]
<1>1. "approved" \in {"pending", "approved"} /\ {"pending", "approved"} \cap {"completed", "compensated"} = {}
  OBVIOUS
<1>2. /\ Safe(b) /\ SameButSteps(p, b)
      /\ \A s \in Steps : b.step[s] # "cancelled" => b.step[s] = p.step[s] /\ b.step[s] # "approved"
  BY <1>1, GivenUpSteps
<1>3. Rejected(p) = q
  BY DEF Rejected
<1> HIDE DEF b
<1>4. Safe(q) /\ TakenBack(p, q)
  BY <1>2, CancelledSafe
<1> HIDE DEF q
<1> QED
  BY <1>3, <1>4, TakenBackFine

\* cancelPlan()
LEMMA CancelledFine ==
  ASSUME NEW p, Safe(p), NEW S, UnderWay(p, S)
  PROVE  Fine(p, Cancelled(p), S)
<1> DEFINE b == SetSteps(p, StepsIn(p, {"pending", "approved", "executing"}), "cancelled")
           q == [b EXCEPT !.status = "cancelled"]
           m == [q EXCEPT !.flag = TRUE]
           c == StartCompensation(m, "cancel")
           e == [q EXCEPT !.flag = FALSE, !.active = FALSE]
           d == [b EXCEPT !.status = "cancelled", !.flag = FALSE, !.active = FALSE]
<1>1. /\ "approved" \in {"pending", "approved", "executing"}
      /\ {"pending", "approved", "executing"} \cap {"completed", "compensated"} = {}
  OBVIOUS
<1>2. /\ Safe(b) /\ SameButSteps(p, b)
      /\ \A s \in Steps : b.step[s] # "cancelled" => b.step[s] = p.step[s] /\ b.step[s] # "approved"
  BY <1>1, GivenUpSteps
<1>3. Cancelled(p) = IF StepsIn(q, {"completed"}) # {} THEN c ELSE e
  BY DEF Cancelled
<1> HIDE DEF b
<1>4. b \in PlanType
  BY <1>2 DEF Safe
<1>5. Safe(q) /\ TakenBack(p, q) /\ Safe(d) /\ TakenBack(p, d)
  BY <1>2, CancelledSafe
<1>6. e = d
  BY <1>4 DEF PlanType
<1> HIDE DEF q, d, e
<1>7. Fine(p, q, S) /\ Fine(p, e, S)
  BY <1>5, <1>6, TakenBackFine
<1>8. Safe(c) /\ Beside(q, c) /\ c.main = q.main
  <2>1. "cancel" \in Callers
    BY DEF Callers
  <2>2. /\ Safe(StartCompensation(m, "cancel")) /\ Beside(q, StartCompensation(m, "cancel"))
        /\ StartCompensation(m, "cancel").main \in {q.main} \cup IF "cancel" = "execution" THEN {"over"} ELSE {}
    BY <1>5, <2>1, StartCompensationSafe
  <2> QED
    BY <2>2
<1> HIDE DEF c
<1>9. UnderWay(c, S)
  BY <1>7, <1>8, BesideUnderWay DEF Fine
<1>10. c.status = "cancelled"
  BY <1>5, <1>8 DEF Beside, TakenBack
<1>11. Fine(p, c, S)
  BY <1>8, <1>9, <1>10 DEF Fine, EndsHonestly
<1> QED
  BY <1>3, <1>7, <1>11

\* The time limit.
LEMMA TimeoutFine ==
  ASSUME NEW p, Safe(p), p.main = "racing", NEW S
  PROVE  Fine(p, Settled(p, FALSE, TRUE), S)
<1>1. /\ Safe(Settled(p, FALSE, TRUE)) /\ Settled(p, FALSE, TRUE).status = "failed"
      /\ Settled(p, FALSE, TRUE).main # "racing"
  BY SettledSafe
<1> QED
  BY <1>1 DEF Fine, UnderWay, EndsHonestly

\* The user asks for the compensation of the plan.
LEMMA CompensateFine ==
  ASSUME NEW p, Safe(p), NEW S, UnderWay(p, S)
  PROVE  Fine(p, StartCompensation(p, "user"), S)
<1>1. "user" \in Callers /\ p.flag \in BOOLEAN /\ p = [p EXCEPT !.flag = p.flag]
  BY DEF Callers, Safe, PlanType
<1>2. /\ Safe(StartCompensation(p, "user")) /\ Beside(p, StartCompensation(p, "user"))
      /\ StartCompensation(p, "user").main = p.main
  BY <1>1, StartCompensationSafe
<1> QED
  BY <1>2, BesideUnderWay DEF Fine

-----------------------------------------------------------------------------
(* The machine *)

\* The inductive invariant.
IInv == TypeOK /\ Safe(plan) /\ UnderWay(plan, single)

\* The first plan is safe.
LEMMA InitInv == Init => IInv
<1> SUFFICES ASSUME Init PROVE IInv
  OBVIOUS
<1>1. PICK mode \in Modes : plan = NewPlan(mode)
  BY DEF Init
<1>2. Safe(plan) /\ UnderWay(plan, {})
  BY <1>1, NewPlanSafe
<1> QED
  BY <1>2 DEF IInv, TypeOK, Init, Safe

\* A step keeps the plan safe and on its way, and does not complete it dishonestly.
LEMMA NextFine ==
  ASSUME IInv, [Next]_vars
  PROVE  /\ Safe(plan') /\ UnderWay(plan', single') /\ EndsHonestly(plan, plan', single)
         /\ single' \subseteq Steps /\ stopped' \in BOOLEAN
<1>1. Safe(plan) /\ UnderWay(plan, single) /\ single \subseteq Steps /\ stopped \in BOOLEAN
  BY DEF IInv, TypeOK
<1> DEFINE Keeps == /\ Fine(plan, plan', single)
                    /\ single' = single /\ stopped' \in BOOLEAN
<1>2. SUFFICES ASSUME ~ (\E s \in Steps : ApproveStep(s)) PROVE Keeps
  <2>1. CASE Keeps
    BY <1>1, <2>1 DEF Fine
  <2>2. ASSUME NEW s \in Steps, ApproveStep(s)
        PROVE  /\ Safe(plan') /\ UnderWay(plan', single') /\ EndsHonestly(plan, plan', single)
               /\ single' \subseteq Steps /\ stopped' \in BOOLEAN
    <3>1. /\ plan.step[s] = "pending" /\ plan' = Begun(plan, {s}, FALSE)
          /\ single' = single \cup {s} /\ stopped' = stopped
      BY <2>2 DEF ApproveStep
    <3>2. Safe(plan') /\ UnderWay(plan', single') /\ plan'.status = plan.status
      BY <1>1, <3>1, ApproveStepFine
    <3>3. EndsHonestly(plan, plan', single)
      BY <3>2 DEF EndsHonestly
    <3> QED
      BY <1>1, <3>1, <3>2, <3>3
  <2> QED
    BY <1>2, <2>1, <2>2
<1>3. CASE UNCHANGED vars
  BY <1>1, <1>3 DEF vars, Fine, EndsHonestly
<1>4. CASE ApprovePlan
  BY <1>1, <1>4, ApprovedFine DEF ApprovePlan
<1>5. CASE RejectPlan
  BY <1>1, <1>5, RejectedFine DEF RejectPlan
<1>6. CASE CancelPlan
  BY <1>1, <1>6, CancelledFine DEF CancelPlan
<1>7. CASE CompensatePlan
  BY <1>1, <1>7, CompensateFine DEF CompensatePlan
<1>8. CASE PlanTimeout
  BY <1>1, <1>8, TimeoutFine DEF PlanTimeout
<1>9. ASSUME NEW s \in Steps, ToolReturns(s) PROVE Keeps
  <2>1. PICK cost \in Consumption, late \in BOOLEAN :
          plan' \in { ToolSucceeded(plan, s, cost, late), ToolFailed(plan, s, cost, late) }
    BY <1>9 DEF ToolReturns
  <2>2. plan.call[s] = "routing" /\ single' = single /\ stopped' = stopped
    BY <1>9 DEF ToolReturns
  <2>3. CASE plan' = ToolSucceeded(plan, s, cost, late)
    BY <1>1, <2>2, <2>3, SucceededFine
  <2>4. CASE plan' = ToolFailed(plan, s, cost, late)
    BY <1>1, <2>2, <2>4, FailedFine
  <2> QED
    BY <2>1, <2>3, <2>4
<1>10. ASSUME NEW s \in Steps, RetryDelay(s) PROVE Keeps
  BY <1>1, <1>10, BackedOffFine DEF RetryDelay
<1>11. ASSUME NEW c \in Callers, CompensationReturns(c) PROVE Keeps
  BY <1>1, <1>11, CompensationReturnedSafe DEF CompensationReturns
<1> QED
  BY <1>2, <1>3, <1>4, <1>5, <1>6, <1>7, <1>8, <1>9, <1>10, <1>11 DEF Next

\* Every step keeps the plan safe and on its way.
LEMMA NextInv == IInv /\ [Next]_vars => IInv'
<1> SUFFICES ASSUME IInv, [Next]_vars PROVE IInv'
  OBVIOUS
<1>1. /\ Safe(plan') /\ UnderWay(plan', single')
      /\ single' \subseteq Steps /\ stopped' \in BOOLEAN
  BY NextFine
<1>2. plan' \in PlanType
  BY <1>1 DEF Safe
<1> QED
  BY <1>1, <1>2 DEF IInv, TypeOK

\* So it is at all times.
LEMMA Invariance == Spec => []IInv
<1>1. Init => IInv
  BY InitInv
<1>2. IInv /\ [Next]_vars => IInv'
  BY NextInv
<1> QED
  BY <1>1, <1>2, PTL DEF Spec

\* A plan is always what the code takes it for: no step is tried more often than the
\* retries allow, and the list of the execution names the plan's own steps.
THEOREM PlanCorrect == Spec => []TypeOK
<1>1. IInv => TypeOK
  BY DEF IInv
<1> QED
  BY <1>1, Invariance, PTL

\* A destructive tool is called at most once for its step, whatever the mode, the
\* number of steps, the size of a batch and the number of retries, and whoever
\* approves, cancels or gives up what is under way.
THEOREM DestructiveCorrect == Spec => []DestructiveOnce
<1>1. IInv => DestructiveOnce
  <2> SUFFICES ASSUME IInv, NEW s \in Destructive PROVE plan.tries[s] <= 1
    BY DEF DestructiveOnce
  <2>1. s \in Steps
    BY OrchestratorAssumption
  <2> QED
    BY <2>1 DEF IInv, Safe, StepsOK, CallOK
<1> QED
  BY <1>1, Invariance, PTL

\* Once nothing is under way, no step is left approved or executing, and the plan is
\* not left marked as to be cancelled.
THEOREM StrandedCorrect == Spec => []NothingStranded
<1>1. IInv => NothingStranded
  <2> SUFFICES ASSUME IInv, Quiet
               PROVE  (\A s \in Steps : plan.step[s] \notin {"approved", "executing"}) /\ ~ plan.flag
    BY DEF NothingStranded
  <2>1. ASSUME NEW s \in Steps PROVE plan.step[s] \notin {"approved", "executing"}
    BY DEF IInv, Safe, StepsOK, CallOK, ListOK, Quiet
  <2>2. ~ plan.flag
    BY DEF IInv, Safe, WholeOK, Quiet, Callers
  <2> QED
    BY <2>1, <2>2
<1> QED
  BY <1>1, Invariance, PTL

\* Once nothing is under way, the steps shown as compensated are exactly those whose
\* compensation was executed, however many callers compensated the plan at once.
THEOREM CompensatedCorrect == Spec => []CompensatedIsUndone
<1>1. IInv => CompensatedIsUndone
  <2> SUFFICES ASSUME IInv, Quiet, NEW s \in Steps
               PROVE  plan.entry[s] = "undone" <=> plan.step[s] = "compensated"
    BY DEF CompensatedIsUndone
  <2>1. EntryOK(plan, s) /\ ~ (\E c \in Callers : plan.comp[c].on)
    BY DEF IInv, Safe, StepsOK, Quiet
  <2> QED
    BY <2>1 DEF EntryOK
<1> QED
  BY <1>1, Invariance, PTL

\* A plan becomes completed, and that from whatever status, only when each step that was
\* not approved on its own is done or, if users rejected or cancelled the plan under its
\* execution, taken back by them: in every mode, with failures, cancellations, time
\* limits and budgets that run out on the way.
THEOREM HonestCorrect == Spec => CompletedHonestly
<1> DEFINE Honest == plan.status # "completed" /\ plan'.status = "completed"
                       => \A s \in Steps \ single : plan'.step[s] \in Accounted(plan.status)
<1>1. IInv /\ [Next]_vars => [Honest]_vars
  BY NextFine DEF EndsHonestly
<1> QED
  BY <1>1, Invariance, PTL DEF Spec, CompletedHonestly

-----------------------------------------------------------------------------
(* Subsets of a finite set *)

\* What holds of no element, and of a set if of the set without any one element, holds
\* of every subset of a finite set: T are those of which it holds.
LEMMA SubsetInduction ==
  ASSUME NEW D, IsFiniteSet(D), NEW T, {} \in T,
         \A s \in SUBSET D : s # {} /\ (\A x \in s : s \ {x} \in T) => s \in T
  PROVE  \A s \in SUBSET D : s \in T
<1> DEFINE Bad == { s \in SUBSET D : s \notin T }
           N == { Cardinality(s) : s \in Bad }
<1>1. SUFFICES ASSUME Bad # {} PROVE FALSE
  OBVIOUS
<1>2. \A s \in SUBSET D : IsFiniteSet(s) /\ Cardinality(s) \in Nat
  BY FS_Subset, FS_CardinalityType
<1>3. N \in SUBSET Nat /\ N # {}
  BY <1>1, <1>2
<1>4. PICK n \in N : \A m \in N : n <= m
  <2> HIDE DEF N
  <2> QED
    BY <1>3, LeastNumber
<1>5. PICK s \in Bad : n = Cardinality(s)
  BY <1>4
<1>6. PICK x \in s : s \ {x} \notin T
  BY <1>5
<1>7. Cardinality(s \ {x}) = Cardinality(s) - 1
  BY <1>2, <1>5, FS_RemoveElement
<1>8. Cardinality(s \ {x}) \in N
  BY <1>5, <1>6
<1>9. Cardinality(s) <= Cardinality(s \ {x}) /\ Cardinality(s) \in Nat
  BY <1>2, <1>4, <1>5, <1>8
<1> QED
  BY <1>7, <1>9

-----------------------------------------------------------------------------
(* Totals *)

\* The element a total takes first.
First(s) == CHOOSE x \in s : TRUE

\* F is the recursive function behind the totals of h, on the sets of P.
Adds(F, h, P) ==
  F = [s \in P |-> IF s = {} THEN 0 ELSE h[First(s)] + F[s \ {First(s)}]]

\* Total() is its value for the whole set, if there is one.
LEMMA TotalChoice ==
  ASSUME NEW h, NEW D
  PROVE  Total(h, D) = (CHOOSE F : Adds(F, h, SUBSET D))[D]
BY DEF Total, Adds, First, MapThenSumSet, MapThenFoldSet

\* The subsets of up to n elements.
UpTo(D, n) == { s \in SUBSET D : Cardinality(s) <= n }

\* There is one for them.
LEMMA AddsUpTo ==
  ASSUME NEW h, NEW D, IsFiniteSet(D), NEW n \in Nat
  PROVE  \E F : Adds(F, h, UpTo(D, n))
<1> DEFINE P(m) == UpTo(D, m)
           Bad == { m \in Nat : ~ (\E F : Adds(F, h, P(m))) }
<1>1. SUFFICES ASSUME Bad # {} PROVE FALSE
  OBVIOUS
<1>2. PICK m \in Bad : \A k \in Bad : m <= k
  <2>1. Bad \in SUBSET Nat
    OBVIOUS
  <2> HIDE DEF Bad
  <2> QED
    BY <1>1, <2>1, LeastNumber
<1>3. m \in Nat /\ ~ (\E F : Adds(F, h, P(m)))
  BY <1>2
<1>4. \A s \in SUBSET D : /\ IsFiniteSet(s) /\ Cardinality(s) \in Nat
                          /\ Cardinality(s) = 0 <=> s = {}
  BY FS_Subset, FS_CardinalityType, FS_EmptySet
<1>5. m # 0
  <2> SUFFICES ASSUME m = 0 PROVE FALSE
    OBVIOUS
  <2> DEFINE F == [s \in P(0) |-> 0]
  <2>1. \A s \in P(0) : s = {}
    BY <1>4 DEF UpTo
  <2>2. Adds(F, h, P(0))
    <3> HIDE DEF P
    <3> QED
      BY <2>1 DEF Adds
  <2> QED
    BY <1>3, <2>2
<1>6. PICK F : Adds(F, h, P(m - 1))
  <2>1. m - 1 \in Nat /\ ~ (m <= m - 1)
    BY <1>3, <1>5
  <2>2. m - 1 \notin Bad
    BY <1>2, <2>1
  <2> QED
    BY <2>1, <2>2
<1> DEFINE G == [s \in P(m) |-> IF s = {} THEN 0 ELSE h[First(s)] + F[s \ {First(s)}]]
<1>7. ASSUME NEW s \in P(m), s # {}
      PROVE  G[s \ {First(s)}] = F[s \ {First(s)}]
  <2> DEFINE t == s \ {First(s)}
  <2>1. First(s) \in s
    BY <1>7 DEF First
  <2>2. Cardinality(t) = Cardinality(s) - 1
    BY <1>4, <2>1, FS_RemoveElement DEF UpTo
  <2>3. t \in P(m) /\ t \in P(m - 1)
    BY <1>3, <1>4, <2>2 DEF UpTo
  <2> HIDE DEF t, P
  <2>4. F[t] = IF t = {} THEN 0 ELSE h[First(t)] + F[t \ {First(t)}]
    BY <1>6, <2>3 DEF Adds
  <2>5. G[t] = IF t = {} THEN 0 ELSE h[First(t)] + F[t \ {First(t)}]
    BY <2>3
  <2> QED
    BY <2>4, <2>5 DEF t
<1>8. G = [s \in P(m) |-> IF s = {} THEN 0 ELSE h[First(s)] + G[s \ {First(s)}]]
  <2> HIDE DEF P
  <2> QED
    BY <1>7
<1> HIDE DEF G, P
<1>9. Adds(G, h, P(m))
  BY <1>8 DEF Adds
<1> QED
  BY <1>3, <1>9

\* A function with this recursion for the subsets of D.
Sums(F, h, D) == Adds(F, h, SUBSET D)

\* So there is one for all of them.
LEMMA AddsExists ==
  ASSUME NEW h, NEW D, IsFiniteSet(D)
  PROVE  \E F : Sums(F, h, D) /\ Total(h, D) = F[D]
<1>1. Cardinality(D) \in Nat
  BY FS_CardinalityType
<1>2. UpTo(D, Cardinality(D)) = SUBSET D
  BY FS_Subset DEF UpTo
<1>3. \E F : Adds(F, h, UpTo(D, Cardinality(D)))
  BY <1>1, AddsUpTo
<1>4. \E F : Adds(F, h, SUBSET D)
  BY <1>2, <1>3
<1>5. Adds(CHOOSE F : Adds(F, h, SUBSET D), h, SUBSET D)
  BY <1>4
<1> QED
  BY <1>5, TotalChoice DEF Sums

\* What such a function has for a set depends on nothing else.
LEMMA AddsAgree ==
  ASSUME NEW h, NEW D, NEW F, Sums(F, h, D),
         NEW k, NEW E, E \subseteq D, IsFiniteSet(E), NEW G, Sums(G, k, E),
         \A x \in E : h[x] = k[x]
  PROVE  \A s \in SUBSET E : F[s] = G[s]
<1> DEFINE T == { s \in SUBSET E : F[s] = G[s] }
<1>1. /\ \A s \in SUBSET D : F[s] = IF s = {} THEN 0 ELSE h[First(s)] + F[s \ {First(s)}]
      /\ \A s \in SUBSET E : G[s] = IF s = {} THEN 0 ELSE k[First(s)] + G[s \ {First(s)}]
  BY DEF Sums, Adds
<1>2. {} \in T
  BY <1>1
<1>3. ASSUME NEW s \in SUBSET E, s # {}, \A x \in s : s \ {x} \in T
      PROVE  s \in T
  <2>1. First(s) \in s
    BY <1>3 DEF First
  <2>2. F[s \ {First(s)}] = G[s \ {First(s)}] /\ h[First(s)] = k[First(s)]
    BY <1>3, <2>1
  <2> QED
    BY <1>1, <1>3, <2>2
<1> HIDE DEF T
<1>4. \A s \in SUBSET E : s \in T
  BY <1>2, <1>3, SubsetInduction
<1> QED
  BY <1>4 DEF T

\* Amounts that are the same add up to the same.
LEMMA TotalAgrees ==
  ASSUME NEW h, NEW k, NEW D, IsFiniteSet(D), \A x \in D : h[x] = k[x]
  PROVE  Total(h, D) = Total(k, D)
<1>1. PICK F : Sums(F, h, D) /\ Total(h, D) = F[D]
  BY AddsExists
<1>2. PICK G : Sums(G, k, D) /\ Total(k, D) = G[D]
  BY AddsExists
<1>3. \A s \in SUBSET D : F[s] = G[s]
  <2>1. D \subseteq D
    OBVIOUS
  <2> QED
    BY <1>1, <1>2, <2>1, AddsAgree
<1> QED
  BY <1>1, <1>2, <1>3

\* The recursion of totals.
LEMMA TotalTakes ==
  ASSUME NEW h, NEW D, IsFiniteSet(D), D # {}
  PROVE  First(D) \in D /\ Total(h, D) = h[First(D)] + Total(h, D \ {First(D)})
<1> DEFINE E == D \ {First(D)}
<1>1. First(D) \in D
  BY DEF First
<1>2. IsFiniteSet(E) /\ E \subseteq D
  BY FS_RemoveElement
<1> HIDE DEF E
<1>3. PICK F : Sums(F, h, D) /\ Total(h, D) = F[D]
  BY AddsExists
<1>4. PICK G : Sums(G, h, E) /\ Total(h, E) = G[E]
  BY <1>2, AddsExists
<1>5. \A s \in SUBSET E : F[s] = G[s]
  <2>1. \A x \in E : h[x] = h[x]
    OBVIOUS
  <2> QED
    BY <1>2, <1>3, <1>4, <2>1, AddsAgree
<1>6. F[D] = h[First(D)] + F[E]
  BY <1>3 DEF Sums, Adds, E
<1> QED
  BY <1>1, <1>3, <1>4, <1>5, <1>6 DEF E

\* No job, no tokens.
LEMMA TotalEmpty ==
  ASSUME NEW h
  PROVE  Total(h, {}) = 0
<1>1. IsFiniteSet({})
  BY FS_EmptySet
<1>2. PICK F : Sums(F, h, {}) /\ Total(h, {}) = F[{}]
  BY <1>1, AddsExists
<1> QED
  BY <1>2 DEF Sums, Adds

\* Totals of integers are integers, and those of natural numbers are natural numbers.
LEMMA TotalType ==
  ASSUME NEW h, NEW D, IsFiniteSet(D), NEW N \in {Nat, Int}, \A x \in D : h[x] \in N
  PROVE  Total(h, D) \in N
<1> DEFINE T == { s \in SUBSET D : Total(h, s) \in N }
<1>1. {} \in T
  BY TotalEmpty
<1>2. ASSUME NEW s \in SUBSET D, s # {}, \A x \in s : s \ {x} \in T
      PROVE  s \in T
  <2>1. IsFiniteSet(s)
    BY FS_Subset
  <2>2. First(s) \in s /\ Total(h, s) = h[First(s)] + Total(h, s \ {First(s)})
    BY <1>2, <2>1, TotalTakes
  <2>3. h[First(s)] \in N /\ Total(h, s \ {First(s)}) \in N
    BY <1>2, <2>2
  <2>4. \A a, b \in N : a + b \in N
    OBVIOUS
  <2> QED
    BY <2>2, <2>3, <2>4
<1> HIDE DEF T
<1>3. \A s \in SUBSET D : s \in T
  BY <1>1, <1>2, SubsetInduction
<1> QED
  BY <1>3 DEF T

\* Amounts of nothing add up to nothing.
LEMMA TotalOfNothing ==
  ASSUME NEW h, NEW D, IsFiniteSet(D), \A x \in D : h[x] = 0
  PROVE  Total(h, D) = 0
<1> DEFINE T == { s \in SUBSET D : Total(h, s) = 0 }
<1>1. {} \in T
  BY TotalEmpty
<1>2. ASSUME NEW s \in SUBSET D, s # {}, \A x \in s : s \ {x} \in T
      PROVE  s \in T
  <2>1. IsFiniteSet(s)
    BY FS_Subset
  <2>2. First(s) \in s /\ Total(h, s) = h[First(s)] + Total(h, s \ {First(s)})
    BY <1>2, <2>1, TotalTakes
  <2>3. h[First(s)] = 0 /\ Total(h, s \ {First(s)}) = 0
    BY <1>2, <2>2
  <2> QED
    BY <2>2, <2>3
<1> HIDE DEF T
<1>3. \A s \in SUBSET D : s \in T
  BY <1>1, <1>2, SubsetInduction
<1> QED
  BY <1>3 DEF T

\* Any element may be taken first.
LEMMA TotalSplit ==
  ASSUME NEW h, NEW D, IsFiniteSet(D), \A x \in D : h[x] \in Int, NEW a \in D
  PROVE  Total(h, D) = h[a] + Total(h, D \ {a})
<1> DEFINE T == { s \in SUBSET D : \A x \in s : Total(h, s) = h[x] + Total(h, s \ {x}) }
<1>1. {} \in T
  OBVIOUS
<1>2. ASSUME NEW s \in SUBSET D, s # {}, \A x \in s : s \ {x} \in T
      PROVE  s \in T
  <2> SUFFICES ASSUME NEW x \in s PROVE Total(h, s) = h[x] + Total(h, s \ {x})
    OBVIOUS
  <2> DEFINE c == First(s)
             r == (s \ {c}) \ {x}
  <2>1. IsFiniteSet(s)
    BY FS_Subset
  <2>2. c \in s /\ Total(h, s) = h[c] + Total(h, s \ {c})
    BY <1>2, <2>1, TotalTakes
  <2> HIDE DEF c
  <2>3. CASE x = c
    BY <2>2, <2>3
  <2>4. CASE x # c
    <3>1. Total(h, s \ {c}) = h[x] + Total(h, r)
      BY <1>2, <2>2, <2>4
    <3>2. Total(h, s \ {x}) = h[c] + Total(h, (s \ {x}) \ {c})
      BY <1>2, <2>2, <2>4
    <3>3. (s \ {x}) \ {c} = r
      OBVIOUS
    <3>4. Total(h, r) \in Int
      <4>1. r \subseteq D /\ IsFiniteSet(r) /\ \A y \in r : h[y] \in Int
        BY FS_Subset
      <4> HIDE DEF r
      <4> QED
        BY <4>1, TotalType
    <3>5. h[x] \in Int /\ h[c] \in Int
      BY <2>2
    <3>6. Total(h, s \ {x}) = h[c] + Total(h, r)
      BY <3>2, <3>3
    <3> HIDE DEF r
    <3>7. Total(h, s) = h[c] + (h[x] + Total(h, r))
      BY <2>2, <3>1
    <3>8. Total(h, s) = h[x] + (h[c] + Total(h, r))
      BY <3>4, <3>5, <3>7
    <3> QED
      BY <3>6, <3>8
  <2> QED
    BY <2>3, <2>4
<1> HIDE DEF T
<1>3. \A s \in SUBSET D : s \in T
  BY <1>1, <1>2, SubsetInduction
<1>4. D \in T
  BY <1>3
<1> QED
  BY <1>4 DEF T

\* One amount changes.
LEMMA TotalExcept ==
  ASSUME NEW D, IsFiniteSet(D), NEW h, NEW k, NEW a \in D,
         \A x \in D : h[x] \in Int /\ k[x] \in Int, \A x \in D \ {a} : k[x] = h[x]
  PROVE  Total(k, D) = Total(h, D) - h[a] + k[a]
<1> DEFINE E == D \ {a}
<1>1. Total(h, D) = h[a] + Total(h, E) /\ Total(k, D) = k[a] + Total(k, E)
  BY TotalSplit
<1>2. IsFiniteSet(E) /\ \A x \in E : h[x] \in Int /\ k[x] = h[x]
  BY FS_RemoveElement
<1> HIDE DEF E
<1>3. Total(k, E) = Total(h, E)
  BY <1>2, TotalAgrees
<1>4. Total(h, E) \in Int
  BY <1>2, TotalType
<1>5. h[a] \in Int /\ k[a] \in Int
  OBVIOUS
<1> QED
  BY <1>1, <1>3, <1>4, <1>5

\* The amounts of some elements are taken away.
LEMMA TotalWithout ==
  ASSUME NEW D, IsFiniteSet(D), NEW h \in [D -> Int], NEW S \in SUBSET D
  PROVE  Total([k \in D |-> IF k \in S THEN 0 ELSE h[k]], D) = Total(h, D) - Total(h, S)
<1> DEFINE g(s) == [k \in D |-> IF k \in s THEN 0 ELSE h[k]]
           T == { s \in SUBSET D : Total(g(s), D) = Total(h, D) - Total(h, s) }
<1>1. Total(h, D) \in Int
  BY TotalType
<1>2. {} \in T
  <2>1. g({}) = h
    OBVIOUS
  <2>2. Total(h, {}) = 0
    BY TotalEmpty
  <2> HIDE DEF g
  <2> QED
    BY <1>1, <2>1, <2>2
<1>3. ASSUME NEW s \in SUBSET D, s # {}, \A x \in s : s \ {x} \in T
      PROVE  s \in T
  <2>1. PICK x : x \in s
    BY <1>3
  <2> DEFINE r == s \ {x}
  <2>2. /\ x \in D /\ g(r)[x] = h[x] /\ g(s)[x] = 0
        /\ \A y \in D : g(r)[y] \in Int /\ g(s)[y] \in Int
        /\ \A y \in D \ {x} : g(s)[y] = g(r)[y]
    BY <2>1
  <2>3. Total(g(r), D) = Total(h, D) - Total(h, r)
    BY <1>3, <2>1
  <2>4. IsFiniteSet(s) /\ IsFiniteSet(r) /\ (\A y \in s : h[y] \in Int) /\ (\A y \in r : h[y] \in Int)
    BY FS_Subset
  <2>5. Total(h, s) = h[x] + Total(h, r)
    BY <2>1, <2>4, TotalSplit
  <2> HIDE DEF r, g
  <2>6. Total(g(s), D) = Total(g(r), D) - h[x] + 0
    <3> DEFINE u == g(r)
               w == g(s)
    <3>1. /\ x \in D /\ u[x] = h[x] /\ w[x] = 0
          /\ \A y \in D : u[y] \in Int /\ w[y] \in Int
          /\ \A y \in D \ {x} : w[y] = u[y]
      BY <2>2
    <3> HIDE DEF u, w
    <3>2. Total(w, D) = Total(u, D) - u[x] + w[x]
      BY <3>1, TotalExcept
    <3>3. Total(w, D) = Total(u, D) - h[x] + 0
      BY <3>1, <3>2
    <3> QED
      BY <3>3 DEF u, w
  <2>7. Total(h, r) \in Int /\ h[x] \in Int
    BY <2>1, <2>4, TotalType
  <2>8. Total(g(s), D) = Total(h, D) - Total(h, s)
    BY <1>1, <2>3, <2>5, <2>6, <2>7
  <2> QED
    BY <2>8
<1> HIDE DEF T
<1>4. \A s \in SUBSET D : s \in T
  BY <1>2, <1>3, SubsetInduction
<1> QED
  BY <1>4 DEF T

-----------------------------------------------------------------------------
(* The wallet *)

\* Every step keeps the types.
LEMMA WalletTypeStep ==
  ASSUME WalletTypeOK, [WalletNext]_walletVars
  PROVE  WalletTypeOK'
<1> USE DEF WalletTypeOK
<1>0. Quote \in [Jobs -> Nat]
  BY WalletAssumption
<1>1. ASSUME NEW j \in Jobs, StartJob(j) PROVE WalletTypeOK'
  BY <1>0, <1>1 DEF StartJob, Hold
<1>2. ASSUME NEW j \in Jobs, NEW n \in Actuals \cup {Quote[j]}, CompleteJob(j, n) PROVE WalletTypeOK'
  <2>1. n \in Nat
    BY WalletAssumption
  <2> QED
    BY <1>2, <2>1 DEF CompleteJob, Settle
<1>3. ASSUME NEW j \in Jobs, FailJob(j) PROVE WalletTypeOK'
  BY <1>3 DEF FailJob, Release
<1>4. ASSUME NEW j \in Jobs, ReleaseStaleHolds(j) PROVE WalletTypeOK'
  <2>1. PICK S \in SUBSET Jobs :
          held' = held - Total(hold, S) /\ hold' = [k \in Jobs |-> IF k \in S THEN 0 ELSE hold[k]]
    BY <1>4 DEF ReleaseStaleHolds
  <2>2. IsFiniteSet(S)
    <3>1. IsFiniteSet(Jobs)
      BY WalletAssumption
    <3> QED
      BY <3>1, FS_Subset
  <2>3. Total(hold, S) \in Int
    <3>1. \A k \in S : hold[k] \in Int
      OBVIOUS
    <3> QED
      BY <2>2, <3>1, TotalType
  <2> QED
    BY <1>4, <2>1, <2>3 DEF ReleaseStaleHolds
<1>5. ASSUME NEW n \in Amounts, Credit(n) \/ Refund(n) PROVE WalletTypeOK'
  <2>1. n \in Nat
    BY WalletAssumption
  <2> QED
    BY <1>5, <2>1 DEF Credit, Refund
<1>6. CASE ResetMonthly
  BY <1>6 DEF ResetMonthly
<1>7. CASE UNCHANGED walletVars
  BY <1>7 DEF walletVars
<1> QED
  BY <1>1, <1>2, <1>3, <1>4, <1>5, <1>6, <1>7 DEF WalletNext

\* A hold is for the job's quote, and nothing is charged to a job that has not completed.
Quoted ==
  \A j \in Jobs : /\ hold[j] # 0 => hold[j] = Quote[j]
                  /\ job[j] # "completed" => actual[j] = 0

\* The inductive invariant behind the totals.
WalletInv == WalletTypeOK /\ HeldIsHolds /\ Quoted

\* The wallet at first holds nothing.
LEMMA WalletInitInv == WalletInit => WalletInv
<1> SUFFICES ASSUME WalletInit PROVE WalletInv
  OBVIOUS
<1>1. WalletTypeOK /\ Quoted
  BY WalletAssumption DEF WalletInit, WalletTypeOK, Quoted
<1>2. Total(hold, Jobs) = 0
  BY WalletAssumption, TotalOfNothing DEF WalletInit
<1>3. HeldIsHolds
  BY <1>2 DEF WalletInit, HeldIsHolds
<1> QED
  BY <1>1, <1>3 DEF WalletInv

\* Where one hold is made, settled or released, held moves with it.
LEMMA HoldMoves ==
  ASSUME WalletTypeOK, WalletTypeOK', HeldIsHolds, NEW j \in Jobs,
         held' = held - hold[j] + hold'[j],
         \A k \in Jobs \ {j} : hold'[k] = hold[k] /\ job'[k] = job[k],
         hold'[j] # 0 => job'[j] = "active"
  PROVE  HeldIsHolds'
<1>1. (\A k \in Jobs : hold[k] \in Int /\ hold'[k] \in Int) /\ IsFiniteSet(Jobs)
  BY WalletAssumption DEF WalletTypeOK
<1>2. \A k \in Jobs \ {j} : hold'[k] = hold[k]
  OBVIOUS
<1>3. Total(hold', Jobs) = Total(hold, Jobs) - hold[j] + hold'[j]
  BY <1>1, <1>2, TotalExcept
<1>4. held' = Total(hold', Jobs)
  BY <1>3 DEF HeldIsHolds
<1> QED
  BY <1>4 DEF HeldIsHolds

\* The two parts of a quote that is started.
LEMMA StartJobCases ==
  ASSUME WalletInv, NEW j \in Jobs, StartJob(j)
  PROVE  \/ /\ CanHold(Quote[j]) /\ hold[j] = 0 /\ hold'[j] = Quote[j]
            /\ held' = held + Quote[j] /\ job'[j] = "active"
            /\ \A k \in Jobs \ {j} : hold'[k] = hold[k] /\ job'[k] = job[k]
            /\ UNCHANGED <<balance, actual>>
         \/ /\ job' = [job EXCEPT ![j] = "refused"]
            /\ hold[j] = 0 /\ UNCHANGED <<balance, held, used, hold, actual>>
<1>1. hold[j] = 0
  BY DEF WalletInv, HeldIsHolds, StartJob
<1>2. UNCHANGED actual
  BY DEF StartJob
<1>3. CASE CanHold(Quote[j]) /\ Hold(j, Quote[j]) /\ job' = [job EXCEPT ![j] = "active"]
  BY <1>1, <1>2, <1>3 DEF Hold, WalletInv, WalletTypeOK
<1>4. CASE job' = [job EXCEPT ![j] = "refused"] /\ UNCHANGED <<balance, held, used, hold>>
  BY <1>1, <1>2, <1>4
<1> QED
  BY <1>3, <1>4 DEF StartJob

\* Every step keeps the totals.
LEMMA WalletNextInv ==
  ASSUME WalletInv, [WalletNext]_walletVars
  PROVE  WalletInv'
<1>1. WalletTypeOK /\ WalletTypeOK' /\ HeldIsHolds /\ Quoted /\ Quote \in [Jobs -> Nat]
  BY WalletTypeStep, WalletAssumption DEF WalletInv
<1>2. SUFFICES HeldIsHolds' /\ Quoted'
  BY <1>1 DEF WalletInv
<1>3. ASSUME NEW j \in Jobs, StartJob(j) PROVE HeldIsHolds' /\ Quoted'
  <2>1. CASE /\ CanHold(Quote[j]) /\ hold[j] = 0 /\ hold'[j] = Quote[j]
             /\ held' = held + Quote[j] /\ job'[j] = "active"
             /\ \A k \in Jobs \ {j} : hold'[k] = hold[k] /\ job'[k] = job[k]
             /\ UNCHANGED <<balance, actual>>
    <3>1. held' = held - hold[j] + hold'[j]
      BY <1>1, <2>1 DEF WalletTypeOK
    <3>2. HeldIsHolds'
      BY <1>1, <2>1, <3>1, HoldMoves
    <3>3. job[j] = "new"
      BY <1>3 DEF StartJob
    <3>4. Quoted'
      BY <1>1, <2>1, <3>3 DEF Quoted
    <3> QED
      BY <3>2, <3>4
  <2>2. CASE /\ job' = [job EXCEPT ![j] = "refused"]
             /\ hold[j] = 0 /\ UNCHANGED <<balance, held, used, hold, actual>>
    <3>1. job[j] = "new"
      BY <1>3 DEF StartJob
    <3>2. HeldIsHolds'
      BY <1>1, <2>2 DEF HeldIsHolds, WalletTypeOK
    <3>3. Quoted'
      BY <1>1, <2>2, <3>1 DEF Quoted, WalletTypeOK
    <3> QED
      BY <3>2, <3>3
  <2> QED
    BY <1>3, <2>1, <2>2, StartJobCases
<1>4. ASSUME NEW j \in Jobs, NEW n \in Actuals \cup {Quote[j]}, CompleteJob(j, n)
      PROVE  HeldIsHolds' /\ Quoted'
  <2>1. /\ held' = held - hold[j] /\ hold' = [hold EXCEPT ![j] = 0]
        /\ job' = [job EXCEPT ![j] = "completed"] /\ actual' = [actual EXCEPT ![j] = n]
    BY <1>4 DEF CompleteJob, Settle
  <2>2. /\ hold'[j] = 0 /\ job'[j] = "completed"
        /\ \A k \in Jobs \ {j} : hold'[k] = hold[k] /\ job'[k] = job[k] /\ actual'[k] = actual[k]
    BY <1>1, <2>1 DEF WalletTypeOK
  <2>3. held' = held - hold[j] + hold'[j]
    BY <1>1, <2>1, <2>2 DEF WalletTypeOK
  <2>4. HeldIsHolds'
    BY <1>1, <2>2, <2>3, HoldMoves
  <2>5. Quoted'
    BY <1>1, <2>2 DEF Quoted
  <2> QED
    BY <2>4, <2>5
<1>5. ASSUME NEW j \in Jobs, FailJob(j) PROVE HeldIsHolds' /\ Quoted'
  <2>1. /\ held' = held - hold[j] /\ hold' = [hold EXCEPT ![j] = 0] /\ job[j] = "active"
        /\ job' = [job EXCEPT ![j] = "failed"] /\ actual' = actual
    BY <1>5 DEF FailJob, Release
  <2>2. /\ hold'[j] = 0 /\ job'[j] = "failed"
        /\ \A k \in Jobs \ {j} : hold'[k] = hold[k] /\ job'[k] = job[k]
    BY <1>1, <2>1 DEF WalletTypeOK
  <2>3. held' = held - hold[j] + hold'[j]
    BY <1>1, <2>1, <2>2 DEF WalletTypeOK
  <2>4. HeldIsHolds'
    BY <1>1, <2>2, <2>3, HoldMoves
  <2>5. Quoted'
    BY <1>1, <2>1, <2>2 DEF Quoted
  <2> QED
    BY <2>4, <2>5
<1>6. ASSUME NEW j \in Jobs, ReleaseStaleHolds(j) PROVE HeldIsHolds' /\ Quoted'
  <2>1. PICK S \in SUBSET Jobs :
          held' = held - Total(hold, S) /\ hold' = [k \in Jobs |-> IF k \in S THEN 0 ELSE hold[k]]
    BY <1>6 DEF ReleaseStaleHolds
  <2>2. job' = job /\ actual' = actual
    BY <1>6 DEF ReleaseStaleHolds
  <2>3. hold \in [Jobs -> Int]
    BY <1>1 DEF WalletTypeOK
  <2>4. Total(hold', Jobs) = Total(hold, Jobs) - Total(hold, S)
    BY <2>1, <2>3, WalletAssumption, TotalWithout
  <2>5. HeldIsHolds'
    BY <1>1, <2>1, <2>2, <2>4 DEF HeldIsHolds
  <2>6. Quoted'
    BY <1>1, <2>1, <2>2 DEF Quoted
  <2> QED
    BY <2>5, <2>6
<1>7. ASSUME UNCHANGED <<held, hold, job, actual>> PROVE HeldIsHolds' /\ Quoted'
  BY <1>1, <1>7 DEF HeldIsHolds, Quoted
<1>8. ASSUME NEW n \in Amounts, Credit(n) \/ Refund(n) PROVE HeldIsHolds' /\ Quoted'
  BY <1>7, <1>8 DEF Credit, Refund
<1>9. CASE ResetMonthly
  BY <1>7, <1>9 DEF ResetMonthly
<1>10. CASE UNCHANGED walletVars
  BY <1>7, <1>10 DEF walletVars
<1> QED
  BY <1>3, <1>4, <1>5, <1>6, <1>8, <1>9, <1>10 DEF WalletNext

\* So they add up at all times.
LEMMA WalletInvariance == WalletSpec => []WalletInv
<1>1. WalletInv /\ [WalletNext]_walletVars => WalletInv'
  BY WalletNextInv
<1> QED
  BY <1>1, WalletInitInv, PTL DEF WalletSpec

\* The amounts of a wallet are whole, and what is used and held is never negative.
THEOREM WalletTypeCorrect == WalletSpec => []WalletTypeOK
<1>1. WalletInv => WalletTypeOK
  BY DEF WalletInv
<1> QED
  BY <1>1, WalletInvariance, PTL

\* What the wallet shows as held is what its holds add up to, through every settlement,
\* failure and release of stale holds, for any number of jobs and any quotes: no tokens
\* are held that no hold could give back.
THEOREM HeldCorrect == WalletSpec => []HeldIsHolds
<1>1. WalletInv => HeldIsHolds
  BY DEF WalletInv
<1> QED
  BY <1>1, WalletInvariance, PTL

-----------------------------------------------------------------------------
(* What can be spent *)

\* What each job consumed beyond its quote, when they consumed a.
Excess(a) == [j \in Jobs |-> IF a[j] > Quote[j] THEN a[j] - Quote[j] ELSE 0]

\* An overrun is no less than nothing.
LEMMA OverrunType ==
  ASSUME NEW a \in [Jobs -> Nat]
  PROVE  Total(Excess(a), Jobs) \in Nat
<1>1. IsFiniteSet(Jobs) /\ \A j \in Jobs : Excess(a)[j] \in Nat
  BY WalletAssumption DEF Excess
<1> QED
  BY <1>1, TotalType

\* A job that completes adds to the overrun what it consumed beyond its quote.
LEMMA OverrunGrows ==
  ASSUME NEW a \in [Jobs -> Nat], NEW j \in Jobs, NEW n \in Nat, a[j] = 0
  PROVE  Total(Excess([a EXCEPT ![j] = n]), Jobs) =
           Total(Excess(a), Jobs) + (IF n > Quote[j] THEN n - Quote[j] ELSE 0)
<1> DEFINE u == Excess(a)
           w == Excess([a EXCEPT ![j] = n])
<1>1. Quote \in [Jobs -> Nat] /\ IsFiniteSet(Jobs)
  BY WalletAssumption
<1>2. /\ \A k \in Jobs : u[k] \in Int /\ w[k] \in Int
      /\ \A k \in Jobs \ {j} : w[k] = u[k]
      /\ u[j] = 0 /\ w[j] = IF n > Quote[j] THEN n - Quote[j] ELSE 0
  BY <1>1 DEF Excess
<1>3. Total(u, Jobs) \in Nat
  BY OverrunType
<1> HIDE DEF u, w
<1>4. Total(w, Jobs) = Total(u, Jobs) - u[j] + w[j]
  <2>1. \A k \in Jobs : u[k] \in Int /\ w[k] \in Int
    BY <1>2
  <2>2. \A k \in Jobs \ {j} : w[k] = u[k]
    BY <1>2
  <2>3. IsFiniteSet(Jobs)
    BY <1>1
  <2> QED
    BY <2>1, <2>2, <2>3, TotalExcept
<1>5. Total(w, Jobs) = Total(u, Jobs) + w[j]
  BY <1>2, <1>3, <1>4
<1> QED
  BY <1>2, <1>5 DEF u, w

\* A step keeps what can be spent from falling further than that.
LEMMA OverdraftStep ==
  ASSUME WalletInv, [WalletNext]_walletVars, NeverOverdrawn
  PROVE  NeverOverdrawn'
<1>0. WalletTypeOK /\ WalletTypeOK'
  BY WalletTypeStep DEF WalletInv
<1>1. PICK o \in Nat, p \in Nat : o = Total(Excess(actual), Jobs) /\ p = Total(Excess(actual'), Jobs)
  <2>1. actual \in [Jobs -> Nat] /\ actual' \in [Jobs -> Nat]
    BY <1>0 DEF WalletTypeOK
  <2>2. Total(Excess(actual), Jobs) \in Nat /\ Total(Excess(actual'), Jobs) \in Nat
    BY <2>1, OverrunType
  <2> QED
    BY <2>2
<1>2. PICK b \in Int, h \in Int, c \in Int, g \in Int :
        balance = b /\ held = h /\ balance' = c /\ held' = g
  BY <1>0 DEF WalletTypeOK
<1>3. b - h >= 0 - o
  BY <1>1, <1>2 DEF NeverOverdrawn, Overrun, Excess
<1>4. SUFFICES c - g >= 0 - p
  BY <1>1, <1>2 DEF NeverOverdrawn, Overrun, Excess
<1>5. /\ hold \in [Jobs -> Nat] /\ actual \in [Jobs -> Nat]
      /\ Quote \in [Jobs -> Nat] /\ IsFiniteSet(Jobs)
  BY <1>0, WalletAssumption DEF WalletTypeOK
<1>6. ASSUME actual' = actual, c - g >= b - h
      PROVE  c - g >= 0 - p
  <2>1. p = o
    BY <1>1, <1>6
  <2> QED
    BY <1>3, <1>6, <2>1
<1>7. ASSUME NEW j \in Jobs, StartJob(j) PROVE c - g >= 0 - p
  <2>1. CASE CanHold(Quote[j]) /\ held' = held + Quote[j] /\ balance' = balance
    <3>1. b - h >= Quote[j] /\ g = h + Quote[j] /\ c = b /\ Quote[j] \in Nat
      BY <1>2, <1>5, <2>1 DEF CanHold
    <3> QED
      BY <3>1
  <2>2. CASE UNCHANGED <<balance, held, actual>>
    <3>1. c = b /\ g = h /\ actual' = actual
      BY <1>2, <2>2
    <3> QED
      BY <1>6, <3>1
  <2> QED
    BY <1>7, <2>1, <2>2, StartJobCases
<1>8. ASSUME NEW j \in Jobs, NEW n \in Actuals \cup {Quote[j]}, CompleteJob(j, n)
      PROVE  c - g >= 0 - p
  <2>1. n \in Nat /\ Quote[j] \in Nat
    BY WalletAssumption
  <2>2. /\ job[j] = "active" /\ hold[j] # 0 /\ held' = held - hold[j]
        /\ balance' = balance - n /\ actual' = [actual EXCEPT ![j] = n]
    BY <1>8 DEF CompleteJob, Settle
  <2>3. hold[j] = Quote[j] /\ actual[j] = 0
    BY <2>2 DEF WalletInv, Quoted
  <2>4. p = o + (IF n > Quote[j] THEN n - Quote[j] ELSE 0)
    BY <1>1, <1>5, <2>1, <2>2, <2>3, OverrunGrows
  <2>5. g = h - Quote[j] /\ c = b - n
    BY <1>2, <2>2, <2>3
  <2> QED
    BY <1>3, <2>1, <2>4, <2>5
<1>9. ASSUME NEW j \in Jobs, FailJob(j) PROVE c - g >= 0 - p
  <2>1. held' = held - hold[j] /\ balance' = balance /\ actual' = actual /\ hold[j] \in Nat
    BY <1>5, <1>9 DEF FailJob, Release
  <2>2. g = h - hold[j] /\ c = b
    BY <1>2, <2>1
  <2> QED
    BY <1>6, <2>1, <2>2
<1>10. ASSUME NEW j \in Jobs, ReleaseStaleHolds(j) PROVE c - g >= 0 - p
  <2>1. PICK S \in SUBSET Jobs : held' = held - Total(hold, S)
    BY <1>10 DEF ReleaseStaleHolds
  <2>2. balance' = balance /\ actual' = actual
    BY <1>10 DEF ReleaseStaleHolds
  <2>3. Total(hold, S) \in Nat
    <3>1. IsFiniteSet(S) /\ \A k \in S : hold[k] \in Nat
      BY <1>5, FS_Subset
    <3> QED
      BY <3>1, TotalType
  <2>4. g = h - Total(hold, S) /\ c = b
    BY <1>2, <2>1, <2>2
  <2> QED
    BY <1>6, <2>2, <2>3, <2>4
<1>11. ASSUME NEW n \in Amounts, Credit(n) \/ Refund(n) PROVE c - g >= 0 - p
  <2>1. n \in Nat
    BY WalletAssumption
  <2>2. balance' = balance + n /\ held' = held /\ actual' = actual
    BY <1>11 DEF Credit, Refund
  <2>3. c = b + n /\ g = h
    BY <1>2, <2>2
  <2> QED
    BY <1>6, <2>1, <2>2, <2>3
<1>12. ASSUME ResetMonthly \/ UNCHANGED walletVars PROVE c - g >= 0 - p
  <2>1. balance' = balance /\ held' = held /\ actual' = actual
    BY <1>12 DEF ResetMonthly, walletVars
  <2>2. c = b /\ g = h
    BY <1>2, <2>1
  <2> QED
    BY <1>6, <2>1, <2>2
<1> QED
  BY <1>7, <1>8, <1>9, <1>10, <1>11, <1>12 DEF WalletNext

\* A wallet that is not in debt at first is only ever overdrawn by what completed jobs
\* consumed beyond their quotes: whatever is quoted, credited, refunded and released,
\* jobs that keep to their quotes never eat into each other's.
THEOREM OverdraftCorrect ==
  ASSUME Initial >= 0
  PROVE  WalletSpec => []NeverOverdrawn
<1>1. WalletInit => NeverOverdrawn
  <2> SUFFICES ASSUME WalletInit PROVE balance - held >= 0 - Overrun
    BY DEF NeverOverdrawn
  <2>1. actual \in [Jobs -> Nat]
    BY WalletInitInv DEF WalletInv, WalletTypeOK
  <2>2. Overrun \in Nat
    BY <2>1, OverrunType DEF Overrun, Excess
  <2>3. balance = Initial /\ held = 0 /\ Initial \in Int
    BY WalletAssumption DEF WalletInit
  <2> QED
    BY <2>2, <2>3
<1>2. WalletInv /\ NeverOverdrawn /\ [WalletNext]_walletVars => NeverOverdrawn'
  BY OverdraftStep
<1> QED
  BY <1>1, <1>2, WalletInvariance, PTL DEF WalletSpec

-----------------------------------------------------------------------------
(* The account *)

\* The abstract bills.
Bill ==
  [j \in Jobs |-> IF job[j] = "completed" THEN "charged"
                  ELSE IF job[j] = "failed" THEN "waived" ELSE "open"]

\* A step that changes neither the balance nor a bill is none of the account's.
LEMMA NoStep ==
  ASSUME UNCHANGED <<balance, Bill>>
  PROVE  [Account!Next]_(Account!vars)
BY DEF Bill, Account!vars

\* A step of one job changes that job's bill.
LEMMA BillOfJob ==
  ASSUME WalletTypeOK, NEW j \in Jobs, NEW s \in {"completed", "failed"},
         job' = [job EXCEPT ![j] = s]
  PROVE  Bill' = [Bill EXCEPT ![j] = IF s = "completed" THEN "charged" ELSE "waived"]
BY DEF WalletTypeOK, Bill

\* Every step is a step of the account, or none.
LEMMA WalletStepSimulates ==
  ASSUME WalletTypeOK, [WalletNext]_walletVars
  PROVE  [Account!Next]_(Account!vars)
<1>1. ASSUME NEW j \in Jobs, StartJob(j) PROVE [Account!Next]_(Account!vars)
  <2>1. balance' = balance
    BY <1>1 DEF StartJob, Hold
  <2>2. job' = [job EXCEPT ![j] = "active"] \/ job' = [job EXCEPT ![j] = "refused"]
    BY <1>1 DEF StartJob
  <2>3. job[j] = "new"
    BY <1>1 DEF StartJob
  <2>4. Bill' = Bill
    BY <2>2, <2>3 DEF Bill, WalletTypeOK
  <2> QED
    BY <2>1, <2>4, NoStep
<1>2. ASSUME NEW j \in Jobs, NEW n \in Actuals \cup {Quote[j]}, CompleteJob(j, n)
      PROVE  [Account!Next]_(Account!vars)
  <2>1. n \in Nat
    BY WalletAssumption
  <2>2. balance' = balance - n /\ job[j] = "active" /\ job' = [job EXCEPT ![j] = "completed"]
    BY <1>2 DEF CompleteJob, Settle
  <2>3. balance - balance' = n
    BY <2>1, <2>2 DEF WalletTypeOK
  <2>4. Bill[j] = "open" /\ Bill' = [Bill EXCEPT ![j] = "charged"]
    BY <2>2, BillOfJob DEF Bill
  <2>5. Account!Charge(j, balance - balance')
    BY <2>1, <2>2, <2>3, <2>4 DEF Account!Charge, Bill
  <2> QED
    BY <2>5 DEF Account!Next
<1>3. ASSUME NEW j \in Jobs, FailJob(j) PROVE [Account!Next]_(Account!vars)
  <2>1. balance' = balance /\ job[j] = "active" /\ job' = [job EXCEPT ![j] = "failed"]
    BY <1>3 DEF FailJob, Release
  <2>2. Bill[j] = "open" /\ Bill' = [Bill EXCEPT ![j] = "waived"]
    BY <2>1, BillOfJob DEF Bill
  <2>3. Account!Waive(j)
    BY <2>1, <2>2 DEF Account!Waive, Bill
  <2> QED
    BY <2>3 DEF Account!Next
<1>4. ASSUME NEW j \in Jobs, ReleaseStaleHolds(j) PROVE [Account!Next]_(Account!vars)
  BY <1>4, NoStep DEF ReleaseStaleHolds, Bill
<1>5. ASSUME NEW n \in Amounts, Credit(n) \/ Refund(n) PROVE [Account!Next]_(Account!vars)
  <2>1. n \in Nat \ {0}
    BY WalletAssumption
  <2>2. balance' = balance + n /\ Bill' = Bill
    BY <1>5 DEF Credit, Refund, Bill
  <2>3. balance' - balance = n
    BY <2>1, <2>2 DEF WalletTypeOK
  <2>4. Account!PayIn(balance' - balance)
    BY <2>1, <2>2, <2>3 DEF Account!PayIn, Bill
  <2> QED
    BY <2>4 DEF Account!Next
<1>6. CASE ResetMonthly
  BY <1>6, NoStep DEF ResetMonthly, Bill
<1>7. CASE UNCHANGED walletVars
  BY <1>7, NoStep DEF walletVars, Bill
<1> QED
  BY <1>1, <1>2, <1>3, <1>4, <1>5, <1>6, <1>7 DEF WalletNext

\* The wallet and the service implement the account, whatever the jobs, their quotes,
\* what they consume, and the credits and refunds in between: no job is charged twice
\* or after it failed, and nothing else takes tokens.
THEOREM WalletImplementsAccount == WalletSpec => ImplementsAccount
<1>1. WalletInit => Account!Init
  BY DEF WalletInit, Account!Init
<1>2. WalletTypeOK /\ [WalletNext]_walletVars => [Account!Next]_(Account!vars)
  BY WalletStepSimulates
<1> QED
  BY <1>1, <1>2, WalletTypeCorrect, PTL DEF WalletSpec, ImplementsAccount, Account!Spec

=============================================================================
