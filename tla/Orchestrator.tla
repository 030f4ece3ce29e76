----------------------------- MODULE Orchestrator ------------------------------
(***************************************************************************)
(* One plan of the agent orchestrator: class OrchestratorService in        *)
(* services/agent-orchestrator/src/OrchestratorService.ts with its         *)
(* CompensationManager.  A plan is a list of steps, each the call of a     *)
(* tool through the ToolCallRouter.  Plans only share a counter, a cache   *)
(* and their history, so one plan is all there is to model.                *)
(*                                                                         *)
(* What runs between two awaits is one operator from plan to plan.  The    *)
(* awaits are: a tool call, the delay before a retry, the race of an       *)
(* execution against the plan's time limit, and each compensation.         *)
(*                                                                         *)
(* A plan is a record p with                                               *)
(*   mode     the execution mode                                           *)
(*   status   plan.status (`approved` never outlasts a handler)            *)
(*   active   whether the plan is in the map `plans`, not in `history`     *)
(*   step     the status of each step                                      *)
(*   call     of executeSingleStep(): awaiting the router or a retry       *)
(*   tries    how often the tool of each step has been called              *)
(*   used     plan.tokensUsed                                              *)
(*   flag     whether the plan is in cancelledPlanIds                      *)
(*   main     executeSteps(): racing, compensating, over                   *)
(*   todo, waiting, ok   the loop of the execution mode: the steps to      *)
(*            come, those it awaits, whether all has gone well             *)
(*   entry    the compensation registered for each step                    *)
(*   comp     the calls of compensatePlan() of the manager, by caller      *)
(* Left out: the dead-letter queue (a copy of the plan), logs, snapshots   *)
(* for subscribers, errors of the router itself, the prompt and the cache. *)
(* Tools cost one token each by estimate.                                  *)
(***************************************************************************)
EXTENDS Integers, FiniteSets, FiniteSetsExt

CONSTANTS
  Steps,        \* the indices of the plan's steps
  Destructive,  \* the steps whose tool is in DESTRUCTIVE_TOOLS
  Modes,        \* executionMode: "sequential", "parallel", "conditional"
  BatchSize,    \* parallelConcurrency
  MaxAttempts,  \* stepRetryCount + 1
  Consumption,  \* bound: the tokens a call may turn out to have cost
  Ceiling       \* tokensEstimated and its headroom

ASSUME OrchestratorAssumption ==
  /\ Steps \subseteq Nat \ {0} /\ IsFiniteSet(Steps) /\ Destructive \subseteq Steps
  /\ Modes \subseteq {"sequential", "parallel", "conditional"}
  /\ BatchSize \in Nat \ {0} /\ MaxAttempts \in Nat \ {0}
  /\ Consumption \subseteq Nat /\ Ceiling \in Nat

\* Who may be inside compensatePlan(): executeSteps(), cancelPlan(), the user.
Callers == {"execution", "cancel", "user"}

StepStatus ==
  {"pending", "approved", "executing", "completed", "failed", "cancelled", "compensated"}

PlanType ==
  [ mode : Modes,
    status : {"preview", "executing", "completed", "failed", "cancelled"},
    active : BOOLEAN,
    step : [Steps -> StepStatus],
    call : [Steps -> {"none", "routing", "backoff"}],
    tries : [Steps -> 0..MaxAttempts],
    used : Nat,
    flag : BOOLEAN,
    main : {"none", "racing", "compensating", "over"},
    todo : SUBSET Steps, waiting : SUBSET Steps, ok : BOOLEAN,
    entry : [Steps -> {"none", "registered", "undone"}],
    comp : [Callers -> [on : BOOLEAN, todo : SUBSET Steps, cur : Steps \cup {0}]] ]

Compensating == [on |-> TRUE, todo |-> {}, cur |-> 0]
Resting      == [on |-> FALSE, todo |-> {}, cur |-> 0]

\* What processIntent() returns, generated or cloned from the cache.
NewPlan(mode) ==
  [ mode |-> mode, status |-> "preview", active |-> TRUE,
    step |-> [s \in Steps |-> "pending"], call |-> [s \in Steps |-> "none"],
    tries |-> [s \in Steps |-> 0], used |-> 0, flag |-> FALSE,
    main |-> "none", todo |-> {}, waiting |-> {}, ok |-> TRUE,
    entry |-> [s \in Steps |-> "none"], comp |-> [c \in Callers |-> Resting] ]

StepsIn(p, states) == { s \in Steps : p.step[s] \in states }

\* The steps of S are given status t.
SetSteps(p, S, t) == [p EXCEPT !.step = [s \in Steps |-> IF s \in S THEN t ELSE @[s]]]

-----------------------------------------------------------------------------
(* Compensation *)

\* Mutant of Marked: whatever was completed counts as compensated.
MarkedAll(p) == SetSteps(p, StepsIn(p, {"completed"}), "compensated")

\* The loop behind every call of the manager's compensatePlan().
Marked(p) ==
  SetSteps(p, { s \in StepsIn(p, {"completed"}) : p.entry[s] = "undone" }, "compensated")

\* Caller c goes on after its await of compensatePlan().
Compensated(p, c) ==
  LET q == [Marked(p) EXCEPT !.comp[c] = Resting]
  IN  CASE c = "execution" -> [q EXCEPT !.main = "over", !.active = FALSE]
        [] c = "cancel" -> [q EXCEPT !.flag = FALSE, !.active = FALSE]
        [] c = "user" -> q

\* On to the last of the steps in p.comp[c].todo with a compensation not yet executed.
NextCompensation(p, c) ==
  LET R == { s \in p.comp[c].todo : p.entry[s] = "registered" }
  IN  IF R = {} THEN Compensated(p, c)
      ELSE [p EXCEPT !.comp[c].cur = Max(R), !.comp[c].todo = { s \in @ : s < Max(R) }]

\* compensatePlan() of the manager: completed and failed steps, the last first.
StartCompensation(p, c) ==
  NextCompensation(
    [p EXCEPT !.comp[c] = [Compensating EXCEPT !.todo = StepsIn(p, {"completed", "failed"})]], c)

\* compensateStep() after its await.  The functions that are registered do nothing
\* yet, so they neither fail nor time out.
CompensationReturned(p, c) == NextCompensation([p EXCEPT !.entry[p.comp[c].cur] = "undone"], c)

-----------------------------------------------------------------------------
(* The end of executeSteps() *)

\* Mutant of Settled: what never finishes its compensation is not archived.
SettledUnraced(p, ok, timedOut) == IF timedOut THEN p ELSE [p EXCEPT !.main = "over"]

\* After the race, won by the execution (with result ok) or by the time limit.
Settled(p, ok, timedOut) ==
  LET q == [ (IF timedOut THEN SetSteps(p, StepsIn(p, {"approved", "executing"}), "cancelled") ELSE p)
             EXCEPT !.status = IF ok THEN "completed" ELSE "failed",
                    !.flag = IF timedOut THEN FALSE ELSE @ ]
  IN  IF ~ ok /\ StepsIn(q, {"completed"}) # {}
      THEN StartCompensation([q EXCEPT !.main = "compensating"], "execution")
      ELSE [q EXCEPT !.main = "over", !.active = FALSE]

\* The execution ends with result ok; nobody listens when the time limit has won.
Concluded(p, ok) ==
  LET q == [p EXCEPT !.todo = {}, !.waiting = {}]
  IN  IF p.main = "racing" THEN Settled(q, ok, FALSE) ELSE q

-----------------------------------------------------------------------------
(* Running steps *)

\* isPlanCancelled(): late says that the time is up and the timer has yet to fire.
Stopped(p, late) == p.flag \/ (late /\ p.main = "racing")

OverBudget(p) == p.used + 1 > Ceiling

\* executeSingleStep() of every step of S, up to the await.
Begun(p, S, late) ==
  IF Stopped(p, late) THEN SetSteps(p, S, "cancelled")
  ELSE IF OverBudget(p) THEN SetSteps(p, S, "failed")
  ELSE [SetSteps(p, S, "executing") EXCEPT
          !.call = [s \in Steps |-> IF s \in S THEN "routing" ELSE @[s]],
          !.tries = [s \in Steps |-> IF s \in S THEN @[s] + 1 ELSE @[s]]]

WillRun(p, late) == ~ Stopped(p, late) /\ ~ OverBudget(p)

CancelApproved(p) == SetSteps(p, StepsIn(p, {"approved"}), "cancelled")

ProceedSequential(p, late) ==
  LET A == p.todo \cap StepsIn(p, {"approved"})
  IN  IF p.todo # {} /\ Stopped(p, late) THEN Concluded(CancelApproved(p), FALSE)
      ELSE IF A = {} THEN Concluded(p, TRUE)
      ELSE LET q == Begun(p, {Min(A)}, FALSE)
           IN  IF WillRun(p, FALSE)
               THEN [q EXCEPT !.waiting = {Min(A)}, !.todo = { s \in @ : s > Min(A) }]
               ELSE Concluded(CancelApproved(q), FALSE)

ProceedConditional(p, late) ==
  LET A == p.todo \cap StepsIn(p, {"approved"})
  IN  IF A = {} THEN Concluded(p, p.ok)
      ELSE IF WillRun(p, late)
      THEN [Begun(p, {Min(A)}, FALSE) EXCEPT !.waiting = {Min(A)}, !.todo = { s \in @ : s > Min(A) }]
      ELSE Concluded(Begun(p, A, late), FALSE)

\* The steps to run were chosen when the plan was approved, and are not looked at
\* again.
ProceedParallel(p, late) ==
  LET B == { s \in p.todo : Cardinality({ t \in p.todo : t < s }) < BatchSize }
  IN  IF p.todo = {} THEN Concluded(p, p.ok)
      ELSE IF ~ p.ok THEN Concluded(SetSteps(p, p.todo, "cancelled"), FALSE)
      ELSE IF WillRun(p, late)
      THEN [Begun(p, B, FALSE) EXCEPT !.waiting = B, !.todo = @ \ B]
      ELSE Concluded(SetSteps(Begun(p, B, late), p.todo \ B, "cancelled"), FALSE)

Proceed(p, late) ==
  CASE p.mode = "sequential" -> ProceedSequential(p, late)
    [] p.mode = "conditional" -> ProceedConditional(p, late)
    [] p.mode = "parallel" -> ProceedParallel(p, late)

\* Mutants of StepEnded: a failure does not end the plan; the steps that remain
\* after a failure are left as they are.
StepEndedUnseen(p, s, ok, late) ==
  IF s \notin p.waiting THEN p
  ELSE LET q == [p EXCEPT !.waiting = @ \ {s}]
       IN  IF q.waiting = {} THEN Proceed(q, late) ELSE q

StepEndedHalting(p, s, ok, late) ==
  IF s \notin p.waiting THEN p
  ELSE LET q == [p EXCEPT !.waiting = @ \ {s}, !.ok = @ /\ ok]
       IN  IF p.mode = "sequential" /\ ~ ok THEN Concluded(q, FALSE)
           ELSE IF q.waiting = {} THEN Proceed(q, late) ELSE q

\* executeSingleStep() of s returns ok to the loop, if that is who awaits it.
StepEnded(p, s, ok, late) ==
  IF s \notin p.waiting THEN p
  ELSE LET q == [p EXCEPT !.waiting = @ \ {s}, !.ok = @ /\ ok]
       IN  IF p.mode = "sequential" /\ ~ ok THEN Concluded(CancelApproved(q), FALSE)
           ELSE IF q.waiting = {} THEN Proceed(q, late) ELSE q

\* The tool of s returns: executeSingleStep() after its await.
ToolSucceeded(p, s, cost, late) ==
  StepEnded([p EXCEPT !.step[s] = "completed", !.call[s] = "none", !.used = @ + cost,
                      !.entry[s] = IF s \in Destructive THEN "registered" ELSE @],
            s, TRUE, late)

\* Mutant of LastTry: one retry more.
LastTryOneMore(p, s) == s \in Destructive \/ p.tries[s] > MaxAttempts

LastTry(p, s) == s \in Destructive \/ p.tries[s] >= MaxAttempts

ToolFailed(p, s, cost, late) ==
  IF LastTry(p, s)
  THEN StepEnded([p EXCEPT !.step[s] = "failed", !.call[s] = "none", !.used = @ + cost], s, FALSE, late)
  ELSE IF Stopped(p, late)
  THEN StepEnded([p EXCEPT !.step[s] = "cancelled", !.call[s] = "none"], s, FALSE, late)
  ELSE [p EXCEPT !.call[s] = "backoff"]

BackedOff(p, s) == [p EXCEPT !.call[s] = "routing", !.tries[s] = @ + 1]

-----------------------------------------------------------------------------
(* Requests *)

Approved(p) ==
  LET q == [SetSteps(p, StepsIn(p, {"pending"}), "approved")
            EXCEPT !.status = "executing", !.main = "racing"]
  IN  Proceed([q EXCEPT !.todo = IF p.mode = "parallel" THEN StepsIn(q, {"approved"}) ELSE Steps], FALSE)

\* rejectPlan(): whatever the plan's status.
Rejected(p) ==
  [SetSteps(p, StepsIn(p, {"pending", "approved"}), "cancelled")
   EXCEPT !.status = "cancelled", !.active = FALSE]

\* cancelPlan(): the flag is taken back before anything else can run, unless there
\* is something to compensate.
Cancelled(p) ==
  LET q == [SetSteps(p, StepsIn(p, {"pending", "approved", "executing"}), "cancelled")
            EXCEPT !.status = "cancelled"]
  IN  IF StepsIn(q, {"completed"}) # {}
      THEN StartCompensation([q EXCEPT !.flag = TRUE], "cancel")
      ELSE [q EXCEPT !.flag = FALSE, !.active = FALSE]

=============================================================================
