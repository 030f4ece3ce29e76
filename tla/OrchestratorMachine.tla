-------------------------- MODULE OrchestratorMachine --------------------------
(***************************************************************************)
(* A plan of the orchestrator under requests of users at any time (the     *)
(* routes of server.ts check nothing themselves), tools that succeed, fail *)
(* or never return, and the plan's time limit.                             *)
(***************************************************************************)
EXTENDS Orchestrator

VARIABLES
  plan,    \* the plan
  single,  \* the steps approved one by one
  stopped  \* cancelPlan() has been called or the time limit has been reached

vars == <<plan, single, stopped>>

Init ==
  /\ plan \in { NewPlan(mode) : mode \in Modes }
  /\ single = {} /\ stopped = FALSE

TypeOK == plan \in PlanType /\ single \subseteq Steps /\ stopped \in BOOLEAN

-----------------------------------------------------------------------------
(* Requests *)

ApprovePlan ==
  /\ plan.active /\ plan.status = "preview"
  /\ plan' = Approved(plan)
  /\ UNCHANGED <<single, stopped>>

\* Mutant of ApproveStep: the status of the step is not looked at.
ApproveStepAgain(s) ==
  /\ plan.active /\ plan.step[s] # "executing"
  /\ plan' = Begun(plan, {s}, FALSE)
  /\ single' = single \cup {s} /\ UNCHANGED stopped

ApproveStep(s) ==
  /\ plan.active /\ plan.step[s] = "pending"
  /\ plan' = Begun(plan, {s}, FALSE)
  /\ single' = single \cup {s} /\ UNCHANGED stopped

RejectPlan ==
  /\ plan.active
  /\ plan' = Rejected(plan)
  /\ UNCHANGED <<single, stopped>>

\* One cancellation at a time (bound).
CancelPlan ==
  /\ plan.active /\ ~ plan.comp["cancel"].on
  /\ plan' = Cancelled(plan)
  /\ stopped' = TRUE /\ UNCHANGED single

\* One request to compensate at a time (bound).
CompensatePlan ==
  /\ ~ plan.comp["user"].on
  /\ plan' = StartCompensation(plan, "user")
  /\ UNCHANGED <<single, stopped>>

-----------------------------------------------------------------------------
(* What was awaited *)

ToolReturns(s) ==
  /\ plan.call[s] = "routing"
  /\ \E cost \in Consumption, late \in BOOLEAN :
       plan' \in { ToolSucceeded(plan, s, cost, late), ToolFailed(plan, s, cost, late) }
  /\ UNCHANGED <<single, stopped>>

RetryDelay(s) ==
  /\ plan.call[s] = "backoff"
  /\ plan' = BackedOff(plan, s)
  /\ UNCHANGED <<single, stopped>>

PlanTimeout ==
  /\ plan.main = "racing"
  /\ plan' = Settled(plan, FALSE, TRUE)
  /\ stopped' = TRUE /\ UNCHANGED single

CompensationReturns(c) ==
  /\ plan.comp[c].on
  /\ plan' = CompensationReturned(plan, c)
  /\ UNCHANGED <<single, stopped>>

-----------------------------------------------------------------------------

Next ==
  \/ ApprovePlan \/ RejectPlan \/ CancelPlan \/ CompensatePlan
  \/ \E s \in Steps : ApproveStep(s) \/ ToolReturns(s) \/ RetryDelay(s)
  \/ PlanTimeout
  \/ \E c \in Callers : CompensationReturns(c)

\* Timers fire and compensations return.  Nothing is assumed of the tools.
Fairness ==
  /\ WF_vars(PlanTimeout)
  /\ \A c \in Callers : WF_vars(CompensationReturns(c))

Spec == Init /\ [][Next]_vars /\ Fairness

-----------------------------------------------------------------------------
(* Properties *)

\* Nothing of the plan is under way any more.
Quiet ==
  /\ \A s \in Steps : plan.call[s] = "none"
  /\ \A c \in Callers : ~ plan.comp[c].on
  /\ plan.main \notin {"racing", "compensating"}

\* A destructive tool is called at most once for its step, in every mode, whoever
\* approves the step or the plan, through time limits, rejections and cancellations
\* in the middle of its call.
DestructiveOnce == \A s \in Destructive : plan.tries[s] <= 1

\* Once nothing is under way, no step is left approved or executing, whichever way
\* the execution ended, and the plan is not left marked as to be cancelled (its
\* steps could never run again).
NothingStranded ==
  Quiet => /\ \A s \in Steps : plan.step[s] \notin {"approved", "executing"}
           /\ ~ plan.flag

\* Once nothing is under way, the steps shown as compensated are exactly those whose
\* compensation was executed, even when several callers compensate the plan at once
\* and steps complete beside them.
CompensatedIsUndone ==
  Quiet => \A s \in Steps : plan.entry[s] = "undone" <=> plan.step[s] = "compensated"

\* What has become of a step with no failure and nothing left to do: it is done, or
\* was taken back by the users, when the plan is one they rejected or cancelled.
Accounted(status) ==
  {"completed", "compensated"} \cup (IF status = "cancelled" THEN {"cancelled"} ELSE {})

\* A plan becomes completed, and that from whatever status it has at the time, only if
\* each of its steps was done, or taken back by users who rejected or cancelled the
\* plan while its tools were awaited (the end of the execution then shows it as
\* completed): never with a step that failed or is still to run.  Steps approved one
\* by one are excepted, for the execution does not look at them.
CompletedHonestly ==
  [][plan.status # "completed" /\ plan'.status = "completed"
       => \A s \in Steps \ single : plan'.step[s] \in Accounted(plan.status)]_vars

\* Every execution that starts comes to an end and is archived, even when tools
\* never return: the time limit wins the race, and compensation ends.
ExecutionEnds == plan.main = "racing" ~> plan.main = "over" /\ ~ plan.active

-----------------------------------------------------------------------------
(* What the comments say, and the code does not do *)

\* "Signal cancellation so in-flight steps stop at the next checkpoint": no tool is
\* called any more once cancelPlan() was called or the time was up.
NoCallAfterTheEnd ==
  [][stopped => plan'.tries = plan.tries]_vars

=============================================================================
