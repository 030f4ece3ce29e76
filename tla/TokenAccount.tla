----------------------------- MODULE TokenAccount ------------------------------
(***************************************************************************)
(* What the token wallet and the metering service promise together: money  *)
(* only comes in by credits and refunds, and only goes out by charging a   *)
(* job that is still open, once, when it completes.  A job that has failed *)
(* or was refused is never charged.                                        *)
(***************************************************************************)
EXTENDS Integers

CONSTANTS
  Jobs,      \* the jobs
  Initial    \* the balance at first

VARIABLES
  funds,   \* the balance
  bill     \* the state of each job's bill: "open", "charged" or "waived"

vars == <<funds, bill>>

Init ==
  /\ funds = Initial
  /\ bill = [j \in Jobs |-> "open"]

PayIn(n) ==
  /\ n > 0
  /\ funds' = funds + n
  /\ UNCHANGED bill

Charge(j, n) ==
  /\ bill[j] = "open" /\ n >= 0
  /\ funds' = funds - n
  /\ bill' = [bill EXCEPT ![j] = "charged"]

Waive(j) ==
  /\ bill[j] = "open"
  /\ bill' = [bill EXCEPT ![j] = "waived"]
  /\ UNCHANGED funds

\* The amounts are whatever the balance shows.
Next ==
  \/ PayIn(funds' - funds)
  \/ \E j \in Jobs : Charge(j, funds - funds') \/ Waive(j)

Spec == Init /\ [][Next]_vars

=============================================================================
