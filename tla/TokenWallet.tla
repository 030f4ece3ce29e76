------------------------------ MODULE TokenWallet ------------------------------
(***************************************************************************)
(* The token wallet of the agent orchestrator (class TokenWallet) and the  *)
(* metering service over it (class MeteringService): a job is quoted and   *)
(* its price held, and the hold is settled for what was consumed when the  *)
(* job completes, or released when it fails.  Holds that are too old are   *)
(* released meanwhile, without a word to the service.                      *)
(*                                                                         *)
(* Every method runs to its end at once; one that throws changes nothing   *)
(* and is no step.  Job ids are random in the code: here jobs are numbered *)
(* in the order of their quotes.  Left out: the ledger of transactions,    *)
(* tiers and allocations (nothing consults them), categories.              *)
(***************************************************************************)
EXTENDS Integers, FiniteSetsExt

CONSTANTS
  Jobs,       \* bound: the jobs ever quoted, 1..n
  Quote,      \* estimatedTokens of each job's quote
  Initial,    \* the balance at first
  Actuals,    \* what a job may turn out to consume
  Amounts,    \* the amounts of credits and refunds
  MaxBalance  \* bound on what the balance is credited to

ASSUME WalletAssumption ==
  /\ Jobs \subseteq Nat /\ IsFiniteSet(Jobs) /\ Quote \in [Jobs -> Nat] /\ Initial \in Int
  /\ Actuals \subseteq Nat /\ Amounts \subseteq Nat \ {0} /\ MaxBalance \in Int

VARIABLES
  balance,  \* _balance
  held,     \* _held
  used,     \* _usedThisMonth
  hold,     \* the amounts of _holds, 0 where there is none
  job,      \* the status of each job in the service ("new": not quoted yet,
            \* "refused": quoted, but not enough to hold)
  actual    \* actualTokens of each completed job

walletVars == <<balance, held, used, hold, job, actual>>

WalletInit ==
  /\ balance = Initial /\ held = 0 /\ used = 0
  /\ hold = [j \in Jobs |-> 0]
  /\ job = [j \in Jobs |-> "new"]
  /\ actual = [j \in Jobs |-> 0]

WalletTypeOK ==
  /\ balance \in Int /\ held \in Int /\ used \in Nat
  /\ hold \in [Jobs -> Nat]
  /\ job \in [Jobs -> {"new", "refused", "active", "completed", "failed"}]
  /\ actual \in [Jobs -> Nat]

-----------------------------------------------------------------------------
(* TokenWallet *)

\* Mutant of CanHold: what other jobs hold is not counted.
CanHoldOfBalance(n) == balance >= n

\* getBalance() is enough.
CanHold(n) == balance - held >= n

\* What the amounts f of the jobs of S add up to.
Total(f, S) == MapThenSumSet(LAMBDA k : f[k], S)

Hold(j, n) ==
  /\ held' = held + n
  /\ hold' = [hold EXCEPT ![j] = n]
  /\ UNCHANGED <<balance, used>>

\* Mutant of Settle: only what was consumed is taken off the holds.
SettleConsumed(j, n) ==
  /\ hold[j] # 0
  /\ held' = held - n
  /\ balance' = balance - n
  /\ used' = used + n
  /\ hold' = [hold EXCEPT ![j] = 0]

Settle(j, n) ==
  /\ hold[j] # 0
  /\ held' = held - hold[j]
  /\ balance' = balance - n
  /\ used' = used + n
  /\ hold' = [hold EXCEPT ![j] = 0]

Release(j) ==
  /\ hold[j] # 0
  /\ held' = held - hold[j]
  /\ hold' = [hold EXCEPT ![j] = 0]
  /\ UNCHANGED <<balance, used>>

-----------------------------------------------------------------------------
(* MeteringService *)

\* A quote of nothing makes hold() throw.
StartJob(j) ==
  /\ job[j] = "new" /\ \A k \in Jobs : k < j => job[k] # "new"
  /\ Quote[j] > 0
  /\ \/ /\ CanHold(Quote[j])
        /\ Hold(j, Quote[j])
        /\ job' = [job EXCEPT ![j] = "active"]
     \/ /\ ~ CanHold(Quote[j])
        /\ job' = [job EXCEPT ![j] = "refused"]
        /\ UNCHANGED <<balance, held, used, hold>>
  /\ UNCHANGED actual

\* Mutant of CompleteJob: the job stays among the active ones.
CompleteJobStillActive(j, n) ==
  /\ job[j] = "active"
  /\ Settle(j, n)
  /\ actual' = [actual EXCEPT ![j] = n]
  /\ UNCHANGED job

\* Without the hold settle() throws, and the job stays active.
CompleteJob(j, n) ==
  /\ job[j] = "active"
  /\ Settle(j, n)
  /\ job' = [job EXCEPT ![j] = "completed"]
  /\ actual' = [actual EXCEPT ![j] = n]

FailJob(j) ==
  /\ job[j] = "active"
  /\ Release(j)
  /\ job' = [job EXCEPT ![j] = "failed"]
  /\ UNCHANGED actual

-----------------------------------------------------------------------------
(* The rest of TokenWallet *)

Credit(n) ==
  /\ balance + n <= MaxBalance
  /\ balance' = balance + n
  /\ UNCHANGED <<held, used, hold, job, actual>>

\* Mutant of Refund: usage is not kept from falling below zero.
RefundUnclamped(n) ==
  /\ balance + n <= MaxBalance
  /\ balance' = balance + n
  /\ used' = used - n
  /\ UNCHANGED <<held, hold, job, actual>>

\* Nothing says that the job refunded was ever charged.
Refund(n) ==
  /\ balance + n <= MaxBalance
  /\ balance' = balance + n
  /\ used' = IF used > n THEN used - n ELSE 0
  /\ UNCHANGED <<held, hold, job, actual>>

ResetMonthly ==
  /\ used' = 0
  /\ UNCHANGED <<balance, held, hold, job, actual>>

\* releaseStaleHolds(): the holds no younger than that of job j.
ReleaseStaleHolds(j) ==
  LET S == { k \in Jobs : k <= j /\ hold[k] # 0 }
  IN  /\ S # {}
      /\ held' = held - Total(hold, S)
      /\ hold' = [k \in Jobs |-> IF k \in S THEN 0 ELSE hold[k]]
      /\ UNCHANGED <<balance, used, job, actual>>

-----------------------------------------------------------------------------

WalletNext ==
  \/ \E j \in Jobs :
       \/ StartJob(j) \/ FailJob(j) \/ ReleaseStaleHolds(j)
       \/ \E n \in Actuals \cup {Quote[j]} : CompleteJob(j, n)
  \/ \E n \in Amounts : Credit(n) \/ Refund(n)
  \/ ResetMonthly

WalletSpec == WalletInit /\ [][WalletNext]_walletVars

-----------------------------------------------------------------------------
(* Properties *)

\* What the wallet shows as held is what its holds add up to, and holds belong to jobs
\* under way: no path through settlement, failure and stale holds leaks tokens that
\* nobody could ever spend or release.
HeldIsHolds ==
  /\ held = Total(hold, Jobs)
  /\ \A j \in Jobs : hold[j] # 0 => job[j] = "active"

\* What completed jobs consumed beyond their quotes.
Overrun ==
  Total([j \in Jobs |-> IF actual[j] > Quote[j] THEN actual[j] - Quote[j] ELSE 0], Jobs)

\* What can be spent falls below nothing only by what settlements took beyond their
\* holds: jobs that keep to their quotes never eat into each other's.
NeverOverdrawn == balance - held >= 0 - Overrun

\* The wallet and the service implement the account: no job is charged twice, after it
\* failed or without having been started, and nothing else takes tokens.
Account ==
  INSTANCE TokenAccount WITH
    funds <- balance,
    bill <- [j \in Jobs |-> IF job[j] = "completed" THEN "charged"
                            ELSE IF job[j] = "failed" THEN "waived" ELSE "open"]

ImplementsAccount == Account!Spec

=============================================================================
