------------------------------- MODULE Payouts --------------------------------
(***************************************************************************)
(* runPayoutBatch for one coach under a provider we pay out through (the   *)
(* mock): overlapping batch runs, each of which takes the advisory lock,   *)
(* sums the ledger, posts the payout and marks it submitted, while mile-   *)
(* stones go on being released.  Under iyzico the job does nothing.        *)
(*                                                                         *)
(* A run knows the week it was started in; two runs around midnight of a   *)
(* Sunday carry different idempotency keys.                                *)
(***************************************************************************)
EXTENDS Ledger

CONSTANTS
  BatchRuns,       \* concurrent invocations of the payout job
  Weeks,           \* bound: an initial segment of the weeks
  NetAmounts,      \* bound: what a release credits the coach with
  MIN_PAYOUT,      \* 10 000 kurus
  MaxEarned,       \* bound: credits in all
  MaxAborts,       \* bound: runs that die between two steps
  NoRun

ASSUME PayoutsAssumption ==
  /\ IsFiniteSet(Weeks) /\ Weeks = 1..Cardinality(Weeks) /\ Weeks # {}
  /\ NetAmounts \subseteq Nat \ {0}
  /\ MIN_PAYOUT \in Nat \ {0} /\ {MaxEarned, MaxAborts} \subseteq Nat
  /\ NoRun \notin BatchRuns

VARIABLES
  week,
  credits, debits,   \* the coach's COACH_PAYABLE entries
  payout,            \* Payout rows by the week of their idempotency key
  advisoryLock,      \* who holds payout:<coach>
  batch, aborts

payoutVars == <<week, credits, debits, payout, advisoryLock, batch, aborts>>

NoPayout == [status |-> "none", amount |-> 0]
AtRest == [step |-> "idle", week |-> 1, balance |-> 0]

PayoutsInit ==
  /\ week = 1 /\ credits = 0 /\ debits = 0
  /\ payout = [w \in Weeks |-> NoPayout]
  /\ advisoryLock = NoRun
  /\ batch = [b \in BatchRuns |-> AtRest] /\ aborts = 0

\* A milestone is released (postMilestoneRelease).
Earn ==
  /\ \E a \in NetAmounts : credits + a <= MaxEarned /\ credits' = credits + a
  /\ UNCHANGED <<week, debits, payout, advisoryLock, batch, aborts>>

NextWeek ==
  /\ week + 1 \in Weeks /\ week' = week + 1
  /\ UNCHANGED <<credits, debits, payout, advisoryLock, batch, aborts>>

StartBatch(b) ==
  /\ batch[b].step = "idle"
  /\ batch' = [batch EXCEPT ![b] = [AtRest EXCEPT !.step = "lock", !.week = week]]
  /\ UNCHANGED <<week, credits, debits, payout, advisoryLock, aborts>>

\* Wrong: the answer of the try-lock is not looked at.
IgnoreLock(b) ==
  /\ batch[b].step = "lock"
  /\ batch' = [batch EXCEPT ![b].step = "sum"]
  /\ UNCHANGED <<week, credits, debits, payout, advisoryLock, aborts>>

\* Taken: skip the coach rather than wait.
TryLock(b) ==
  /\ batch[b].step = "lock"
  /\ IF advisoryLock = NoRun
     THEN advisoryLock' = b /\ batch' = [batch EXCEPT ![b].step = "sum"]
     ELSE UNCHANGED advisoryLock /\ batch' = [batch EXCEPT ![b] = AtRest]
  /\ UNCHANGED <<week, credits, debits, payout, aborts>>

Unlock(b) == advisoryLock' = IF advisoryLock = b THEN NoRun ELSE advisoryLock

\* coachAvailableBalanceMinor; too little is not paid out.
SumBalance(b) ==
  /\ batch[b].step = "sum"
  /\ IF credits - debits < MIN_PAYOUT
     THEN Unlock(b) /\ batch' = [batch EXCEPT ![b] = AtRest]
     ELSE /\ batch' = [batch EXCEPT ![b].step = "post", ![b].balance = credits - debits]
          /\ UNCHANGED advisoryLock
  /\ UNCHANGED <<week, credits, debits, payout, aborts>>

\* The payout row and postPayout, then the commit; a row with the key of this week aborts it all.
PostPayout(b) ==
  /\ batch[b].step = "post"
  /\ IF payout[batch[b].week].status = "none"
     THEN /\ payout' = [payout EXCEPT ![batch[b].week] = [status |-> "PENDING", amount |-> batch[b].balance]]
          /\ debits' = debits - PayoutGroup(batch[b].balance)["COACH_PAYABLE"]
          /\ batch' = [batch EXCEPT ![b].step = "submit"]
     ELSE UNCHANGED <<payout, debits>> /\ batch' = [batch EXCEPT ![b] = AtRest]
  /\ Unlock(b)
  /\ UNCHANGED <<week, credits, aborts>>

\* After the commit, in a statement of its own.
SubmitPayout(b) ==
  /\ batch[b].step = "submit"
  /\ payout' = [payout EXCEPT ![batch[b].week].status = "SUBMITTED"]
  /\ batch' = [batch EXCEPT ![b] = AtRest]
  /\ UNCHANGED <<week, credits, debits, advisoryLock, aborts>>

\* The transaction rolls back and with it the lock goes; what was committed stays.
BatchDies(b) ==
  /\ batch[b].step # "idle" /\ aborts < MaxAborts
  /\ batch' = [batch EXCEPT ![b] = AtRest] /\ aborts' = aborts + 1
  /\ Unlock(b)
  /\ UNCHANGED <<week, credits, debits, payout>>

PayoutsNext ==
  \/ Earn \/ NextWeek
  \/ \E b \in BatchRuns : \/ StartBatch(b) \/ TryLock(b) \/ SumBalance(b)
                          \/ PostPayout(b) \/ SubmitPayout(b) \/ BatchDies(b)

PayoutsSpec == PayoutsInit /\ [][PayoutsNext]_payoutVars

-------------------------------------------------------------------------------
(* Properties *)

\* A run that has summed the ledger holds the lock, and what it means to pay is still there.
LockedSum ==
  \A b \in BatchRuns :
    /\ batch[b].step \in {"sum", "post"} => advisoryLock = b
    /\ batch[b].step = "post" => batch[b].balance <= credits - debits

\* The coach is never paid more than the released milestones brought in, however many runs overlap
\* and whichever weeks their keys carry.
NeverPaidTwice == 0 <= debits /\ debits <= credits
===============================================================================
