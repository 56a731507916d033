------------------------------- MODULE Refunds --------------------------------
(***************************************************************************)
(* A funded program after its payment: what the decisions about its        *)
(* milestones write into the ledger and into the refund rows, and how the  *)
(* cron worker makes the provider's items follow (approveReleasedMile-     *)
(* stones, submitPendingRefunds).                                          *)
(*                                                                         *)
(* A worker is a process: sync[w] holds its next step, the candidates it   *)
(* read and has not visited yet, and the row it is at.  Every database     *)
(* call and every provider call is a step of its own.  A ruling on a       *)
(* dispute is two steps, the read of the milestones and the commit of what *)
(* is posted for them.  The provider is external: it may approve any item, *)
(* it refunds an item that is not approved up to its price, and its answer *)
(* may be lost.                                                            *)
(*                                                                         *)
(* Left out: who decides and the periods (EscrowLifecycle); the clock,     *)
(* of which only the wait before the next attempt of a refund is kept.     *)
(***************************************************************************)
EXTENDS Ledger, Sequences

CONSTANTS
  MilestonePrice,  \* the milestones' amounts, a sequence
  CommissionBps,
  Admins,          \* administrators who rule on disputes, each in one transaction at a time
  Resolutions,     \* the outcomes they may choose
  CronRuns,        \* concurrent invocations of the cron job
  MAX_ATTEMPTS,    \* 6 in the code
  MaxDeaths,       \* bound: invocations that die between two steps
  NoRow

Milestones == DOMAIN MilestonePrice

\* The refund row of settleSplit, beside those of the milestones.
SPLIT == 0
Rows == {SPLIT} \cup Milestones

ASSUME RefundsAssumption ==
  /\ MilestonePrice \in Seq(Nat \ {0}) /\ CommissionBps \in 0..5000
  /\ {MAX_ATTEMPTS, MaxDeaths} \subseteq Nat /\ NoRow \notin Rows
  /\ Resolutions \subseteq {"RELEASE", "REFUND", "SPLIT"}

VARIABLES
  milestone,   \* Milestone.status, the states before a decision taken together
  books,       \* the balances of LedgerEntry
  approvedAt,  \* Milestone.providerApprovedAt is set
  refund,      \* the Refund rows
  ruling,      \* per administrator, the transaction under way: its outcome and what it has read
  item,        \* the provider's basket items
  sync, deaths

rows == <<milestone, books, approvedAt, refund>>
worker == <<item, sync, deaths>>
refundVars == <<rows, ruling, worker>>

RefundStatus == {"none", "PENDING", "SUBMITTED", "SETTLED", "FAILED"}
NoRuling == [outcome |-> "none", read |-> {}, share |-> 0]
NoRefund == [status |-> "none", amount |-> 0, attempts |-> 0, due |-> FALSE]
SyncIdle == [step |-> "idle", batch |-> {}, row |-> NoRow, tries |-> 0]

RefundsInit ==
  /\ milestone = [m \in Milestones |-> "PENDING_CONFIRMATION"]
  /\ books = PostGroup(EmptyBooks, EscrowFunding(Total(MilestonePrice)))
  /\ approvedAt = [m \in Milestones |-> FALSE]
  /\ refund = [r \in Rows |-> NoRefund]
  /\ ruling = [a \in Admins |-> NoRuling]
  /\ item = [m \in Milestones |-> [approved |-> FALSE, refunded |-> 0]]
  /\ sync = [w \in CronRuns |-> SyncIdle] /\ deaths = 0

-------------------------------------------------------------------------------
(* The decisions *)

frozen == {m \in Milestones : milestone[m] = "DISPUTED"}
open == {m \in Milestones : milestone[m] \in {"PENDING_CONFIRMATION", "DISPUTED"}}

PostFor(S, group) == [a \in Account |-> books[a] + SumOver(S, [m \in S |-> group[m][a]])]
Release == [m \in Milestones |-> MilestoneRelease(MilestonePrice[m], CommissionBps)]
GiveBack == [m \in Milestones |-> RefundFromEscrow(MilestonePrice[m])]

ReleaseOnTime(m) ==
  /\ milestone[m] = "PENDING_CONFIRMATION"
  /\ milestone' = [milestone EXCEPT ![m] = "RELEASED"]
  /\ books' = PostFor({m}, Release)
  /\ UNCHANGED <<approvedAt, refund, ruling, worker>>

FreezePending ==
  /\ open # {} /\ frozen = {}
  /\ milestone' = [m \in Milestones |-> IF m \in open THEN "DISPUTED" ELSE milestone[m]]
  /\ UNCHANGED <<books, approvedAt, refund, ruling, worker>>

\* A split holds the lock of the engagement, the other outcomes hold that of the offer.
lockIsFree(outcome) == \A a \in Admins :
  ruling[a].outcome # "none" => (ruling[a].outcome = "SPLIT") # (outcome = "SPLIT")

\* The findMany of the ruling's transaction; the share of a split is checked against its total.
ReadFrozen(a) ==
  /\ ruling[a].outcome = "none" /\ frozen # {}
  /\ \E outcome \in Resolutions :
       /\ lockIsFree(outcome)
       /\ LET read == IF outcome = "REFUND" THEN open ELSE frozen IN
          \E share \in IF outcome = "SPLIT" THEN 0..SumOver(read, MilestonePrice) ELSE {0} :
            ruling' = [ruling EXCEPT ![a] = [outcome |-> outcome, read |-> read, share |-> share]]
  /\ UNCHANGED <<rows, worker>>

\* The commit writes what was read, whatever the rows say by then.
Rule(a, outcome) ==
  /\ ruling[a].outcome = outcome
  /\ ruling' = [ruling EXCEPT ![a] = NoRuling]
  /\ UNCHANGED <<approvedAt, worker>>

ReleaseRemaining(a) ==
  /\ Rule(a, "RELEASE")
  /\ milestone' = [m \in Milestones |-> IF m \in ruling[a].read THEN "RELEASED" ELSE milestone[m]]
  /\ books' = PostFor(ruling[a].read, Release)
  /\ UNCHANGED refund

Pending(amount) == [status |-> "PENDING", amount |-> amount, attempts |-> 0, due |-> TRUE]

\* One refund row per milestone, with the handle of its item.
RefundUnreleased(a) ==
  /\ Rule(a, "REFUND")
  /\ milestone' = [m \in Milestones |-> IF m \in ruling[a].read THEN "REFUNDED" ELSE milestone[m]]
  /\ books' = PostFor(ruling[a].read, GiveBack)
  /\ refund' = [r \in Rows |-> IF r \in ruling[a].read THEN Pending(MilestonePrice[r]) ELSE refund[r]]

\* What a walk over the milestones S in order leaves the coach of milestone m.
toCoach(S, m, share) ==
  LET left == share - SumOver({k \in S : k < m}, MilestonePrice)
  IN  Max({0, Min({left, MilestonePrice[m]})})

\* At most one milestone is released in part, its balance refunded.
SplitPosting(S, m, share) ==
  LET a == toCoach(S, m, share)
  IN  PostGroup(IF a > 0 THEN MilestoneRelease(a, CommissionBps) ELSE EmptyBooks,
                IF a < MilestonePrice[m] THEN RefundFromEscrow(MilestonePrice[m] - a) ELSE EmptyBooks)

\* One refund row for all, without a milestone and without a handle.
SettleSplit(a) ==
  LET S == ruling[a].read
      share == ruling[a].share
      total == SumOver(S, MilestonePrice)
  IN  /\ Rule(a, "SPLIT")
      /\ milestone' = [m \in Milestones |->
           IF m \notin S THEN milestone[m]
           ELSE IF toCoach(S, m, share) = MilestonePrice[m] THEN "RELEASED" ELSE "REFUNDED"]
      /\ books' = PostFor(S, [m \in S |-> SplitPosting(S, m, share)])
      /\ refund' = IF share < total THEN [refund EXCEPT ![SPLIT] = Pending(total - share)] ELSE refund

\* The transaction fails and leaves no trace.
RulingAborts(a) ==
  /\ ruling[a].outcome # "none"
  /\ ruling' = [ruling EXCEPT ![a] = NoRuling]
  /\ UNCHANGED <<rows, worker>>

Decide ==
  \/ \E m \in Milestones : ReleaseOnTime(m)
  \/ FreezePending
  \/ \E a \in Admins : \/ ReadFrozen(a) \/ RulingAborts(a)
                       \/ ReleaseRemaining(a) \/ RefundUnreleased(a) \/ SettleSplit(a)

-------------------------------------------------------------------------------
(* The cron worker *)

SyncAt(w, step) == sync[w].step = step
SyncTo(w, s) == sync' = [sync EXCEPT ![w] = s]
SyncNext(w, step) == [sync[w] EXCEPT !.step = step, !.row = NoRow, !.tries = 0]

\* The candidates of approveReleasedMilestones.
StartApprovals(w) ==
  /\ SyncAt(w, "idle")
  /\ SyncTo(w, [SyncIdle EXCEPT !.step = "approving",
         !.batch = {<<m, 0>> : m \in {k \in Milestones : milestone[k] = "RELEASED" /\ ~approvedAt[k]}}])
  /\ UNCHANGED <<rows, ruling, item, deaths>>

\* The provider approves and says so, or the answer is an error or gets lost on the way.
ApproveItem(w) ==
  /\ SyncAt(w, "approving")
  /\ \E c \in sync[w].batch, approved, ok \in BOOLEAN :
       /\ ok => approved
       /\ item' = IF approved THEN [item EXCEPT ![c[1]].approved = TRUE] ELSE item
       /\ SyncTo(w, [sync[w] EXCEPT !.batch = @ \ {c}, !.row = IF ok THEN c[1] ELSE NoRow,
                                  !.step = IF ok THEN "stamping" ELSE "approving"])
  /\ UNCHANGED <<rows, ruling, deaths>>

StampApproval(w) ==
  /\ SyncAt(w, "stamping")
  /\ approvedAt' = [approvedAt EXCEPT ![sync[w].row] = TRUE]
  /\ SyncTo(w, SyncNext(w, "approving"))
  /\ UNCHANGED <<milestone, books, refund, ruling, item, deaths>>

refundsDue == {r \in Rows : /\ refund[r].status = "PENDING" /\ refund[r].due
                            /\ refund[r].attempts < MAX_ATTEMPTS}

\* The candidates of submitPendingRefunds, with the number of attempts they had then.
StartRefunds(w) ==
  /\ SyncAt(w, "approving") /\ sync[w].batch = {}
  /\ SyncTo(w, [SyncIdle EXCEPT !.step = "submitting", !.batch = {<<r, refund[r].attempts>> : r \in refundsDue}])
  /\ UNCHANGED <<rows, ruling, item, deaths>>

\* Marked before the provider is called.  A row without a handle is settled without a call.
SubmitRefund(w) ==
  /\ SyncAt(w, "submitting")
  /\ \E c \in sync[w].batch :
       /\ refund' = [refund EXCEPT ![c[1]].status = "SUBMITTED", ![c[1]].attempts = @ + 1]
       /\ SyncTo(w, [step |-> IF c[1] = SPLIT THEN "settling" ELSE "calling",
                   batch |-> sync[w].batch \ {c}, row |-> c[1], tries |-> c[2] + 1])
  /\ UNCHANGED <<milestone, books, approvedAt, ruling, item, deaths>>

refundable(m) == ~item[m].approved /\ item[m].refunded + refund[m].amount <= MilestonePrice[m]

\* Wrong: a call that timed out counts as done.
answersHopeful(moved) == {"settling", "rejecting"}

\* A refund that was made may still come back as a timeout or a malformed answer.
answersTo(moved) == {"retrying", "rejecting"} \cup (IF moved THEN {"settling"} ELSE {})

RefundItem(w) ==
  /\ SyncAt(w, "calling")
  /\ LET m == sync[w].row IN
     \E moved \in IF refundable(m) THEN BOOLEAN ELSE {FALSE} :
       /\ item' = IF moved THEN [item EXCEPT ![m].refunded = @ + refund[m].amount] ELSE item
       /\ \E step \in answersTo(moved) : SyncTo(w, [sync[w] EXCEPT !.step = step])
  /\ UNCHANGED <<rows, ruling, deaths>>

SettleRefund(w) ==
  /\ SyncAt(w, "settling")
  /\ refund' = [refund EXCEPT ![sync[w].row].status = "SETTLED"]
  /\ SyncTo(w, SyncNext(w, "submitting"))
  /\ UNCHANGED <<milestone, books, approvedAt, ruling, item, deaths>>

\* A permanent rejection needs a human.
RejectRefund(w) ==
  /\ SyncAt(w, "rejecting")
  /\ refund' = [refund EXCEPT ![sync[w].row].status = "FAILED"]
  /\ SyncTo(w, SyncNext(w, "submitting"))
  /\ UNCHANGED <<milestone, books, approvedAt, ruling, item, deaths>>

\* Wrong: the row is retried for ever.
RetryForever(w) ==
  /\ SyncAt(w, "retrying")
  /\ refund' = [refund EXCEPT ![sync[w].row].status = "PENDING", ![sync[w].row].due = FALSE,
                              ![sync[w].row].attempts = 0]
  /\ SyncTo(w, SyncNext(w, "submitting"))
  /\ UNCHANGED <<milestone, books, approvedAt, ruling, item, deaths>>

\* The count is the one read with the candidates, not the row's.
ScheduleRetry(w) ==
  /\ SyncAt(w, "retrying")
  /\ refund' = [refund EXCEPT
        ![sync[w].row].status = IF sync[w].tries >= MAX_ATTEMPTS THEN "FAILED" ELSE "PENDING",
        ![sync[w].row].due = FALSE]
  /\ SyncTo(w, SyncNext(w, "submitting"))
  /\ UNCHANGED <<milestone, books, approvedAt, ruling, item, deaths>>

RefundsDone(w) ==
  /\ SyncAt(w, "submitting") /\ sync[w].batch = {}
  /\ SyncTo(w, SyncIdle)
  /\ UNCHANGED <<rows, ruling, item, deaths>>

\* nextAttemptAt has come.
BackoffEnds(r) ==
  /\ refund[r].status = "PENDING" /\ ~refund[r].due
  /\ refund' = [refund EXCEPT ![r].due = TRUE]
  /\ UNCHANGED <<milestone, books, approvedAt, ruling, worker>>

WorkerDies(w) ==
  /\ ~SyncAt(w, "idle") /\ deaths < MaxDeaths
  /\ SyncTo(w, SyncIdle) /\ deaths' = deaths + 1
  /\ UNCHANGED <<rows, ruling, item>>

Sync(w) ==
  \/ StartApprovals(w) \/ ApproveItem(w) \/ StampApproval(w)
  \/ StartRefunds(w) \/ SubmitRefund(w) \/ RefundItem(w)
  \/ SettleRefund(w) \/ RejectRefund(w) \/ ScheduleRetry(w) \/ RefundsDone(w)

RefundsNext ==
  \/ Decide
  \/ \E w \in CronRuns : Sync(w) \/ WorkerDies(w)
  \/ \E r \in Rows : BackoffEnds(r)

RefundsSpec == RefundsInit /\ [][RefundsNext]_refundVars

-------------------------------------------------------------------------------
(* Properties *)

\* Two rulings cannot overlap unless one of them is a split, which takes another lock.
Serialized == (\A a, b \in Admins : a = b) \/ "SPLIT" \notin Resolutions

RefundsTypeOK ==
  /\ milestone \in [Milestones -> {"PENDING_CONFIRMATION", "DISPUTED", "RELEASED", "REFUNDED"}]
  /\ books \in [Account -> Int]
  /\ approvedAt \in [Milestones -> BOOLEAN]
  /\ refund \in [Rows -> [status : RefundStatus, amount : Nat, attempts : Nat, due : BOOLEAN]]
  /\ ruling \in [Admins -> [outcome : Resolutions \cup {"none"}, read : SUBSET Milestones, share : Nat]]
  /\ item \in [Milestones -> [approved : BOOLEAN, refunded : Nat]]
  /\ sync \in [CronRuns -> [step : {"idle", "approving", "stamping", "submitting", "calling",
                                     "settling", "rejecting", "retrying"},
                             batch : SUBSET (Rows \X Nat), row : Rows \cup {NoRow}, tries : Nat]]
  /\ deaths \in 0..MaxDeaths

\* No item is both paid out to the coach and refunded to the student, although approvals and refunds
\* of overlapping invocations work on candidates read earlier.
PaidOutOrRefunded == \A m \in Milestones : ~(item[m].approved /\ item[m].refunded > 0)

\* A milestone's refund counts as settled only when the provider has given back its price, and the
\* provider gives nothing back for a milestone that was not refunded in the books.  The row of a
\* split is no milestone's: it is settled without a call (provider-sync.ts:159-165).
SettledRefundIsReal ==
  /\ \A m \in Milestones : refund[m].status = "SETTLED" => item[m].refunded = MilestonePrice[m]
  /\ \A m \in Milestones : item[m].refunded > 0 => milestone[m] = "REFUNDED"

\* The escrow account holds the price of every milestone that is still undecided and nothing else,
\* what left it stands in full on the other accounts, a milestone's refund recorded as settled is
\* real, and no item is paid out and refunded, as long as rulings are Serialized.  What the books
\* say of a split is not carried to the provider, so this claims nothing for its refund.
BooksTellTheTruth ==
  /\ books["PLATFORM_ESCROW"] = SumOver(open, MilestonePrice)
  /\ Balanced(books)
  /\ SettledRefundIsReal /\ PaidOutOrRefunded

\* Every refund comes to an end: settled, or failed and with a human.
RefundsEnd == \A r \in Rows : refund[r].status = "PENDING" ~> refund[r].status \in {"SETTLED", "FAILED"}
===============================================================================
