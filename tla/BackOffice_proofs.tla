--------------------------- MODULE BackOffice_proofs ---------------------------
(***************************************************************************)
(* The back office for any number of processes and milestones: the books   *)
(* and the provider follow the decisions about a program, overlapping      *)
(* payout batches never pay a coach more than was earned, the bank details *)
(* of an applicant are kept until the provider has them, and the basket    *)
(* sent to the provider is what the ledger posts, for every price.         *)
(***************************************************************************)
EXTENDS Refunds, Payouts, CoachApplication, Money, Sums

-------------------------------------------------------------------------------
(* Refunds.  A worker acts on candidates it read earlier.  That is harmless because what it read is  *)
(* final: a released milestone stays released, a refund row stays the row of a refunded milestone,   *)
(* and the provider gives an item's price back at most once.                                         *)

RefundRow(x) == /\ x = [status |-> x.status, amount |-> x.amount, attempts |-> x.attempts, due |-> x.due]
                /\ x.status \in RefundStatus /\ x.attempts \in Nat

SyncState == [step : {"idle", "approving", "stamping", "submitting", "calling", "settling",
                      "rejecting", "retrying"},
              batch : SUBSET (Rows \X Nat), row : Rows \cup {NoRow}, tries : Nat]

SyncTypeOK ==
  /\ milestone \in [Milestones -> {"PENDING_CONFIRMATION", "DISPUTED", "RELEASED", "REFUNDED"}]
  /\ refund = [r \in Rows |-> refund[r]] /\ \A r \in Rows : RefundRow(refund[r])
  /\ item \in [Milestones -> [approved : BOOLEAN, refunded : Nat]]
  /\ sync \in [CronRuns -> SyncState]

\* An item follows its milestone, and only the row of a refunded milestone can settle.
ItemsFollow == \A m \in Milestones :
  /\ item[m].approved => milestone[m] = "RELEASED"
  /\ item[m].refunded \in {0, MilestonePrice[m]}
  /\ item[m].refunded > 0 => milestone[m] = "REFUNDED"
  /\ refund[m].status # "none" => milestone[m] = "REFUNDED" /\ refund[m].amount = MilestonePrice[m]
  /\ refund[m].status = "SETTLED" => item[m].refunded = MilestonePrice[m]

Acting == {"calling", "settling", "rejecting", "retrying"}

\* What a worker read is still so when it acts on it.
WorkerOnCourse(s) ==
  /\ s.step = "approving" => \A c \in s.batch : c[1] \in Milestones /\ milestone[c[1]] = "RELEASED"
  /\ s.step = "stamping" => /\ \A c \in s.batch : c[1] \in Milestones /\ milestone[c[1]] = "RELEASED"
                            /\ s.row \in Milestones
  /\ s.step = "submitting" \/ s.step \in Acting => \A c \in s.batch : refund[c[1]].status # "none"
  /\ s.step \in Acting => s.row \in Rows /\ refund[s.row].status # "none"
  /\ s.step = "calling" => s.row \in Milestones
  /\ s.step = "settling" /\ s.row \in Milestones => item[s.row].refunded = MilestonePrice[s.row]

RefundsInv == SyncTypeOK /\ ItemsFollow /\ \A w \in CronRuns : WorkerOnCourse(sync[w])

Ruling == [outcome : {"none"} \cup Resolutions, read : SUBSET Milestones, share : Nat]

\* One ruling at a time, and what it has read is still frozen: nothing but a ruling thaws a milestone.
RulingsHold ==
  /\ ruling \in [Admins -> Ruling]
  /\ \A a \in Admins : ruling[a].outcome # "none" => ruling[a].read \subseteq frozen
  /\ \A a, b \in Admins : ruling[a].outcome # "none" /\ ruling[b].outcome # "none" => a = b
  /\ frozen # {} => open \subseteq frozen

LEMMA Prices ==
  /\ \A m \in Milestones : MilestonePrice[m] \in Nat /\ MilestonePrice[m] > 0
  /\ SPLIT \notin Milestones /\ Milestones \subseteq Rows /\ SPLIT \in Rows
  /\ NoRow \notin Rows /\ Milestones \subseteq Nat
  <1>1. MilestonePrice \in Seq(Nat \ {0})
    BY RefundsAssumption
  <1>2. Milestones = 1..Len(MilestonePrice) /\ Len(MilestonePrice) \in Nat
    BY <1>1 DEF Milestones
  <1>3. \A m \in Milestones : MilestonePrice[m] \in Nat \ {0}
    BY <1>1, <1>2
  <1> QED BY <1>2, <1>3, RefundsAssumption DEF SPLIT, Rows

LEMMA RefundsInvInit == RefundsInit => RefundsInv /\ RulingsHold
  BY Prices DEF RefundsInit, RefundsInv, RulingsHold, Ruling, NoRuling, frozen, open, SyncTypeOK, ItemsFollow, WorkerOnCourse, NoRefund, SyncIdle,
                SyncState, RefundRow, RefundStatus, Acting

-------------------------------------------------------------------------------
(* The kinds of steps *)

\* A decision leaves what is final alone, and makes rows for the milestones it refunds.
Settles ==
  /\ UNCHANGED <<item, sync>>
  /\ milestone' \in [Milestones -> {"PENDING_CONFIRMATION", "DISPUTED", "RELEASED", "REFUNDED"}]
  /\ \A m \in Milestones \ open : milestone'[m] = milestone[m]
  /\ refund' = [r \in Rows |-> refund'[r]] /\ \A r \in Rows : RefundRow(refund'[r])
  /\ \A m \in Milestones :
       \/ refund'[m] = refund[m]
       \/ milestone'[m] = "REFUNDED" /\ m \in open /\ refund'[m] = Pending(MilestonePrice[m])
  /\ \A r \in Rows : refund[r].status # "none" => refund'[r].status # "none"

\* A worker moves on, and with it at most one row or one item.
Works(w, s) ==
  /\ milestone' = milestone /\ s \in SyncState /\ SyncTo(w, s)
  /\ WorkerOnCourse(s)'

RowTo(r, status, due) ==
  /\ item' = item
  /\ refund' = [x \in Rows |-> refund'[x]]
  /\ \A x \in Rows \ {r} : refund'[x] = refund[x]
  /\ RefundRow(refund'[r]) /\ refund'[r].status = status /\ refund'[r].amount = refund[r].amount

LEMMA SettlesInductive ==
  ASSUME RefundsInv, Settles
  PROVE  RefundsInv'
  <1>0. SyncTypeOK /\ ItemsFollow /\ \A w \in CronRuns : WorkerOnCourse(sync[w])
    BY DEF RefundsInv
  <1>1. SyncTypeOK'
    BY <1>0 DEF Settles, SyncTypeOK
  <1>2. \A m \in Milestones : milestone[m] \in {"RELEASED", "REFUNDED"} => milestone'[m] = milestone[m]
    BY DEF Settles, open
  <1>3. ItemsFollow'
    <2> SUFFICES ASSUME NEW m \in Milestones
                 PROVE  /\ item[m].approved => milestone'[m] = "RELEASED"
                        /\ item[m].refunded \in {0, MilestonePrice[m]}
                        /\ item[m].refunded > 0 => milestone'[m] = "REFUNDED"
                        /\ refund'[m].status # "none" => /\ milestone'[m] = "REFUNDED"
                                                         /\ refund'[m].amount = MilestonePrice[m]
                        /\ refund'[m].status = "SETTLED" => item[m].refunded = MilestonePrice[m]
      BY DEF Settles, ItemsFollow
    <2>1. CASE refund'[m] = refund[m]
      BY <1>0, <1>2, <2>1 DEF ItemsFollow
    <2>2. CASE milestone'[m] = "REFUNDED" /\ m \in open /\ refund'[m] = Pending(MilestonePrice[m])
      BY <1>0, <2>2 DEF ItemsFollow, open, Pending
    <2> QED BY <2>1, <2>2 DEF Settles
  <1>4. ASSUME NEW w \in CronRuns PROVE WorkerOnCourse(sync[w])'
    <2>1. sync'[w] = sync[w] /\ sync[w] \in SyncState /\ item' = item
      BY <1>0 DEF Settles, SyncTypeOK
    <2>2. \A c \in sync[w].batch : c[1] \in Rows
      BY <2>1 DEF SyncState
    <2>3. \A r \in Rows : refund[r].status # "none" => refund'[r].status # "none"
      BY DEF Settles
    <2>4. WorkerOnCourse(sync[w])
      BY <1>0
    <2> QED BY <1>2, <2>1, <2>2, <2>3, <2>4 DEF WorkerOnCourse
  <1> QED BY <1>1, <1>3, <1>4 DEF RefundsInv

\* What the other workers have read stays so.
LEMMA WorkerInductive ==
  ASSUME RefundsInv, NEW w \in CronRuns, NEW s, Works(w, s),
         refund' = [x \in Rows |-> refund'[x]], \A r \in Rows : RefundRow(refund'[r]),
         item' \in [Milestones -> [approved : BOOLEAN, refunded : Nat]],
         ItemsFollow',
         \A r \in Rows : refund[r].status # "none" => refund'[r].status # "none",
         \A m \in Milestones : item[m].refunded = MilestonePrice[m] => item'[m].refunded = MilestonePrice[m]
  PROVE  RefundsInv'
  <1>0. SyncTypeOK /\ \A v \in CronRuns : WorkerOnCourse(sync[v])
    BY DEF RefundsInv
  <1>1. sync' = [sync EXCEPT ![w] = s] /\ s \in SyncState /\ milestone' = milestone
    BY DEF Works, SyncTo
  <1>2. SyncTypeOK'
    BY <1>0, <1>1 DEF SyncTypeOK
  <1>3. ASSUME NEW v \in CronRuns, v # w PROVE WorkerOnCourse(sync[v])'
    <2>1. sync'[v] = sync[v] /\ sync[v] \in SyncState
      BY <1>0, <1>1, <1>3 DEF SyncTypeOK
    <2>2. \A c \in sync[v].batch : c[1] \in Rows
      BY <2>1 DEF SyncState
    <2>3. WorkerOnCourse(sync[v])
      BY <1>0
    <2> QED BY <1>1, <2>1, <2>2, <2>3 DEF WorkerOnCourse
  <1>4. WorkerOnCourse(sync[w])'
    <2>1. sync'[w] = s
      BY <1>0, <1>1 DEF SyncTypeOK
    <2> QED BY <2>1 DEF Works, WorkerOnCourse
  <1> QED BY <1>2, <1>3, <1>4 DEF RefundsInv

\* A step that neither writes a row nor calls the provider.
LEMMA QuietInductive ==
  ASSUME RefundsInv, NEW w \in CronRuns, NEW s, Works(w, s), UNCHANGED <<refund, item>>
  PROVE  RefundsInv'
  <1>1. ItemsFollow' /\ milestone' = milestone
    BY DEF RefundsInv, ItemsFollow, Works
  <1> QED BY <1>1, WorkerInductive DEF RefundsInv, SyncTypeOK

\* A step that writes one row.
LEMMA RowInductive ==
  ASSUME RefundsInv, NEW w \in CronRuns, NEW s, Works(w, s), NEW r \in Rows, NEW status, NEW due,
         RowTo(r, status, due), refund[r].status # "none", status # "none",
         status = "SETTLED" /\ r \in Milestones => item[r].refunded = MilestonePrice[r]
  PROVE  RefundsInv'
  <1>0. SyncTypeOK /\ ItemsFollow /\ milestone' = milestone
    BY DEF RefundsInv, Works
  <1>1. \A x \in Rows : RefundRow(refund'[x])
    BY <1>0 DEF RowTo, SyncTypeOK
  <1>2. ItemsFollow'
    BY <1>0, Prices DEF ItemsFollow, RowTo
  <1>3. \A x \in Rows : refund[x].status # "none" => refund'[x].status # "none"
    BY DEF RowTo
  <1>4. refund' = [x \in Rows |-> refund'[x]] /\ item' = item
    BY DEF RowTo
  <1> QED BY <1>0, <1>1, <1>2, <1>3, <1>4, WorkerInductive DEF SyncTypeOK

-------------------------------------------------------------------------------
(* The steps *)

\* A split releases some of what it read and refunds the rest.
LEMMA SplitCloses ==
  ASSUME NEW a \in Admins, SettleSplit(a), NEW S, S = ruling[a].read
  PROVE  \E to : milestone' = [m \in Milestones |->
           IF m \notin S THEN milestone[m] ELSE IF to[m] THEN "RELEASED" ELSE "REFUNDED"]
  <1> DEFINE whole == [m \in Milestones |-> toCoach(S, m, ruling[a].share) = MilestonePrice[m]]
  <1>1. milestone' = [m \in Milestones |->
           IF m \notin S THEN milestone[m]
           ELSE IF toCoach(S, m, ruling[a].share) = MilestonePrice[m] THEN "RELEASED" ELSE "REFUNDED"]
    BY DEF SettleSplit
  <1>2. milestone' = [m \in Milestones |->
           IF m \notin S THEN milestone[m] ELSE IF whole[m] THEN "RELEASED" ELSE "REFUNDED"]
    BY <1>1
  <1> HIDE DEF whole
  <1> QED BY <1>2

LEMMA DecisionsSettle ==
  ASSUME RefundsInv, RulingsHold, Decide
  PROVE  Settles
  <1>0. SyncTypeOK /\ ItemsFollow
    BY DEF RefundsInv
  <1>1. ASSUME NEW m \in Milestones, ReleaseOnTime(m) PROVE Settles
    BY <1>0, <1>1 DEF ReleaseOnTime, Settles, SyncTypeOK, open, worker
  <1>2. CASE FreezePending
    BY <1>0, <1>2 DEF FreezePending, Settles, SyncTypeOK, open, worker
  <1>3. ASSUME NEW a \in Admins, ReadFrozen(a) \/ RulingAborts(a) PROVE Settles
    BY <1>0, <1>3 DEF ReadFrozen, RulingAborts, Settles, SyncTypeOK, rows, worker
  <1>4. ASSUME NEW a \in Admins, ReleaseRemaining(a) PROVE Settles
    <2>1. PICK S : S = ruling[a].read /\ S \subseteq open
      BY <1>4 DEF RulingsHold, ReleaseRemaining, Rule, open, frozen
    <2> QED BY <1>0, <1>4, <2>1 DEF ReleaseRemaining, Rule, Settles, SyncTypeOK, worker
  <1>5. ASSUME NEW a \in Admins, RefundUnreleased(a) PROVE Settles
    <2>0. PICK S : S = ruling[a].read /\ S \subseteq open
      BY <1>5 DEF RulingsHold, RefundUnreleased, Rule, open, frozen
    <2>1. /\ UNCHANGED <<item, sync>>
          /\ milestone' = [m \in Milestones |-> IF m \in S THEN "REFUNDED" ELSE milestone[m]]
          /\ refund' = [r \in Rows |-> IF r \in S THEN Pending(MilestonePrice[r]) ELSE refund[r]]
      BY <1>5, <2>0 DEF RefundUnreleased, Rule, worker
    <2>2. \A x : RefundRow(Pending(x)) /\ Pending(x).status # "none"
      BY DEF RefundRow, Pending, RefundStatus
    <2>3. \A m \in Milestones : refund'[m] = IF m \in S THEN Pending(MilestonePrice[m]) ELSE refund[m]
      BY <2>1, Prices
    <2>4. refund' = [r \in Rows |-> refund'[r]] /\ \A r \in Rows : RefundRow(refund'[r])
      BY <1>0, <2>1, <2>2 DEF SyncTypeOK
    <2>5. \A r \in Rows : refund[r].status # "none" => refund'[r].status # "none"
      BY <2>1, <2>2
    <2>6. milestone' \in [Milestones -> {"PENDING_CONFIRMATION", "DISPUTED", "RELEASED", "REFUNDED"}]
      BY <1>0, <2>1 DEF SyncTypeOK
    <2> QED BY <2>0, <2>1, <2>3, <2>4, <2>5, <2>6 DEF Settles
  <1>6. ASSUME NEW a \in Admins, SettleSplit(a) PROVE Settles
    <2>0. PICK S : S = ruling[a].read /\ S \subseteq open
      BY <1>6 DEF RulingsHold, SettleSplit, Rule, open, frozen
    <2>1. PICK to : /\ UNCHANGED <<item, sync>>
                    /\ milestone' = [m \in Milestones |->
                         IF m \notin S THEN milestone[m] ELSE IF to[m] THEN "RELEASED" ELSE "REFUNDED"]
      <3>1. UNCHANGED <<item, sync>>
        BY <1>6 DEF SettleSplit, Rule, worker
      <3> QED BY <1>6, <2>0, <3>1, SplitCloses
    <2>2. PICK amount : refund' = refund \/ refund' = [refund EXCEPT ![SPLIT] = Pending(amount)]
      BY <1>6 DEF SettleSplit
    <2>3. RefundRow(Pending(amount)) /\ Pending(amount).status # "none"
      BY DEF RefundRow, Pending, RefundStatus
    <2>4. refund' = [r \in Rows |-> refund'[r]]
      BY <1>0, <2>2 DEF SyncTypeOK
    <2>5. \A r \in Rows : refund'[r] = refund[r] \/ (r = SPLIT /\ refund'[r] = Pending(amount))
      BY <1>0, <2>2 DEF SyncTypeOK
    <2>6. milestone' \in [Milestones -> {"PENDING_CONFIRMATION", "DISPUTED", "RELEASED", "REFUNDED"}]
      BY <1>0, <2>1 DEF SyncTypeOK
    <2>7. \A m \in Milestones \ open : milestone'[m] = milestone[m]
      BY <2>0, <2>1
    <2>8. \A m \in Milestones : refund'[m] = refund[m]
      BY <2>5, Prices
    <2>9. \A r \in Rows : RefundRow(refund'[r])
      BY <1>0, <2>3, <2>5 DEF SyncTypeOK
    <2> QED BY <2>1, <2>3, <2>4, <2>5, <2>6, <2>7, <2>8, <2>9 DEF Settles
  <1> QED BY <1>1, <1>2, <1>3, <1>4, <1>5, <1>6 DEF Decide

\* Who thaws milestones.
Commits(a) == ReleaseRemaining(a) \/ RefundUnreleased(a) \/ SettleSplit(a)

LEMMA ThawsWhatItRead ==
  ASSUME RefundsInv, NEW a \in Admins, Commits(a), NEW S, S = ruling[a].read, S \subseteq frozen
  PROVE  open' = open \ S /\ frozen' = frozen \ S
  <1>0. milestone \in [Milestones -> {"PENDING_CONFIRMATION", "DISPUTED", "RELEASED", "REFUNDED"}]
    BY DEF RefundsInv, SyncTypeOK
  <1>1. CASE ReleaseRemaining(a)
    BY <1>0, <1>1 DEF ReleaseRemaining, open, frozen
  <1>2. CASE RefundUnreleased(a)
    BY <1>0, <1>2 DEF RefundUnreleased, open, frozen
  <1>3. CASE SettleSplit(a)
    <2>1. PICK to : milestone' = [m \in Milestones |->
            IF m \notin S THEN milestone[m] ELSE IF to[m] THEN "RELEASED" ELSE "REFUNDED"]
      BY <1>3, SplitCloses
    <2> QED BY <1>0, <2>1 DEF open, frozen
  <1> QED BY <1>1, <1>2, <1>3 DEF Commits

LEMMA RulingsInductive ==
  ASSUME Serialized, RefundsInv, RulingsHold, [RefundsNext]_refundVars
  PROVE  RulingsHold'
  <1>0. milestone \in [Milestones -> {"PENDING_CONFIRMATION", "DISPUTED", "RELEASED", "REFUNDED"}]
    BY DEF RefundsInv, SyncTypeOK
  <1>1. ASSUME UNCHANGED <<milestone, ruling>> PROVE RulingsHold'
    BY <1>1 DEF RulingsHold, frozen, open
  <1>2. ASSUME NEW m \in Milestones, ReleaseOnTime(m) PROVE RulingsHold'
    <2>1. ruling' = ruling /\ open' = open \ {m} /\ frozen' = frozen
      BY <1>0, <1>2 DEF ReleaseOnTime, open, frozen
    <2> QED BY <2>1 DEF RulingsHold
  <1>3. CASE FreezePending
    <2>1. ruling' = ruling /\ open' = open /\ frozen' = open /\ frozen = {}
      BY <1>0, <1>3 DEF FreezePending, open, frozen
    <2> QED BY <2>1 DEF RulingsHold
  <1>4. ASSUME NEW a \in Admins, ReadFrozen(a) PROVE RulingsHold'
    <2>1. PICK r \in Ruling : /\ ruling' = [ruling EXCEPT ![a] = r] /\ r.outcome \in Resolutions
                              /\ r.read \subseteq frozen /\ lockIsFree(r.outcome)
      <3>1. frozen # {} /\ open \subseteq frozen /\ frozen \subseteq Milestones
        BY <1>4 DEF ReadFrozen, RulingsHold, frozen
      <3>2. PICK outcome \in Resolutions, read \in {open, frozen}, share \in Nat :
              /\ lockIsFree(outcome)
              /\ ruling' = [ruling EXCEPT ![a] = [outcome |-> outcome, read |-> read, share |-> share]]
        <4>1. PICK outcome \in Resolutions :
                /\ lockIsFree(outcome)
                /\ \E share \in IF outcome = "SPLIT"
                               THEN 0..SumOver(IF outcome = "REFUND" THEN open ELSE frozen, MilestonePrice)
                               ELSE {0} :
                     ruling' = [ruling EXCEPT ![a] =
                       [outcome |-> outcome, read |-> IF outcome = "REFUND" THEN open ELSE frozen, share |-> share]]
          BY <1>4 DEF ReadFrozen
        <4>2. PICK read : read = IF outcome = "REFUND" THEN open ELSE frozen
          OBVIOUS
        <4>3. PICK share : /\ share \in 0..SumOver(read, MilestonePrice) \/ share \in {0}
                           /\ ruling' = [ruling EXCEPT ![a] =
                                [outcome |-> outcome, read |-> read, share |-> share]]
          BY <4>1, <4>2
        <4>4. share \in Nat
          BY <4>3
        <4> QED BY <4>1, <4>2, <4>3, <4>4
      <3>3. [outcome |-> outcome, read |-> read, share |-> share] \in Ruling
        BY <3>1, <3>2, RefundsAssumption DEF Ruling
      <3> QED BY <3>1, <3>2, <3>3
    <2>2. open' = open /\ frozen' = frozen
      BY <1>4 DEF ReadFrozen, rows, open, frozen
    <2>3. \A b \in Admins \ {a} : ruling[b].outcome = "none"
      <3>1. CASE \A b, c \in Admins : b = c
        BY <3>1
      <3>2. CASE "SPLIT" \notin Resolutions
        <4> SUFFICES ASSUME NEW b \in Admins, ruling[b].outcome # "none" PROVE FALSE
          OBVIOUS
        <4>1. ruling[b].outcome \in Resolutions
          BY DEF RulingsHold, Ruling
        <4> QED BY <2>1, <3>2, <4>1 DEF lockIsFree
      <3> QED BY <3>1, <3>2 DEF Serialized
    <2> QED BY <2>1, <2>2, <2>3 DEF RulingsHold
  <1>5. ASSUME NEW a \in Admins, RulingAborts(a) PROVE RulingsHold'
    <2>1. ruling' = [ruling EXCEPT ![a] = NoRuling] /\ open' = open /\ frozen' = frozen
      BY <1>5 DEF RulingAborts, rows, open, frozen
    <2>2. NoRuling \in Ruling /\ NoRuling.outcome = "none"
      BY DEF NoRuling, Ruling
    <2> QED BY <2>1, <2>2 DEF RulingsHold
  <1>6. ASSUME NEW a \in Admins, Commits(a) PROVE RulingsHold'
    <2>1. ruling' = [ruling EXCEPT ![a] = NoRuling] /\ ruling[a].outcome # "none"
      BY <1>6 DEF Commits, ReleaseRemaining, RefundUnreleased, SettleSplit, Rule
    <2>2. PICK S : /\ S = ruling[a].read /\ S \subseteq frozen
      BY <2>1 DEF RulingsHold
    <2>3. open' = open \ S /\ frozen' = frozen \ S
      BY <1>6, <2>2, ThawsWhatItRead
    <2>4. NoRuling \in Ruling /\ NoRuling.outcome = "none"
      BY DEF NoRuling, Ruling
    <2>5. \A b \in Admins : ruling'[b].outcome = "none"
      BY <2>1, <2>4 DEF RulingsHold
    <2> QED BY <2>1, <2>2, <2>3, <2>4, <2>5 DEF RulingsHold
  <1>7. ASSUME NEW w \in CronRuns, Sync(w) \/ WorkerDies(w) PROVE RulingsHold'
    BY <1>1, <1>7 DEF Sync, StartApprovals, ApproveItem, StampApproval, StartRefunds, SubmitRefund, RefundItem,
                      SettleRefund, RejectRefund, ScheduleRetry, RefundsDone, WorkerDies, rows
  <1>8. ASSUME NEW r \in Rows, BackoffEnds(r) PROVE RulingsHold'
    BY <1>1, <1>8 DEF BackoffEnds
  <1>9. CASE UNCHANGED refundVars
    BY <1>1, <1>9 DEF refundVars, rows
  <1> QED BY <1>2, <1>3, <1>4, <1>5, <1>6, <1>7, <1>8, <1>9 DEF RefundsNext, Decide, Commits

LEMMA QuietSteps ==
  ASSUME RefundsInv, NEW w \in CronRuns,
         \/ StartApprovals(w) \/ StampApproval(w) \/ StartRefunds(w) \/ RefundsDone(w) \/ WorkerDies(w)
  PROVE  RefundsInv'
  <1>0. SyncTypeOK /\ WorkerOnCourse(sync[w]) /\ sync[w] \in SyncState
    BY DEF RefundsInv, SyncTypeOK
  <1>1. CASE StartApprovals(w)
    <2>1. PICK B : /\ B = {<<m, 0>> : m \in {k \in Milestones : milestone[k] = "RELEASED" /\ ~approvedAt[k]}}
                   /\ SyncTo(w, [SyncIdle EXCEPT !.step = "approving", !.batch = B])
      BY <1>1 DEF StartApprovals
    <2>2. B \subseteq Rows \X Nat /\ \A c \in B : c[1] \in Milestones /\ milestone[c[1]] = "RELEASED"
      BY <2>1, Prices
    <2>3. PICK s : s = [SyncIdle EXCEPT !.step = "approving", !.batch = B]
      OBVIOUS
    <2>4. s \in SyncState /\ s.step = "approving" /\ s.batch = B /\ SyncTo(w, s)
      BY <2>1, <2>2, <2>3 DEF SyncState, SyncIdle
    <2>5. UNCHANGED <<milestone, refund, item>>
      BY <1>1 DEF StartApprovals, rows
    <2>6. WorkerOnCourse(s)'
      BY <2>2, <2>4, <2>5 DEF WorkerOnCourse, Acting
    <2> QED BY <2>4, <2>5, <2>6, QuietInductive DEF Works
  <1>2. CASE StampApproval(w)
    <2>1. PICK s : s = SyncNext(w, "approving")
      OBVIOUS
    <2>2. UNCHANGED <<milestone, refund, item>> /\ SyncTo(w, s) /\ sync[w].step = "stamping"
      BY <1>2, <2>1 DEF StampApproval, SyncAt
    <2>3. s \in SyncState /\ s.step = "approving" /\ s.batch = sync[w].batch
      BY <1>0, <2>1 DEF SyncState, SyncNext
    <2>4. \A c \in s.batch : c[1] \in Milestones /\ milestone[c[1]] = "RELEASED"
      BY <1>0, <2>2, <2>3 DEF WorkerOnCourse
    <2>5. WorkerOnCourse(s)'
      BY <2>2, <2>3, <2>4 DEF WorkerOnCourse, Acting
    <2> QED BY <2>2, <2>3, <2>5, QuietInductive DEF Works
  <1>3. CASE StartRefunds(w)
    <2>1. PICK B : /\ B = {<<r, refund[r].attempts>> : r \in refundsDue}
                   /\ SyncTo(w, [SyncIdle EXCEPT !.step = "submitting", !.batch = B])
      BY <1>3 DEF StartRefunds
    <2>2. \A c \in B : refund[c[1]].status # "none"
      BY <2>1 DEF refundsDue
    <2>3. B \subseteq Rows \X Nat
      BY <1>0, <2>1 DEF refundsDue, SyncTypeOK, RefundRow
    <2>4. PICK s : s = [SyncIdle EXCEPT !.step = "submitting", !.batch = B]
      OBVIOUS
    <2>5. s \in SyncState /\ s.step = "submitting" /\ s.batch = B /\ SyncTo(w, s)
      BY <2>1, <2>3, <2>4 DEF SyncState, SyncIdle
    <2>6. UNCHANGED <<milestone, refund, item>>
      BY <1>3 DEF StartRefunds, rows
    <2>7. WorkerOnCourse(s)'
      BY <2>2, <2>5, <2>6 DEF WorkerOnCourse, Acting
    <2> QED BY <2>5, <2>6, <2>7, QuietInductive DEF Works
  <1>4. CASE RefundsDone(w) \/ WorkerDies(w)
    <2>1. UNCHANGED <<milestone, refund, item>> /\ SyncTo(w, SyncIdle)
      BY <1>4 DEF RefundsDone, WorkerDies, rows
    <2>2. SyncIdle \in SyncState /\ WorkerOnCourse(SyncIdle)'
      BY DEF SyncIdle, SyncState, WorkerOnCourse, Acting
    <2> QED BY <2>1, <2>2, QuietInductive DEF Works
  <1> QED BY <1>1, <1>2, <1>3, <1>4

\* A released milestone's item is approved, a refund the provider can make gives the price back.
LEMMA ProviderSteps ==
  ASSUME RefundsInv, NEW w \in CronRuns, ApproveItem(w) \/ RefundItem(w)
  PROVE  RefundsInv'
  <1>0. SyncTypeOK /\ ItemsFollow /\ WorkerOnCourse(sync[w]) /\ sync[w] \in SyncState
    BY DEF RefundsInv, SyncTypeOK
  <1>1. UNCHANGED <<milestone, refund>>
    BY DEF ApproveItem, RefundItem, rows
  <1>2. CASE ApproveItem(w)
    <2>1. PICK c \in sync[w].batch, approved \in BOOLEAN, ok \in BOOLEAN :
            /\ item' = IF approved THEN [item EXCEPT ![c[1]].approved = TRUE] ELSE item
            /\ SyncTo(w, [sync[w] EXCEPT !.batch = @ \ {c}, !.row = IF ok THEN c[1] ELSE NoRow,
                                         !.step = IF ok THEN "stamping" ELSE "approving"])
      BY <1>2 DEF ApproveItem
    <2>2. PICK s : s = [sync[w] EXCEPT !.batch = @ \ {c}, !.row = IF ok THEN c[1] ELSE NoRow,
                                       !.step = IF ok THEN "stamping" ELSE "approving"]
      OBVIOUS
    <2>3. \A d \in sync[w].batch : d[1] \in Milestones /\ milestone[d[1]] = "RELEASED"
      BY <1>0, <1>2 DEF ApproveItem, SyncAt, WorkerOnCourse
    <2>4. s \in SyncState /\ s.batch \subseteq sync[w].batch /\ s.step \in {"stamping", "approving"}
      BY <1>0, <2>2, <2>3, Prices DEF SyncState
    <2>5. s.step = "stamping" => s.row \in Milestones
      BY <1>0, <2>2, <2>3 DEF SyncState
    <2>6. WorkerOnCourse(s)'
      BY <1>1, <2>3, <2>4, <2>5 DEF WorkerOnCourse, Acting
    <2>7. item' \in [Milestones -> [approved : BOOLEAN, refunded : Nat]]
      BY <1>0, <2>1, <2>3 DEF SyncTypeOK
    <2>8. \A m \in Milestones : /\ item'[m].refunded = item[m].refunded
                                /\ item'[m].approved => item[m].approved \/ milestone[m] = "RELEASED"
      BY <1>0, <2>1, <2>3 DEF SyncTypeOK
    <2>9. ItemsFollow'
      BY <1>0, <1>1, <2>8 DEF ItemsFollow
    <2>10. SyncTo(w, s)
      BY <2>1, <2>2
    <2>11. Works(w, s)
      BY <1>1, <2>4, <2>6, <2>10 DEF Works
    <2> QED BY <1>0, <1>1, <2>7, <2>8, <2>9, <2>11, WorkerInductive DEF SyncTypeOK
  <1>3. CASE RefundItem(w)
    <2>1. PICK m : m = sync[w].row
      OBVIOUS
    <2>2. m \in Milestones /\ refund[m].status # "none" /\ milestone[m] = "REFUNDED"
           /\ refund[m].amount = MilestonePrice[m] /\ \A c \in sync[w].batch : refund[c[1]].status # "none"
      BY <1>0, <1>3, <2>1 DEF RefundItem, SyncAt, WorkerOnCourse, Acting, ItemsFollow
    <2>3. PICK moved \in BOOLEAN, step \in {"settling", "rejecting", "retrying"} :
            /\ moved => refundable(m)
            /\ step = "settling" => moved
            /\ item' = IF moved THEN [item EXCEPT ![m].refunded = @ + refund[m].amount] ELSE item
            /\ SyncTo(w, [sync[w] EXCEPT !.step = step])
      BY <1>3, <2>1 DEF RefundItem, answersTo
    <2>4. moved => item[m].refunded = 0 /\ ~item[m].approved
      BY <1>0, <2>2, <2>3, Prices DEF refundable, ItemsFollow
    <2>5. item' \in [Milestones -> [approved : BOOLEAN, refunded : Nat]]
      BY <1>0, <2>2, <2>3, <2>4, Prices DEF SyncTypeOK
    <2>6. \A k \in Milestones :
            /\ item'[k].approved = item[k].approved
            /\ item'[k].refunded = IF moved /\ k = m THEN MilestonePrice[k] ELSE item[k].refunded
      BY <1>0, <2>2, <2>3, <2>4, Prices DEF SyncTypeOK
    <2>7. ItemsFollow'
      BY <1>0, <1>1, <2>2, <2>6, Prices DEF ItemsFollow
    <2>8. PICK s : s = [sync[w] EXCEPT !.step = step]
      OBVIOUS
    <2>10. s \in SyncState /\ s.step = step /\ s.row = m /\ s.batch = sync[w].batch
      BY <1>0, <2>1, <2>3, <2>8 DEF SyncState
    <2>11. WorkerOnCourse(s)'
      BY <1>1, <2>2, <2>3, <2>6, <2>10, Prices DEF WorkerOnCourse, Acting
    <2>12. Works(w, s)
      BY <1>1, <2>3, <2>8, <2>10, <2>11 DEF Works
    <2> QED BY <1>0, <1>1, <2>5, <2>6, <2>7, <2>12, WorkerInductive DEF SyncTypeOK
  <1> QED BY <1>2, <1>3

LEMMA RowSteps ==
  ASSUME RefundsInv, NEW w \in CronRuns,
         SubmitRefund(w) \/ SettleRefund(w) \/ RejectRefund(w) \/ ScheduleRetry(w)
  PROVE  RefundsInv'
  <1>0. SyncTypeOK /\ ItemsFollow /\ WorkerOnCourse(sync[w]) /\ sync[w] \in SyncState
    BY DEF RefundsInv, SyncTypeOK
  <1>1. UNCHANGED <<milestone, item>>
    BY DEF SubmitRefund, SettleRefund, RejectRefund, ScheduleRetry
  <1>2. CASE SubmitRefund(w)
    <2>1. PICK c \in sync[w].batch :
            /\ refund' = [refund EXCEPT ![c[1]].status = "SUBMITTED", ![c[1]].attempts = @ + 1]
            /\ SyncTo(w, [step |-> IF c[1] = SPLIT THEN "settling" ELSE "calling",
                          batch |-> sync[w].batch \ {c}, row |-> c[1], tries |-> c[2] + 1])
      BY <1>2 DEF SubmitRefund
    <2>2. c[1] \in Rows /\ c[2] \in Nat /\ \A d \in sync[w].batch : d[1] \in Rows /\ refund[d[1]].status # "none"
      BY <1>0, <1>2, <2>1 DEF SubmitRefund, SyncAt, WorkerOnCourse, SyncState
    <2>3. PICK s : s = [step |-> IF c[1] = SPLIT THEN "settling" ELSE "calling",
                        batch |-> sync[w].batch \ {c}, row |-> c[1], tries |-> c[2] + 1]
      OBVIOUS
    <2>4. PICK r : r = c[1]
      OBVIOUS
    <2>5. s \in SyncState
      BY <1>0, <2>2, <2>3 DEF SyncState
    <2>6. /\ s.step \in {"settling", "calling"} /\ s.row = r /\ s.batch \subseteq sync[w].batch
          /\ s.step = "settling" => r = SPLIT
          /\ s.step = "calling" => r # SPLIT
      BY <2>3, <2>4
    <2>7. RowTo(r, "SUBMITTED", FALSE)
      <3>1. PICK old : old = refund[r]
        OBVIOUS
      <3>2. RefundRow(old) /\ refund = [x \in Rows |-> refund[x]] /\ r \in Rows
        BY <1>0, <2>2, <2>4, <3>1 DEF SyncTypeOK
      <3>3. PICK a, b, n, d : old = [status |-> a, amount |-> b, attempts |-> n, due |-> d]
        BY <3>2 DEF RefundRow
      <3>4. PICK new : new = [status |-> "SUBMITTED", amount |-> b, attempts |-> n + 1, due |-> d]
        OBVIOUS
      <3>5. n \in Nat
        BY <3>2, <3>3 DEF RefundRow
      <3>6. [[old EXCEPT !.status = "SUBMITTED"] EXCEPT !.attempts = @ + 1] = new
        <4>1. [old EXCEPT !.status = "SUBMITTED"] = [status |-> "SUBMITTED", amount |-> b, attempts |-> n, due |-> d]
          BY <3>3
        <4>2. [[status |-> "SUBMITTED", amount |-> b, attempts |-> n, due |-> d] EXCEPT !.attempts = n + 1] = new
          BY <3>4
        <4>3. [old EXCEPT !.status = "SUBMITTED"].attempts = n
          BY <4>1
        <4> QED BY <4>1, <4>2, <4>3
      <3>7. refund' = [refund EXCEPT ![r] = new]
        BY <2>1, <2>4, <3>1, <3>2, <3>6
      <3>8. RefundRow(new) /\ new.status = "SUBMITTED" /\ new.amount = old.amount
        BY <3>3, <3>4, <3>5 DEF RefundRow, RefundStatus
      <3> QED BY <1>1, <3>1, <3>2, <3>7, <3>8 DEF RowTo
    <2>8. \A x \in Rows : refund[x].status # "none" => refund'[x].status # "none"
      BY <2>2, <2>4, <2>7 DEF RowTo
    <2>9. WorkerOnCourse(s)'
      BY <1>1, <2>2, <2>4, <2>6, <2>8, Prices DEF WorkerOnCourse, Acting, Rows
    <2>10. Works(w, s)
      BY <1>1, <2>1, <2>3, <2>5, <2>9 DEF Works
    <2> QED BY <2>2, <2>4, <2>7, <2>10, RowInductive
  <1>3. CASE SettleRefund(w) \/ RejectRefund(w) \/ ScheduleRetry(w)
    <2>1. PICK s : s = SyncNext(w, "submitting")
      OBVIOUS
    <2>2. PICK r : r = sync[w].row
      OBVIOUS
    <2>3. sync[w].step \in {"settling", "rejecting", "retrying"} /\ SyncTo(w, s)
      BY <1>3, <2>1 DEF SettleRefund, RejectRefund, ScheduleRetry, SyncAt
    <2>4. r \in Rows /\ refund[r].status # "none" /\ \A d \in sync[w].batch : d[1] \in Rows /\ refund[d[1]].status # "none"
      BY <1>0, <2>2, <2>3 DEF WorkerOnCourse, SyncState, Acting
    <2>5. PICK status \in {"SETTLED", "FAILED", "PENDING"} :
            /\ RowTo(r, status, FALSE)
            /\ status = "SETTLED" => sync[w].step = "settling"
      <3>1. CASE SettleRefund(w)
        <4>1. refund' = [refund EXCEPT ![r].status = "SETTLED"] /\ sync[w].step = "settling"
          BY <2>2, <3>1 DEF SettleRefund, SyncAt
        <4>2. RowTo(r, "SETTLED", FALSE)
          BY <1>0, <1>1, <2>4, <4>1 DEF RowTo, SyncTypeOK, RefundRow, RefundStatus
        <4> QED BY <4>1, <4>2
      <3>2. CASE RejectRefund(w)
        <4>1. refund' = [refund EXCEPT ![r].status = "FAILED"]
          BY <2>2, <3>2 DEF RejectRefund
        <4>2. RowTo(r, "FAILED", FALSE)
          BY <1>0, <1>1, <2>4, <4>1 DEF RowTo, SyncTypeOK, RefundRow, RefundStatus
        <4> QED BY <4>2
      <3>3. CASE ScheduleRetry(w)
        <4>1. PICK status \in {"FAILED", "PENDING"} :
                refund' = [refund EXCEPT ![r].status = status, ![r].due = FALSE]
          <5>1. refund' = [refund EXCEPT ![r].status = IF sync[w].tries >= MAX_ATTEMPTS THEN "FAILED" ELSE "PENDING",
                                         ![r].due = FALSE]
            BY <2>2, <3>3 DEF ScheduleRetry
          <5> QED BY <5>1
        <4>2. RowTo(r, status, FALSE)
          BY <1>0, <1>1, <2>4, <4>1 DEF RowTo, SyncTypeOK, RefundRow, RefundStatus
        <4> QED BY <4>1, <4>2
      <3> QED BY <1>3, <3>1, <3>2, <3>3
    <2>6. s \in SyncState /\ s.step = "submitting" /\ s.batch = sync[w].batch
      BY <1>0, <2>1 DEF SyncState, SyncNext
    <2>7. \A x \in Rows : refund[x].status # "none" => refund'[x].status # "none"
      BY <2>4, <2>5 DEF RowTo
    <2>8. WorkerOnCourse(s)'
      BY <2>4, <2>6, <2>7 DEF WorkerOnCourse, Acting
    <2>9. status = "SETTLED" /\ r \in Milestones => item[r].refunded = MilestonePrice[r]
      BY <1>0, <2>2, <2>5 DEF WorkerOnCourse
    <2>10. Works(w, s)
      BY <1>1, <2>3, <2>6, <2>8 DEF Works
    <2> QED BY <2>4, <2>5, <2>9, <2>10, RowInductive
  <1> QED BY <1>2, <1>3

LEMMA BackoffSteps ==
  ASSUME RefundsInv, NEW r \in Rows, BackoffEnds(r)
  PROVE  RefundsInv'
  <1>0. SyncTypeOK /\ ItemsFollow /\ \A w \in CronRuns : WorkerOnCourse(sync[w])
    BY DEF RefundsInv
  <1>1. UNCHANGED <<milestone, item, sync>> /\ refund' = [refund EXCEPT ![r].due = TRUE]
    BY DEF BackoffEnds, worker
  <1>2. refund' = [x \in Rows |-> refund'[x]] /\ \A x \in Rows : RefundRow(refund'[x])
    <2>1. refund = [x \in Rows |-> refund[x]] /\ \A x \in Rows : RefundRow(refund[x])
      BY <1>0 DEF SyncTypeOK
    <2>2. refund' = [x \in Rows |-> refund'[x]] /\ \A x \in Rows \ {r} : refund'[x] = refund[x]
      BY <1>1, <2>1
    <2>3. refund'[r] = [refund[r] EXCEPT !.due = TRUE]
      BY <1>1, <2>1
    <2>4. RefundRow(refund'[r])
      BY <2>1, <2>3 DEF RefundRow
    <2> QED BY <2>1, <2>2, <2>4
  <1>3. \A x \in Rows : refund'[x].status = refund[x].status /\ refund'[x].amount = refund[x].amount
    BY <1>0, <1>1 DEF SyncTypeOK, RefundRow
  <1>4. ItemsFollow'
    BY <1>0, <1>1, <1>3, Prices DEF ItemsFollow
  <1>5. ASSUME NEW w \in CronRuns PROVE WorkerOnCourse(sync[w])'
    <2>1. \A c \in sync[w].batch : c[1] \in Rows
      BY <1>0 DEF SyncTypeOK, SyncState
    <2> QED BY <1>0, <1>1, <1>3, <2>1 DEF WorkerOnCourse
  <1> QED BY <1>0, <1>1, <1>2, <1>4, <1>5 DEF RefundsInv, SyncTypeOK

LEMMA RefundsInvInductive ==
  ASSUME Serialized, RefundsInv, RulingsHold, [RefundsNext]_refundVars
  PROVE  RefundsInv' /\ RulingsHold'
  <1>1. ASSUME Decide PROVE RefundsInv'
    <2>1. Settles
      BY <1>1, DecisionsSettle
    <2> QED BY <2>1, SettlesInductive
  <1>2. ASSUME NEW w \in CronRuns, Sync(w) \/ WorkerDies(w) PROVE RefundsInv'
    BY <1>2, QuietSteps, ProviderSteps, RowSteps DEF Sync
  <1>3. ASSUME NEW r \in Rows, BackoffEnds(r) PROVE RefundsInv'
    BY <1>3, BackoffSteps
  <1>4. ASSUME UNCHANGED refundVars PROVE RefundsInv'
    <2>1. UNCHANGED <<milestone, refund, item, sync>>
      BY <1>4 DEF refundVars, rows, worker
    <2> QED BY <2>1 DEF RefundsInv, SyncTypeOK, ItemsFollow, WorkerOnCourse
  <1> QED BY <1>1, <1>2, <1>3, <1>4, RulingsInductive DEF RefundsNext

LEMMA RefundsInvariant ==
  ASSUME Serialized
  PROVE  RefundsSpec => [](RefundsInv /\ RulingsHold)
  <1>1. RefundsInv /\ RulingsHold /\ [RefundsNext]_refundVars => (RefundsInv /\ RulingsHold)'
    BY RefundsInvInductive
  <1> QED BY <1>1, RefundsInvInit, PTL DEF RefundsSpec

-------------------------------------------------------------------------------
(* The theorems *)

\* No item is both paid out to the coach and refunded to the student, however many invocations of
\* approveReleasedMilestones and submitPendingRefunds overlap, and wherever they die, if rulings are
\* Serialized (resolveDispute by itself does not see to that).
THEOREM EitherPaidOutOrRefunded ==
  ASSUME Serialized
  PROVE  RefundsSpec => []PaidOutOrRefunded
  <1>1. RefundsInv => PaidOutOrRefunded
    BY DEF RefundsInv, ItemsFollow, PaidOutOrRefunded
  <1> QED BY <1>1, RefundsInvariant, PTL

\* A milestone's refund is recorded as settled only when the provider has given its price back, and
\* only a milestone refunded in the books is given back: a lost answer never settles the row of a
\* milestone (submitPendingRefunds).  The row of a split is settled without a call, and left out.
THEOREM SettledMeansGivenBack ==
  ASSUME Serialized
  PROVE  RefundsSpec => []SettledRefundIsReal
  <1>1. RefundsInv => SettledRefundIsReal
    BY DEF RefundsInv, ItemsFollow, SettledRefundIsReal
  <1> QED BY <1>1, RefundsInvariant, PTL

-------------------------------------------------------------------------------
(* The books.  Every group that is posted balances and takes the price of its milestone out of the   *)
(* escrow, so what a decision leaves there is the sum over the milestones that are still open.       *)

BooksInv ==
  /\ books \in [Account -> Int] /\ Balanced(books)
  /\ books["PLATFORM_ESCROW"] = SumOver(open, MilestonePrice)

\* What postGroup asks of the group of one milestone, and that it settles it in full.
SettlesInFull(g, price) == g \in [Account -> Int] /\ Balanced(g) /\ g["PLATFORM_ESCROW"] + price = 0

LEMMA FinitelyMany == IsFiniteSet(Milestones) /\ \A S \in SUBSET Milestones : IsFiniteSet(S)
  <1>1. MilestonePrice \in Seq(Nat \ {0})
    BY RefundsAssumption
  <1>2. Milestones = 1..Len(MilestonePrice) /\ Len(MilestonePrice) \in Nat
    BY <1>1 DEF Milestones
  <1>3. IsFiniteSet(1..Len(MilestonePrice))
    BY <1>2, FS_Interval
  <1>4. IsFiniteSet(Milestones)
    BY <1>2, <1>3, Zenon
  <1> QED BY <1>4, FS_Subset

\* Adding an amount up over balanced groups gives entries that balance.
LEMMA EntriesBalance ==
  ASSUME NEW S, IsFiniteSet(S), NEW g, \A m \in S : g[m] \in [Account -> Int] /\ Balanced(g[m])
  PROVE  /\ \A a \in Account : SumOver(S, [m \in S |-> g[m][a]]) \in Int
         /\ Balanced([a \in Account |-> SumOver(S, [m \in S |-> g[m][a]])])
  <1> DEFINE e(T, a) == SumOver(T, [m \in S |-> g[m][a]])
             F == {T \in SUBSET S : Balanced([a \in Account |-> e(T, a)])}
  <1>1. \A T \in SUBSET S : IsFiniteSet(T) /\ \A a \in Account : e(T, a) \in Int
    <2>1. ASSUME NEW T \in SUBSET S, NEW a \in Account PROVE e(T, a) \in Int
      BY FS_Subset, SumType DEF SumOver
    <2> QED BY <2>1, FS_Subset
  <1>2. {} \in F
    <2>1. \A a \in Account : e({}, a) = 0
      BY SumEmpty DEF SumOver
    <2> HIDE DEF e
    <2> QED BY <2>1 DEF Balanced, Account
  <1>3. ASSUME NEW T \in SUBSET S, NEW x \in S \ T, T \in F PROVE T \cup {x} \in F
    <2>1. ASSUME NEW a \in Account PROVE e(T \cup {x}, a) = g[x][a] + e(T, a)
      <3> DEFINE f == [m \in S |-> g[m][a]]
      <3>1. f[x] = g[x][a] /\ \A y \in T \cup {x} : f[y] \in Int
        OBVIOUS
      <3>2. SumFunctionOnSet(f, T \cup {x}) = f[x] + SumFunctionOnSet(f, T)
        <4> HIDE DEF f
        <4> QED BY <1>1, <3>1, SumWith
      <3> QED BY <3>1, <3>2 DEF SumOver
    <2>2. \A a \in Account : e(T, a) \in Int /\ g[x][a] \in Int
      BY <1>1
    <2>3. Balanced(g[x]) /\ Balanced([a \in Account |-> e(T, a)])
      BY <1>3
    <2> HIDE DEF e
    <2> QED BY <2>1, <2>2, <2>3 DEF Balanced, Account
  <1>4. S \in F
    <2> HIDE DEF F
    <2> QED BY <1>2, <1>3, SetInduction
  <1> QED BY <1>1, <1>4

\* A decision that posts for the open milestones it closes keeps the books true.
LEMMA PostingKeepsBooks ==
  ASSUME BooksInv, NEW S \in SUBSET open, NEW g, \A m \in S : SettlesInFull(g[m], MilestonePrice[m]),
         books' = PostFor(S, g), open' = open \ S
  PROVE  BooksInv'
  <1> DEFINE e == [a \in Account |-> SumOver(S, [m \in S |-> g[m][a]])]
  <1>1. IsFiniteSet(S) /\ IsFiniteSet(open \ S) /\ S \cap (open \ S) = {} /\ open = S \cup (open \ S)
    BY FinitelyMany DEF open
  <1>2. \A m \in open : MilestonePrice[m] \in Int
    BY Prices DEF open
  <1>3. e \in [Account -> Int] /\ Balanced(e)
    BY <1>1, EntriesBalance DEF SettlesInFull
  <1>4. e["PLATFORM_ESCROW"] + SumOver(S, MilestonePrice) = 0
    <2> DEFINE f == [m \in S |-> g[m]["PLATFORM_ESCROW"]]
               z == [m \in S |-> 0]
    <2>1. \A m \in S : f[m] \in Int /\ z[m] \in Int /\ MilestonePrice[m] \in Int
      BY <1>2 DEF SettlesInFull, Account
    <2>2. \A m \in S : z[m] = f[m] + MilestonePrice[m]
      BY DEF SettlesInFull
    <2>3. SumFunctionOnSet(z, S) = SumFunctionOnSet(f, S) + SumFunctionOnSet(MilestonePrice, S)
      <3> HIDE DEF f, z
      <3> QED BY <1>1, <2>1, <2>2, SumPlus
    <2>4. SumFunctionOnSet(z, S) = SumFunctionOnSet(z, S) + SumFunctionOnSet(z, S)
      <3> HIDE DEF z
      <3>1. \A m \in S : z[m] \in Int /\ z[m] = z[m] + z[m]
        BY DEF z
      <3> QED BY <1>1, <3>1, SumPlus
    <2>5. SumFunctionOnSet(z, S) \in Int /\ SumFunctionOnSet(f, S) \in Int /\ SumFunctionOnSet(MilestonePrice, S) \in Int
      <3> HIDE DEF f, z
      <3>1. SumFunctionOnSet(z, S) \in Int
        BY <1>1, <2>1, SumIsInt
      <3>2. SumFunctionOnSet(f, S) \in Int
        BY <1>1, <2>1, SumIsInt
      <3>3. SumFunctionOnSet(MilestonePrice, S) \in Int
        BY <1>1, <2>1, SumIsInt
      <3> QED BY <3>1, <3>2, <3>3
    <2>6. e["PLATFORM_ESCROW"] = SumFunctionOnSet(f, S)
      BY DEF SumOver, Account
    <2>7. SumOver(S, MilestonePrice) = SumFunctionOnSet(MilestonePrice, S)
      BY DEF SumOver
    <2> HIDE DEF e, f, z
    <2>8. PICK x, y, n, k : /\ x = SumFunctionOnSet(f, S) /\ y = SumFunctionOnSet(MilestonePrice, S)
                            /\ n = SumFunctionOnSet(z, S) /\ k = e["PLATFORM_ESCROW"]
      OBVIOUS
    <2>9. x \in Int /\ y \in Int /\ n \in Int /\ n = n + n /\ n = x + y /\ k = x
      BY <2>3, <2>4, <2>5, <2>6, <2>8
    <2>10. k + y = 0
      BY <2>9
    <2> QED BY <2>7, <2>8, <2>10
  <1>5. SumOver(open, MilestonePrice) = SumOver(S, MilestonePrice) + SumOver(open \ S, MilestonePrice)
    <2>1. \A m \in S \cup (open \ S) : MilestonePrice[m] \in Int
      BY <1>2
    <2>2. SumFunctionOnSet(MilestonePrice, S \cup (open \ S))
            = SumFunctionOnSet(MilestonePrice, S) + SumFunctionOnSet(MilestonePrice, open \ S)
      BY <1>1, <2>1, SumUnion
    <2> QED BY <1>1, <2>2, Zenon DEF SumOver
  <1>6. SumOver(S, MilestonePrice) \in Int /\ SumOver(open \ S, MilestonePrice) \in Int
    BY <1>1, <1>2, SumType DEF SumOver
  <1>7. books' = [a \in Account |-> books[a] + e[a]]
    BY DEF PostFor
  <1> HIDE DEF e
  <1>8. books' \in [Account -> Int] /\ Balanced(books')
    BY <1>3, <1>7 DEF BooksInv, Balanced, Account
  <1>9. books'["PLATFORM_ESCROW"] = SumOver(open \ S, MilestonePrice)
    <2>1. "PLATFORM_ESCROW" \in Account
      BY DEF Account
    <2>2. books["PLATFORM_ESCROW"] = SumOver(open, MilestonePrice)
      BY DEF BooksInv
    <2>3. PICK x, y, n, k : /\ x = SumOver(S, MilestonePrice) /\ y = SumOver(open \ S, MilestonePrice)
                            /\ n = books["PLATFORM_ESCROW"] /\ k = e["PLATFORM_ESCROW"]
      OBVIOUS
    <2>4. x \in Int /\ y \in Int /\ k \in Int /\ k + x = 0 /\ n = x + y
      BY <1>3, <1>4, <1>5, <1>6, <2>1, <2>2, <2>3
    <2>5. n + k = y
      BY <2>4
    <2> QED BY <1>7, <2>1, <2>3, <2>5
  <1> QED BY <1>8, <1>9 DEF BooksInv

\* The release of a milestone, its refund, and the two together (MilestoneRelease, RefundFromEscrow).
LEMMA ReleaseSettles ==
  ASSUME NEW a \in Int, NEW bps \in Int
  PROVE  SettlesInFull(MilestoneRelease(a, bps), a)
  <1>1. PICK c : c = (a * bps) \div 10000
    OBVIOUS
  <1>2. c \in Int
    BY <1>1
  <1>3. MilestoneRelease(a, bps) = Group([PLATFORM_ESCROW |-> -a, COACH_PAYABLE |-> a - c, PLATFORM_REVENUE |-> c])
    BY <1>1 DEF MilestoneRelease, splitAmount
  <1> QED BY <1>2, <1>3 DEF SettlesInFull, Group, Account, Balanced

LEMMA RefundSettles ==
  ASSUME NEW a \in Int
  PROVE  SettlesInFull(RefundFromEscrow(a), a)
  BY DEF SettlesInFull, RefundFromEscrow, Group, Account, Balanced

LEMMA BothSettle ==
  ASSUME NEW a \in Int, NEW b \in Int, NEW g, SettlesInFull(g, a), NEW h, SettlesInFull(h, b)
  PROVE  SettlesInFull(PostGroup(g, h), a + b)
  <1>1. \A x \in Account : PostGroup(g, h)[x] = g[x] + h[x] /\ g[x] \in Int /\ h[x] \in Int
    BY DEF SettlesInFull, PostGroup
  <1>2. PostGroup(g, h) \in [Account -> Int]
    BY DEF SettlesInFull, PostGroup
  <1>3. Balanced(PostGroup(g, h))
    BY <1>1 DEF SettlesInFull, Balanced, Account
  <1>4. PostGroup(g, h)["PLATFORM_ESCROW"] + (a + b) = 0
    BY <1>1 DEF SettlesInFull, Account
  <1> QED BY <1>2, <1>3, <1>4 DEF SettlesInFull

LEMMA NothingSettles == SettlesInFull(EmptyBooks, 0)
  BY DEF SettlesInFull, EmptyBooks, Balanced, Account

\* The walk of settleSplit over S leaves the coach of a milestone at most its price.
LEMMA PartOfThePrice ==
  ASSUME NEW S \in SUBSET Milestones, NEW m \in Milestones, NEW share \in Int
  PROVE  toCoach(S, m, share) \in 0..MilestonePrice[m]
  <1>1. PICK left : left = share - SumOver({k \in S : k < m}, MilestonePrice)
    OBVIOUS
  <1>2. left \in Int
    <2> DEFINE T == {k \in S : k < m}
    <2>1. T \in SUBSET Milestones
      OBVIOUS
    <2>2. SumFunctionOnSet(MilestonePrice, T) \in Int
      <3> HIDE DEF T
      <3>1. IsFiniteSet(T) /\ \A k \in T : MilestonePrice[k] \in Int
        BY <2>1, FinitelyMany, Prices
      <3> QED BY <3>1, SumIsInt
    <2> QED BY <1>1, <2>2 DEF SumOver
  <1>3. PICK p : p = MilestonePrice[m] /\ p \in Nat
    BY Prices
  <1>4. PICK low : low = Min({left, p})
    OBVIOUS
  <1>5. low \in {left, p} /\ low <= p
    <2>1. \E x \in {left, p} : \A y \in {left, p} : x <= y
      BY <1>2, <1>3
    <2>2. low = CHOOSE x \in {left, p} : \A y \in {left, p} : x <= y
      BY <1>4 DEF Min
    <2> QED BY <2>1, <2>2
  <1>6. PICK high : high = Max({0, low})
    OBVIOUS
  <1>7. high \in {0, low} /\ high >= 0
    <2>1. \E x \in {0, low} : \A y \in {0, low} : x >= y
      BY <1>2, <1>3, <1>5
    <2>2. high = CHOOSE x \in {0, low} : \A y \in {0, low} : x >= y
      BY <1>6 DEF Max
    <2> QED BY <2>1, <2>2
  <1>8. toCoach(S, m, share) = high
    BY <1>1, <1>3, <1>4, <1>6 DEF toCoach
  <1> QED BY <1>2, <1>3, <1>5, <1>7, <1>8

LEMMA SplitSettles ==
  ASSUME NEW S \in SUBSET Milestones, NEW m \in Milestones, NEW share \in Int
  PROVE  SettlesInFull(SplitPosting(S, m, share), MilestonePrice[m])
  <1>1. PICK a : a = toCoach(S, m, share)
    OBVIOUS
  <1>2. PICK p : p = MilestonePrice[m] /\ p \in Nat
    BY Prices
  <1>3. a \in 0..p
    BY <1>1, <1>2, PartOfThePrice
  <1> DEFINE g == IF a > 0 THEN MilestoneRelease(a, CommissionBps) ELSE EmptyBooks
             h == IF a < p THEN RefundFromEscrow(p - a) ELSE EmptyBooks
  <1>4. SettlesInFull(g, a)
    <2>1. CommissionBps \in Int
      BY RefundsAssumption
    <2>2. CASE a > 0
      BY <1>3, <2>1, <2>2, ReleaseSettles
    <2>3. CASE ~(a > 0)
      BY <1>3, <2>3, NothingSettles
    <2> QED BY <2>2, <2>3
  <1>5. SettlesInFull(h, p - a)
    <2>1. CASE a < p
      BY <1>2, <1>3, <2>1, RefundSettles
    <2>2. CASE ~(a < p)
      <3>1. p - a = 0
        BY <1>2, <1>3, <2>2
      <3> QED BY <2>2, <3>1, NothingSettles
    <2> QED BY <2>1, <2>2
  <1>6. SplitPosting(S, m, share) = PostGroup(g, h)
    BY <1>1, <1>2 DEF SplitPosting
  <1> HIDE DEF g, h
  <1>7. a + (p - a) = p /\ a \in Int /\ p - a \in Int
    BY <1>2, <1>3
  <1>8. SettlesInFull(PostGroup(g, h), a + (p - a))
    BY <1>4, <1>5, <1>7, BothSettle
  <1> QED BY <1>2, <1>6, <1>7, <1>8

LEMMA BooksInvInit == RefundsInit => BooksInv
  <1> SUFFICES ASSUME RefundsInit PROVE BooksInv
    OBVIOUS
  <1>1. PICK t : t = SumOver(Milestones, MilestonePrice)
    OBVIOUS
  <1>2. t \in Int
    <2>1. \A m \in Milestones : MilestonePrice[m] \in Int
      BY Prices
    <2> QED BY <1>1, <2>1, FinitelyMany, SumIsInt DEF SumOver
  <1>3. open = Milestones
    BY DEF open, RefundsInit
  <1>4. Total(MilestonePrice) = t
    BY <1>1 DEF Total, SumFunction, FoldFunction, SumOver, SumFunctionOnSet, FoldFunctionOnSet, Milestones
  <1>5. books = PostGroup(EmptyBooks, EscrowFunding(t))
    BY <1>4 DEF RefundsInit
  <1> QED BY <1>1, <1>2, <1>3, <1>5 DEF BooksInv, PostGroup, EmptyBooks, EscrowFunding, Group, Balanced, Account

LEMMA BooksInvInductive ==
  ASSUME RefundsInv, RulingsHold, BooksInv, [RefundsNext]_refundVars
  PROVE  BooksInv'
  <1>0. milestone \in [Milestones -> {"PENDING_CONFIRMATION", "DISPUTED", "RELEASED", "REFUNDED"}]
    BY DEF RefundsInv, SyncTypeOK
  <1>1. ASSUME UNCHANGED <<milestone, books>> PROVE BooksInv'
    BY <1>1 DEF BooksInv, open
  <1>2. \A m \in Milestones : SettlesInFull(Release[m], MilestonePrice[m]) /\ SettlesInFull(GiveBack[m], MilestonePrice[m])
    BY Prices, ReleaseSettles, RefundSettles, RefundsAssumption DEF Release, GiveBack
  <1>3. ASSUME NEW m \in Milestones, ReleaseOnTime(m) PROVE BooksInv'
    <2>1. {m} \in SUBSET open /\ open' = open \ {m} /\ books' = PostFor({m}, Release)
      BY <1>0, <1>3 DEF ReleaseOnTime, open
    <2> QED BY <1>2, <2>1, PostingKeepsBooks
  <1>4. CASE FreezePending
    <2>1. open' = open /\ books' = books
      BY <1>0, <1>4 DEF FreezePending, open
    <2> QED BY <2>1 DEF BooksInv
  <1>5. ASSUME NEW a \in Admins, ReadFrozen(a) \/ RulingAborts(a) PROVE BooksInv'
    BY <1>1, <1>5 DEF ReadFrozen, RulingAborts, rows
  <1>6. ASSUME NEW a \in Admins, Commits(a) PROVE BooksInv'
    <2>1. ruling[a].outcome # "none"
      BY <1>6 DEF Commits, ReleaseRemaining, RefundUnreleased, SettleSplit, Rule
    <2>2. PICK S : S = ruling[a].read /\ S \subseteq frozen
      BY <2>1 DEF RulingsHold
    <2>3. S \in SUBSET open /\ S \subseteq Milestones /\ open' = open \ S
      BY <1>6, <2>2, ThawsWhatItRead DEF open, frozen
    <2>4. CASE ReleaseRemaining(a)
      <3>1. books' = PostFor(S, Release)
        BY <2>2, <2>4 DEF ReleaseRemaining
      <3> QED BY <1>2, <2>3, <3>1, PostingKeepsBooks
    <2>5. CASE RefundUnreleased(a)
      <3>1. books' = PostFor(S, GiveBack)
        BY <2>2, <2>5 DEF RefundUnreleased
      <3> QED BY <1>2, <2>3, <3>1, PostingKeepsBooks
    <2>6. CASE SettleSplit(a)
      <3> DEFINE g == [m \in S |-> SplitPosting(S, m, ruling[a].share)]
      <3>1. ruling[a].share \in Int
        BY DEF RulingsHold, Ruling
      <3>2. books' = PostFor(S, g)
        BY <2>2, <2>6 DEF SettleSplit
      <3>3. \A m \in S : SettlesInFull(g[m], MilestonePrice[m])
        BY <2>3, <3>1, SplitSettles
      <3> HIDE DEF g
      <3> QED BY <2>3, <3>2, <3>3, PostingKeepsBooks
    <2> QED BY <1>6, <2>4, <2>5, <2>6 DEF Commits
  <1>8. ASSUME NEW w \in CronRuns, Sync(w) \/ WorkerDies(w) PROVE BooksInv'
    BY <1>1, <1>8 DEF Sync, StartApprovals, ApproveItem, StampApproval, StartRefunds, SubmitRefund, RefundItem,
                      SettleRefund, RejectRefund, ScheduleRetry, RefundsDone, WorkerDies, rows
  <1>9. ASSUME NEW r \in Rows, BackoffEnds(r) PROVE BooksInv'
    BY <1>1, <1>9 DEF BackoffEnds
  <1>10. CASE UNCHANGED refundVars
    BY <1>1, <1>10 DEF refundVars, rows
  <1> QED BY <1>3, <1>4, <1>5, <1>6, <1>8, <1>9, <1>10 DEF RefundsNext, Decide, Commits

\* For any prices, any commission and any sequence of decisions of which no split overlaps another
\* ruling (Serialized: the split and the other outcomes of resolveDispute take different locks): the
\* escrow account holds the price of what is still undecided and nothing else, every entry that left
\* it stands on another account, the provider has given back what the settled refund of a milestone
\* says, and no item is paid out and refunded.  Nothing is said of the refund of a split, which
\* submitPendingRefunds settles without the provider.
THEOREM TheBooksAreTrue ==
  ASSUME Serialized
  PROVE  RefundsSpec => []BooksTellTheTruth
  <1>1. RefundsInv /\ RulingsHold /\ BooksInv /\ [RefundsNext]_refundVars => BooksInv'
    BY BooksInvInductive
  <1>2. RefundsSpec => []BooksInv
    BY <1>1, BooksInvInit, RefundsInvariant, PTL DEF RefundsSpec
  <1>3. BooksInv /\ SettledRefundIsReal /\ PaidOutOrRefunded => BooksTellTheTruth
    BY DEF BooksInv, BooksTellTheTruth
  <1> QED BY <1>2, <1>3, SettledMeansGivenBack, EitherPaidOutOrRefunded, PTL

-------------------------------------------------------------------------------
(* Payouts *)

BatchState == [step : {"idle", "lock", "sum", "post", "submit"}, week : Weeks, balance : Nat]

PayoutTypeOK ==
  /\ week \in Weeks /\ credits \in Nat /\ debits \in Nat
  /\ advisoryLock \in BatchRuns \cup {NoRun}
  /\ batch \in [BatchRuns -> BatchState]

\* The lock is with whoever has summed, so a sum is still there when it is posted.
PayoutInv == PayoutTypeOK /\ LockedSum /\ NeverPaidTwice

LEMMA FirstWeek == 1 \in Weeks /\ Weeks \subseteq Nat
  BY PayoutsAssumption, FS_CardinalityType

\* postPayout takes from the coach's account what it pays out.
LEMMA PayoutDebit == ASSUME NEW a \in Nat PROVE PayoutGroup(a)["COACH_PAYABLE"] = -a
  BY DEF PayoutGroup, Group, Account

LEMMA PayoutInvInit == PayoutsInit => PayoutInv
  BY FirstWeek DEF PayoutsInit, PayoutInv, PayoutTypeOK, LockedSum, NeverPaidTwice, BatchState, AtRest

\* A step of one batch run that leaves the ledger alone.
LEMMA RestOfBatch ==
  ASSUME PayoutInv, NEW b \in BatchRuns, NEW s \in BatchState,
         batch' = [batch EXCEPT ![b] = s],
         UNCHANGED <<week, credits, debits>>,
         \/ s.step \notin {"sum", "post"} /\ Unlock(b)
         \/ s.step \notin {"sum", "post"} /\ advisoryLock' = advisoryLock
         \/ /\ advisoryLock' = b /\ advisoryLock \in {NoRun, b}
            /\ s.step = "post" => s.balance <= credits - debits
  PROVE  PayoutInv'
  <1>1. \A d \in BatchRuns \ {b} : batch'[d] = batch[d]
    BY DEF PayoutInv, PayoutTypeOK
  <1>2. batch'[b] = s
    BY DEF PayoutInv, PayoutTypeOK
  <1>3. PayoutTypeOK'
    BY DEF PayoutInv, PayoutTypeOK, Unlock
  <1>4. LockedSum'
    BY <1>1, <1>2, PayoutsAssumption DEF PayoutInv, PayoutTypeOK, LockedSum, Unlock
  <1>5. NeverPaidTwice'
    BY DEF PayoutInv, NeverPaidTwice
  <1> QED BY <1>3, <1>4, <1>5 DEF PayoutInv

LEMMA PayoutInvInductive == PayoutInv /\ [PayoutsNext]_payoutVars => PayoutInv'
  <1> SUFFICES ASSUME PayoutInv, [PayoutsNext]_payoutVars PROVE PayoutInv'
    OBVIOUS
  <1>0. AtRest \in BatchState
    BY FirstWeek DEF AtRest, BatchState
  <1>1. CASE UNCHANGED payoutVars
    BY <1>1 DEF payoutVars, PayoutInv, PayoutTypeOK, LockedSum, NeverPaidTwice
  <1>2. CASE Earn
    <2>1. PICK a \in NetAmounts : credits' = credits + a
      BY <1>2 DEF Earn
    <2>2. a \in Nat
      BY PayoutsAssumption
    <2> QED BY <1>2, <2>1, <2>2 DEF Earn, PayoutInv, PayoutTypeOK, LockedSum, NeverPaidTwice, BatchState
  <1>3. CASE NextWeek
    BY <1>3 DEF NextWeek, PayoutInv, PayoutTypeOK, LockedSum, NeverPaidTwice
  <1>4. ASSUME NEW b \in BatchRuns, StartBatch(b) PROVE PayoutInv'
    <2> DEFINE s == [AtRest EXCEPT !.step = "lock", !.week = week]
    <2>1. s \in BatchState /\ s.step = "lock"
      BY <1>0 DEF BatchState, PayoutInv, PayoutTypeOK, AtRest
    <2>2. batch' = [batch EXCEPT ![b] = s] /\ UNCHANGED <<week, credits, debits, advisoryLock>>
      BY <1>4 DEF StartBatch
    <2> HIDE DEF s
    <2> QED BY <2>1, <2>2, RestOfBatch
  <1>5. ASSUME NEW b \in BatchRuns, TryLock(b) PROVE PayoutInv'
    <2> DEFINE s == [batch[b] EXCEPT !.step = "sum"]
    <2>1. batch[b] \in BatchState
      BY DEF PayoutInv, PayoutTypeOK
    <2>2. s \in BatchState /\ s.step = "sum" /\ AtRest.step = "idle"
      BY <2>1 DEF BatchState, AtRest
    <2>3. CASE advisoryLock = NoRun
      <3>1. batch' = [batch EXCEPT ![b] = s] /\ advisoryLock' = b /\ UNCHANGED <<week, credits, debits>>
        BY <1>5, <2>3 DEF TryLock
      <3> HIDE DEF s
      <3> QED BY <2>2, <2>3, <3>1, RestOfBatch
    <2>4. CASE advisoryLock # NoRun
      BY <1>0, <1>5, <2>2, <2>4, RestOfBatch DEF TryLock
    <2> QED BY <2>3, <2>4
  <1>6. ASSUME NEW b \in BatchRuns, SumBalance(b) PROVE PayoutInv'
    <2>1. CASE credits - debits < MIN_PAYOUT
      BY <1>0, <1>6, <2>1, RestOfBatch DEF SumBalance, AtRest
    <2>2. CASE ~(credits - debits < MIN_PAYOUT)
      <3> DEFINE s == [batch[b] EXCEPT !.step = "post", !.balance = credits - debits]
      <3>1. batch[b] \in BatchState /\ credits - debits \in Nat
        BY DEF PayoutInv, PayoutTypeOK, NeverPaidTwice
      <3>2. s \in BatchState /\ s.step = "post" /\ s.balance = credits - debits
        BY <3>1 DEF BatchState
      <3>3. /\ batch' = [batch EXCEPT ![b] = s] /\ advisoryLock' = advisoryLock
            /\ UNCHANGED <<week, credits, debits>>
        BY <1>6, <2>2 DEF SumBalance
      <3>4. advisoryLock = b
        BY <1>6 DEF SumBalance, PayoutInv, LockedSum
      <3> HIDE DEF s
      <3>5. s.balance <= credits - debits /\ advisoryLock' = b /\ advisoryLock \in {NoRun, b}
        BY <3>1, <3>2, <3>3, <3>4
      <3>6. UNCHANGED <<week, credits, debits>> /\ s \in BatchState /\ batch' = [batch EXCEPT ![b] = s]
        BY <3>2, <3>3
      <3> QED BY <3>5, <3>6, RestOfBatch
    <2> QED BY <2>1, <2>2
  <1>7. ASSUME NEW b \in BatchRuns, PostPayout(b) PROVE PayoutInv'
    <2>1. CASE payout[batch[b].week].status # "none"
      BY <1>0, <1>7, <2>1, RestOfBatch DEF PostPayout, AtRest
    <2>2. CASE payout[batch[b].week].status = "none"
      <3>1. batch[b] \in BatchState /\ batch[b].balance \in Nat
        BY DEF PayoutInv, PayoutTypeOK, BatchState
      <3>2. debits' = debits + batch[b].balance /\ credits' = credits /\ week' = week
        BY <1>7, <2>2, <3>1, PayoutDebit DEF PostPayout, PayoutInv, PayoutTypeOK
      <3>3. advisoryLock = b /\ batch[b].balance <= credits - debits
        BY <1>7 DEF PostPayout, PayoutInv, LockedSum
      <3>4. \A d \in BatchRuns \ {b} : batch'[d] = batch[d] /\ batch[d].step \notin {"sum", "post"}
        BY <1>7, <2>2, <3>3 DEF PostPayout, PayoutInv, PayoutTypeOK, LockedSum
      <3>5. batch'[b] = [batch[b] EXCEPT !.step = "submit"]
        BY <1>7, <2>2 DEF PostPayout, PayoutInv, PayoutTypeOK
      <3>6. batch'[b].step = "submit" /\ batch'[b] \in BatchState
        BY <3>1, <3>5 DEF BatchState
      <3>7. LockedSum'
        BY <3>4, <3>6 DEF LockedSum
      <3>8. NeverPaidTwice' /\ debits' \in Nat
        BY <3>1, <3>2, <3>3 DEF NeverPaidTwice, PayoutInv, PayoutTypeOK
      <3>9. batch' \in [BatchRuns -> BatchState]
        BY <1>7, <2>2, <3>6 DEF PostPayout, PayoutInv, PayoutTypeOK
      <3> QED BY <1>7, <3>2, <3>7, <3>8, <3>9 DEF PostPayout, Unlock, PayoutInv, PayoutTypeOK
    <2> QED BY <2>1, <2>2
  <1>8. ASSUME NEW b \in BatchRuns, SubmitPayout(b) \/ BatchDies(b) PROVE PayoutInv'
    BY <1>0, <1>8, RestOfBatch DEF SubmitPayout, BatchDies, AtRest
  <1> QED BY <1>1, <1>2, <1>3, <1>4, <1>5, <1>6, <1>7, <1>8 DEF PayoutsNext

\* Whichever batch runs overlap, die or carry another week's key, the coach is paid at most what the
\* released milestones brought in (runPayoutBatch in jobs/workers.ts).
THEOREM PaidOnce == PayoutsSpec => []NeverPaidTwice
  <1>1. PayoutInv => NeverPaidTwice
    BY DEF PayoutInv
  <1> QED BY <1>1, PayoutInvInit, PayoutInvInductive, PTL DEF PayoutsSpec

-------------------------------------------------------------------------------
(* The application *)

CoachState == [status : {"NONE", "DRAFT", "PENDING", "APPROVED", "REJECTED"}, acceptingStudents : BOOLEAN,
               document : {"none", "PENDING", "APPROVED", "REJECTED"}, registered : BOOLEAN]

\* The details go only together with the arrival of the key, and admins see only what was submitted.
ApplicationInv ==
  /\ coach \in CoachState /\ bankDetails \in [secrets : BOOLEAN, purgedAt : BOOLEAN]
  /\ card \in [Reviewers -> {"none", "shown", "with document"}]
  /\ bankDetails.purgedAt => coach.registered
  /\ \A a \in Reviewers : card[a] # "none" => coach.status \notin {"NONE", "DRAFT"}
  /\ DetailsKeptUntilRegistered

LEMMA ApplicationInvInductive == ApplicationInv /\ [ApplicationNext]_applicationVars => ApplicationInv'
  <1> SUFFICES ASSUME ApplicationInv, [ApplicationNext]_applicationVars PROVE ApplicationInv'
    OBVIOUS
  <1>0. /\ coach \in CoachState /\ bankDetails \in [secrets : BOOLEAN, purgedAt : BOOLEAN]
        /\ card \in [Reviewers -> {"none", "shown", "with document"}]
    BY DEF ApplicationInv
  <1> USE DEF CoachState
  <1>1. ASSUME UNCHANGED <<coach, bankDetails, card>> PROVE ApplicationInv'
    BY <1>1 DEF ApplicationInv, DetailsKeptUntilRegistered
  <1>2. CASE UNCHANGED applicationVars
    BY <1>1, <1>2 DEF applicationVars
  <1>3. ASSUME NEW t \in Tabs,
               \/ CoachApplyPage(t, FALSE) \/ CoachApplyPage(t, TRUE) \/ FillStep(t) \/ NextStep(t)
               \/ PreviousStep(t) \/ PressApply(t) \/ PressUpload(t) \/ ApplyAnswered(t) \/ readExisting(t)
        PROVE  ApplicationInv'
    BY <1>1, <1>3 DEF CoachApplyPage, FillStep, NextStep, PreviousStep, PressApply, PressUpload,
                      ApplyAnswered, readExisting, ShowForm, Ask
  <1>4. ASSUME NEW t \in Tabs, ensureCoachDraft(t) \/ uploadVerificationDocument(t) PROVE ApplicationInv'
    <2>1. /\ UNCHANGED <<bankDetails, card>> /\ coach'.registered = coach.registered
          /\ \/ coach'.status = coach.status
             \/ coach.status \in {"NONE", "DRAFT"} /\ coach'.status = "DRAFT"
      BY <1>0, <1>4 DEF ensureCoachDraft, uploadVerificationDocument
    <2>2. coach' \in CoachState
      BY <1>0, <1>4 DEF ensureCoachDraft, uploadVerificationDocument
    <2> QED BY <2>1, <2>2 DEF ApplicationInv, DetailsKeptUntilRegistered
  <1>5. ASSUME NEW t \in Tabs, submitCoachApplication(t) PROVE ApplicationInv'
    <2>1. CASE UNCHANGED <<coach, bankDetails>>
      BY <1>1, <1>5, <2>1 DEF submitCoachApplication
    <2>2. CASE /\ coach' = [coach EXCEPT !.status = "PENDING", !.acceptingStudents = FALSE]
               /\ bankDetails' = [bankDetails EXCEPT !.secrets = TRUE]
      <3>1. coach' \in CoachState /\ coach'.status = "PENDING" /\ coach'.registered = coach.registered
        BY <1>0, <2>2
      <3>2. /\ bankDetails' \in [secrets : BOOLEAN, purgedAt : BOOLEAN]
            /\ bankDetails'.secrets /\ bankDetails'.purgedAt = bankDetails.purgedAt
        BY <1>0, <2>2
      <3>3. card' = card
        BY <1>5 DEF submitCoachApplication
      <3> QED BY <3>1, <3>2, <3>3 DEF ApplicationInv, DetailsKeptUntilRegistered
    <2> QED BY <1>5, <2>1, <2>2 DEF submitCoachApplication
  <1>6. ASSUME NEW a \in Reviewers, AdminPage(a) PROVE ApplicationInv'
    BY <1>6 DEF AdminPage, ApplicationInv, DetailsKeptUntilRegistered
  <1>7. ASSUME NEW a \in Reviewers, approveCoach(a) \/ rejectCoach(a) PROVE ApplicationInv'
    BY <1>7 DEF approveCoach, rejectCoach, decided, ApplicationInv, DetailsKeptUntilRegistered
  <1>8. ASSUME NEW a \in Reviewers, registerSubmerchant(a) \/ createSubmerchant(a, TRUE) \/ createSubmerchant(a, FALSE)
        PROVE  ApplicationInv'
    BY <1>8 DEF registerSubmerchant, createSubmerchant, EndRegistration, ApplicationInv, DetailsKeptUntilRegistered
  <1>9. ASSUME NEW a \in Reviewers, StoreKey(a) PROVE ApplicationInv'
    BY <1>9 DEF StoreKey, EndRegistration, ApplicationInv, DetailsKeptUntilRegistered
  <1>10. CASE ProcessDies
    BY <1>10 DEF ProcessDies, EndRegistration, ApplicationInv, DetailsKeptUntilRegistered
  <1> QED BY <1>2, <1>3, <1>4, <1>5, <1>6, <1>7, <1>8, <1>9, <1>10 DEF ApplicationNext

\* For any number of tabs and admins, an applicant's bank details are there until the provider's key
\* is stored (services/submerchant-service.ts).
THEOREM ApplicantsStayPayable == ApplicationSpec => []DetailsKeptUntilRegistered
  <1>1. ApplicationInit => ApplicationInv
    BY DEF ApplicationInit, ApplicationInv, CoachState, DetailsKeptUntilRegistered
  <1>2. ApplicationInv => DetailsKeptUntilRegistered
    BY DEF ApplicationInv
  <1> QED BY <1>1, <1>2, ApplicationInvInductive, PTL DEF ApplicationSpec

-------------------------------------------------------------------------------
(* Money *)

\* An integer is its quotient and its remainder.
LEMMA QuotientAndRest ==
  ASSUME NEW n \in Nat, NEW d \in Nat \ {0}
  PROVE  n \div d \in Nat /\ n % d \in 0..d-1 /\ n = d * (n \div d) + (n % d)
  <1>1. n \div d \in Nat
    OBVIOUS
  <1>2. n % d \in 0..d-1
    OBVIOUS
  <1>3. n = d * (n \div d) + (n % d)
    OBVIOUS
  <1> QED BY <1>1, <1>2, <1>3

\* The first k milestones of a price: the quotient in each of them, and the remainder from the front.
LEMMA FirstMilestones ==
  ASSUME NEW total \in Nat, NEW count \in Nat \ {0}, NEW k \in 0..count
  PROVE  SumFunctionOnSet(splitIntoMilestones(total, count), 1..k)
           = (total \div count) * k + (IF k <= total % count THEN k ELSE total % count)
  <1> DEFINE f == splitIntoMilestones(total, count)
             q == total \div count
             r == total % count
             F == {n \in Nat : n <= count => SumFunctionOnSet(f, 1..n) = q * n + (IF n <= r THEN n ELSE r)}
  <1>0. q \in Nat /\ r \in Nat
    BY QuotientAndRest
  <1>1. \A i \in 1..count : f[i] = q + (IF i <= r THEN 1 ELSE 0)
    BY DEF splitIntoMilestones
  <1>2. \A i \in 1..count : f[i] \in Int
    BY <1>0, <1>1
  <1> HIDE DEF f, q, r
  <1>3. 0 \in F
    <2>1. 1..0 = {}
      OBVIOUS
    <2>2. q * 0 + (IF 0 <= r THEN 0 ELSE r) = 0
      BY <1>0
    <2> QED BY <2>1, <2>2, SumEmpty
  <1>4. ASSUME NEW n \in Nat, n \in F PROVE n + 1 \in F
    <2> SUFFICES ASSUME n + 1 <= count
                 PROVE  SumFunctionOnSet(f, 1..n+1) = q * (n + 1) + (IF n + 1 <= r THEN n + 1 ELSE r)
      OBVIOUS
    <2>2. \A i \in 1..n+1 : f[i] \in Int
      <3> TAKE i \in 1..n+1
      <3>1. i \in 1..count
        OBVIOUS
      <3> QED BY <1>2, <3>1
    <2>3. SumFunctionOnSet(f, 1..n+1) = f[n + 1] + SumFunctionOnSet(f, 1..n)
      BY <2>2, SumUpToNext
    <2>4. SumFunctionOnSet(f, 1..n) = q * n + (IF n <= r THEN n ELSE r)
      BY <1>4
    <2>5. f[n + 1] = q + (IF n + 1 <= r THEN 1 ELSE 0)
      BY <1>1
    <2>6. q * (n + 1) = q * n + q /\ q * n \in Nat
      BY <1>0
    <2>7. (q + (IF n + 1 <= r THEN 1 ELSE 0)) + (q * n + (IF n <= r THEN n ELSE r))
            = (q * n + q) + (IF n + 1 <= r THEN n + 1 ELSE r)
      BY <1>0, <2>6
    <2> QED BY <2>3, <2>4, <2>5, <2>6, <2>7
  <1> HIDE DEF F
  <1>5. Nat \subseteq F
    BY <1>3, <1>4, NumberInduction
  <1>6. k \in F /\ k <= count
    BY <1>5
  <1> QED BY <1>6 DEF F, f, q, r

\* The milestones add up to the price.
LEMMA MilestonesAddUp ==
  ASSUME NEW total \in Nat, NEW count \in Nat \ {0}
  PROVE  SumFunctionOnSet(splitIntoMilestones(total, count), 1..count) = total
  <1>1. SumFunctionOnSet(splitIntoMilestones(total, count), 1..count)
          = (total \div count) * count + (IF count <= total % count THEN count ELSE total % count)
    <2>1. count \in 0..count
      OBVIOUS
    <2> QED BY <2>1, FirstMilestones
  <1>2. total \div count \in Nat /\ total % count \in 0..count-1 /\ total = count * (total \div count) + (total % count)
    BY QuotientAndRest
  <1> DEFINE q == total \div count
             r == total % count
  <1>3. (IF count <= r THEN count ELSE r) = r
    BY <1>2
  <1>4. q * count = count * q
    BY <1>2
  <1> QED BY <1>1, <1>2, <1>3, <1>4

\* Every milestone is a positive amount.
LEMMA MilestonesArePositive ==
  ASSUME NEW total \in Nat, NEW count \in Nat \ {0}, total >= count, NEW i \in 1..count
  PROVE  splitIntoMilestones(total, count)[i] \in Nat \ {0}
  <1>1. total \div count \in Nat /\ total \div count >= 1
    <2>1. total \div count \in Nat /\ total % count \in 0..count-1 /\ total = count * (total \div count) + (total % count)
      BY QuotientAndRest
    <2>2. total \div count = 0 => total < count
      BY <2>1
    <2> QED BY <2>1, <2>2
  <1> QED BY <1>1 DEF splitIntoMilestones

\* What the platform keeps of an amount.
Commission(amount, bps) == (amount * bps) \div 10000

\* A commission is between nothing and the amount, and is rounded down.
LEMMA CommissionIsRoundedDown ==
  ASSUME NEW amount \in Nat, NEW bps \in Nat, bps <= 5000
  PROVE  /\ Commission(amount, bps) \in Nat /\ Commission(amount, bps) <= amount
         /\ 10000 * Commission(amount, bps) <= amount * bps
         /\ amount * bps <= 10000 * Commission(amount, bps) + 9999
  <1>1. amount * bps \in Nat /\ amount * bps <= amount * 5000
    OBVIOUS
  <1> DEFINE p == amount * bps
  <1>2. p \div 10000 \in Nat /\ 10000 * (p \div 10000) <= p /\ p <= 10000 * (p \div 10000) + 9999
    <2> HIDE DEF p
    <2>1. p \in Nat
      BY <1>1 DEF p
    <2> QED BY <2>1
  <1>3. p \div 10000 <= amount
    <2>1. \A x, y, z \in Nat : 10000 * x <= y /\ y <= z * 5000 => x <= z
      OBVIOUS
    <2> QED BY <1>1, <1>2, <2>1
  <1> QED BY <1>2, <1>3 DEF Commission

\* The two intervals that are counted below.
LEMMA OneAndTwo == Cardinality(1..1) = 1 /\ Cardinality(1..2) = 2
  <1>1. \A n \in Int : Cardinality(1..n) = IF 1 > n THEN 0 ELSE n - 1 + 1
    <2> TAKE n \in Int
    <2>1. 1 \in Int
      OBVIOUS
    <2> QED BY <2>1, FS_Interval
  <1>2. Cardinality(1..1) = IF 1 > 1 THEN 0 ELSE 1 - 1 + 1
    <2>1. 1 \in Int
      OBVIOUS
    <2> QED BY <1>1, <2>1, Zenon
  <1>3. Cardinality(1..2) = IF 1 > 2 THEN 0 ELSE 2 - 1 + 1
    <2>1. 2 \in Int
      OBVIOUS
    <2> QED BY <1>1, <2>1, Zenon
  <1> QED BY <1>2, <1>3

\* What the provider writes and the signature normalises is read back as it was.
LEMMA DecimalComesBack ==
  ASSUME NEW k \in Nat
  PROVE  iyzicoAmountToMinor(normalizeAmountForSignature(minorToIyzicoAmount(k))) = k
  <1> DEFINE h == k \div 100
             t == (k % 100) \div 10
             u == k % 10
  <1>1. h \in Nat /\ t \in 0..9 /\ u \in 0..9 /\ k = 100 * h + 10 * t + u /\ k % 100 = 10 * t + u
    OBVIOUS
  <1> HIDE DEF h, t, u
  <1>2. CASE k % 100 = 0
    <2>1. minorToIyzicoAmount(k) = <<h, <<0>>>>
      BY <1>2 DEF minorToIyzicoAmount, h
    <2>2. {x \in 1..1 : \E j \in x..1 : <<0>>[j] # 0} = {}
      OBVIOUS
    <2>3. normalizeAmountForSignature(<<h, <<0>>>>) = <<h, <<>>>>
      BY <2>2, FS_EmptySet DEF normalizeAmountForSignature
    <2>4. iyzicoAmountToMinor(<<h, <<>>>>) = 100 * h
      BY <1>1 DEF iyzicoAmountToMinor, Digit
    <2> QED BY <1>1, <1>2, <2>1, <2>3, <2>4
  <1>3. CASE k % 100 # 0
    <2> DEFINE s == <<t, u>>
               kept == {x \in 1..Len(s) : \E j \in x..Len(s) : s[j] # 0}
    <2>1. minorToIyzicoAmount(k) = <<h, s>>
      BY <1>3 DEF minorToIyzicoAmount, h, t, u
    <2>2. normalizeAmountForSignature(<<h, s>>) = <<h, SubSeq(s, 1, Cardinality(kept))>>
      BY DEF normalizeAmountForSignature
    <2>3. Len(s) = 2 /\ s[1] = t /\ s[2] = u /\ s \in Seq(Nat)
      BY <1>1
    <2> HIDE DEF s
    <2>4. CASE u # 0
      <3>1. kept = 1..2
        BY <2>3, <2>4
      <3>2. Cardinality(kept) = 2
        <4> HIDE DEF kept
        <4> QED BY <3>1, OneAndTwo
      <3>3. SubSeq(s, 1, 2) = s
        BY <2>3
      <3>4. iyzicoAmountToMinor(<<h, s>>) = k
        <4>1. iyzicoAmountToMinor(<<h, s>>) = 100 * h + 10 * s[1] + s[2]
          <5>1. <<h, s>>[1] = h /\ <<h, s>>[2] = s
            OBVIOUS
          <5>2. iyzicoAmountToMinor(<<h, s>>) = 100 * h + 10 * Digit(<<h, s>>, 1) + Digit(<<h, s>>, 2)
            BY <5>1 DEF iyzicoAmountToMinor
          <5>3. Digit(<<h, s>>, 1) = s[1] /\ Digit(<<h, s>>, 2) = s[2]
            BY <2>3, <5>1 DEF Digit
          <5> QED BY <5>2, <5>3
        <4> QED BY <1>1, <2>3, <4>1
      <3> QED BY <2>1, <2>2, <3>2, <3>3, <3>4
    <2>5. CASE u = 0
      <3>1. t # 0
        BY <1>1, <1>3, <2>5
      <3>2. kept = 1..1
        BY <2>3, <2>5, <3>1
      <3>3. Cardinality(kept) = 1
        <4> HIDE DEF kept
        <4> QED BY <3>2, OneAndTwo
      <3>4. SubSeq(s, 1, 1) = <<t>>
        <4>1. 1..1 = {1} /\ 1 + 1 - 1 = 1
          OBVIOUS
        <4>2. SubSeq(s, 1, 1) = [i \in 1..(1 + 1 - 1) |-> s[i + 1 - 1]]
          OBVIOUS
        <4>3. SubSeq(s, 1, 1) = [i \in {1} |-> t]
          BY <2>3, <4>1, <4>2
        <4>4. <<t>> = [i \in {1} |-> t]
          OBVIOUS
        <4> QED BY <4>3, <4>4
      <3>5. iyzicoAmountToMinor(<<h, <<t>>>>) = k
        BY <1>1, <2>5 DEF iyzicoAmountToMinor, Digit
      <3> QED BY <2>1, <2>2, <3>3, <3>4, <3>5
    <2> QED BY <2>4, <2>5
  <1> QED BY <1>2, <1>3

\* For every price, number of milestones and commission: the basket adds up, and the ledger credits the coach
\* for each milestone what the provider pays out (provider.ts, escrow.ts, milestones.ts).
THEOREM TheBasketIsTheLedger == LedgerAgreesWithProvider
  <1> SUFFICES ASSUME NEW a \in Agreements \cap {terms}
               PROVE  LET amounts == splitIntoMilestones(a.total, a.count)
                          basket == basketOf(a)
                      IN  /\ basketAccepted(basket, a.total) /\ amountsMatch(a.total, basket, a.total)
                          /\ \A i \in DOMAIN amounts :
                               /\ amounts[i] > 0
                               /\ MilestoneRelease(amounts[i], a.bps)["COACH_PAYABLE"] = basket[i].subMerchantPrice
                               /\ \A k \in {amounts[i], basket[i].subMerchantPrice} :
                                    iyzicoAmountToMinor(normalizeAmountForSignature(minorToIyzicoAmount(k))) = k
    BY DEF LedgerAgreesWithProvider
  <1> DEFINE amounts == splitIntoMilestones(a.total, a.count)
             basket == basketOf(a)
  <1>1. a.count \in Nat \ {0} /\ a.total \in Nat /\ a.total >= a.count /\ a.bps \in Nat /\ a.bps <= 5000
    BY MoneyAssumption
  <1>2. DOMAIN amounts = 1..a.count /\ DOMAIN basket = 1..a.count /\ amounts = [i \in 1..a.count |-> amounts[i]]
    BY DEF splitIntoMilestones, basketOf, buildSplit
  <1>3. \A i \in 1..a.count : /\ basket[i].price = amounts[i]
                              /\ basket[i].subMerchantPrice = amounts[i] - Commission(amounts[i], a.bps)
    BY <1>2 DEF basketOf, buildSplit, Commission
  <1> HIDE DEF amounts, basket
  <1>4. basketAccepted(basket, a.total)
    <2>1. [i \in DOMAIN basket |-> basket[i].price] = amounts
      <3>1. DOMAIN basket = 1..a.count /\ \A i \in DOMAIN basket : basket[i].price = amounts[i]
        <4>1. DOMAIN basket = 1..a.count
          BY <1>2, Zenon
        <4>2. \A i \in 1..a.count : basket[i].price = amounts[i]
          BY <1>3, Zenon
        <4> QED BY <4>1, <4>2, Zenon
      <3>2. [i \in DOMAIN basket |-> basket[i].price] = [i \in DOMAIN basket |-> amounts[i]]
        BY <3>1, Zenon
      <3> QED BY <1>2, <3>1, <3>2, Zenon
    <2>2. SumFunctionOnSet(amounts, 1..a.count) = a.total
      BY <1>1, MilestonesAddUp DEF amounts
    <2> QED BY <1>2, <2>1, <2>2 DEF basketAccepted, Total, SumFunction, SumFunctionOnSet
  <1>5. ASSUME NEW i \in 1..a.count
        PROVE  /\ amounts[i] > 0
               /\ MilestoneRelease(amounts[i], a.bps)["COACH_PAYABLE"] = basket[i].subMerchantPrice
               /\ \A k \in {amounts[i], basket[i].subMerchantPrice} :
                    iyzicoAmountToMinor(normalizeAmountForSignature(minorToIyzicoAmount(k))) = k
    <2>1. amounts[i] \in Nat \ {0}
      BY <1>1, MilestonesArePositive DEF amounts
    <2>2. basket[i].subMerchantPrice \in Nat
      <3>1. Commission(amounts[i], a.bps) \in Nat /\ Commission(amounts[i], a.bps) <= amounts[i]
        <4>1. PICK y \in Nat, b \in Nat : y = amounts[i] /\ b = a.bps /\ b <= 5000
          BY <1>1, <2>1
        <4>2. b <= 5000
          BY <4>1
        <4>3. Commission(y, b) \in Nat /\ Commission(y, b) <= y
          BY <4>2, CommissionIsRoundedDown
        <4> QED BY <4>1, <4>3
      <3> QED BY <1>3, <2>1, <3>1
    <2>3. MilestoneRelease(amounts[i], a.bps)["COACH_PAYABLE"] = amounts[i] - Commission(amounts[i], a.bps)
      BY DEF MilestoneRelease, splitAmount, Group, Account, Commission
    <2> QED BY <1>3, <2>1, <2>2, <2>3, DecimalComesBack
  <1> QED BY <1>2, <1>4, <1>5 DEF amountsMatch, amounts, basket

\* Commissions that are each rounded down come to at most one unit per summand less than the commission of the sum.
LEMMA CommissionsOfASum ==
  ASSUME NEW n \in Nat \ {0}, NEW x, NEW c, NEW b \in Nat, b <= 5000,
         \A i \in 1..n : x[i] \in Nat /\ c[i] = Commission(x[i], b)
  PROVE  /\ SumFunctionOnSet(c, 1..n) \in Nat
         /\ SumFunctionOnSet(c, 1..n) <= Commission(SumFunctionOnSet(x, 1..n), b)
         /\ Commission(SumFunctionOnSet(x, 1..n), b) < SumFunctionOnSet(c, 1..n) + n
  <1>0. \A i \in 1..n : /\ x[i] \in Nat /\ c[i] \in Nat
                        /\ 10000 * c[i] <= x[i] * b /\ x[i] * b <= 10000 * c[i] + 9999
    <2> TAKE i \in 1..n
    <2>1. PICK y \in Nat : y = x[i] /\ c[i] = Commission(y, b)
      OBVIOUS
    <2>2. /\ Commission(y, b) \in Nat /\ 10000 * Commission(y, b) <= y * b
          /\ y * b <= 10000 * Commission(y, b) + 9999
      BY CommissionIsRoundedDown
    <2> QED BY <2>1, <2>2
  <1> DEFINE X(k) == SumFunctionOnSet(x, 1..k)
             C(k) == SumFunctionOnSet(c, 1..k)
             Close(k) == /\ X(k) \in Nat /\ C(k) \in Nat
                         /\ 10000 * C(k) <= X(k) * b /\ X(k) * b <= 10000 * C(k) + 9999 * k
             F == {k \in Nat : k <= n => Close(k)}
  <1>1. 0 \in F
    <2>1. 1..0 = {}
      OBVIOUS
    <2>2. X(0) = 0 /\ C(0) = 0
      BY <2>1, SumEmpty
    <2> HIDE DEF X, C
    <2> QED BY <2>2
  <1>2. ASSUME NEW k \in Nat, k \in F PROVE k + 1 \in F
    <2> SUFFICES ASSUME k + 1 <= n PROVE Close(k + 1)
      OBVIOUS
    <2>3. X(k + 1) = x[k + 1] + X(k) /\ C(k + 1) = c[k + 1] + C(k)
      <3>1. \A i \in 1..k+1 : x[i] \in Int /\ c[i] \in Int
        <4> TAKE i \in 1..k+1
        <4>1. i \in 1..n
          OBVIOUS
        <4> QED BY <1>0, <4>1
      <3>2. X(k + 1) = x[k + 1] + X(k)
        BY <3>1, SumUpToNext
      <3>3. C(k + 1) = c[k + 1] + C(k)
        BY <3>1, SumUpToNext
      <3> HIDE DEF X, C
      <3> QED BY <3>2, <3>3
    <2>4. PICK y \in Nat, d \in Nat : /\ y = x[k + 1] /\ d = c[k + 1]
                                      /\ 10000 * d <= y * b /\ y * b <= 10000 * d + 9999
      <3>1. k + 1 \in 1..n
        OBVIOUS
      <3> QED BY <1>0, <3>1
    <2>5. X(k) \in Nat /\ C(k) \in Nat /\ 10000 * C(k) <= X(k) * b /\ X(k) * b <= 10000 * C(k) + 9999 * k
      BY <1>2
    <2> HIDE DEF X, C
    <2>6. PICK A \in Nat, E \in Nat : A = X(k) /\ E = C(k)
      BY <2>5
    <2>7. X(k + 1) = y + A /\ C(k + 1) = d + E
      BY <2>3, <2>4, <2>6
    <2>8. (y + A) * b = y * b + A * b /\ y * b \in Nat /\ A * b \in Nat
      OBVIOUS
    <2>9. 10000 * E <= A * b /\ A * b <= 10000 * E + 9999 * k
      BY <2>5, <2>6
    <2>10. 10000 * (d + E) <= (y + A) * b /\ (y + A) * b <= 10000 * (d + E) + 9999 * (k + 1)
      BY <2>4, <2>8, <2>9
    <2> QED BY <2>7, <2>10
  <1>3. Nat \subseteq F
    <2> HIDE DEF F
    <2> QED BY <1>1, <1>2, NumberInduction
  <1>4. Close(n)
    <2> HIDE DEF Close
    <2>1. n \in F
      BY <1>3
    <2> QED BY <2>1
  <1> HIDE DEF X, C
  <1>5. PICK A \in Nat, E \in Nat : /\ A = X(n) /\ E = C(n)
                                   /\ 10000 * E <= A * b /\ A * b <= 10000 * E + 9999 * n
    BY <1>4
  <1>6. PICK K \in Nat : K = Commission(A, b) /\ 10000 * K <= A * b /\ A * b <= 10000 * K + 9999
    <2>1. /\ Commission(A, b) \in Nat /\ 10000 * Commission(A, b) <= A * b
          /\ A * b <= 10000 * Commission(A, b) + 9999
      BY CommissionIsRoundedDown
    <2> QED BY <2>1
  <1>7. E <= K /\ K < E + n
    <2>1. A * b \in Nat
      OBVIOUS
    <2> QED BY <1>5, <1>6, <2>1
  <1> QED BY <1>5, <1>6, <1>7 DEF X, C

\* For every price, number of milestones and commission: what the milestones pay the coach is what the offer card
\* showed, or less than a kurus per milestone more (computeBreakdown, splitAmount).
THEOREM TheCardIsKept == CoachGetsWhatWasShown
  <1> SUFFICES ASSUME NEW a \in Agreements \cap {terms}
               PROVE  LET amounts == splitIntoMilestones(a.total, a.count)
                          paid == Total([i \in DOMAIN amounts |-> splitAmount(amounts[i], a.bps).netToCoach])
                          shown == computeBreakdown(a.total, a.bps).coachReceives
                      IN  shown <= paid /\ paid < shown + a.count
    BY DEF CoachGetsWhatWasShown
  <1> DEFINE amounts == splitIntoMilestones(a.total, a.count)
             net == [i \in DOMAIN amounts |-> splitAmount(amounts[i], a.bps).netToCoach]
             fee == [i \in 1..a.count |-> Commission(amounts[i], a.bps)]
             shown == computeBreakdown(a.total, a.bps).coachReceives
  <1>1. PICK n \in Nat \ {0}, T \in Nat, b \in Nat : n = a.count /\ T = a.total /\ b = a.bps /\ T >= n /\ b <= 5000
    <2>1. a.count \in Nat \ {0} /\ a.total \in Nat /\ a.total >= a.count /\ a.bps \in Nat /\ a.bps <= 5000
      BY MoneyAssumption
    <2> QED BY <2>1
  <1>2. DOMAIN amounts = 1..n
    BY <1>1 DEF splitIntoMilestones
  <1>3. \A i \in 1..n : amounts[i] \in Nat
    <2> TAKE i \in 1..n
    <2>1. splitIntoMilestones(T, n)[i] \in Nat \ {0}
      BY <1>1, MilestonesArePositive
    <2> QED BY <1>1, <2>1
  <1>4. SumFunctionOnSet(amounts, 1..n) = T
    BY <1>1, MilestonesAddUp
  <1>5. DOMAIN net = 1..n /\ \A i \in 1..n : net[i] = amounts[i] - fee[i]
    BY <1>1, <1>2 DEF splitAmount, Commission
  <1>6. \A i \in 1..n : fee[i] = Commission(amounts[i], b)
    BY <1>1
  <1>7. shown = T - Commission(T, b)
    BY <1>1 DEF computeBreakdown, Commission
  <1>8. Total(net) = SumFunctionOnSet(net, 1..n)
    BY <1>5 DEF Total, SumFunction, SumFunctionOnSet
  <1> HIDE DEF amounts, net, fee, shown
  <1>9. \A i \in 1..n : fee[i] \in Nat
    <2> TAKE i \in 1..n
    <2>1. PICK y \in Nat : y = amounts[i]
      BY <1>3
    <2>2. b <= 5000
      BY <1>1
    <2>3. Commission(y, b) \in Nat
      BY <2>2, CommissionIsRoundedDown
    <2> QED BY <1>6, <2>1, <2>3
  <1>10. PICK E \in Nat, K \in Int : /\ E = SumFunctionOnSet(fee, 1..n) /\ K = Commission(T, b)
                                    /\ E <= K /\ K < E + n
    <2>1. PICK x, c : x = amounts /\ c = fee
      OBVIOUS
    <2>2. b <= 5000 /\ \A i \in 1..n : x[i] \in Nat /\ c[i] = Commission(x[i], b)
      BY <1>1, <1>3, <1>6, <2>1
    <2>3. /\ SumFunctionOnSet(c, 1..n) \in Nat
          /\ SumFunctionOnSet(c, 1..n) <= Commission(SumFunctionOnSet(x, 1..n), b)
          /\ Commission(SumFunctionOnSet(x, 1..n), b) < SumFunctionOnSet(c, 1..n) + n
      BY <2>2, CommissionsOfASum
    <2>4. Commission(T, b) \in Int
      <3>1. b <= 5000
        BY <1>1
      <3> QED BY <3>1, CommissionIsRoundedDown
    <2> QED BY <1>4, <2>1, <2>3, <2>4
  <1>11. SumFunctionOnSet(net, 1..n) \in Int /\ T = SumFunctionOnSet(net, 1..n) + E
    <2>1. IsFiniteSet(1..n)
      BY FS_Interval
    <2>2. \A i \in 1..n : net[i] \in Int /\ fee[i] \in Int /\ amounts[i] = net[i] + fee[i]
      BY <1>3, <1>5, <1>9
    <2>3. SumFunctionOnSet(net, 1..n) \in Int
      BY <2>1, <2>2, SumIsInt
    <2>4. SumFunctionOnSet(amounts, 1..n) = SumFunctionOnSet(net, 1..n) + SumFunctionOnSet(fee, 1..n)
      BY <2>1, <2>2, SumPlus
    <2> QED BY <1>4, <1>10, <2>3, <2>4
  <1>12. shown <= Total(net) /\ Total(net) < shown + a.count
    <2>1. PICK P \in Int : P = SumFunctionOnSet(net, 1..n) /\ T = P + E
      BY <1>11
    <2>2. shown = T - K /\ Total(net) = P /\ a.count = n
      BY <1>1, <1>7, <1>8, <1>10, <2>1
    <2>3. T - K <= P /\ P < (T - K) + n
      BY <1>10, <2>1
    <2> QED BY <2>2, <2>3
  <1> QED BY <1>12 DEF amounts, net, shown

LEMMA RoundIsInt == ASSUME NEW a \in Nat, NEW b \in Nat \ {0} PROVE Round(a, b) \in Nat
  <1> DEFINE x == 2 * a + b
             y == 2 * b
  <1>1. x \in Nat /\ y \in Nat \ {0}
    OBVIOUS
  <1> HIDE DEF x, y
  <1>2. x \div y \in Nat
    BY <1>1
  <1> QED BY <1>2 DEF Round, x, y

LEMMA SuggestedIsNat ==
  ASSUME NEW list, list.single \in Nat, list.monthly \in Nat, list.sessionsPerCycle \in Nat \ {0}, NEW package
  PROVE  suggestedPrice(package, list) \in Nat
  <1> DEFINE r == Round(Round(list.monthly, list.sessionsPerCycle), 100)
  <1>1. r \in Nat
    BY RoundIsInt
  <1>2. suggestedPrice(package, list) \in {list.monthly, list.single, 100 * r}
    BY DEF suggestedPrice
  <1> HIDE DEF r
  <1> QED BY <1>1, <1>2

\* Half of a price, rounded up to a whole hundred, is not more than the price, if that is a hundred at least.
LEMMA HalfIsLess ==
  ASSUME NEW n \in Nat, n >= 10000
  PROVE  (n + 19999) \div 20000 \in Nat /\ 10000 * ((n + 19999) \div 20000) <= n
  <1> DEFINE q == (n + 19999) \div 20000
  <1>1. q \in Nat
    OBVIOUS
  <1>2. 20000 * q <= n + 19999
    OBVIOUS
  <1> HIDE DEF q
  <1>3. ASSUME n >= 20000 PROVE 10000 * q <= n
    BY <1>1, <1>2, <1>3
  <1>4. ASSUME n < 20000 PROVE 10000 * q <= n
    <2>1. q <= 1
      BY <1>1, <1>2, <1>4
    <2> QED BY <1>1, <2>1
  <1>5. 10000 * q <= n
    BY <1>3, <1>4
  <1> QED BY <1>1, <1>5 DEF q

\* For every price list: the price a student finds filled in is one the server accepts (suggestedPriceMinor,
\* minOfferMinor), but for one under the least price of all.
THEOREM TheSuggestionIsAccepted == SuggestedPriceIsAccepted
  <1> SUFFICES ASSUME NEW list \in PriceLists, NEW package \in Packages,
                      suggestedPrice(package, list) >= ABSOLUTE_MIN_OFFER
               PROVE  suggestedPrice(package, list) >= minOffer(package, list, "STUDENT")
    BY DEF SuggestedPriceIsAccepted
  <1> DEFINE n == suggestedPrice(package, list)
             half == 10000 * ((n + 19999) \div 20000)
  <1>1. n \in Nat
    <2>1. list.single \in Nat /\ list.monthly \in Nat /\ list.sessionsPerCycle \in Nat \ {0}
      BY MoneyAssumption
    <2> QED BY <2>1, SuggestedIsNat
  <1>2. n >= 10000
    BY DEF ABSOLUTE_MIN_OFFER
  <1>3. minOffer(package, list, "STUDENT") = Max({10000, half})
    <2>1. n # 0
      <3> HIDE DEF n
      <3> QED BY <1>1, <1>2
    <2> QED BY <2>1 DEF minOffer, ABSOLUTE_MIN_OFFER
  <1> HIDE DEF n
  <1>4. half \in Nat /\ half <= n
    BY <1>1, <1>2, HalfIsLess
  <1> HIDE DEF half
  <1>5. Max({10000, half}) \in {10000, half}
    <2>1. IF half >= 10000 THEN half \in {10000, half} /\ \A k \in {10000, half} : half >= k
          ELSE 10000 \in {10000, half} /\ \A k \in {10000, half} : 10000 >= k
      BY <1>4
    <2>2. \E j \in {10000, half} : \A k \in {10000, half} : j >= k
      BY <2>1
    <2> QED BY <2>2 DEF Max
  <1>6. n >= Max({10000, half})
    <2>1. n >= 10000 /\ n >= half
      BY <1>1, <1>2, <1>4
    <2> QED BY <1>5, <2>1
  <1> QED BY <1>3, <1>6 DEF n
===============================================================================
