--------------------------- MODULE EscrowLifecycle ---------------------------
(***************************************************************************)
(* One engagement from the moment its payment sits in escrow to the moment *)
(* the last milestone is settled: the offer and engagement statuses, the   *)
(* milestones, their sessions, the dispute tickets, the escrow postings    *)
(* and the handlers that move them.                                        *)
(*                                                                         *)
(* A handler is a process: pc[p] is the next database call it makes and    *)
(* arg[p] what it remembers from the calls before.  One step is one        *)
(* transaction, or one read outside a transaction; between two steps any   *)
(* other handler may run and the process may crash.  The transactions run  *)
(* at READ COMMITTED, so the three that read rows and then write them      *)
(* unconditionally (resolve-release, resolve-refund, split) are two steps: *)
(* the reads, and the writes with the commit.                              *)
(*                                                                         *)
(* Left out: profile ownership checks, notes, mail, audit rows, and the    *)
(* provider's copy of the money.                                           *)
(***************************************************************************)
EXTENDS OfferFSM, Integers, FiniteSets

CONSTANTS
  MilestoneCount,  \* Offer.milestoneCount
  Amount,          \* Milestone.amountMinor, by index
  SessionEnd,      \* Booking.endsAt of the milestone's session as it was paid for, by index
  Horizon,         \* bound: last value of the clock
  Disputes,        \* bound: ids of the dispute tickets that may be created
  Resolutions,     \* the outcomes admins choose from
  Parties,         \* concurrent web requests of the student and the coach
  Workers,         \* concurrent invocations of the cron job
  Admins,          \* concurrent admin requests
  MaxCrashes,      \* bound: how many handlers may die between two steps
  MaxMoves,        \* bound: how many times a session may be moved
  MoveTo,          \* bound: the ends a moved session may have
  CronKeepsUp,     \* TRUE: the clock waits for the jobs that are due
  NoProc, NoDispute

Milestones == 1..MilestoneCount
Procs == Parties \cup Workers \cup Admins
Time == 0..Horizon
Never == Horizon + 1

ASSUME CountAssumption == MilestoneCount \in Nat \ {0}
ASSUME AmountAssumption == Amount \in [Milestones -> Nat \ {0}]   \* milestone_amount_positive
ASSUME HorizonAssumption == Horizon \in Nat
ASSUME SessionAssumption == SessionEnd \in [Milestones -> Nat]
ASSUME ResolutionAssumption == Resolutions \subseteq {"RELEASE", "REFUND", "SPLIT"}
ASSUME ProcAssumption == /\ NoProc \notin Procs
                         /\ NoDispute \notin Disputes
                         /\ Workers \cap Admins = {}
                         /\ Parties \cap Admins = {}
                         /\ Parties \cap Workers = {}
ASSUME CrashAssumption == MaxCrashes \in Nat
ASSUME MoveAssumption == MaxMoves \in Nat /\ MoveTo \subseteq Nat

VARIABLES
  now,
  sessionEnd,            \* Booking.endsAt of the milestone's session
  movedLate,             \* history: the milestones whose session was moved after it had ended
  moves,                 \* how many times a session was moved
  offer, engagement,     \* Offer.status, Engagement.status
  activeEngagements,     \* CoachProfile.activeEngagements, this engagement's share of it
  milestone,             \* Milestone.status
  autoReleaseAt,         \* Milestone.autoReleaseAt; null is Never
  booking,               \* Booking.status of the milestone's session; NONE when it has none
  coachConfirmed, studentConfirmed,  \* Booking.coachConfirmedAt / studentConfirmedAt is set
  dispute,               \* Dispute.status; "unused" when the row does not exist
  released, refunded,    \* gross debits of PLATFORM_ESCROW that carry the milestone's id
  offerLock, engagementLock,   \* advisory locks held across the steps of a transaction
  pc, arg, crashes

sessions == <<sessionEnd, movedLate, moves>>
calendar == <<now, sessions>>
bookings == <<booking, coachConfirmed, studentConfirmed>>
ledger == <<released, refunded>>
rows == <<milestone, autoReleaseAt, bookings, ledger>>
locks == <<offerLock, engagementLock>>
db == <<offer, engagement, activeEngagements, rows, dispute>>
vars == <<calendar, db, locks, pc, arg, crashes>>

MilestoneStatus == {"SCHEDULED", "IN_PROGRESS", "PENDING_CONFIRMATION",
                    "RELEASED", "DISPUTED", "REFUNDED"}
\* Wrong: the freeze forgets the milestones that wait for confirmation.
FreezableButPending == {"SCHEDULED", "IN_PROGRESS"}
Freezable == {"SCHEDULED", "IN_PROGRESS", "PENDING_CONFIRMATION"}
Settled == {"RELEASED", "REFUNDED"}
BookingStatus == {"NONE", "SCHEDULED", "COMPLETED", "CANCELLED_BY_STUDENT", "NO_SHOW_COACH"}
EngagementStatus == {"ACTIVE", "DISPUTED", "COMPLETED", "CANCELLED"}
DisputeStatus == {"unused", "OPEN", "RESOLVED_RELEASE", "RESOLVED_REFUND", "RESOLVED_SPLIT"}
Step == {"idle", "report", "freeze", "ticket", "mark", "approve", "release",
         "count", "complete", "completeOffer", "finish", "start",
         "split", "splitting", "plan", "settle", "settling", "close"}

\* Program calendar, in periods: milestone m's period is [m, m + 1).
startDate == 1
endDate == MilestoneCount + 1
periodEnd(m) == m + 1
AUTO_RELEASE == 1
DISPUTE_WINDOW == 1
Deadline(t) == IF t + AUTO_RELEASE > Horizon THEN Horizon ELSE t + AUTO_RELEASE

\* Wrong: the milestone may be closed although its session was moved past its period.
completableAtPeriodEnd(m) == periodEnd(m)
milestoneCompletableAt(m) ==
  IF booking[m] \in {"NONE", "CANCELLED_BY_STUDENT"} THEN periodEnd(m) ELSE sessionEnd[m]

openDisputes == {d \in Disputes : dispute[d] = "OPEN"}
unusedDisputes == {d \in Disputes : dispute[d] = "unused"}

buildContext ==
  [hasCapturedPayment |-> TRUE,
   hasOpenDispute |-> openDisputes # {},
   allMilestonesSettled |-> \A m \in Milestones : milestone[m] \in Settled,
   startDateReached |-> startDate <= now,
   withinDisputeWindow |-> now <= endDate + DISPUTE_WINDOW,
   isInitiatorOfCurrentOffer |-> FALSE]

NoArgs == [m |-> 0, was |-> "none", d |-> NoDispute, r |-> "none", from |-> "none",
           frozen |-> {}, t |-> 0]

Init ==
  /\ now = 0
  /\ sessionEnd = SessionEnd /\ movedLate = {} /\ moves = 0
  /\ offer = "PAID_IN_ESCROW" /\ engagement = "ACTIVE" /\ activeEngagements = 1
  /\ milestone = [m \in Milestones |-> "SCHEDULED"]
  /\ autoReleaseAt = [m \in Milestones |-> Never]
  /\ \E b \in {"SCHEDULED", "NONE"} : booking = [m \in Milestones |-> b]
  /\ coachConfirmed = [m \in Milestones |-> FALSE]
  /\ studentConfirmed = [m \in Milestones |-> FALSE]
  /\ dispute = [d \in Disputes |-> "unused"]
  /\ released = [m \in Milestones |-> 0]
  /\ refunded = [m \in Milestones |-> 0]
  /\ offerLock = NoProc /\ engagementLock = NoProc
  /\ pc = [p \in Procs |-> "idle"]
  /\ arg = [p \in Procs |-> NoArgs]
  /\ crashes = 0

Goto(p, step, a) == pc' = [pc EXCEPT ![p] = step] /\ arg' = [arg EXCEPT ![p] = a]
Return(p) == Goto(p, "idle", NoArgs)

\* The snapshot read and plan of transitionOffer: `from` is what the later CAS expects.
Plan(p, event, actor, step) ==
  \E to \in OfferStatus :
    /\ Transition(offer, event, actor, buildContext, to)
    /\ Goto(p, step, [arg[p] EXCEPT !.from = offer, !.t = now])
Refused(event, actor) == ~canTransition(offer, event, actor, buildContext)

\* casStatus on the offer under its advisory lock found another status: the call throws.
TransitionLost(p) ==
  /\ pc[p] \in {"freeze", "start", "finish", "settle"}
  /\ offerLock = NoProc /\ offer # arg[p].from
  /\ Return(p)
  /\ UNCHANGED <<calendar, db, locks, crashes>>

-------------------------------------------------------------------------------
(* openDispute and flagCoachNoShow *)

inFlight == {p \in Procs : pc[p] \in {"report", "freeze", "ticket"}}

\* The session is over, or it was when a handler looked that acts only now.
hasEnded(m) == sessionEnd[m] <= now \/ m \in movedLate


FlagCoachNoShow(p) ==
  /\ pc[p] = "idle"
  /\ Cardinality(unusedDisputes) > Cardinality(inFlight)
  /\ \E m \in Milestones :
       /\ booking[m] = "SCHEDULED" /\ hasEnded(m)
       /\ booking' = [booking EXCEPT ![m] = "NO_SHOW_COACH"]
  /\ Goto(p, "report", NoArgs)
  /\ UNCHANGED <<calendar, offer, engagement, activeEngagements, milestone, autoReleaseAt,
                 coachConfirmed, studentConfirmed, ledger, dispute, locks, crashes>>

OpenDispute(p) ==
  /\ pc[p] = "idle"
  /\ Cardinality(unusedDisputes) > Cardinality(inFlight)
  /\ Plan(p, "OPEN_DISPUTE", "STUDENT", "freeze")
  /\ UNCHANGED <<calendar, db, locks, crashes>>

\* A refusal of openDispute changes nothing: ILLEGAL_TRANSITION hands back the ticket that is
\* open or rethrows, the other refusals throw.
ReportNoShow(p) ==
  /\ pc[p] = "report"
  /\ \/ Plan(p, "OPEN_DISPUTE", "STUDENT", "freeze")
     \/ Refused("OPEN_DISPUTE", "STUDENT") /\ Return(p)
  /\ UNCHANGED <<calendar, db, locks, crashes>>

FreezePendingMilestones(p) ==
  /\ pc[p] = "freeze" /\ offerLock = NoProc /\ offer = arg[p].from
  /\ offer' = "DISPUTED"
  /\ engagement' = "DISPUTED"
  /\ milestone' = [m \in Milestones |->
                     IF milestone[m] \in Freezable THEN "DISPUTED" ELSE milestone[m]]
  /\ Goto(p, "ticket", NoArgs)
  /\ UNCHANGED <<calendar, activeEngagements, autoReleaseAt, bookings, ledger, dispute,
                 locks, crashes>>

CreateTicket(p) ==
  /\ pc[p] = "ticket"
  /\ \E d \in unusedDisputes : dispute' = [dispute EXCEPT ![d] = "OPEN"]
  /\ Return(p)
  /\ UNCHANGED <<calendar, offer, engagement, activeEngagements, rows, locks, crashes>>

-------------------------------------------------------------------------------
(* The cron job: startEngagements and the milestone worker *)

StartEngagement(w) ==
  /\ pc[w] = "idle"
  /\ offer = "PAID_IN_ESCROW" /\ startDate <= now
  /\ Plan(w, "ENGAGEMENT_STARTED", "SYSTEM", "start")
  /\ UNCHANGED <<calendar, db, locks, crashes>>

EngagementStarted(w) ==
  /\ pc[w] = "start" /\ offerLock = NoProc /\ offer = arg[w].from
  /\ offer' = "ACTIVE"
  /\ Return(w)
  /\ UNCHANGED <<calendar, engagement, activeEngagements, rows, dispute, locks, crashes>>

\* Candidate query and CAS in one step: a freeze between the two makes the CAS fail,
\* and nothing else takes the engagement out of ACTIVE while a milestone is unsettled.
activateDue == {m \in Milestones : engagement = "ACTIVE" /\ milestone[m] = "SCHEDULED" /\ m <= now}

ActivateMilestone(w) ==
  /\ pc[w] = "idle"
  /\ \E m \in activateDue : milestone' = [milestone EXCEPT ![m] = "IN_PROGRESS"]
  /\ UNCHANGED <<calendar, offer, engagement, activeEngagements, autoReleaseAt, bookings, ledger,
                 dispute, locks, pc, arg, crashes>>

closeDue == {m \in Milestones : /\ engagement = "ACTIVE" /\ milestone[m] = "IN_PROGRESS"
                                /\ periodEnd(m) <= now /\ milestoneCompletableAt(m) <= now}

CloseMilestone(w) ==
  /\ pc[w] = "idle"
  /\ \E m \in closeDue :
       /\ milestone' = [milestone EXCEPT ![m] = "PENDING_CONFIRMATION"]
       /\ autoReleaseAt' = [autoReleaseAt EXCEPT ![m] = Deadline(now)]
  /\ UNCHANGED <<calendar, offer, engagement, activeEngagements, bookings, ledger, dispute,
                 locks, pc, arg, crashes>>

\* The candidate query and the checks releaseOne makes on the rows it returned.
allConfirmed(m) ==
  booking[m] = "COMPLETED" \/ (booking[m] # "NONE" /\ coachConfirmed[m] /\ studentConfirmed[m])
\* Wrong: the clock alone does not release.
releaseDueConfirmed == {m \in Milestones : /\ engagement = "ACTIVE"
                                           /\ milestone[m] = "PENDING_CONFIRMATION"
                                           /\ booking[m] # "NO_SHOW_COACH" /\ allConfirmed(m)}
releaseDue == {m \in Milestones : /\ engagement = "ACTIVE"
                                  /\ milestone[m] = "PENDING_CONFIRMATION"
                                  /\ booking[m] # "NO_SHOW_COACH"
                                  /\ autoReleaseAt[m] <= now \/ allConfirmed(m)}

AutoReleaseCandidate(w) ==
  /\ pc[w] = "idle"
  /\ \E m \in releaseDue : Goto(w, "release", [NoArgs EXCEPT !.m = m, !.t = now])
  /\ UNCHANGED <<calendar, db, locks, crashes>>

PostRelease(m) ==
  /\ milestone' = [milestone EXCEPT ![m] = "RELEASED"]
  /\ released' = [released EXCEPT ![m] = @ + Amount[m]]
  /\ UNCHANGED refunded

ReleaseOne(w) ==
  /\ pc[w] = "release"
  /\ LET m == arg[w].m
     IN  /\ engagementLock = NoProc /\ openDisputes = {}
         /\ milestone[m] = "PENDING_CONFIRMATION"
         /\ PostRelease(m)
         /\ booking' = IF booking[m] = "SCHEDULED" /\ sessionEnd[m] <= arg[w].t
                       THEN [booking EXCEPT ![m] = "COMPLETED"] ELSE booking
  /\ Goto(w, "count", NoArgs)
  /\ UNCHANGED <<calendar, offer, engagement, activeEngagements, autoReleaseAt, coachConfirmed,
                 studentConfirmed, dispute, locks, crashes>>

ReleaseSkipped(w) ==
  /\ pc[w] = "release"
  /\ engagementLock # NoProc \/ openDisputes # {} \/ milestone[arg[w].m] # "PENDING_CONFIRMATION"
  /\ Return(w)
  /\ UNCHANGED <<calendar, db, locks, crashes>>

-------------------------------------------------------------------------------
(* milestone-service: the coach marks a milestone done, the student approves it *)

MarkLoad(p) ==
  /\ pc[p] = "idle" /\ engagement = "ACTIVE"
  /\ \E m \in Milestones :
       /\ milestone[m] \in Freezable /\ milestoneCompletableAt(m) <= now
       /\ Goto(p, "mark", [NoArgs EXCEPT !.m = m, !.was = milestone[m], !.t = now])
  /\ UNCHANGED <<calendar, db, locks, crashes>>

MarkMilestoneCompleted(p) ==
  /\ pc[p] = "mark" /\ engagementLock = NoProc /\ openDisputes = {}
  /\ LET m == arg[p].m
     IN  /\ coachConfirmed' = [coachConfirmed EXCEPT ![m] = booking[m] # "NONE"]
         /\ \/ /\ arg[p].was = "PENDING_CONFIRMATION"
               /\ UNCHANGED <<milestone, autoReleaseAt>>
            \/ /\ arg[p].was # "PENDING_CONFIRMATION"
               /\ milestone[m] \in {"SCHEDULED", "IN_PROGRESS"}
               /\ milestone' = [milestone EXCEPT ![m] = "PENDING_CONFIRMATION"]
               /\ autoReleaseAt' = [autoReleaseAt EXCEPT ![m] = Deadline(arg[p].t)]
  /\ Return(p)
  /\ UNCHANGED <<calendar, offer, engagement, activeEngagements, booking, studentConfirmed, ledger,
                 dispute, locks, crashes>>

ApproveLoad(p) ==
  /\ pc[p] = "idle" /\ engagement = "ACTIVE"
  /\ \E m \in Milestones :
       /\ milestone[m] = "PENDING_CONFIRMATION"
       /\ Goto(p, "approve", [NoArgs EXCEPT !.m = m])
  /\ UNCHANGED <<calendar, db, locks, crashes>>

\* Wrong: nobody looks afterwards whether this was the last milestone.
ApproveOnly(p) ==
  /\ pc[p] = "approve" /\ engagementLock = NoProc /\ openDisputes = {}
  /\ milestone[arg[p].m] = "PENDING_CONFIRMATION"
  /\ PostRelease(arg[p].m)
  /\ Return(p)
  /\ UNCHANGED <<calendar, offer, engagement, activeEngagements, autoReleaseAt, bookings, dispute,
                 locks, crashes>>

ApproveMilestoneRelease(p) ==
  /\ pc[p] = "approve" /\ engagementLock = NoProc /\ openDisputes = {}
  /\ LET m == arg[p].m
     IN  /\ milestone[m] = "PENDING_CONFIRMATION"
         /\ PostRelease(m)
         /\ studentConfirmed' = [studentConfirmed EXCEPT ![m] = booking[m] # "NONE"]
         /\ booking' = IF booking[m] = "SCHEDULED"
                       THEN [booking EXCEPT ![m] = "COMPLETED"] ELSE booking
  /\ Goto(p, "count", NoArgs)
  /\ UNCHANGED <<calendar, offer, engagement, activeEngagements, autoReleaseAt, coachConfirmed,
                 dispute, locks, crashes>>

\* DISPUTE_OPEN or CONCURRENT: the transaction rolls back and the action fails.
MilestoneActionFails(p) ==
  /\ engagementLock = NoProc
  /\ \/ pc[p] \in {"mark", "approve"} /\ openDisputes # {}
     \/ pc[p] = "approve" /\ milestone[arg[p].m] # "PENDING_CONFIRMATION"
     \/ /\ pc[p] = "mark" /\ arg[p].was # "PENDING_CONFIRMATION"
        /\ milestone[arg[p].m] \notin {"SCHEDULED", "IN_PROGRESS"}
  /\ Return(p)
  /\ UNCHANGED <<calendar, db, locks, crashes>>

-------------------------------------------------------------------------------
(* maybeCompleteEngagement: two reads, the engagement transaction, the offer transition *)

allSettled == \A m \in Milestones : milestone[m] \in Settled

CountOutstanding(p) ==
  /\ pc[p] = "count"
  /\ IF allSettled /\ engagement = "ACTIVE" THEN Goto(p, "complete", NoArgs) ELSE Return(p)
  /\ UNCHANGED <<calendar, db, locks, crashes>>

CompleteEngagement(p) ==
  /\ pc[p] = "complete" /\ engagement = "ACTIVE"
  /\ engagement' = "COMPLETED"
  /\ activeEngagements' = activeEngagements - 1
  /\ Goto(p, "completeOffer", NoArgs)
  /\ UNCHANGED <<calendar, offer, rows, dispute, locks, crashes>>

CompleteEngagementLost(p) ==
  /\ pc[p] = "complete" /\ engagement # "ACTIVE"
  /\ Return(p)
  /\ UNCHANGED <<calendar, db, locks, crashes>>

CompleteOffer(p) ==
  /\ pc[p] = "completeOffer"
  /\ \/ Plan(p, "ALL_MILESTONES_RELEASED", "SYSTEM", "finish")
     \/ Refused("ALL_MILESTONES_RELEASED", "SYSTEM") /\ Return(p)
  /\ UNCHANGED <<calendar, db, locks, crashes>>

OfferCompleted(p) ==
  /\ pc[p] = "finish" /\ offerLock = NoProc /\ offer = arg[p].from
  /\ offer' = "COMPLETED"
  /\ Return(p)
  /\ UNCHANGED <<calendar, engagement, activeEngagements, rows, dispute, locks, crashes>>

-------------------------------------------------------------------------------
(* resolveDispute *)

ResolveDispute(a) ==
  /\ pc[a] = "idle"
  /\ \E d \in openDisputes, r \in Resolutions :
       Goto(a, IF r = "SPLIT" THEN "split" ELSE "plan", [NoArgs EXCEPT !.d = d, !.r = r, !.t = now])
  /\ UNCHANGED <<calendar, db, locks, crashes>>

SplitRead(a) ==
  /\ pc[a] = "split" /\ engagementLock = NoProc
  /\ engagementLock' = a
  /\ Goto(a, "splitting",
          [arg[a] EXCEPT !.frozen = {m \in Milestones : milestone[m] = "DISPUTED"}])
  /\ UNCHANGED <<calendar, db, offerLock, crashes>>

\* Wrong: a milestone may get more of the share than it is worth.
WalksUncapped(frozen) == [frozen -> UNION {0..Amount[m] : m \in frozen}]

\* The walk of settleSplit: coachShareMinor, any value from 0 to the frozen total, pays the
\* frozen milestones in index order, so a milestone gets a share only when all before it are full.
Walks(frozen) ==
  {pay \in [frozen -> UNION {0..Amount[m] : m \in frozen}] :
     /\ \A m \in frozen : pay[m] <= Amount[m]
     /\ \A m, k \in frozen : m < k /\ pay[k] > 0 => pay[m] = Amount[m]}

CancelFutureSessions(t) ==
  booking' = [m \in Milestones |->
                IF booking[m] = "SCHEDULED" /\ sessionEnd[m] > t
                THEN "CANCELLED_BY_STUDENT" ELSE booking[m]]

SettleSplit(a) ==
  /\ pc[a] = "splitting" /\ dispute[arg[a].d] = "OPEN"
  /\ \E pay \in Walks(arg[a].frozen) :
       /\ milestone' = [m \in Milestones |->
                          IF m \notin arg[a].frozen THEN milestone[m]
                          ELSE IF pay[m] = Amount[m] THEN "RELEASED" ELSE "REFUNDED"]
       /\ released' = [m \in Milestones |->
                         IF m \in arg[a].frozen THEN released[m] + pay[m] ELSE released[m]]
       /\ refunded' = [m \in Milestones |->
                         IF m \in arg[a].frozen THEN refunded[m] + (Amount[m] - pay[m])
                                                ELSE refunded[m]]
  /\ CancelFutureSessions(arg[a].t)
  /\ engagement' = "CANCELLED"
  /\ dispute' = [dispute EXCEPT ![arg[a].d] = "RESOLVED_SPLIT"]
  /\ engagementLock' = NoProc
  /\ Goto(a, "plan", [arg[a] EXCEPT !.frozen = {}])
  /\ UNCHANGED <<calendar, offer, activeEngagements, autoReleaseAt, coachConfirmed,
                 studentConfirmed, offerLock, crashes>>

SplitLost(a) ==
  /\ pc[a] = "splitting" /\ dispute[arg[a].d] # "OPEN"
  /\ engagementLock' = NoProc
  /\ Return(a)
  /\ UNCHANGED <<calendar, db, offerLock, crashes>>

\* Wrong: the event of a refund before the start.
ResolutionEventRefund(r) == IF r = "RELEASE" THEN "RESOLVE_DISPUTE_RELEASE" ELSE "REFUND"

ResolutionEvent(r) == IF r = "RELEASE" THEN "RESOLVE_DISPUTE_RELEASE" ELSE "RESOLVE_DISPUTE_REFUND"

ResolvePlan(a) ==
  /\ pc[a] = "plan"
  /\ \/ Plan(a, ResolutionEvent(arg[a].r), "ADMIN", "settle")
     \/ Refused(ResolutionEvent(arg[a].r), "ADMIN") /\ Return(a)
  /\ UNCHANGED <<calendar, db, locks, crashes>>

\* Wrong: the rows are read before the CAS has locked the offer.
SettleReadUnlocked(a) ==
  /\ pc[a] = "settle" /\ offer = arg[a].from
  /\ Goto(a, "settling",
          [arg[a] EXCEPT !.frozen = {m \in Milestones : milestone[m] = "DISPUTED"}])
  /\ UNCHANGED <<calendar, db, locks, crashes>>

\* CAS on the offer (not yet visible to others, who wait for the lock) and the findMany of
\* RELEASE_REMAINING_MILESTONES or refundUnreleasedEscrow.
SettleRead(a) ==
  /\ pc[a] = "settle" /\ offerLock = NoProc /\ offer = arg[a].from
  /\ offerLock' = a
  /\ LET found == IF arg[a].r = "RELEASE" THEN {"DISPUTED"} ELSE Freezable \cup {"DISPUTED"}
     IN  Goto(a, "settling", [arg[a] EXCEPT !.frozen = {m \in Milestones : milestone[m] \in found}])
  /\ UNCHANGED <<calendar, db, engagementLock, crashes>>

ReleaseRemainingMilestones(a) ==
  /\ pc[a] = "settling" /\ arg[a].r = "RELEASE"
  /\ offer' = "ACTIVE" /\ engagement' = "ACTIVE"
  /\ milestone' = [m \in Milestones |-> IF m \in arg[a].frozen THEN "RELEASED" ELSE milestone[m]]
  /\ released' = [m \in Milestones |->
                    IF m \in arg[a].frozen THEN released[m] + Amount[m] ELSE released[m]]
  /\ offerLock' = NoProc
  /\ Goto(a, "close", [arg[a] EXCEPT !.frozen = {}])
  /\ UNCHANGED <<calendar, activeEngagements, autoReleaseAt, bookings, refunded, dispute,
                 engagementLock, crashes>>

RefundUnreleasedEscrow(a) ==
  /\ pc[a] = "settling" /\ arg[a].r # "RELEASE"
  /\ offer' = "REFUNDED"
  /\ \/ /\ arg[a].frozen = {}
        /\ UNCHANGED <<milestone, refunded, booking, engagement, activeEngagements>>
     \/ /\ arg[a].frozen # {}
        /\ milestone' = [m \in Milestones |->
                           IF m \in arg[a].frozen THEN "REFUNDED" ELSE milestone[m]]
        /\ refunded' = [m \in Milestones |->
                          IF m \in arg[a].frozen THEN refunded[m] + Amount[m] ELSE refunded[m]]
        /\ CancelFutureSessions(arg[a].t)
        /\ engagement' = "CANCELLED"
        /\ activeEngagements' = activeEngagements - 1
  /\ offerLock' = NoProc
  /\ IF arg[a].r = "SPLIT" THEN Return(a) ELSE Goto(a, "close", [arg[a] EXCEPT !.frozen = {}])
  /\ UNCHANGED <<calendar, autoReleaseAt, coachConfirmed, studentConfirmed, released, dispute,
                 engagementLock, crashes>>

CloseTicket(a) ==
  /\ pc[a] = "close"
  /\ \/ /\ dispute[arg[a].d] = "OPEN"
        /\ dispute' = [dispute EXCEPT ![arg[a].d] =
                         IF arg[a].r = "RELEASE" THEN "RESOLVED_RELEASE" ELSE "RESOLVED_REFUND"]
        /\ engagement' = IF arg[a].r = "RELEASE" THEN "ACTIVE" ELSE engagement
     \/ dispute[arg[a].d] # "OPEN" /\ UNCHANGED <<dispute, engagement>>
  /\ Return(a)
  /\ UNCHANGED <<calendar, offer, activeEngagements, rows, locks, crashes>>

-------------------------------------------------------------------------------
(* Environment *)

jobsDue == \/ offer = "PAID_IN_ESCROW" /\ startDate <= now
           \/ activateDue \cup closeDue \cup releaseDue # {}
           \/ \E p \in Procs : pc[p] # "idle"

Tick ==
  /\ now < Horizon
  /\ CronKeepsUp => ~jobsDue
  /\ now' = now + 1
  /\ UNCHANGED <<sessions, db, locks, pc, arg, crashes>>

\* respondToInvite: the student accepts an invite to move a session.  The coach proposed it while
\* the session lay ahead; the answer asks only that the invite's own time is to come and that the
\* booking is still SCHEDULED, so a session that is over can move too, and one whose milestone
\* waits for its release.  No step falls inside a session: it is to come or it has ended.
MoveSession ==
  /\ moves < MaxMoves
  /\ \E m \in Milestones, end \in MoveTo :
       /\ booking[m] = "SCHEDULED" /\ now < end
       /\ sessionEnd' = [sessionEnd EXCEPT ![m] = end]
       /\ movedLate' = movedLate \cup {k \in {m} : sessionEnd[k] <= now}
  /\ moves' = moves + 1
  /\ UNCHANGED <<now, db, locks, pc, arg, crashes>>

\* The handler dies between two steps; Postgres rolls its open transaction back.
Crash(p) ==
  /\ pc[p] # "idle" /\ crashes < MaxCrashes
  /\ crashes' = crashes + 1
  /\ offerLock' = IF offerLock = p THEN NoProc ELSE offerLock
  /\ engagementLock' = IF engagementLock = p THEN NoProc ELSE engagementLock
  /\ Return(p)
  /\ UNCHANGED <<calendar, db>>

PartyRequest(p) == \/ FlagCoachNoShow(p) \/ OpenDispute(p) \/ MarkLoad(p) \/ ApproveLoad(p)

PartyStep(p) == \/ ReportNoShow(p) \/ FreezePendingMilestones(p) \/ CreateTicket(p)
                \/ MarkMilestoneCompleted(p) \/ ApproveMilestoneRelease(p)
                \/ MilestoneActionFails(p)

WorkerPass(w) == \/ StartEngagement(w) \/ ActivateMilestone(w) \/ CloseMilestone(w)
                 \/ AutoReleaseCandidate(w)

WorkerStep(w) == EngagementStarted(w) \/ ReleaseOne(w) \/ ReleaseSkipped(w)

CompletionStep(p) == \/ CountOutstanding(p) \/ CompleteEngagement(p)
                     \/ CompleteEngagementLost(p) \/ CompleteOffer(p) \/ OfferCompleted(p)

AdminStep(a) == \/ SplitRead(a) \/ SettleSplit(a) \/ SplitLost(a) \/ ResolvePlan(a)
                \/ SettleRead(a) \/ ReleaseRemainingMilestones(a) \/ RefundUnreleasedEscrow(a)
                \/ CloseTicket(a)

\* What a handler does once it has begun.
Handler(p) == \/ p \in Parties /\ (PartyStep(p) \/ CompletionStep(p))
              \/ p \in Workers /\ (WorkerStep(p) \/ CompletionStep(p))
              \/ p \in Admins /\ AdminStep(p)
              \/ TransitionLost(p)

Next == \/ Tick
        \/ MoveSession
        \/ \E p \in Parties : PartyRequest(p)
        \/ \E w \in Workers : WorkerPass(w)
        \/ \E a \in Admins : ResolveDispute(a)
        \/ \E p \in Procs : Handler(p) \/ Crash(p)

Spec == Init /\ [][Next]_vars

\* A handler that has begun runs on unless it crashes, cron calls the job for ever, time passes,
\* and an admin takes up every ticket.
Fairness == /\ SF_vars(Tick)
            /\ \A p \in Procs : WF_vars(Handler(p))
            /\ \A w \in Workers : WF_vars(WorkerPass(w))
            /\ \A a \in Admins : WF_vars(ResolveDispute(a))

FairSpec == Spec /\ Fairness

\* The parties raise a dispute, again and again, whenever the code lets them.
ReraiseSpec == FairSpec /\ \A p \in Parties : WF_vars(OpenDispute(p))

-------------------------------------------------------------------------------
(* Properties *)

Args == [m : Milestones \cup {0}, was : Freezable \cup {"none"},
         d : Disputes \cup {NoDispute}, r : Resolutions \cup {"none"},
         from : OfferStatus \cup {"none"}, frozen : SUBSET Milestones, t : Time]

\* Every variable keeps its type; the number of active engagements is an integer that the
\* code increments and decrements without a bound.
TypeOK ==
  /\ now \in Time
  /\ sessionEnd \in [Milestones -> Nat]
  /\ movedLate \subseteq Milestones
  /\ moves \in Nat
  /\ offer \in OfferStatus
  /\ engagement \in EngagementStatus
  /\ activeEngagements \in Int
  /\ milestone \in [Milestones -> MilestoneStatus]
  /\ autoReleaseAt \in [Milestones -> Time \cup {Never}]
  /\ booking \in [Milestones -> BookingStatus]
  /\ coachConfirmed \in [Milestones -> BOOLEAN]
  /\ studentConfirmed \in [Milestones -> BOOLEAN]
  /\ dispute \in [Disputes -> DisputeStatus]
  /\ released \in [Milestones -> Nat]
  /\ refunded \in [Milestones -> Nat]
  /\ offerLock \in Procs \cup {NoProc}
  /\ engagementLock \in Procs \cup {NoProc}
  /\ pc \in [Procs -> Step]
  /\ arg \in [Procs -> Args]
  /\ crashes \in Nat

\* A milestone's money leaves escrow once: the release and refund postings that carry its id
\* (escrow.ts) add up to its amount when it is settled and to nothing before.
SettledOnce ==
  \A m \in Milestones :
    released[m] + refunded[m] = IF milestone[m] \in Settled THEN Amount[m] ELSE 0

\* A frozen milestone belongs to an offer that is in dispute, so that one of the admin's
\* resolutions can still reach its money (dispute-service.ts, FREEZE_PENDING_MILESTONES).
FrozenOnlyInDispute ==
  (\E m \in Milestones : milestone[m] = "DISPUTED") => offer = "DISPUTED"

\* An offer in a final status, or an engagement that is over, leaves no money behind in
\* escrow: no handler would come back for it (maybeCompleteEngagement, refundUnreleasedEscrow,
\* settleSplit).
NothingLeftBehind ==
  offer \in {"COMPLETED", "REFUNDED"} \/ engagement \in {"COMPLETED", "CANCELLED"} => allSettled

\* The money of a milestone leaves escrow once and in full, and not later than its program ends.
NeitherTwiceNorForgotten == SettledOnce /\ NothingLeftBehind

\* From the freeze until the admin has decided, money moves only by the admin's decision: no
\* auto-release, approval or completion already under way gets through (TESTING.md:44).
NoMoneyMovesWhileDisputed ==
  [][offer = "DISPUTED" /\ ledger' # ledger
       => \E a \in Admins : pc[a] \in {"splitting", "settling"} /\ pc'[a] # pc[a]]_vars

\* Without a dispute a milestone is never paid out before its session has ended, also when an
\* accepted invite moved the session beyond the milestone's period (scope.ts:110-115).  A session
\* that is moved after its end is left out: respondToInvite asks for nothing but a booking that is
\* still SCHEDULED, and the milestone may already wait for its release.
NoPayoutBeforeSession ==
  [][\A m \in Milestones :
       milestone[m] # "DISPUTED" /\ milestone'[m] = "RELEASED" /\ milestone[m] # "RELEASED"
         => booking[m] = "NONE" \/ hasEnded(m)]_vars

\* The lifecycle implements the abstract escrow account.
Account == INSTANCE EscrowAccount
             WITH Milestone <- Milestones, Price <- Amount,
                  toCoach <- released, toStudent <- refunded

ImplementsEscrowAccount == Account!Spec

\* Every payment that reached escrow is paid out in the end.  The exception is a session moved so
\* far that its no-show was reported after the dispute window: no ticket is opened any more, and
\* the worker never releases a no-show.
EscrowDrains ==
  <>(\A m \in Milestones :
       \/ milestone[m] \in Settled
       \/ booking[m] = "NO_SHOW_COACH" /\ ~buildContext.withinDisputeWindow)


\* A dispute does not last for ever: the offer leaves DISPUTED.
DisputesEnd == offer = "DISPUTED" ~> offer # "DISPUTED"

\* A program that nobody disputed comes to its end with its last milestone: whichever handler
\* settles it, one of them completes the engagement and its offer (maybeCompleteEngagement).
UndisputedProgramEnds ==
  allSettled ~> \/ engagement = "COMPLETED" /\ offer = "COMPLETED"
                \/ \E d \in Disputes : dispute[d] # "unused"

-------------------------------------------------------------------------------
(* What is promised and not kept once a dispute was decided *)

\* A program whose milestones are all settled comes to its end ("Moves the engagement and its
\* offer to COMPLETED once every milestone has settled", jobs/milestones.ts:278).
SettledEngagementEnds ==
  allSettled ~> engagement \in {"COMPLETED", "CANCELLED"} /\ offer \in TERMINAL_STATES

-------------------------------------------------------------------------------
(* The inductive invariant behind the safety properties *)

\* Two decisions cannot overlap unless one of them is a split, which takes the engagement's
\* lock while the others take the offer's.
Serialized == (\A a, b \in Admins : a = b) \/ "SPLIT" \notin Resolutions

Frozen == {m \in Milestones : milestone[m] = "DISPUTED"}
NoneFreezable == \A m \in Milestones : milestone[m] \in Settled \cup {"DISPUTED"}

AdminSteps == {"split", "splitting", "plan", "settle", "settling", "close"}
CompletionSteps == {"complete", "completeOffer", "finish"}

\* Each step belongs to the processes that take it.
StepOwners ==
  /\ \A p \in Procs : pc[p] \in AdminSteps => p \in Admins
  /\ \A p \in Procs : pc[p] = "release" => p \in Workers
  /\ \A p \in Procs : pc[p] = "approve" => p \in Parties

\* What a handler remembers is what the transition table let it plan.
Plans ==
  \A p \in Procs :
    /\ pc[p] = "start" => arg[p].from = "PAID_IN_ESCROW"
    /\ pc[p] = "finish" => arg[p].from = "ACTIVE"
    /\ pc[p] = "freeze" => arg[p].from \in {"ACTIVE", "PAID_IN_ESCROW"}
    /\ pc[p] = "settle" => arg[p].from = "DISPUTED"
    /\ pc[p] \in {"split", "splitting"} => arg[p].r = "SPLIT"
    /\ pc[p] \in {"release", "approve", "mark"} => arg[p].m \in Milestones

\* A dispute, its ticket and an admin's work on it all come after the freeze, and a freeze is
\* for good.
FreezeComesFirst ==
  \/ offer = "DISPUTED"
  \/ openDisputes # {}
  \/ \E p \in Procs : pc[p] \in AdminSteps \cup {"ticket"}
  => NoneFreezable

\* An admin's transaction still holds exactly the rows that it read.
RowsStillFrozen ==
  \A a \in Procs :
    /\ pc[a] \in {"splitting", "settling"} => arg[a].frozen = Frozen
    /\ pc[a] = "settling" => offerLock = a /\ offer = "DISPUTED"

CompletionComesLast == (\E p \in Procs : pc[p] \in CompletionSteps) => allSettled

SessionOver(m) == booking[m] = "NONE" \/ hasEnded(m)

\* Only a milestone whose session is over waits for its payout, or is about to; and a session that
\* an admin's decision cancelled belongs to no milestone that could still be worked on.
PayoutComesAfterSession ==
  /\ \A m \in Milestones :
       /\ milestone[m] = "PENDING_CONFIRMATION" => SessionOver(m)
       /\ milestone[m] \in Freezable => booking[m] # "CANCELLED_BY_STUDENT"
  /\ \A p \in Procs : pc[p] = "mark" => SessionOver(arg[p].m)

IInv == /\ TypeOK /\ StepOwners /\ Plans /\ FreezeComesFirst /\ RowsStillFrozen
        /\ CompletionComesLast /\ SettledOnce /\ FrozenOnlyInDispute /\ NothingLeftBehind
        /\ PayoutComesAfterSession
===============================================================================
