------------------------ MODULE EscrowLifecycle_proofs ------------------------
(***************************************************************************)
(* Proofs about EscrowLifecycle and the buttons drawn from it, for every   *)
(* number of milestones, every amount, any number of concurrent requests,  *)
(* jobs and crashes.  IInv is inductive whenever admin decisions are       *)
(* Serialized; the safety properties follow from it.                       *)
(***************************************************************************)
EXTENDS ProgramPage, TLAPS

-------------------------------------------------------------------------------
(* Types *)

LEMMA NoArgsType == NoArgs \in Args /\ Never \in Int
  BY HorizonAssumption DEF NoArgs, Args, Time, Never

\* A handler's next step and memory keep their types.
LEMMA GotoType ==
  ASSUME TypeOK, NEW p \in Procs, NEW step \in Step, NEW a \in Args, Goto(p, step, a)
  PROVE  pc' \in [Procs -> Step] /\ arg' \in [Procs -> Args]
  BY DEF TypeOK, Goto

LEMMA ReturnType ==
  ASSUME TypeOK, NEW p \in Procs, Return(p)
  PROVE  pc' \in [Procs -> Step] /\ arg' \in [Procs -> Args]
  BY NoArgsType, GotoType DEF Return, Step

LEMMA PlanType ==
  ASSUME TypeOK, NEW p \in Procs, NEW event, NEW actor, NEW step \in Step,
         Plan(p, event, actor, step)
  PROVE  pc' \in [Procs -> Step] /\ arg' \in [Procs -> Args]
<1>1. [arg[p] EXCEPT !.from = offer, !.t = now] \in Args
  BY DEF TypeOK, Args
<1> QED BY <1>1, GotoType DEF Plan

LEMMA InitType == Init => TypeOK
  BY NoArgsType, HorizonAssumption, ProcAssumption, SessionAssumption
  DEF Init, TypeOK, Time, OfferStatus, EngagementStatus, MilestoneStatus, BookingStatus,
      DisputeStatus, Step

\* The rows that handlers write, without pc and arg.
DbType ==
  /\ offer \in OfferStatus
  /\ engagement \in EngagementStatus
  /\ activeEngagements \in Int
  /\ milestone \in [Milestones -> MilestoneStatus]
  /\ autoReleaseAt \in [Milestones -> Time \cup {Never}]
  /\ booking \in [Milestones -> BookingStatus]
  /\ coachConfirmed \in [Milestones -> BOOLEAN]
  /\ studentConfirmed \in [Milestones -> BOOLEAN]
  /\ dispute \in [Disputes -> DisputeStatus]
  /\ released \in [Milestones -> Nat]
  /\ refunded \in [Milestones -> Nat]

LEMMA DbUnchanged == TypeOK /\ UNCHANGED db => DbType'
  BY DEF TypeOK, DbType, db, rows, bookings, ledger

LEMMA DeadlineType == \A t \in Time : Deadline(t) \in Time
  BY HorizonAssumption DEF Deadline, Time, AUTO_RELEASE

LEMMA PostReleaseType ==
  ASSUME TypeOK, NEW m, PostRelease(m)
  PROVE  /\ milestone' \in [Milestones -> MilestoneStatus]
         /\ released' \in [Milestones -> Nat] /\ refunded' \in [Milestones -> Nat]
<1>1. milestone' \in [Milestones -> MilestoneStatus]
  BY DEF TypeOK, PostRelease, MilestoneStatus
<1>2. released' \in [Milestones -> Nat]
  <2>1. CASE m \in Milestones
    <3>1. Amount[m] \in Nat /\ released[m] \in Nat
      BY <2>1, AmountAssumption DEF TypeOK
    <3>2. released[m] + Amount[m] \in Nat
      BY <3>1
    <3>3. released' = [released EXCEPT ![m] = released[m] + Amount[m]]
      BY DEF PostRelease
    <3> QED BY <3>2, <3>3 DEF TypeOK
  <2>2. CASE m \notin Milestones
    BY <2>2 DEF TypeOK, PostRelease
  <2> QED BY <2>1, <2>2
<1> QED BY <1>1, <1>2 DEF TypeOK, PostRelease

LEMMA CancelType ==
  ASSUME TypeOK, NEW t, CancelFutureSessions(t)
  PROVE  booking' \in [Milestones -> BookingStatus]
  BY DEF TypeOK, CancelFutureSessions, BookingStatus

LEMMA WalkType ==
  ASSUME NEW frozen \in SUBSET Milestones, NEW pay \in Walks(frozen), NEW m \in frozen
  PROVE  pay[m] \in Nat /\ pay[m] <= Amount[m] /\ Amount[m] - pay[m] \in Nat
<1>1. pay[m] \in UNION {0..Amount[k] : k \in frozen}
  BY DEF Walks
<1>2. PICK k \in frozen : pay[m] \in 0..Amount[k]
  BY <1>1
<1>3. pay[m] \in Nat
  BY <1>2, AmountAssumption
<1>4. pay[m] <= Amount[m]
  BY DEF Walks
<1>5. Amount[m] \in Nat
  BY AmountAssumption
<1> QED BY <1>3, <1>4, <1>5

\* One lemma per family of steps: each keeps the types of the rows it writes.
LEMMA PartyType ==
  ASSUME TypeOK, NEW p \in Procs, PartyRequest(p) \/ PartyStep(p)
  PROVE  DbType'
<1>1. ASSUME FlagCoachNoShow(p) PROVE DbType'
  BY <1>1 DEF FlagCoachNoShow, TypeOK, DbType, ledger, BookingStatus
<1>2. ASSUME OpenDispute(p) \/ MarkLoad(p) \/ ApproveLoad(p) \/ ReportNoShow(p)
             \/ MilestoneActionFails(p)
      PROVE DbType'
  BY <1>2, DbUnchanged DEF OpenDispute, MarkLoad, ApproveLoad, ReportNoShow,
     MilestoneActionFails
<1>3. ASSUME FreezePendingMilestones(p) PROVE DbType'
  BY <1>3 DEF FreezePendingMilestones, TypeOK, DbType, ledger, bookings, MilestoneStatus,
     OfferStatus, EngagementStatus
<1>4. ASSUME CreateTicket(p) PROVE DbType'
  BY <1>4 DEF CreateTicket, TypeOK, DbType, rows, ledger, bookings, DisputeStatus
<1>5. ASSUME MarkMilestoneCompleted(p) PROVE DbType'
  <2>1. Deadline(arg[p].t) \in Time
    BY DeadlineType DEF TypeOK, Args
  <2>2. milestone' \in [Milestones -> MilestoneStatus]
    BY <1>5 DEF MarkMilestoneCompleted, TypeOK, MilestoneStatus
  <2>3. autoReleaseAt' \in [Milestones -> Time \cup {Never}]
    BY <1>5, <2>1 DEF MarkMilestoneCompleted, TypeOK
  <2>4. coachConfirmed' \in [Milestones -> BOOLEAN]
    BY <1>5 DEF MarkMilestoneCompleted, TypeOK
  <2> QED BY <1>5, <2>2, <2>3, <2>4 DEF MarkMilestoneCompleted, TypeOK, DbType, ledger
<1>6. ASSUME ApproveMilestoneRelease(p) PROVE DbType'
  <2>1. studentConfirmed' \in [Milestones -> BOOLEAN]
    BY <1>6 DEF ApproveMilestoneRelease, TypeOK
  <2>2. booking' \in [Milestones -> BookingStatus]
    BY <1>6 DEF ApproveMilestoneRelease, TypeOK, BookingStatus
  <2>3. PostRelease(arg[p].m)
    BY <1>6 DEF ApproveMilestoneRelease
  <2> QED BY <1>6, <2>1, <2>2, <2>3, PostReleaseType DEF ApproveMilestoneRelease, TypeOK, DbType
<1> QED BY <1>1, <1>2, <1>3, <1>4, <1>5, <1>6 DEF PartyRequest, PartyStep

LEMMA WorkerType ==
  ASSUME TypeOK, NEW w \in Procs, WorkerPass(w) \/ WorkerStep(w)
  PROVE  DbType'
<1>1. ASSUME StartEngagement(w) \/ AutoReleaseCandidate(w) \/ ReleaseSkipped(w) PROVE DbType'
  BY <1>1, DbUnchanged DEF StartEngagement, AutoReleaseCandidate, ReleaseSkipped
<1>2. ASSUME ActivateMilestone(w) PROVE DbType'
  BY <1>2 DEF ActivateMilestone, TypeOK, DbType, bookings, ledger, MilestoneStatus
<1>3. ASSUME CloseMilestone(w) PROVE DbType'
  <2>1. Deadline(now) \in Time
    BY DeadlineType DEF TypeOK
  <2>2. /\ milestone' \in [Milestones -> MilestoneStatus]
        /\ autoReleaseAt' \in [Milestones -> Time \cup {Never}]
    <3>1. PICK m \in Milestones : /\ milestone' = [milestone EXCEPT ![m] = "PENDING_CONFIRMATION"]
                                  /\ autoReleaseAt' = [autoReleaseAt EXCEPT ![m] = Deadline(now)]
      BY <1>3 DEF CloseMilestone, closeDue
    <3>2. milestone' \in [Milestones -> MilestoneStatus]
      BY <3>1 DEF TypeOK, MilestoneStatus
    <3>3. autoReleaseAt' \in [Milestones -> Time \cup {Never}]
      BY <2>1, <3>1 DEF TypeOK
    <3> QED BY <3>2, <3>3
  <2>3. UNCHANGED <<offer, engagement, activeEngagements, bookings, ledger, dispute>>
    BY <1>3 DEF CloseMilestone
  <2> QED BY <2>2, <2>3 DEF TypeOK, DbType, bookings, ledger
<1>4. ASSUME EngagementStarted(w) PROVE DbType'
  BY <1>4 DEF EngagementStarted, TypeOK, DbType, rows, bookings, ledger, OfferStatus
<1>5. ASSUME ReleaseOne(w) PROVE DbType'
  <2>1. booking' \in [Milestones -> BookingStatus]
    BY <1>5 DEF ReleaseOne, TypeOK, BookingStatus
  <2>2. PostRelease(arg[w].m)
    BY <1>5 DEF ReleaseOne
  <2> QED BY <1>5, <2>1, <2>2, PostReleaseType DEF ReleaseOne, TypeOK, DbType
<1> QED BY <1>1, <1>2, <1>3, <1>4, <1>5 DEF WorkerPass, WorkerStep

LEMMA CompletionType ==
  ASSUME TypeOK, NEW p \in Procs, CompletionStep(p)
  PROVE  DbType'
<1>1. ASSUME CountOutstanding(p) \/ CompleteEngagementLost(p) \/ CompleteOffer(p) PROVE DbType'
  BY <1>1, DbUnchanged DEF CountOutstanding, CompleteEngagementLost, CompleteOffer
<1>2. ASSUME CompleteEngagement(p) PROVE DbType'
  BY <1>2 DEF CompleteEngagement, TypeOK, DbType, rows, bookings, ledger, EngagementStatus
<1>3. ASSUME OfferCompleted(p) PROVE DbType'
  BY <1>3 DEF OfferCompleted, TypeOK, DbType, rows, bookings, ledger, OfferStatus
<1> QED BY <1>1, <1>2, <1>3 DEF CompletionStep

LEMMA AdminType ==
  ASSUME TypeOK, NEW a \in Procs, ResolveDispute(a) \/ AdminStep(a)
  PROVE  DbType'
<1> USE DEF ledger, bookings, rows
<1>1. ASSUME ResolveDispute(a) \/ SplitRead(a) \/ SplitLost(a) \/ ResolvePlan(a) \/ SettleRead(a)
      PROVE DbType'
  BY <1>1, DbUnchanged DEF ResolveDispute, SplitRead, SplitLost, ResolvePlan, SettleRead
<1>0. arg[a].frozen \in SUBSET Milestones
  BY DEF TypeOK, Args
<1>2. ASSUME SettleSplit(a) PROVE DbType'
  <2>1. PICK pay \in Walks(arg[a].frozen) :
       /\ milestone' = [m \in Milestones |->
                          IF m \notin arg[a].frozen THEN milestone[m]
                          ELSE IF pay[m] = Amount[m] THEN "RELEASED" ELSE "REFUNDED"]
       /\ released' = [m \in Milestones |->
                         IF m \in arg[a].frozen THEN released[m] + pay[m] ELSE released[m]]
       /\ refunded' = [m \in Milestones |->
                         IF m \in arg[a].frozen THEN refunded[m] + (Amount[m] - pay[m])
                                                ELSE refunded[m]]
    BY <1>2 DEF SettleSplit
  <2>2. milestone' \in [Milestones -> MilestoneStatus]
    BY <2>1 DEF TypeOK, MilestoneStatus
  <2>3. \A m \in arg[a].frozen : pay[m] \in Nat /\ Amount[m] - pay[m] \in Nat
    BY <1>0, WalkType
  <2>4. released' \in [Milestones -> Nat]
    BY <2>1, <2>3 DEF TypeOK
  <2>5. refunded' \in [Milestones -> Nat]
    BY <2>1, <2>3 DEF TypeOK
  <2>6. booking' \in [Milestones -> BookingStatus]
    BY <1>2, CancelType DEF SettleSplit
  <2> QED BY <1>2, <2>2, <2>4, <2>5, <2>6
          DEF SettleSplit, TypeOK, DbType, EngagementStatus, DisputeStatus
<1>3. ASSUME ReleaseRemainingMilestones(a) PROVE DbType'
  BY <1>3, AmountAssumption
  DEF ReleaseRemainingMilestones, TypeOK, DbType, MilestoneStatus, OfferStatus, EngagementStatus
<1>4. ASSUME RefundUnreleasedEscrow(a) PROVE DbType'
  <2>1. milestone' \in [Milestones -> MilestoneStatus] /\ refunded' \in [Milestones -> Nat]
    BY <1>4, AmountAssumption DEF RefundUnreleasedEscrow, TypeOK, MilestoneStatus
  <2>2. booking' \in [Milestones -> BookingStatus]
    BY <1>4, CancelType DEF RefundUnreleasedEscrow, TypeOK
  <2> QED BY <1>4, <2>1, <2>2
          DEF RefundUnreleasedEscrow, TypeOK, DbType, OfferStatus, EngagementStatus
<1>5. ASSUME CloseTicket(a) PROVE DbType'
  BY <1>5 DEF CloseTicket, TypeOK, DbType, EngagementStatus, DisputeStatus
<1> QED BY <1>1, <1>2, <1>3, <1>4, <1>5 DEF AdminStep

\* What belongs to the handlers and the environment.
ControlType ==
  /\ now \in Time
  /\ sessionEnd \in [Milestones -> Nat]
  /\ movedLate \subseteq Milestones
  /\ moves \in Nat
  /\ offerLock \in Procs \cup {NoProc}
  /\ engagementLock \in Procs \cup {NoProc}
  /\ pc \in [Procs -> Step]
  /\ arg \in [Procs -> Args]
  /\ crashes \in Nat

LEMMA ControlOfGoto ==
  ASSUME TypeOK, NEW p \in Procs, NEW step \in Step, NEW a \in Args, Goto(p, step, a),
         UNCHANGED <<calendar, locks, crashes>>
  PROVE  ControlType'
  BY GotoType DEF TypeOK, ControlType, calendar, sessions, locks

LEMMA ControlOfReturn ==
  ASSUME TypeOK, NEW p \in Procs, Return(p), UNCHANGED <<calendar, locks, crashes>>
  PROVE  ControlType'
  BY ReturnType DEF TypeOK, ControlType, calendar, sessions, locks

LEMMA ControlOfPlan ==
  ASSUME TypeOK, NEW p \in Procs, NEW event, NEW actor, NEW step \in Step,
         Plan(p, event, actor, step), UNCHANGED <<calendar, locks, crashes>>
  PROVE  ControlType'
  BY PlanType DEF TypeOK, ControlType, calendar, sessions, locks

LEMMA PartyControl ==
  ASSUME TypeOK, NEW p \in Procs, PartyRequest(p) \/ PartyStep(p)
  PROVE  ControlType'
<1> USE NoArgsType
<1>1. ASSUME FlagCoachNoShow(p) \/ FreezePendingMilestones(p) PROVE ControlType'
  BY <1>1, ControlOfGoto DEF FlagCoachNoShow, FreezePendingMilestones, Step
<1>2. ASSUME OpenDispute(p) PROVE ControlType'
  BY <1>2, ControlOfPlan DEF OpenDispute, Step
<1>3. ASSUME ReportNoShow(p) PROVE ControlType'
  BY <1>3, ControlOfPlan, ControlOfReturn DEF ReportNoShow, Step
<1>4. ASSUME CreateTicket(p) \/ MarkMilestoneCompleted(p) \/ MilestoneActionFails(p)
      PROVE ControlType'
  BY <1>4, ControlOfReturn DEF CreateTicket, MarkMilestoneCompleted, MilestoneActionFails
<1>5. ASSUME MarkLoad(p) PROVE ControlType'
  <2>1. PICK m \in Milestones : /\ milestone[m] \in Freezable
                                /\ Goto(p, "mark", [NoArgs EXCEPT !.m = m, !.was = milestone[m], !.t = now])
    BY <1>5 DEF MarkLoad
  <2>2. [NoArgs EXCEPT !.m = m, !.was = milestone[m], !.t = now] \in Args
    BY <2>1 DEF NoArgs, Args, TypeOK
  <2> QED BY <1>5, <2>1, <2>2, ControlOfGoto DEF MarkLoad, Step
<1>6. ASSUME ApproveLoad(p) PROVE ControlType'
  <2>1. PICK m \in Milestones : Goto(p, "approve", [NoArgs EXCEPT !.m = m])
    BY <1>6 DEF ApproveLoad
  <2>2. [NoArgs EXCEPT !.m = m] \in Args
    BY <2>1 DEF NoArgs, Args, TypeOK
  <2> QED BY <1>6, <2>1, <2>2, ControlOfGoto DEF ApproveLoad, Step
<1>7. ASSUME ApproveMilestoneRelease(p) PROVE ControlType'
  BY <1>7, ControlOfGoto DEF ApproveMilestoneRelease, Step
<1> QED BY <1>1, <1>2, <1>3, <1>4, <1>5, <1>6, <1>7 DEF PartyRequest, PartyStep

LEMMA WorkerControl ==
  ASSUME TypeOK, NEW w \in Procs, WorkerPass(w) \/ WorkerStep(w)
  PROVE  ControlType'
<1>1. ASSUME StartEngagement(w) PROVE ControlType'
  BY <1>1, ControlOfPlan DEF StartEngagement, Step
<1>2. ASSUME ActivateMilestone(w) \/ CloseMilestone(w) PROVE ControlType'
  BY <1>2 DEF ActivateMilestone, CloseMilestone, TypeOK, ControlType, calendar, sessions, locks
<1>3. ASSUME AutoReleaseCandidate(w) PROVE ControlType'
  <2>1. PICK m \in Milestones : Goto(w, "release", [NoArgs EXCEPT !.m = m, !.t = now])
    BY <1>3 DEF AutoReleaseCandidate, releaseDue
  <2>2. [NoArgs EXCEPT !.m = m, !.t = now] \in Args
    BY <2>1, NoArgsType DEF NoArgs, Args, TypeOK
  <2> QED BY <1>3, <2>1, <2>2, ControlOfGoto DEF AutoReleaseCandidate, Step
<1>4. ASSUME EngagementStarted(w) \/ ReleaseSkipped(w) PROVE ControlType'
  BY <1>4, ControlOfReturn DEF EngagementStarted, ReleaseSkipped
<1>5. ASSUME ReleaseOne(w) PROVE ControlType'
  BY <1>5, ControlOfGoto, NoArgsType DEF ReleaseOne, Step
<1> QED BY <1>1, <1>2, <1>3, <1>4, <1>5 DEF WorkerPass, WorkerStep

LEMMA CompletionControl ==
  ASSUME TypeOK, NEW p \in Procs, CompletionStep(p)
  PROVE  ControlType'
<1> USE NoArgsType
<1>1. ASSUME CountOutstanding(p) PROVE ControlType'
  BY <1>1, ControlOfGoto, ControlOfReturn DEF CountOutstanding, Step
<1>2. ASSUME CompleteEngagement(p) PROVE ControlType'
  BY <1>2, ControlOfGoto DEF CompleteEngagement, Step
<1>3. ASSUME CompleteEngagementLost(p) \/ OfferCompleted(p) PROVE ControlType'
  BY <1>3, ControlOfReturn DEF CompleteEngagementLost, OfferCompleted
<1>4. ASSUME CompleteOffer(p) PROVE ControlType'
  BY <1>4, ControlOfPlan, ControlOfReturn DEF CompleteOffer, Step
<1> QED BY <1>1, <1>2, <1>3, <1>4 DEF CompletionStep

LEMMA AdminControl ==
  ASSUME TypeOK, NEW a \in Procs, ResolveDispute(a) \/ AdminStep(a)
  PROVE  ControlType'
<1>0. /\ arg[a] \in Args
      /\ \A F \in SUBSET Milestones : [arg[a] EXCEPT !.frozen = F] \in Args
  BY DEF TypeOK, Args
<1>1. ASSUME ResolveDispute(a) PROVE ControlType'
  <2>1. PICK d \in Disputes, r \in Resolutions :
          Goto(a, IF r = "SPLIT" THEN "split" ELSE "plan", [NoArgs EXCEPT !.d = d, !.r = r, !.t = now])
    BY <1>1 DEF ResolveDispute, openDisputes
  <2>2. [NoArgs EXCEPT !.d = d, !.r = r, !.t = now] \in Args
    BY <2>1, NoArgsType DEF NoArgs, Args, TypeOK
  <2> QED BY <1>1, <2>1, <2>2, ControlOfGoto DEF ResolveDispute, Step
<1>2. ASSUME SplitRead(a) \/ SettleRead(a) PROVE ControlType'
  BY <1>0, <1>2, GotoType DEF SplitRead, SettleRead, TypeOK, ControlType, calendar, sessions, Step
<1>3. ASSUME SettleSplit(a) \/ ReleaseRemainingMilestones(a) PROVE ControlType'
  BY <1>0, <1>3, GotoType DEF SettleSplit, ReleaseRemainingMilestones, TypeOK, ControlType, calendar, sessions, Step
<1>4. ASSUME RefundUnreleasedEscrow(a) PROVE ControlType'
  BY <1>0, <1>4, GotoType, ReturnType DEF RefundUnreleasedEscrow, TypeOK, ControlType, calendar, sessions, Step
<1>5. ASSUME SplitLost(a) PROVE ControlType'
  BY <1>5, ReturnType DEF SplitLost, TypeOK, ControlType, calendar, sessions, Step
<1>6. ASSUME ResolvePlan(a) PROVE ControlType'
  BY <1>6, ControlOfPlan, ControlOfReturn DEF ResolvePlan, Step
<1>7. ASSUME CloseTicket(a) PROVE ControlType'
  BY <1>7, ControlOfReturn DEF CloseTicket
<1> QED BY <1>1, <1>2, <1>3, <1>4, <1>5, <1>6, <1>7 DEF AdminStep

LEMMA OtherType ==
  ASSUME TypeOK, Tick \/ MoveSession \/ UNCHANGED vars \/ \E p \in Procs : TransitionLost(p) \/ Crash(p)
  PROVE  DbType' /\ ControlType'
<1>1. ASSUME Tick PROVE DbType' /\ ControlType'
  <2>1. now' \in Time
    BY <1>1, HorizonAssumption DEF Tick, TypeOK, Time
  <2> QED BY <1>1, <2>1, DbUnchanged DEF Tick, TypeOK, ControlType, calendar, sessions, locks
<1>5. ASSUME MoveSession PROVE DbType' /\ ControlType'
  <2>1. sessionEnd' \in [Milestones -> Nat]
    BY <1>5, MoveAssumption DEF MoveSession, TypeOK
  <2>2. movedLate' \subseteq Milestones /\ moves' \in Nat
    BY <1>5 DEF MoveSession, TypeOK
  <2> QED BY <1>5, <2>1, <2>2, DbUnchanged DEF MoveSession, TypeOK, ControlType, locks
<1>2. ASSUME UNCHANGED vars PROVE DbType' /\ ControlType'
  BY <1>2, DbUnchanged DEF vars, TypeOK, ControlType, calendar, sessions, locks
<1>3. ASSUME NEW p \in Procs, TransitionLost(p) PROVE DbType' /\ ControlType'
  BY <1>3, DbUnchanged, ControlOfReturn DEF TransitionLost
<1>4. ASSUME NEW p \in Procs, Crash(p) PROVE DbType' /\ ControlType'
  BY <1>4, DbUnchanged, ReturnType DEF Crash, TypeOK, ControlType, calendar, sessions
<1> QED BY <1>1, <1>2, <1>3, <1>4, <1>5

LEMMA TypeInductive == TypeOK /\ [Next]_vars => TypeOK'
<1> SUFFICES ASSUME TypeOK, [Next]_vars PROVE DbType' /\ ControlType'
  BY DEF TypeOK, DbType, ControlType, calendar, sessions
<1> USE DEF Procs
<1>1. CASE \E p \in Parties : PartyRequest(p)
  BY <1>1, PartyType, PartyControl
<1>2. CASE \E w \in Workers : WorkerPass(w)
  BY <1>2, WorkerType, WorkerControl
<1>3. CASE \E a \in Admins : ResolveDispute(a)
  BY <1>3, AdminType, AdminControl
<1>4. CASE \E p \in Procs : Handler(p)
  BY <1>4, PartyType, PartyControl, WorkerType, WorkerControl, CompletionType,
     CompletionControl, AdminType, AdminControl, OtherType DEF Handler
<1>5. CASE Tick \/ MoveSession \/ UNCHANGED vars \/ \E p \in Procs : Crash(p)
  BY <1>5, OtherType
<1> QED BY <1>1, <1>2, <1>3, <1>4, <1>5 DEF Next

\* Every reachable state is well typed.
THEOREM TypeCorrect == Spec => []TypeOK
  BY InitType, TypeInductive, PTL DEF Spec

-------------------------------------------------------------------------------
(* Where handlers are and what they remember *)

\* The transition table: from which statuses each event may be planned.
LEMMA PlannedFrom ==
  ASSUME NEW event, NEW actor, NEW ctx, NEW to, Transition(offer, event, actor, ctx, to)
  PROVE  /\ event = "OPEN_DISPUTE" => offer \in {"ACTIVE", "PAID_IN_ESCROW"}
         /\ event = "ENGAGEMENT_STARTED" => offer = "PAID_IN_ESCROW"
         /\ event = "ALL_MILESTONES_RELEASED" => offer = "ACTIVE" /\ ctx.allMilestonesSettled
         /\ event \in {"RESOLVE_DISPUTE_RELEASE", "RESOLVE_DISPUTE_REFUND"} => offer = "DISPUTED"
  BY DEF Transition, TRANSITIONS, TERMINAL_STATES, checkGuards

LEMMA PlanFrom ==
  ASSUME TypeOK, NEW p \in Procs, NEW event, NEW actor, NEW step, Plan(p, event, actor, step)
  PROVE  /\ pc' = [pc EXCEPT ![p] = step]
         /\ arg' = [arg EXCEPT ![p] = arg'[p]]
         /\ arg'[p].from = offer /\ arg'[p].r = arg[p].r /\ arg'[p].m = arg[p].m
         /\ event = "OPEN_DISPUTE" => offer \in {"ACTIVE", "PAID_IN_ESCROW"}
         /\ event = "ENGAGEMENT_STARTED" => offer = "PAID_IN_ESCROW"
         /\ event = "ALL_MILESTONES_RELEASED" => offer = "ACTIVE" /\ allSettled
         /\ event \in {"RESOLVE_DISPUTE_RELEASE", "RESOLVE_DISPUTE_REFUND"} => offer = "DISPUTED"
<1>1. PICK to \in OfferStatus : Transition(offer, event, actor, buildContext, to)
  BY DEF Plan
<1>2. buildContext.allMilestonesSettled <=> allSettled
  BY DEF buildContext, allSettled
<1>3. /\ pc' = [pc EXCEPT ![p] = step]
      /\ arg' = [arg EXCEPT ![p] = [arg[p] EXCEPT !.from = offer, !.t = now]]
  BY DEF Plan, Goto
<1>4. arg'[p] = [arg[p] EXCEPT !.from = offer, !.t = now] /\ arg[p] \in Args
  BY <1>3 DEF TypeOK
<1>5. arg'[p].from = offer /\ arg'[p].r = arg[p].r /\ arg'[p].m = arg[p].m
  BY <1>4 DEF Args
<1>6. arg' = [arg EXCEPT ![p] = arg'[p]]
  BY <1>3, <1>4
<1>7. /\ event = "OPEN_DISPUTE" => offer \in {"ACTIVE", "PAID_IN_ESCROW"}
      /\ event = "ENGAGEMENT_STARTED" => offer = "PAID_IN_ESCROW"
      /\ event = "ALL_MILESTONES_RELEASED" => offer = "ACTIVE"
      /\ event \in {"RESOLVE_DISPUTE_RELEASE", "RESOLVE_DISPUTE_REFUND"} => offer = "DISPUTED"
  BY <1>1, PlannedFrom
<1>8. event = "ALL_MILESTONES_RELEASED" => allSettled
  BY <1>1, <1>2, PlannedFrom, Zenon
<1> QED BY <1>3, <1>5, <1>6, <1>7, <1>8

\* StepOwners and Plans, for one process.
LocalOK(p) ==
  /\ pc[p] \in AdminSteps => p \in Admins
  /\ pc[p] = "release" => p \in Workers
  /\ pc[p] = "approve" => p \in Parties
  /\ pc[p] = "start" => arg[p].from = "PAID_IN_ESCROW"
  /\ pc[p] = "finish" => arg[p].from = "ACTIVE"
  /\ pc[p] = "freeze" => arg[p].from \in {"ACTIVE", "PAID_IN_ESCROW"}
  /\ pc[p] = "settle" => arg[p].from = "DISPUTED"
  /\ pc[p] \in {"split", "splitting"} => arg[p].r = "SPLIT"
  /\ pc[p] \in {"release", "approve", "mark"} => arg[p].m \in Milestones

LEMMA LocalSplit == StepOwners /\ Plans <=> \A p \in Procs : LocalOK(p)
  BY DEF StepOwners, Plans, LocalOK

\* Only the process that steps has to be looked at again.
LEMMA LocalStep ==
  ASSUME TypeOK, \A q \in Procs : LocalOK(q), NEW p \in Procs, LocalOK(p)',
         pc' = [pc EXCEPT ![p] = pc'[p]], arg' = [arg EXCEPT ![p] = arg'[p]]
  PROVE  \A q \in Procs : LocalOK(q)'
  BY DEF TypeOK, LocalOK

LEMMA GotoForm ==
  ASSUME TypeOK, NEW p \in Procs, NEW step, NEW a, Goto(p, step, a)
  PROVE  /\ pc' = [pc EXCEPT ![p] = pc'[p]] /\ arg' = [arg EXCEPT ![p] = arg'[p]]
         /\ pc'[p] = step /\ arg'[p] = a
  BY DEF TypeOK, Goto

\* What Plan remembers, and where the offer stands when the table lets it plan.
LEMMA PlanMemory ==
  ASSUME TypeOK, NEW p \in Procs, NEW event, NEW actor, NEW step, Plan(p, event, actor, step)
  PROVE  arg'[p].from = offer /\ arg'[p].r = arg[p].r
  BY PlanFrom

LEMMA PlanOpen ==
  ASSUME TypeOK, NEW p \in Procs, NEW actor, NEW step, Plan(p, "OPEN_DISPUTE", actor, step)
  PROVE  offer \in {"ACTIVE", "PAID_IN_ESCROW"}
  BY PlanFrom, Zenon

LEMMA PlanStart ==
  ASSUME TypeOK, NEW p \in Procs, NEW actor, NEW step, Plan(p, "ENGAGEMENT_STARTED", actor, step)
  PROVE  offer = "PAID_IN_ESCROW"
  BY PlanFrom, Zenon

LEMMA PlanComplete ==
  ASSUME TypeOK, NEW p \in Procs, NEW actor, NEW step,
         Plan(p, "ALL_MILESTONES_RELEASED", actor, step)
  PROVE  offer = "ACTIVE" /\ allSettled
  BY PlanFrom, Zenon

LEMMA PlanForm ==
  ASSUME TypeOK, NEW p \in Procs, NEW event, NEW actor, NEW step, Plan(p, event, actor, step)
  PROVE  /\ pc' = [pc EXCEPT ![p] = pc'[p]] /\ arg' = [arg EXCEPT ![p] = arg'[p]]
         /\ pc'[p] = step
  BY PlanFrom DEF TypeOK

LEMMA ReturnLocal ==
  ASSUME TypeOK, \A q \in Procs : LocalOK(q), NEW p \in Procs, Return(p)
  PROVE  \A q \in Procs : LocalOK(q)'
<1>1. pc'[p] = "idle"
  BY GotoForm DEF Return
<1>2. LocalOK(p)'
  BY <1>1 DEF LocalOK, AdminSteps
<1> QED BY <1>2, GotoForm, LocalStep DEF Return

\* Steps whose process needs neither an owner nor a plan.
LEMMA FreeGoto ==
  ASSUME TypeOK, \A q \in Procs : LocalOK(q), NEW p \in Procs, NEW a,
         NEW step \in {"idle", "report", "ticket", "count", "complete", "completeOffer"},
         Goto(p, step, a)
  PROVE  \A q \in Procs : LocalOK(q)'
<1>1. LocalOK(p)'
  BY GotoForm DEF LocalOK, AdminSteps
<1> QED BY <1>1, GotoForm, LocalStep

LEMMA PartyLocal ==
  ASSUME TypeOK, \A q \in Procs : LocalOK(q), NEW p \in Parties, PartyRequest(p) \/ PartyStep(p)
  PROVE  \A q \in Procs : LocalOK(q)'
<1>0. p \in Procs
  BY DEF Procs
<1>1. CASE FlagCoachNoShow(p) \/ FreezePendingMilestones(p) \/ ApproveMilestoneRelease(p)
  BY <1>0, <1>1, FreeGoto DEF FlagCoachNoShow, FreezePendingMilestones, ApproveMilestoneRelease
<1>2. CASE CreateTicket(p) \/ MarkMilestoneCompleted(p) \/ MilestoneActionFails(p)
  BY <1>0, <1>2, ReturnLocal DEF CreateTicket, MarkMilestoneCompleted, MilestoneActionFails
<1>3. ASSUME Plan(p, "OPEN_DISPUTE", "STUDENT", "freeze") PROVE \A q \in Procs : LocalOK(q)'
  <2>1. pc'[p] = "freeze"
    BY <1>0, <1>3, PlanForm
  <2>2. arg'[p].from \in {"ACTIVE", "PAID_IN_ESCROW"}
    BY <1>0, <1>3, PlanMemory, PlanOpen
  <2>3. LocalOK(p)'
    BY <2>1, <2>2 DEF LocalOK, AdminSteps
  <2> QED BY <1>0, <1>3, <2>3, PlanForm, LocalStep
<1>4. CASE OpenDispute(p) \/ ReportNoShow(p)
  BY <1>0, <1>3, <1>4, ReturnLocal DEF OpenDispute, ReportNoShow
<1>5. CASE MarkLoad(p)
  <2>1. PICK m \in Milestones : Goto(p, "mark", [NoArgs EXCEPT !.m = m, !.was = milestone[m], !.t = now])
    BY <1>5 DEF MarkLoad
  <2>2. /\ pc'[p] = "mark"
        /\ arg'[p] = [NoArgs EXCEPT !.m = m, !.was = milestone[m], !.t = now]
    BY <1>0, <2>1, GotoForm
  <2>. arg'[p].m = m
    BY <2>2 DEF NoArgs
  <2>3. LocalOK(p)'
    BY <2>2 DEF LocalOK, AdminSteps
  <2> QED BY <1>0, <2>1, <2>3, GotoForm, LocalStep
<1>6. CASE ApproveLoad(p)
  <2>1. PICK m \in Milestones : Goto(p, "approve", [NoArgs EXCEPT !.m = m])
    BY <1>6 DEF ApproveLoad
  <2>2. arg'[p].m = m /\ pc'[p] = "approve"
    BY <1>0, <2>1, GotoForm DEF NoArgs
  <2>3. LocalOK(p)'
    BY <2>2 DEF LocalOK, AdminSteps
  <2> QED BY <1>0, <2>1, <2>3, GotoForm, LocalStep
<1> QED BY <1>1, <1>2, <1>4, <1>5, <1>6 DEF PartyRequest, PartyStep

LEMMA WorkerLocal ==
  ASSUME TypeOK, \A q \in Procs : LocalOK(q), NEW w \in Workers, WorkerPass(w) \/ WorkerStep(w)
  PROVE  \A q \in Procs : LocalOK(q)'
<1>0. w \in Procs
  BY DEF Procs
<1>1. CASE StartEngagement(w)
  <2>0. Plan(w, "ENGAGEMENT_STARTED", "SYSTEM", "start")
    BY <1>1 DEF StartEngagement
  <2>1. pc'[w] = "start" /\ arg'[w].from = "PAID_IN_ESCROW"
    BY <1>0, <2>0, PlanMemory, PlanStart, PlanForm
  <2>2. LocalOK(w)'
    BY <2>1 DEF LocalOK, AdminSteps
  <2> QED BY <1>0, <2>0, <2>2, PlanForm, LocalStep
<1>2. CASE ActivateMilestone(w) \/ CloseMilestone(w)
  BY <1>2 DEF ActivateMilestone, CloseMilestone, LocalOK
<1>3. CASE AutoReleaseCandidate(w)
  <2>1. PICK m \in Milestones : Goto(w, "release", [NoArgs EXCEPT !.m = m, !.t = now])
    BY <1>3 DEF AutoReleaseCandidate, releaseDue
  <2>2. pc'[w] = "release" /\ arg'[w] = [NoArgs EXCEPT !.m = m, !.t = now]
    BY <1>0, <2>1, GotoForm
  <2>. arg'[w].m = m
    BY <2>2 DEF NoArgs
  <2>3. LocalOK(w)'
    BY <2>2 DEF LocalOK, AdminSteps
  <2> QED BY <1>0, <2>1, <2>3, GotoForm, LocalStep
<1>4. CASE EngagementStarted(w) \/ ReleaseSkipped(w)
  BY <1>0, <1>4, ReturnLocal DEF EngagementStarted, ReleaseSkipped
<1>5. CASE ReleaseOne(w)
  BY <1>0, <1>5, FreeGoto DEF ReleaseOne
<1> QED BY <1>1, <1>2, <1>3, <1>4, <1>5 DEF WorkerPass, WorkerStep

LEMMA CompletionLocal ==
  ASSUME TypeOK, \A q \in Procs : LocalOK(q), NEW p \in Procs, CompletionStep(p)
  PROVE  \A q \in Procs : LocalOK(q)'
<1>1. CASE CountOutstanding(p) \/ CompleteEngagement(p)
  BY <1>1, FreeGoto, ReturnLocal DEF CountOutstanding, CompleteEngagement
<1>2. CASE CompleteEngagementLost(p) \/ OfferCompleted(p)
  BY <1>2, ReturnLocal DEF CompleteEngagementLost, OfferCompleted
<1>3. ASSUME Plan(p, "ALL_MILESTONES_RELEASED", "SYSTEM", "finish")
      PROVE \A q \in Procs : LocalOK(q)'
  <2>1. pc'[p] = "finish" /\ arg'[p].from = "ACTIVE"
    BY <1>3, PlanMemory, PlanComplete, PlanForm
  <2>2. LocalOK(p)'
    BY <2>1 DEF LocalOK, AdminSteps
  <2> QED BY <1>3, <2>2, PlanForm, LocalStep
<1>4. CASE CompleteOffer(p)
  BY <1>3, <1>4, ReturnLocal DEF CompleteOffer
<1> QED BY <1>1, <1>2, <1>3, <1>4 DEF CompletionStep

LEMMA AdminLocal ==
  ASSUME TypeOK, \A q \in Procs : LocalOK(q), NEW a \in Admins, ResolveDispute(a) \/ AdminStep(a)
  PROVE  \A q \in Procs : LocalOK(q)'
<1>0. a \in Procs /\ arg[a] \in Args
  BY DEF Procs, TypeOK
<1>1. CASE ResolveDispute(a)
  <2>1. PICK d \in openDisputes, r \in Resolutions :
          Goto(a, IF r = "SPLIT" THEN "split" ELSE "plan", [NoArgs EXCEPT !.d = d, !.r = r, !.t = now])
    BY <1>1 DEF ResolveDispute
  <2>2. /\ pc'[a] = IF r = "SPLIT" THEN "split" ELSE "plan"
        /\ arg'[a] = [NoArgs EXCEPT !.d = d, !.r = r, !.t = now]
    BY <1>0, <2>1, GotoForm
  <2>. arg'[a].r = r
    BY <2>2 DEF NoArgs
  <2>3. LocalOK(a)'
    BY <2>2 DEF LocalOK, AdminSteps
  <2> QED BY <1>0, <2>1, <2>3, GotoForm, LocalStep
<1>2. CASE SplitRead(a)
  <2>1. pc[a] = "split" /\ \E F : Goto(a, "splitting", [arg[a] EXCEPT !.frozen = F])
    BY <1>2 DEF SplitRead
  <2>2. arg'[a].r = "SPLIT" /\ pc'[a] = "splitting"
    BY <1>0, <2>1, GotoForm DEF LocalOK, Args
  <2>3. LocalOK(a)'
    BY <2>2 DEF LocalOK, AdminSteps
  <2> QED BY <1>0, <2>1, <2>3, GotoForm, LocalStep
<1>3. ASSUME NEW step \in {"plan", "settling", "close"}, NEW x, Goto(a, step, x)
      PROVE \A q \in Procs : LocalOK(q)'
  <2>1. LocalOK(a)'
    BY <1>0, <1>3, GotoForm DEF LocalOK, AdminSteps
  <2> QED BY <1>0, <1>3, <2>1, GotoForm, LocalStep
<1>4. CASE SettleSplit(a) \/ SettleRead(a) \/ ReleaseRemainingMilestones(a)
  BY <1>3, <1>4 DEF SettleSplit, SettleRead, ReleaseRemainingMilestones
<1>5. CASE RefundUnreleasedEscrow(a)
  BY <1>0, <1>3, <1>5, ReturnLocal DEF RefundUnreleasedEscrow
<1>6. CASE SplitLost(a) \/ CloseTicket(a)
  BY <1>0, <1>6, ReturnLocal DEF SplitLost, CloseTicket
<1>7. ASSUME Plan(a, ResolutionEvent(arg[a].r), "ADMIN", "settle")
      PROVE \A q \in Procs : LocalOK(q)'
  <2>1. LocalOK(a)'
    BY <1>0, <1>7, PlanFrom, PlanForm DEF LocalOK, AdminSteps, ResolutionEvent
  <2> QED BY <1>0, <1>7, <2>1, PlanForm, LocalStep
<1>8. CASE ResolvePlan(a)
  BY <1>0, <1>7, <1>8, ReturnLocal DEF ResolvePlan
<1> QED BY <1>1, <1>2, <1>4, <1>5, <1>6, <1>8 DEF AdminStep

LEMMA ControlInductive ==
  ASSUME TypeOK, StepOwners, Plans, [Next]_vars
  PROVE  StepOwners' /\ Plans'
<1>0. \A q \in Procs : LocalOK(q)
  BY LocalSplit
<1> SUFFICES \A q \in Procs : LocalOK(q)'
  BY DEF StepOwners, Plans, LocalOK
<1>1. CASE Tick \/ MoveSession \/ UNCHANGED vars
  BY <1>0, <1>1 DEF Tick, MoveSession, vars, LocalOK
<1>2. CASE \E p \in Procs : Crash(p) \/ TransitionLost(p)
  BY <1>0, <1>2, ReturnLocal DEF Crash, TransitionLost
<1>3. CASE \E p \in Parties : PartyRequest(p) \/ PartyStep(p)
  BY <1>0, <1>3, PartyLocal
<1>4. CASE \E w \in Workers : WorkerPass(w) \/ WorkerStep(w)
  BY <1>0, <1>4, WorkerLocal
<1>5. CASE \E p \in Procs : CompletionStep(p)
  BY <1>0, <1>5, CompletionLocal
<1>6. CASE \E a \in Admins : ResolveDispute(a) \/ AdminStep(a)
  BY <1>0, <1>6, AdminLocal
<1> QED BY <1>1, <1>2, <1>3, <1>4, <1>5, <1>6 DEF Next, Handler

-------------------------------------------------------------------------------
(* What one step does to the milestones and the ledger *)

\* The rows are left alone.
Still == UNCHANGED milestone /\ UNCHANGED released /\ UNCHANGED refunded

\* A milestone's work goes on.
Work(m) == /\ milestone[m] \in {"SCHEDULED", "IN_PROGRESS"}
           /\ \E s \in Freezable : milestone' = [milestone EXCEPT ![m] = s]
           /\ UNCHANGED released /\ UNCHANGED refunded

\* Every milestone that is not settled is frozen.
Freeze == /\ milestone' = [m \in Milestones |->
                             IF milestone[m] \in Freezable THEN "DISPUTED" ELSE milestone[m]]
          /\ UNCHANGED released /\ UNCHANGED refunded

\* One milestone is paid out without a dispute.
PayOne(m) == milestone[m] = "PENDING_CONFIRMATION" /\ PostRelease(m)

\* Every frozen milestone is settled in full.
SettleFrozen ==
  \A m \in Milestones :
    \/ /\ m \in Frozen /\ milestone'[m] \in Settled
       /\ \E share \in Nat : /\ share <= Amount[m]
                             /\ released'[m] = released[m] + share
                             /\ refunded'[m] = refunded[m] + (Amount[m] - share)
    \/ /\ m \notin Frozen /\ milestone'[m] = milestone[m]
       /\ released'[m] = released[m] /\ refunded'[m] = refunded[m]

LEMMA PartyMoves ==
  ASSUME TypeOK, Plans, NEW p \in Procs, PartyRequest(p) \/ PartyStep(p)
  PROVE  \/ Still
         \/ \E m \in Milestones : Work(m)
         \/ FreezePendingMilestones(p) /\ Freeze
         \/ \E m \in Milestones : PayOne(m)
<1>1. CASE FlagCoachNoShow(p)
  BY <1>1 DEF FlagCoachNoShow, Still, ledger
<1>2. CASE OpenDispute(p) \/ MarkLoad(p) \/ ApproveLoad(p) \/ ReportNoShow(p)
           \/ MilestoneActionFails(p)
  BY <1>2 DEF OpenDispute, MarkLoad, ApproveLoad, ReportNoShow, MilestoneActionFails,
     Still, db, rows, ledger
<1>3. CASE FreezePendingMilestones(p)
  BY <1>3 DEF FreezePendingMilestones, Freeze, ledger
<1>4. CASE CreateTicket(p)
  BY <1>4 DEF CreateTicket, Still, rows, ledger
<1>5. CASE MarkMilestoneCompleted(p)
  <2>1. arg[p].m \in Milestones
    BY <1>5 DEF MarkMilestoneCompleted, Plans
  <2> QED BY <1>5, <2>1 DEF MarkMilestoneCompleted, Still, Work, ledger, Freezable
<1>6. CASE ApproveMilestoneRelease(p)
  <2>1. arg[p].m \in Milestones
    BY <1>6 DEF ApproveMilestoneRelease, Plans
  <2> QED BY <1>6, <2>1 DEF ApproveMilestoneRelease, PayOne
<1> QED BY <1>1, <1>2, <1>3, <1>4, <1>5, <1>6 DEF PartyRequest, PartyStep

LEMMA WorkerMoves ==
  ASSUME TypeOK, Plans, NEW w \in Procs, WorkerPass(w) \/ WorkerStep(w)
  PROVE  \/ Still
         \/ \E m \in Milestones : Work(m)
         \/ \E m \in Milestones : PayOne(m)
<1>1. CASE StartEngagement(w) \/ AutoReleaseCandidate(w) \/ ReleaseSkipped(w)
  BY <1>1 DEF StartEngagement, AutoReleaseCandidate, ReleaseSkipped, Still, db, rows, ledger
<1>2. CASE EngagementStarted(w)
  BY <1>2 DEF EngagementStarted, Still, rows, ledger
<1>3. CASE ActivateMilestone(w)
  BY <1>3 DEF ActivateMilestone, activateDue, Work, Freezable, ledger
<1>4. CASE CloseMilestone(w)
  BY <1>4 DEF CloseMilestone, closeDue, Work, Freezable, ledger
<1>5. CASE ReleaseOne(w)
  <2>1. arg[w].m \in Milestones
    BY <1>5 DEF ReleaseOne, Plans
  <2> QED BY <1>5, <2>1 DEF ReleaseOne, PayOne
<1> QED BY <1>1, <1>2, <1>3, <1>4, <1>5 DEF WorkerPass, WorkerStep

LEMMA CompletionMoves ==
  ASSUME NEW p \in Procs, CompletionStep(p)
  PROVE  Still
  BY DEF CompletionStep, CountOutstanding, CompleteEngagement, CompleteEngagementLost,
     CompleteOffer, OfferCompleted, Still, db, rows, ledger

LEMMA AdminMoves ==
  ASSUME TypeOK, RowsStillFrozen, NEW a \in Procs, ResolveDispute(a) \/ AdminStep(a)
  PROVE  \/ Still
         \/ /\ SettleFrozen
            /\ SettleSplit(a) \/ ReleaseRemainingMilestones(a) \/ RefundUnreleasedEscrow(a)
<1>1. CASE ResolveDispute(a) \/ SplitRead(a) \/ SplitLost(a) \/ ResolvePlan(a) \/ SettleRead(a)
  BY <1>1 DEF ResolveDispute, SplitRead, SplitLost, ResolvePlan, SettleRead, Still, db, rows,
     ledger
<1>2. CASE CloseTicket(a)
  BY <1>2 DEF CloseTicket, Still, rows, ledger
<1>3. Amount \in [Milestones -> Nat]
  BY AmountAssumption
<1>4. CASE SettleSplit(a)
  <2>1. arg[a].frozen = Frozen
    BY <1>4 DEF SettleSplit, RowsStillFrozen
  <2>2. PICK pay \in Walks(Frozen) :
          /\ milestone' = [m \in Milestones |->
                             IF m \notin Frozen THEN milestone[m]
                             ELSE IF pay[m] = Amount[m] THEN "RELEASED" ELSE "REFUNDED"]
          /\ released' = [m \in Milestones |->
                            IF m \in Frozen THEN released[m] + pay[m] ELSE released[m]]
          /\ refunded' = [m \in Milestones |->
                            IF m \in Frozen THEN refunded[m] + (Amount[m] - pay[m])
                                            ELSE refunded[m]]
    BY <1>4, <2>1 DEF SettleSplit
  <2>3. Frozen \in SUBSET Milestones
    BY DEF Frozen
  <2>4. SUFFICES SettleFrozen
    BY <1>4
  <2>5. SUFFICES ASSUME NEW m \in Milestones
                 PROVE  \/ /\ m \in Frozen /\ milestone'[m] \in Settled
                           /\ \E share \in Nat :
                                /\ share <= Amount[m]
                                /\ released'[m] = released[m] + share
                                /\ refunded'[m] = refunded[m] + (Amount[m] - share)
                        \/ /\ m \notin Frozen /\ milestone'[m] = milestone[m]
                           /\ released'[m] = released[m] /\ refunded'[m] = refunded[m]
    BY DEF SettleFrozen
  <2>6. CASE m \notin Frozen
    BY <2>2, <2>6
  <2>7. CASE m \in Frozen
    <3>1. pay[m] \in Nat /\ pay[m] <= Amount[m]
      BY <2>3, <2>7, WalkType
    <3> QED BY <2>2, <2>7, <3>1 DEF Settled
  <2> QED BY <2>6, <2>7
<1>5. CASE ReleaseRemainingMilestones(a)
  <2>1. arg[a].frozen = Frozen
    BY <1>5 DEF ReleaseRemainingMilestones, RowsStillFrozen
  <2>2. SettleFrozen
    <3>0. /\ milestone' = [m \in Milestones |->
                             IF m \in Frozen THEN "RELEASED" ELSE milestone[m]]
          /\ released' = [m \in Milestones |->
                            IF m \in Frozen THEN released[m] + Amount[m] ELSE released[m]]
          /\ refunded' = refunded
      BY <1>5, <2>1 DEF ReleaseRemainingMilestones
    <3>1. SUFFICES ASSUME NEW m \in Milestones, m \in Frozen
                   PROVE  /\ milestone'[m] \in Settled
                          /\ released'[m] = released[m] + Amount[m]
                          /\ refunded'[m] = refunded[m] + (Amount[m] - Amount[m])
      BY <1>3, <3>0 DEF SettleFrozen
    <3>2. Amount[m] - Amount[m] = 0 /\ refunded[m] + 0 = refunded[m]
      BY <1>3 DEF TypeOK
    <3> QED BY <3>0, <3>1, <3>2 DEF Settled
  <2> QED BY <1>5, <2>2
<1>6. CASE RefundUnreleasedEscrow(a)
  <2>1. arg[a].frozen = Frozen
    BY <1>6 DEF RefundUnreleasedEscrow, RowsStillFrozen
  <2>2. CASE Frozen = {}
    BY <1>6, <2>1, <2>2 DEF RefundUnreleasedEscrow, Still
  <2>3. CASE Frozen # {}
    <3>0. /\ milestone' = [m \in Milestones |->
                             IF m \in Frozen THEN "REFUNDED" ELSE milestone[m]]
          /\ refunded' = [m \in Milestones |->
                            IF m \in Frozen THEN refunded[m] + Amount[m] ELSE refunded[m]]
          /\ released' = released
      BY <1>6, <2>1, <2>3 DEF RefundUnreleasedEscrow
    <3>1. SettleFrozen
      <4>1. SUFFICES ASSUME NEW m \in Milestones, m \in Frozen
                     PROVE  /\ milestone'[m] \in Settled
                            /\ released'[m] = released[m] + 0
                            /\ refunded'[m] = refunded[m] + (Amount[m] - 0)
        BY <1>3, <3>0 DEF SettleFrozen
      <4>2. Amount[m] - 0 = Amount[m] /\ released[m] + 0 = released[m]
        BY <1>3 DEF TypeOK
      <4> QED BY <3>0, <4>1, <4>2 DEF Settled
    <3> QED BY <1>6, <3>1
  <2> QED BY <2>2, <2>3
<1> QED BY <1>1, <1>2, <1>4, <1>5, <1>6 DEF AdminStep

LEMMA StepMoves ==
  ASSUME TypeOK, Plans, RowsStillFrozen, [Next]_vars
  PROVE  \/ Still
         \/ \E m \in Milestones : Work(m)
         \/ Freeze /\ \E p \in Parties : FreezePendingMilestones(p)
         \/ \E m \in Milestones : PayOne(m)
         \/ /\ SettleFrozen
            /\ \E a \in Admins : \/ SettleSplit(a) \/ ReleaseRemainingMilestones(a)
                                 \/ RefundUnreleasedEscrow(a)
<1>0. Parties \subseteq Procs /\ Workers \subseteq Procs /\ Admins \subseteq Procs
  BY DEF Procs
<1>1. CASE Tick \/ MoveSession \/ UNCHANGED vars
  BY <1>1 DEF Tick, MoveSession, vars, db, rows, ledger, Still
<1>2. CASE \E p \in Procs : Crash(p) \/ TransitionLost(p)
  BY <1>2 DEF Crash, TransitionLost, db, rows, ledger, Still
<1>3. CASE \E p \in Parties : PartyRequest(p) \/ PartyStep(p)
  BY <1>0, <1>3, PartyMoves
<1>4. CASE \E w \in Workers : WorkerPass(w) \/ WorkerStep(w)
  BY <1>0, <1>4, WorkerMoves
<1>5. CASE \E p \in Procs : CompletionStep(p)
  BY <1>5, CompletionMoves
<1>6. CASE \E a \in Admins : ResolveDispute(a) \/ AdminStep(a)
  BY <1>0, <1>6, AdminMoves
<1> QED BY <1>0, <1>1, <1>2, <1>3, <1>4, <1>5, <1>6 DEF Next, Handler

\* A settled milestone stays as it is, and a frozen one is only ever settled.
LEMMA Progress ==
  ASSUME TypeOK, Plans, RowsStillFrozen, [Next]_vars, NEW m \in Milestones
  PROVE  /\ milestone[m] \in Settled => milestone'[m] = milestone[m]
         /\ milestone[m] = "DISPUTED" => milestone'[m] \in Settled \cup {"DISPUTED"}
<1>1. CASE Still
  BY <1>1 DEF Still
<1>2. ASSUME NEW k \in Milestones, Work(k) PROVE
        /\ milestone[m] \in Settled => milestone'[m] = milestone[m]
        /\ milestone[m] = "DISPUTED" => milestone'[m] \in Settled \cup {"DISPUTED"}
  BY <1>2 DEF Work, TypeOK, Settled
<1>3. CASE Freeze
  BY <1>3 DEF Freeze, Settled, Freezable
<1>4. ASSUME NEW k \in Milestones, PayOne(k) PROVE
        /\ milestone[m] \in Settled => milestone'[m] = milestone[m]
        /\ milestone[m] = "DISPUTED" => milestone'[m] \in Settled \cup {"DISPUTED"}
  BY <1>4 DEF PayOne, PostRelease, TypeOK, Settled
<1>5. CASE SettleFrozen
  BY <1>5 DEF SettleFrozen, Frozen, Settled
<1> QED BY <1>1, <1>2, <1>3, <1>4, <1>5, StepMoves

LEMMA Stable ==
  ASSUME TypeOK, Plans, RowsStillFrozen, [Next]_vars
  PROVE  (NoneFreezable => NoneFreezable') /\ (allSettled => allSettled')
<1>1. NoneFreezable => NoneFreezable'
  BY Progress DEF NoneFreezable
<1>2. allSettled => allSettled'
  BY Progress DEF allSettled
<1> QED BY <1>1, <1>2

-------------------------------------------------------------------------------
(* Each milestone is paid out once *)

LEMMA SettledOnceInductive ==
  ASSUME TypeOK, Plans, RowsStillFrozen, SettledOnce, [Next]_vars
  PROVE  SettledOnce'
<1> SUFFICES ASSUME NEW m \in Milestones
             PROVE  released'[m] + refunded'[m] =
                      IF milestone'[m] \in Settled THEN Amount[m] ELSE 0
  BY DEF SettledOnce
<1>0. /\ released[m] + refunded[m] = IF milestone[m] \in Settled THEN Amount[m] ELSE 0
      /\ released[m] \in Nat /\ refunded[m] \in Nat /\ Amount[m] \in Nat
  BY AmountAssumption DEF SettledOnce, TypeOK
<1>1. CASE Still
  BY <1>0, <1>1 DEF Still
<1>2. ASSUME NEW k \in Milestones, Work(k)
      PROVE  released'[m] + refunded'[m] = IF milestone'[m] \in Settled THEN Amount[m] ELSE 0
  BY <1>0, <1>2 DEF Work, TypeOK, Settled, Freezable
<1>3. CASE Freeze
  BY <1>0, <1>3 DEF Freeze, Settled, Freezable
<1>4. ASSUME NEW k \in Milestones, PayOne(k)
      PROVE  released'[m] + refunded'[m] = IF milestone'[m] \in Settled THEN Amount[m] ELSE 0
  <2>1. CASE k = m
    <3>1. milestone'[m] = "RELEASED" /\ released'[m] = released[m] + Amount[m]
          /\ refunded' = refunded /\ milestone[m] = "PENDING_CONFIRMATION"
      BY <1>4, <2>1 DEF PayOne, PostRelease, TypeOK
    <3> QED BY <1>0, <3>1 DEF Settled
  <2>2. CASE k # m
    BY <1>0, <1>4, <2>2 DEF PayOne, PostRelease, TypeOK
  <2> QED BY <2>1, <2>2
<1>5. CASE SettleFrozen
  <2>1. CASE m \in Frozen
    <3>1. PICK share \in Nat : /\ share <= Amount[m]
                               /\ released'[m] = released[m] + share
                               /\ refunded'[m] = refunded[m] + (Amount[m] - share)
      BY <1>5, <2>1 DEF SettleFrozen
    <3>2. milestone[m] = "DISPUTED" /\ milestone'[m] \in Settled
      BY <1>5, <2>1 DEF SettleFrozen, Frozen
    <3> QED BY <1>0, <3>1, <3>2 DEF Settled
  <2>2. CASE m \notin Frozen
    BY <1>0, <1>5, <2>2 DEF SettleFrozen
  <2> QED BY <2>1, <2>2
<1> QED BY <1>1, <1>2, <1>3, <1>4, <1>5, StepMoves

-------------------------------------------------------------------------------
(* The freeze comes before everything else a dispute brings *)

Contested == \/ offer = "DISPUTED"
             \/ openDisputes # {}
             \/ \E p \in Procs : pc[p] \in AdminSteps \cup {"ticket"}

\* A step that leaves the tickets alone, does not put the offer in dispute, and takes its
\* process to a step outside the admin's work.
LEMMA CalmStep ==
  ASSUME TypeOK, NEW p \in Procs, NEW step, NEW a, Goto(p, step, a),
         step \notin AdminSteps \cup {"ticket"} \/ pc[p] \in AdminSteps \cup {"ticket"},
         dispute' = dispute, offer' = offer \/ offer' # "DISPUTED"
  PROVE  Contested' => Contested
<1>1. pc' = [pc EXCEPT ![p] = pc'[p]] /\ pc'[p] = step
  BY GotoForm
<1> QED BY <1>1 DEF Contested, openDisputes, TypeOK

LEMMA CalmReturn ==
  ASSUME TypeOK, NEW p \in Procs, Return(p),
         dispute' = dispute \/ pc[p] \in AdminSteps \cup {"ticket"},
         offer' = offer \/ offer' # "DISPUTED"
  PROVE  Contested' => Contested
<1>1. pc' = [pc EXCEPT ![p] = pc'[p]] /\ pc'[p] = "idle"
  BY GotoForm DEF Return
<1>2. "idle" \notin AdminSteps \cup {"ticket"}
  BY DEF AdminSteps
<1> QED BY <1>1, <1>2 DEF Contested, openDisputes, TypeOK

LEMMA PartyContested ==
  ASSUME TypeOK, NEW p \in Parties, PartyRequest(p) \/ PartyStep(p), Contested'
  PROVE  Contested \/ FreezePendingMilestones(p)
<1>0. p \in Procs
  BY DEF Procs
<1>1. CASE FlagCoachNoShow(p) \/ MarkLoad(p) \/ ApproveLoad(p) \/ ApproveMilestoneRelease(p)
  BY <1>0, <1>1, CalmStep DEF FlagCoachNoShow, MarkLoad, ApproveLoad, ApproveMilestoneRelease,
     db, AdminSteps
<1>2. ASSUME Plan(p, "OPEN_DISPUTE", "STUDENT", "freeze"), UNCHANGED db
      PROVE  Contested
  BY <1>0, <1>2, CalmStep DEF Plan, db, AdminSteps
<1>3. CASE OpenDispute(p)
  BY <1>2, <1>3 DEF OpenDispute
<1>4. CASE ReportNoShow(p)
  BY <1>0, <1>2, <1>4, CalmReturn DEF ReportNoShow, db
<1>5. CASE CreateTicket(p)
  BY <1>0, <1>5, CalmReturn DEF CreateTicket
<1>6. CASE MarkMilestoneCompleted(p)
  BY <1>0, <1>6, CalmReturn DEF MarkMilestoneCompleted
<1>7. CASE MilestoneActionFails(p)
  BY <1>0, <1>7, CalmReturn DEF MilestoneActionFails, db
<1> QED BY <1>1, <1>3, <1>4, <1>5, <1>6, <1>7 DEF PartyRequest, PartyStep

LEMMA WorkerContested ==
  ASSUME TypeOK, NEW w \in Workers, WorkerPass(w) \/ WorkerStep(w), Contested'
  PROVE  Contested
<1>0. w \in Procs
  BY DEF Procs
<1>1. CASE StartEngagement(w)
  BY <1>0, <1>1, CalmStep DEF StartEngagement, Plan, db, AdminSteps
<1>2. CASE ActivateMilestone(w) \/ CloseMilestone(w)
  BY <1>2 DEF ActivateMilestone, CloseMilestone, Contested, openDisputes
<1>3. CASE AutoReleaseCandidate(w) \/ ReleaseOne(w)
  BY <1>0, <1>3, CalmStep DEF AutoReleaseCandidate, ReleaseOne, db, AdminSteps
<1>4. CASE EngagementStarted(w) \/ ReleaseSkipped(w)
  BY <1>0, <1>4, CalmReturn DEF EngagementStarted, ReleaseSkipped, db
<1> QED BY <1>1, <1>2, <1>3, <1>4 DEF WorkerPass, WorkerStep

LEMMA CompletionContested ==
  ASSUME TypeOK, NEW p \in Procs, CompletionStep(p), Contested'
  PROVE  Contested
<1>1. CASE CountOutstanding(p) \/ CompleteEngagement(p)
  BY <1>1, CalmStep, CalmReturn DEF CountOutstanding, CompleteEngagement, db, AdminSteps
<1>2. CASE CompleteOffer(p)
  BY <1>2, CalmStep, CalmReturn DEF CompleteOffer, Plan, db, AdminSteps
<1>3. CASE CompleteEngagementLost(p) \/ OfferCompleted(p)
  BY <1>3, CalmReturn DEF CompleteEngagementLost, OfferCompleted, db
<1> QED BY <1>1, <1>2, <1>3 DEF CompletionStep

LEMMA AdminContested ==
  ASSUME NEW a \in Procs, ResolveDispute(a) \/ AdminStep(a)
  PROVE  Contested
<1>1. CASE ResolveDispute(a)
  BY <1>1 DEF ResolveDispute, Contested
<1>2. CASE AdminStep(a)
  <2>1. pc[a] \in AdminSteps
    BY <1>2 DEF AdminStep, SplitRead, SettleSplit, SplitLost, ResolvePlan, SettleRead,
       ReleaseRemainingMilestones, RefundUnreleasedEscrow, CloseTicket, AdminSteps
  <2> QED BY <2>1 DEF Contested
<1> QED BY <1>1, <1>2

LEMMA ContestedByFreeze ==
  ASSUME TypeOK, [Next]_vars, Contested'
  PROVE  Contested \/ \E p \in Parties : FreezePendingMilestones(p)
<1>1. CASE Tick \/ MoveSession \/ UNCHANGED vars
  BY <1>1 DEF Tick, MoveSession, vars, db, Contested, openDisputes
<1>2. CASE \E p \in Procs : Crash(p) \/ TransitionLost(p)
  BY <1>2, CalmReturn DEF Crash, TransitionLost, db
<1>3. CASE \E p \in Parties : PartyRequest(p) \/ PartyStep(p)
  BY <1>3, PartyContested
<1>4. CASE \E w \in Workers : WorkerPass(w) \/ WorkerStep(w)
  BY <1>4, WorkerContested
<1>5. CASE \E p \in Procs : CompletionStep(p)
  BY <1>5, CompletionContested
<1>6. CASE \E a \in Admins : ResolveDispute(a) \/ AdminStep(a)
  BY <1>6, AdminContested DEF Procs
<1> QED BY <1>1, <1>2, <1>3, <1>4, <1>5, <1>6 DEF Next, Handler

LEMMA FreezeFirstInductive ==
  ASSUME TypeOK, Plans, RowsStillFrozen, FreezeComesFirst, [Next]_vars
  PROVE  FreezeComesFirst'
<1> SUFFICES ASSUME Contested' PROVE NoneFreezable'
  BY DEF FreezeComesFirst, Contested
<1>1. CASE Contested
  BY <1>1, Stable DEF FreezeComesFirst, Contested
<1>2. CASE \E p \in Parties : FreezePendingMilestones(p)
  BY <1>2 DEF FreezePendingMilestones, NoneFreezable, TypeOK, MilestoneStatus, Freezable, Settled
<1> QED BY <1>1, <1>2, ContestedByFreeze

-------------------------------------------------------------------------------
(* An admin's transaction still holds the rows that it read *)

\* The admin a has rows in hand, and this step did not put them there: the step left a and, once
\* a holds the offer, the offer alone.
Undisturbed(a) == /\ pc'[a] = pc[a] /\ arg'[a] = arg[a]
                  /\ pc[a] = "settling" => offerLock' = a /\ offer' = "DISPUTED"

InHand == {"splitting", "settling"}

\* A process that goes anywhere but into a transaction, without touching the offer, the lock of
\* another or a transaction of its own.
LEMMA ElsewhereStep ==
  ASSUME TypeOK, RowsStillFrozen, NEW a \in Procs, pc'[a] \in InHand,
         NEW p \in Procs, NEW step, NEW x, Goto(p, step, x), step \notin InHand,
         \/ offer' = offer /\ offerLock' = offerLock
         \/ offer' = offer /\ offerLock = p
         \/ offerLock = NoProc
         \/ pc[p] = "settling"
  PROVE  Undisturbed(a)
<1>1. /\ pc' = [pc EXCEPT ![p] = pc'[p]] /\ arg' = [arg EXCEPT ![p] = arg'[p]]
      /\ pc'[p] = step
  BY GotoForm
<1>2. a # p /\ pc'[a] = pc[a] /\ arg'[a] = arg[a]
  BY <1>1 DEF TypeOK
<1>3. pc[a] = "settling" => offerLock = a /\ offer = "DISPUTED" /\ offer' = offer
                             /\ offerLock' = offerLock
  BY <1>2, ProcAssumption DEF RowsStillFrozen
<1> QED BY <1>2, <1>3 DEF Undisturbed

LEMMA ElsewhereReturn ==
  ASSUME TypeOK, RowsStillFrozen, NEW a \in Procs, pc'[a] \in InHand,
         NEW p \in Procs, Return(p),
         \/ offer' = offer /\ offerLock' = offerLock
         \/ offer' = offer /\ offerLock = p
         \/ offerLock = NoProc
         \/ pc[p] = "settling"
  PROVE  Undisturbed(a)
  BY ElsewhereStep DEF Return, InHand

LEMMA PartyHolders ==
  ASSUME TypeOK, RowsStillFrozen, NEW a \in Procs, pc'[a] \in InHand,
         NEW p \in Procs, PartyRequest(p) \/ PartyStep(p)
  PROVE  Undisturbed(a)
<1>1. CASE FlagCoachNoShow(p) \/ ApproveMilestoneRelease(p) \/ FreezePendingMilestones(p)
  BY <1>1, ElsewhereStep DEF FlagCoachNoShow, ApproveMilestoneRelease, FreezePendingMilestones,
     db, locks, InHand
<1>6. CASE MarkLoad(p)
  <2>1. PICK m \in Milestones : Goto(p, "mark", [NoArgs EXCEPT !.m = m, !.was = milestone[m], !.t = now])
    BY <1>6 DEF MarkLoad
  <2> QED BY <1>6, <2>1, ElsewhereStep DEF MarkLoad, db, locks, InHand
<1>7. CASE ApproveLoad(p)
  <2>1. PICK m \in Milestones : Goto(p, "approve", [NoArgs EXCEPT !.m = m])
    BY <1>7 DEF ApproveLoad
  <2> QED BY <1>7, <2>1, ElsewhereStep DEF ApproveLoad, db, locks, InHand
<1>2. ASSUME Plan(p, "OPEN_DISPUTE", "STUDENT", "freeze"), UNCHANGED <<db, locks>>
      PROVE  Undisturbed(a)
  BY <1>2, ElsewhereStep DEF Plan, db, locks, InHand
<1>3. CASE OpenDispute(p)
  BY <1>2, <1>3 DEF OpenDispute
<1>4. CASE ReportNoShow(p)
  BY <1>2, <1>4, ElsewhereReturn DEF ReportNoShow, db, locks
<1>5. CASE CreateTicket(p) \/ MarkMilestoneCompleted(p) \/ MilestoneActionFails(p)
  BY <1>5, ElsewhereReturn DEF CreateTicket, MarkMilestoneCompleted, MilestoneActionFails,
     db, locks
<1> QED BY <1>1, <1>3, <1>4, <1>5, <1>6, <1>7 DEF PartyRequest, PartyStep

LEMMA WorkerHolders ==
  ASSUME TypeOK, RowsStillFrozen, NEW a \in Procs, pc'[a] \in InHand,
         NEW w \in Procs, WorkerPass(w) \/ WorkerStep(w)
  PROVE  Undisturbed(a)
<1>1. CASE StartEngagement(w)
  BY <1>1, ElsewhereStep DEF StartEngagement, Plan, db, locks, InHand
<1>2. CASE ActivateMilestone(w) \/ CloseMilestone(w)
  BY <1>2 DEF ActivateMilestone, CloseMilestone, Undisturbed, locks, RowsStillFrozen, InHand
<1>3. CASE AutoReleaseCandidate(w)
  <2>1. PICK m \in Milestones : Goto(w, "release", [NoArgs EXCEPT !.m = m, !.t = now])
    BY <1>3 DEF AutoReleaseCandidate, releaseDue
  <2> QED BY <1>3, <2>1, ElsewhereStep DEF AutoReleaseCandidate, db, locks, InHand
<1>5. CASE ReleaseOne(w)
  BY <1>5, ElsewhereStep DEF ReleaseOne, locks, InHand
<1>4. CASE EngagementStarted(w) \/ ReleaseSkipped(w)
  BY <1>4, ElsewhereReturn DEF EngagementStarted, ReleaseSkipped, db, locks
<1> QED BY <1>1, <1>2, <1>3, <1>4, <1>5 DEF WorkerPass, WorkerStep

LEMMA CompletionHolders ==
  ASSUME TypeOK, RowsStillFrozen, NEW a \in Procs, pc'[a] \in InHand,
         NEW p \in Procs, CompletionStep(p)
  PROVE  Undisturbed(a)
<1>1. CASE CountOutstanding(p) \/ CompleteEngagement(p)
  BY <1>1, ElsewhereStep, ElsewhereReturn DEF CountOutstanding, CompleteEngagement, db, locks,
     InHand
<1>2. CASE CompleteOffer(p)
  BY <1>2, ElsewhereStep, ElsewhereReturn DEF CompleteOffer, Plan, db, locks, InHand
<1>3. CASE CompleteEngagementLost(p) \/ OfferCompleted(p)
  BY <1>3, ElsewhereReturn DEF CompleteEngagementLost, OfferCompleted, db, locks
<1> QED BY <1>1, <1>2, <1>3 DEF CompletionStep

LEMMA AdminHolders ==
  ASSUME TypeOK, RowsStillFrozen, NEW a \in Procs, pc'[a] \in InHand,
         NEW b \in Procs, ResolveDispute(b) \/ AdminStep(b)
  PROVE  \/ Undisturbed(a)
         \/ a = b /\ SplitRead(a)
         \/ a = b /\ SettleRead(a)
<1>1. CASE ResolveDispute(b)
  <2>1. PICK d \in openDisputes, r \in Resolutions :
          Goto(b, IF r = "SPLIT" THEN "split" ELSE "plan", [NoArgs EXCEPT !.d = d, !.r = r, !.t = now])
    BY <1>1 DEF ResolveDispute
  <2>2. offer' = offer /\ offerLock' = offerLock
    BY <1>1 DEF ResolveDispute, db, locks
  <2>3. (IF r = "SPLIT" THEN "split" ELSE "plan") \notin InHand
    BY DEF InHand
  <2> QED BY <2>1, <2>2, <2>3, ElsewhereStep
<1>2. CASE SplitRead(b) /\ a # b
  <2>1. /\ pc' = [pc EXCEPT ![b] = pc'[b]] /\ arg' = [arg EXCEPT ![b] = arg'[b]]
    BY <1>2, GotoForm DEF SplitRead
  <2> QED BY <1>2, <2>1 DEF SplitRead, Undisturbed, RowsStillFrozen, db, TypeOK
<1>3. CASE SettleRead(b) /\ a # b
  <2>1. /\ pc' = [pc EXCEPT ![b] = pc'[b]] /\ arg' = [arg EXCEPT ![b] = arg'[b]]
    BY <1>3, GotoForm DEF SettleRead
  <2> QED BY <1>3, <2>1, ProcAssumption DEF SettleRead, Undisturbed, RowsStillFrozen, TypeOK
<1>4. CASE SettleSplit(b)
  BY <1>4, ElsewhereStep DEF SettleSplit, InHand
<1>5. CASE ResolvePlan(b)
  BY <1>5, ElsewhereStep, ElsewhereReturn DEF ResolvePlan, Plan, db, locks, InHand
<1>6. CASE ReleaseRemainingMilestones(b) \/ RefundUnreleasedEscrow(b)
  BY <1>6, ElsewhereStep, ElsewhereReturn DEF ReleaseRemainingMilestones, RefundUnreleasedEscrow,
     InHand
<1>7. CASE SplitLost(b) \/ CloseTicket(b)
  BY <1>7, ElsewhereReturn DEF SplitLost, CloseTicket, db, locks
<1> QED BY <1>1, <1>2, <1>3, <1>4, <1>5, <1>6, <1>7 DEF AdminStep

LEMMA Holders ==
  ASSUME TypeOK, RowsStillFrozen, [Next]_vars, NEW a \in Procs, pc'[a] \in InHand
  PROVE  Undisturbed(a) \/ SplitRead(a) \/ SettleRead(a)
<1>1. CASE Tick \/ MoveSession \/ UNCHANGED vars
  BY <1>1 DEF Tick, MoveSession, vars, db, locks, Undisturbed, RowsStillFrozen, InHand
<1>2. CASE \E p \in Procs : Crash(p)
  <2>1. PICK p \in Procs : Crash(p)
    BY <1>2
  <2>2. Return(p) /\ offer' = offer /\ (offerLock' = offerLock \/ offerLock = p)
    BY <2>1 DEF Crash, db
  <2> QED BY <2>2, ElsewhereReturn
<1>3. CASE \E p \in Procs : TransitionLost(p)
  BY <1>3, ElsewhereReturn DEF TransitionLost, db, locks
<1>4. CASE \E p \in Parties : PartyRequest(p) \/ PartyStep(p)
  BY <1>4, PartyHolders DEF Procs
<1>5. CASE \E w \in Workers : WorkerPass(w) \/ WorkerStep(w)
  BY <1>5, WorkerHolders DEF Procs
<1>6. CASE \E p \in Procs : CompletionStep(p)
  BY <1>6, CompletionHolders
<1>7. CASE \E b \in Admins : ResolveDispute(b) \/ AdminStep(b)
  BY <1>7, AdminHolders DEF Procs
<1> QED BY <1>1, <1>2, <1>3, <1>4, <1>5, <1>6, <1>7 DEF Next, Handler

\* The rows in hand do not move under the admin: others find nothing left to freeze, and a second
\* decision is held off by the offer's lock.
LEMMA FrozenKept ==
  ASSUME TypeOK, StepOwners, Plans, FreezeComesFirst, RowsStillFrozen, Serialized, [Next]_vars,
         NEW a \in Procs, pc[a] \in InHand, pc'[a] \in InHand
  PROVE  Frozen' = Frozen
<1>1. CASE Still
  BY <1>1 DEF Still, Frozen
<1>2. ASSUME NEW m \in Milestones, Work(m) PROVE Frozen' = Frozen
  BY <1>2 DEF Work, Frozen, Freezable, TypeOK
<1>3. CASE Freeze
  <2>1. NoneFreezable
    BY DEF FreezeComesFirst, AdminSteps, InHand
  <2> QED BY <1>3, <2>1 DEF Freeze, NoneFreezable, Freezable, Settled, Frozen
<1>4. ASSUME NEW m \in Milestones, PayOne(m) PROVE Frozen' = Frozen
  BY <1>4 DEF PayOne, PostRelease, Frozen, TypeOK
<1>5. ASSUME NEW b \in Admins,
             SettleSplit(b) \/ ReleaseRemainingMilestones(b) \/ RefundUnreleasedEscrow(b)
      PROVE  FALSE
  <2>0. b \in Procs /\ arg[b] \in Args /\ arg[a] \in Args
    BY DEF Procs, TypeOK
  <2>1. pc[b] \in InHand /\ pc'[b] \notin InHand
    <3>1. pc[b] \in InHand
      BY <1>5 DEF SettleSplit, ReleaseRemainingMilestones, RefundUnreleasedEscrow, InHand
    <3>2. CASE SettleSplit(b) \/ ReleaseRemainingMilestones(b)
      BY <2>0, <3>1, <3>2, GotoForm DEF SettleSplit, ReleaseRemainingMilestones, InHand
    <3>3. CASE RefundUnreleasedEscrow(b)
      BY <2>0, <3>1, <3>3, GotoForm DEF RefundUnreleasedEscrow, Return, InHand
    <3> QED BY <1>5, <3>1, <3>2, <3>3
  <2>2. a # b /\ a \in Admins
    BY <2>1 DEF StepOwners, AdminSteps, InHand
  <2>3. "SPLIT" \notin Resolutions
    BY <2>2 DEF Serialized
  <2>4. pc[a] = "settling" /\ pc[b] = "settling"
    BY <2>0, <2>1, <2>3 DEF Plans, Args, InHand
  <2> QED BY <2>0, <2>2, <2>4 DEF RowsStillFrozen
<1> QED BY <1>1, <1>2, <1>3, <1>4, <1>5, StepMoves

LEMMA RowsInductive ==
  ASSUME TypeOK, StepOwners, Plans, FreezeComesFirst, RowsStillFrozen, Serialized, [Next]_vars
  PROVE  RowsStillFrozen'
<1> SUFFICES ASSUME NEW a \in Procs, pc'[a] \in InHand
             PROVE  /\ arg'[a].frozen = Frozen'
                    /\ pc'[a] = "settling" => offerLock' = a /\ offer' = "DISPUTED"
  BY DEF RowsStillFrozen, InHand
<1>0. arg[a] \in Args
  BY DEF TypeOK
<1>1. CASE Undisturbed(a)
  <2>1. pc[a] \in InHand
    BY <1>1 DEF Undisturbed
  <2>2. arg[a].frozen = Frozen
    BY <2>1 DEF RowsStillFrozen, InHand
  <2> QED BY <1>1, <2>1, <2>2, FrozenKept DEF Undisturbed
<1>2. CASE SplitRead(a)
  <2>1. pc'[a] = "splitting" /\ arg'[a] = [arg[a] EXCEPT !.frozen = Frozen]
    BY <1>2, GotoForm DEF SplitRead, Frozen
  <2>2. Frozen' = Frozen
    BY <1>2 DEF SplitRead, Frozen, db, rows
  <2> QED BY <1>0, <2>1, <2>2 DEF Args
<1>3. CASE SettleRead(a)
  <2>1. NoneFreezable
    BY <1>3 DEF SettleRead, FreezeComesFirst, AdminSteps
  <2>2. /\ pc'[a] = "settling"
        /\ \E found \in {{"DISPUTED"}, Freezable \cup {"DISPUTED"}} :
             arg'[a] = [arg[a] EXCEPT !.frozen = {m \in Milestones : milestone[m] \in found}]
    <3> DEFINE found == IF arg[a].r = "RELEASE" THEN {"DISPUTED"} ELSE Freezable \cup {"DISPUTED"}
    <3>1. Goto(a, "settling",
               [arg[a] EXCEPT !.frozen = {m \in Milestones : milestone[m] \in found}])
      BY <1>3 DEF SettleRead
    <3>2. found \in {{"DISPUTED"}, Freezable \cup {"DISPUTED"}}
      OBVIOUS
    <3> HIDE DEF found
    <3> QED BY <3>1, <3>2, GotoForm
  <2>3. \A found \in {{"DISPUTED"}, Freezable \cup {"DISPUTED"}} :
          {m \in Milestones : milestone[m] \in found} = Frozen
    BY <2>1 DEF NoneFreezable, Freezable, Settled, Frozen
  <2>4. arg'[a] = [arg[a] EXCEPT !.frozen = Frozen]
    BY <2>2, <2>3
  <2>5. arg'[a].frozen = Frozen
    BY <1>0, <2>4 DEF Args
  <2>6. Frozen' = Frozen /\ offer' = offer /\ offerLock' = a /\ offer = arg[a].from
    BY <1>3 DEF SettleRead, Frozen, db, rows
  <2>7. arg[a].from = "DISPUTED"
    BY <1>3 DEF SettleRead, Plans
  <2> QED BY <2>5, <2>6, <2>7
<1> QED BY <1>1, <1>2, <1>3, Holders

-------------------------------------------------------------------------------
(* Completion, disputes and the end of the offer *)

Completing == \E p \in Procs : pc[p] \in CompletionSteps

\* A process begins to complete the engagement only when it has seen all milestones settled.
LEMMA CompletingStep ==
  ASSUME TypeOK, NEW p \in Procs, NEW step, NEW a, Goto(p, step, a),
         step \notin CompletionSteps \/ pc[p] \in CompletionSteps \/ allSettled
  PROVE  Completing' => Completing \/ allSettled
<1>1. pc' = [pc EXCEPT ![p] = pc'[p]] /\ pc'[p] = step
  BY GotoForm
<1> QED BY <1>1 DEF Completing, TypeOK

LEMMA CompletingReturn ==
  ASSUME TypeOK, NEW p \in Procs, Return(p)
  PROVE  Completing' => Completing \/ allSettled
<1>1. "idle" \notin CompletionSteps
  BY DEF CompletionSteps
<1> QED BY <1>1, CompletingStep DEF Return

LEMMA PartyCompleting ==
  ASSUME TypeOK, NEW p \in Procs, PartyRequest(p) \/ PartyStep(p)
  PROVE  Completing' => Completing \/ allSettled
<1>0. \A step \in {"report", "freeze", "ticket", "mark", "approve", "count"} :
        step \notin CompletionSteps
  BY DEF CompletionSteps
<1>1. CASE FlagCoachNoShow(p) \/ ApproveMilestoneRelease(p) \/ FreezePendingMilestones(p)
  BY <1>0, <1>1, CompletingStep DEF FlagCoachNoShow, ApproveMilestoneRelease,
     FreezePendingMilestones
<1>2. CASE Plan(p, "OPEN_DISPUTE", "STUDENT", "freeze")
  BY <1>0, <1>2, CompletingStep DEF Plan
<1>3. CASE OpenDispute(p)
  BY <1>2, <1>3 DEF OpenDispute
<1>4. CASE ReportNoShow(p)
  BY <1>2, <1>4, CompletingReturn DEF ReportNoShow
<1>5. CASE CreateTicket(p) \/ MarkMilestoneCompleted(p) \/ MilestoneActionFails(p)
  BY <1>5, CompletingReturn DEF CreateTicket, MarkMilestoneCompleted, MilestoneActionFails
<1>6. CASE MarkLoad(p)
  <2>1. PICK m \in Milestones : Goto(p, "mark", [NoArgs EXCEPT !.m = m, !.was = milestone[m], !.t = now])
    BY <1>6 DEF MarkLoad
  <2> QED BY <1>0, <2>1, CompletingStep
<1>7. CASE ApproveLoad(p)
  <2>1. PICK m \in Milestones : Goto(p, "approve", [NoArgs EXCEPT !.m = m])
    BY <1>7 DEF ApproveLoad
  <2> QED BY <1>0, <2>1, CompletingStep
<1> QED BY <1>1, <1>3, <1>4, <1>5, <1>6, <1>7 DEF PartyRequest, PartyStep

LEMMA WorkerCompleting ==
  ASSUME TypeOK, NEW w \in Procs, WorkerPass(w) \/ WorkerStep(w)
  PROVE  Completing' => Completing \/ allSettled
<1>1. CASE StartEngagement(w)
  BY <1>1, CompletingStep DEF StartEngagement, Plan, CompletionSteps
<1>2. CASE ActivateMilestone(w) \/ CloseMilestone(w)
  BY <1>2 DEF ActivateMilestone, CloseMilestone, Completing
<1>3. CASE AutoReleaseCandidate(w)
  <2>1. PICK m \in Milestones : Goto(w, "release", [NoArgs EXCEPT !.m = m, !.t = now])
    BY <1>3 DEF AutoReleaseCandidate, releaseDue
  <2> QED BY <2>1, CompletingStep DEF CompletionSteps
<1>4. CASE ReleaseOne(w)
  BY <1>4, CompletingStep DEF ReleaseOne, CompletionSteps
<1>5. CASE EngagementStarted(w) \/ ReleaseSkipped(w)
  BY <1>5, CompletingReturn DEF EngagementStarted, ReleaseSkipped
<1> QED BY <1>1, <1>2, <1>3, <1>4, <1>5 DEF WorkerPass, WorkerStep

LEMMA AdminCompleting ==
  ASSUME TypeOK, NEW a \in Procs, ResolveDispute(a) \/ AdminStep(a)
  PROVE  Completing' => Completing \/ allSettled
<1>0. \A step \in AdminSteps : step \notin CompletionSteps
  BY DEF CompletionSteps, AdminSteps
<1>1. CASE ResolveDispute(a)
  <2>1. PICK d \in openDisputes, r \in Resolutions :
          Goto(a, IF r = "SPLIT" THEN "split" ELSE "plan", [NoArgs EXCEPT !.d = d, !.r = r, !.t = now])
    BY <1>1 DEF ResolveDispute
  <2>2. (IF r = "SPLIT" THEN "split" ELSE "plan") \in AdminSteps
    BY DEF AdminSteps
  <2> QED BY <1>0, <2>1, <2>2, CompletingStep
<1>2. CASE SplitRead(a) \/ SettleRead(a) \/ SettleSplit(a) \/ ReleaseRemainingMilestones(a)
  BY <1>0, <1>2, CompletingStep DEF SplitRead, SettleRead, SettleSplit,
     ReleaseRemainingMilestones, AdminSteps
<1>3. CASE RefundUnreleasedEscrow(a)
  BY <1>0, <1>3, CompletingStep, CompletingReturn DEF RefundUnreleasedEscrow, AdminSteps
<1>4. CASE ResolvePlan(a)
  BY <1>0, <1>4, CompletingStep, CompletingReturn DEF ResolvePlan, Plan, AdminSteps
<1>5. CASE SplitLost(a) \/ CloseTicket(a)
  BY <1>5, CompletingReturn DEF SplitLost, CloseTicket
<1> QED BY <1>1, <1>2, <1>3, <1>4, <1>5 DEF AdminStep

LEMMA CompletionCompleting ==
  ASSUME TypeOK, NEW p \in Procs, CompletionStep(p)
  PROVE  Completing' => Completing \/ allSettled
<1>1. CASE CountOutstanding(p)
  BY <1>1, CompletingStep, CompletingReturn DEF CountOutstanding
<1>2. CASE pc[p] \in CompletionSteps
  BY <1>2 DEF Completing
<1> QED BY <1>1, <1>2 DEF CompletionStep, CompleteEngagement, CompleteEngagementLost,
        CompleteOffer, OfferCompleted, CompletionSteps

LEMMA CompletionLastInductive ==
  ASSUME TypeOK, Plans, RowsStillFrozen, CompletionComesLast, [Next]_vars
  PROVE  CompletionComesLast'
<1>1. Completing' => Completing \/ allSettled
  <2>1. CASE Tick \/ MoveSession \/ UNCHANGED vars
    BY <2>1 DEF Tick, MoveSession, vars, Completing
  <2>2. CASE \E p \in Procs : Crash(p) \/ TransitionLost(p)
    BY <2>2, CompletingReturn DEF Crash, TransitionLost
  <2>3. CASE \E p \in Parties : PartyRequest(p) \/ PartyStep(p)
    BY <2>3, PartyCompleting DEF Procs
  <2>4. CASE \E w \in Workers : WorkerPass(w) \/ WorkerStep(w)
    BY <2>4, WorkerCompleting DEF Procs
  <2>5. CASE \E p \in Procs : CompletionStep(p)
    BY <2>5, CompletionCompleting
  <2>6. CASE \E a \in Admins : ResolveDispute(a) \/ AdminStep(a)
    BY <2>6, AdminCompleting DEF Procs
  <2> QED BY <2>1, <2>2, <2>3, <2>4, <2>5, <2>6 DEF Next, Handler
<1> QED BY <1>1, Stable DEF CompletionComesLast, Completing

\* Where the offer's status and the engagement's come from.
LEMMA OfferMoves ==
  ASSUME Plans, [Next]_vars
  PROVE  \/ offer' = offer
         \/ offer' = "DISPUTED"
         \/ offer = "PAID_IN_ESCROW" /\ offer' = "ACTIVE"
         \/ offer = "ACTIVE" /\ offer' = "COMPLETED" /\ Completing
         \/ \E a \in Admins : \/ ReleaseRemainingMilestones(a) /\ offer' = "ACTIVE"
                              \/ RefundUnreleasedEscrow(a)
<1>1. CASE Tick \/ MoveSession \/ UNCHANGED vars
  BY <1>1 DEF Tick, MoveSession, vars, db
<1>2. CASE \E p \in Procs : Crash(p) \/ TransitionLost(p)
  BY <1>2 DEF Crash, TransitionLost, db
<1>3. CASE \E p \in Parties : PartyRequest(p) \/ PartyStep(p)
  BY <1>3 DEF PartyRequest, PartyStep, FlagCoachNoShow, OpenDispute, MarkLoad, ApproveLoad,
     ReportNoShow, FreezePendingMilestones, CreateTicket, MarkMilestoneCompleted,
     ApproveMilestoneRelease, MilestoneActionFails, db
<1>4. CASE \E w \in Workers : WorkerPass(w) \/ WorkerStep(w)
  BY <1>4 DEF WorkerPass, WorkerStep, StartEngagement, ActivateMilestone, CloseMilestone,
     AutoReleaseCandidate, EngagementStarted, ReleaseOne, ReleaseSkipped, Plans, Procs, db
<1>5. CASE \E p \in Procs : CompletionStep(p)
  BY <1>5 DEF CompletionStep, CountOutstanding, CompleteEngagement, CompleteEngagementLost,
     CompleteOffer, OfferCompleted, Plans, Completing, CompletionSteps, db
<1>6. CASE \E a \in Admins : ResolveDispute(a) \/ AdminStep(a)
  BY <1>6 DEF ResolveDispute, AdminStep, SplitRead, SettleSplit, SplitLost, ResolvePlan,
     SettleRead, ReleaseRemainingMilestones, CloseTicket, db
<1> QED BY <1>1, <1>2, <1>3, <1>4, <1>5, <1>6 DEF Next, Handler

LEMMA EngagementMoves ==
  ASSUME [Next]_vars
  PROVE  \/ engagement' = engagement
         \/ engagement' = "ACTIVE"
         \/ engagement' = "DISPUTED" /\ offer' = "DISPUTED"
         \/ engagement' = "COMPLETED" /\ Completing
         \/ \E a \in Admins : SettleSplit(a) \/ RefundUnreleasedEscrow(a)
<1>1. CASE Tick \/ MoveSession \/ UNCHANGED vars
  BY <1>1 DEF Tick, MoveSession, vars, db
<1>2. CASE \E p \in Procs : Crash(p) \/ TransitionLost(p)
  BY <1>2 DEF Crash, TransitionLost, db
<1>3. CASE \E p \in Parties : PartyRequest(p) \/ PartyStep(p)
  BY <1>3 DEF PartyRequest, PartyStep, FlagCoachNoShow, OpenDispute, MarkLoad, ApproveLoad,
     ReportNoShow, FreezePendingMilestones, CreateTicket, MarkMilestoneCompleted,
     ApproveMilestoneRelease, MilestoneActionFails, db
<1>4. CASE \E w \in Workers : WorkerPass(w) \/ WorkerStep(w)
  BY <1>4 DEF WorkerPass, WorkerStep, StartEngagement, ActivateMilestone, CloseMilestone,
     AutoReleaseCandidate, EngagementStarted, ReleaseOne, ReleaseSkipped, db
<1>5. CASE \E p \in Procs : CompletionStep(p)
  BY <1>5 DEF CompletionStep, CountOutstanding, CompleteEngagement, CompleteEngagementLost,
     CompleteOffer, OfferCompleted, Completing, CompletionSteps, db
<1>6. CASE \E a \in Admins : ResolveDispute(a) \/ AdminStep(a)
  BY <1>6 DEF ResolveDispute, AdminStep, SplitRead, SplitLost, ResolvePlan,
     SettleRead, ReleaseRemainingMilestones, CloseTicket, db
<1> QED BY <1>1, <1>2, <1>3, <1>4, <1>5, <1>6 DEF Next, Handler

\* An admin's decision settles everything that was still in escrow.
LEMMA DecisionSettlesAll ==
  ASSUME TypeOK, FreezeComesFirst, RowsStillFrozen, NEW a \in Procs,
         SettleSplit(a) \/ ReleaseRemainingMilestones(a) \/ RefundUnreleasedEscrow(a)
  PROVE  allSettled'
<1>1. NoneFreezable
  BY DEF SettleSplit, ReleaseRemainingMilestones, RefundUnreleasedEscrow, FreezeComesFirst,
     AdminSteps
<1>2. arg[a].frozen = Frozen
  BY DEF SettleSplit, ReleaseRemainingMilestones, RefundUnreleasedEscrow, RowsStillFrozen
<1>3. \A m \in Milestones : m \notin Frozen => milestone[m] \in Settled
  BY <1>1 DEF NoneFreezable, Frozen
<1>4. CASE SettleSplit(a)
  <2>1. \E pay : milestone' = [m \in Milestones |->
                                 IF m \notin Frozen THEN milestone[m]
                                 ELSE IF pay[m] = Amount[m] THEN "RELEASED" ELSE "REFUNDED"]
    BY <1>2, <1>4 DEF SettleSplit
  <2> QED BY <1>3, <2>1 DEF allSettled, Settled
<1>5. CASE ReleaseRemainingMilestones(a)
  BY <1>2, <1>3, <1>5 DEF ReleaseRemainingMilestones, allSettled, Settled
<1>6. CASE RefundUnreleasedEscrow(a)
  BY <1>2, <1>3, <1>6 DEF RefundUnreleasedEscrow, allSettled, Settled
<1> QED BY <1>4, <1>5, <1>6

LEMMA FrozenOnlyInDisputeInductive ==
  ASSUME TypeOK, Plans, FreezeComesFirst, RowsStillFrozen, FrozenOnlyInDispute, [Next]_vars
  PROVE  FrozenOnlyInDispute'
<1> SUFFICES ASSUME NEW m \in Milestones, milestone'[m] = "DISPUTED"
             PROVE  offer' = "DISPUTED"
  BY DEF FrozenOnlyInDispute
<1>1. ASSUME NEW p \in Parties, FreezePendingMilestones(p) PROVE offer' = "DISPUTED"
  BY <1>1 DEF FreezePendingMilestones
<1>2. CASE milestone[m] = "DISPUTED"
  <2>1. offer = "DISPUTED"
    BY <1>2 DEF FrozenOnlyInDispute
  <2>2. ASSUME NEW a \in Admins, ReleaseRemainingMilestones(a) \/ RefundUnreleasedEscrow(a)
        PROVE  FALSE
    BY <2>2, DecisionSettlesAll DEF Procs, allSettled, Settled
  <2> QED BY <2>1, <2>2, OfferMoves
<1>3. CASE milestone[m] # "DISPUTED"
  <2>1. CASE Still
    BY <1>3, <2>1 DEF Still
  <2>2. ASSUME NEW k \in Milestones, Work(k) PROVE FALSE
    BY <1>3, <2>2 DEF Work, TypeOK, Freezable
  <2>3. ASSUME NEW k \in Milestones, PayOne(k) PROVE FALSE
    BY <1>3, <2>3 DEF PayOne, PostRelease, TypeOK
  <2>4. CASE SettleFrozen
    BY <1>3, <2>4 DEF SettleFrozen, Settled
  <2> QED BY <1>1, <2>1, <2>2, <2>3, <2>4, <1>3, StepMoves DEF Still
<1> QED BY <1>2, <1>3

LEMMA NothingLeftInductive ==
  ASSUME TypeOK, Plans, FreezeComesFirst, RowsStillFrozen, CompletionComesLast,
         NothingLeftBehind, [Next]_vars
  PROVE  NothingLeftBehind'
<1> SUFFICES ASSUME offer' \in {"COMPLETED", "REFUNDED"} \/ engagement' \in {"COMPLETED", "CANCELLED"}
             PROVE  allSettled'
  BY DEF NothingLeftBehind
<1>1. CASE allSettled
  BY <1>1, Stable
<1>2. ASSUME NEW a \in Admins, SettleSplit(a) \/ RefundUnreleasedEscrow(a) PROVE allSettled'
  BY <1>2, DecisionSettlesAll DEF Procs
<1>3. Completing => allSettled
  BY DEF Completing, CompletionComesLast
<1>4. CASE offer' \in {"COMPLETED", "REFUNDED"}
  BY <1>1, <1>2, <1>3, <1>4, OfferMoves DEF NothingLeftBehind
<1>5. CASE engagement' \in {"COMPLETED", "CANCELLED"}
  BY <1>1, <1>2, <1>3, <1>5, EngagementMoves DEF NothingLeftBehind
<1> QED BY <1>4, <1>5

-------------------------------------------------------------------------------
(* Payouts come after their sessions *)

\* No handler gives a milestone a session, and only a decision that leaves nothing to work on
\* cancels one.
LEMMA BookingMoves ==
  ASSUME TypeOK, Plans, FreezeComesFirst, [Next]_vars, NEW m \in Milestones
  PROVE  /\ booking[m] = "NONE" => booking'[m] = "NONE"
         /\ booking'[m] = "CANCELLED_BY_STUDENT" => booking[m] = "CANCELLED_BY_STUDENT" \/ NoneFreezable
<1> USE DEF TypeOK
<1>1. CASE Tick \/ MoveSession \/ UNCHANGED vars
  BY <1>1 DEF Tick, MoveSession, vars, db, rows, bookings
<1>2. CASE \E p \in Procs : Crash(p) \/ TransitionLost(p)
  BY <1>2 DEF Crash, TransitionLost, db, rows, bookings
<1>3. ASSUME NEW p \in Parties, PartyRequest(p) \/ PartyStep(p)
      PROVE  /\ booking[m] = "NONE" => booking'[m] = "NONE"
             /\ booking'[m] = "CANCELLED_BY_STUDENT" => booking[m] = "CANCELLED_BY_STUDENT"
  <2>1. CASE FlagCoachNoShow(p)
    BY <2>1 DEF FlagCoachNoShow
  <2>2. CASE ApproveMilestoneRelease(p)
    BY <2>2 DEF ApproveMilestoneRelease
  <2>3. CASE OpenDispute(p) \/ MarkLoad(p) \/ ApproveLoad(p) \/ ReportNoShow(p) \/ MilestoneActionFails(p)
    BY <2>3 DEF OpenDispute, MarkLoad, ApproveLoad, ReportNoShow, MilestoneActionFails, db, rows, bookings
  <2>4. CASE FreezePendingMilestones(p) \/ CreateTicket(p) \/ MarkMilestoneCompleted(p)
    BY <2>4 DEF FreezePendingMilestones, CreateTicket, MarkMilestoneCompleted, rows, bookings
  <2> QED BY <1>3, <2>1, <2>2, <2>3, <2>4 DEF PartyRequest, PartyStep
<1>4. CASE \E w \in Workers : WorkerPass(w) \/ WorkerStep(w)
  BY <1>4 DEF WorkerPass, WorkerStep, StartEngagement, ActivateMilestone, CloseMilestone,
     AutoReleaseCandidate, EngagementStarted, ReleaseOne, ReleaseSkipped, db, rows, bookings
<1>5. CASE \E p \in Procs : CompletionStep(p)
  BY <1>5 DEF CompletionStep, CountOutstanding, CompleteEngagement, CompleteEngagementLost,
     CompleteOffer, OfferCompleted, db, rows, bookings
<1>6. ASSUME NEW a \in Admins, ResolveDispute(a) \/ AdminStep(a)
      PROVE  /\ booking[m] = "NONE" => booking'[m] = "NONE"
             /\ booking'[m] = "CANCELLED_BY_STUDENT" => booking[m] = "CANCELLED_BY_STUDENT" \/ NoneFreezable
  <2>1. CASE SettleSplit(a) \/ RefundUnreleasedEscrow(a)
    <3>1. pc[a] \in AdminSteps /\ a \in Procs
      BY <2>1 DEF SettleSplit, RefundUnreleasedEscrow, AdminSteps, Procs
    <3>2. NoneFreezable
      BY <3>1 DEF FreezeComesFirst
    <3> QED BY <2>1, <3>2 DEF SettleSplit, RefundUnreleasedEscrow, CancelFutureSessions
  <2>2. CASE ~(SettleSplit(a) \/ RefundUnreleasedEscrow(a))
    BY <1>6, <2>2 DEF ResolveDispute, AdminStep, SplitRead, SplitLost, ResolvePlan, SettleRead,
       ReleaseRemainingMilestones, CloseTicket, db, rows, bookings
  <2> QED BY <2>1, <2>2
<1> QED BY <1>1, <1>2, <1>3, <1>4, <1>5, <1>6 DEF Next, Handler

\* Only the clock and an accepted invite change when sessions are over.
LEMMA CalendarMoves ==
  ASSUME [Next]_vars
  PROVE  Tick \/ MoveSession \/ UNCHANGED calendar
<1>1. CASE UNCHANGED vars
  BY <1>1 DEF vars
<1>2. ASSUME NEW p \in Procs, Crash(p) \/ TransitionLost(p) PROVE UNCHANGED calendar
  BY <1>2 DEF Crash, TransitionLost
<1>3. ASSUME NEW p, PartyRequest(p) \/ PartyStep(p) PROVE UNCHANGED calendar
  BY <1>3 DEF PartyRequest, PartyStep, FlagCoachNoShow, OpenDispute, MarkLoad, ApproveLoad,
     ReportNoShow, FreezePendingMilestones, CreateTicket, MarkMilestoneCompleted,
     ApproveMilestoneRelease, MilestoneActionFails
<1>4. ASSUME NEW w, WorkerPass(w) \/ WorkerStep(w) PROVE UNCHANGED calendar
  BY <1>4 DEF WorkerPass, WorkerStep, StartEngagement, ActivateMilestone, CloseMilestone,
     AutoReleaseCandidate, EngagementStarted, ReleaseOne, ReleaseSkipped
<1>5. ASSUME NEW p, CompletionStep(p) PROVE UNCHANGED calendar
  BY <1>5 DEF CompletionStep, CountOutstanding, CompleteEngagement, CompleteEngagementLost,
     CompleteOffer, OfferCompleted
<1>6. ASSUME NEW a, ResolveDispute(a) \/ AdminStep(a) PROVE UNCHANGED calendar
  BY <1>6 DEF ResolveDispute, AdminStep, SplitRead, SettleSplit, SplitLost, ResolvePlan, SettleRead,
     ReleaseRemainingMilestones, RefundUnreleasedEscrow, CloseTicket
<1> QED BY <1>1, <1>2, <1>3, <1>4, <1>5, <1>6 DEF Next, Handler

\* A session that is over stays over, and one that is moved afterwards is remembered.
LEMMA SessionStaysOver ==
  ASSUME TypeOK, Plans, FreezeComesFirst, [Next]_vars, NEW m \in Milestones, SessionOver(m)
  PROVE  SessionOver(m)'
<1>1. booking[m] = "NONE" => booking'[m] = "NONE"
  BY BookingMoves
<1>2. hasEnded(m) => hasEnded(m)'
  <2>1. CASE UNCHANGED calendar
    BY <2>1 DEF calendar, sessions, hasEnded
  <2>2. CASE Tick
    <3>1. now \in Int /\ now' = now + 1 /\ sessionEnd[m] \in Nat
      BY <2>2 DEF Tick, TypeOK, Time
    <3>2. UNCHANGED <<sessionEnd, movedLate>>
      BY <2>2 DEF Tick, sessions
    <3> QED BY <3>1, <3>2 DEF hasEnded
  <2>3. CASE MoveSession
    <3>1. PICK k \in Milestones, end \in MoveTo :
            /\ sessionEnd' = [sessionEnd EXCEPT ![k] = end]
            /\ movedLate' = movedLate \cup {j \in {k} : sessionEnd[j] <= now}
      BY <2>3 DEF MoveSession
    <3>2. CASE m = k
      BY <3>1, <3>2 DEF hasEnded
    <3>3. CASE m # k
      BY <2>3, <3>1, <3>3 DEF hasEnded, MoveSession, TypeOK
    <3> QED BY <3>2, <3>3
  <2> QED BY <2>1, <2>2, <2>3, CalendarMoves
<1> QED BY <1>1, <1>2 DEF SessionOver

\* The milestone whose completion is being marked may be closed since its handler looked.
LEMMA MarkMoves ==
  ASSUME TypeOK, [Next]_vars, NEW q \in Procs, pc'[q] = "mark"
  PROVE  \/ pc[q] = "mark" /\ arg'[q] = arg[q]
         \/ MarkLoad(q) /\ \E m \in Milestones : /\ arg'[q].m = m /\ milestone[m] \in Freezable
                                                 /\ milestoneCompletableAt(m) <= now
<1> DEFINE Goal == \/ pc[q] = "mark" /\ arg'[q] = arg[q]
                   \/ MarkLoad(q) /\ \E m \in Milestones : /\ arg'[q].m = m /\ milestone[m] \in Freezable
                                                           /\ milestoneCompletableAt(m) <= now
<1>0. ASSUME NEW p \in Procs, NEW step, NEW a, Goto(p, step, a), step # "mark" PROVE Goal
  BY <1>0 DEF Goto, TypeOK
<1>1. ASSUME NEW p \in Procs, Return(p) PROVE Goal
  BY <1>0, <1>1 DEF Return
<1>2. ASSUME NEW p \in Procs, NEW event, NEW actor, NEW step, Plan(p, event, actor, step), step # "mark"
      PROVE  Goal
  BY <1>0, <1>2 DEF Plan
<1>3. ASSUME UNCHANGED <<pc, arg>> PROVE Goal
  BY <1>3
<1>4. ASSUME NEW p \in Procs, MarkLoad(p) PROVE Goal
  <2>1. PICK m \in Milestones : /\ milestone[m] \in Freezable /\ milestoneCompletableAt(m) <= now
                                /\ Goto(p, "mark", [NoArgs EXCEPT !.m = m, !.was = milestone[m], !.t = now])
    BY <1>4 DEF MarkLoad
  <2>2. CASE p # q
    BY <2>1, <2>2 DEF Goto, TypeOK
  <2>3. CASE p = q
    <3>1. arg'[q].m = m
      BY <2>1, <2>3 DEF Goto, TypeOK, NoArgs
    <3> QED BY <1>4, <2>1, <2>3, <3>1
  <2> QED BY <2>2, <2>3
<1> HIDE DEF Goal
<1>5. ASSUME Tick \/ MoveSession \/ UNCHANGED vars PROVE Goal
  BY <1>3, <1>5 DEF Tick, MoveSession, vars
<1>6. ASSUME NEW p \in Procs, Crash(p) \/ TransitionLost(p) PROVE Goal
  <2>1. Return(p)
    BY <1>6 DEF Crash, TransitionLost
  <2> QED BY <1>1, <2>1
<1>7. ASSUME NEW p \in Parties, PartyRequest(p) \/ PartyStep(p) PROVE Goal
  <2>0. p \in Procs
    BY DEF Procs
  <2>1. CASE FlagCoachNoShow(p) \/ FreezePendingMilestones(p) \/ ApproveMilestoneRelease(p)
    BY <1>0, <2>0, <2>1 DEF FlagCoachNoShow, FreezePendingMilestones, ApproveMilestoneRelease
  <2>2. CASE OpenDispute(p)
    BY <1>2, <2>0, <2>2 DEF OpenDispute
  <2>3. CASE ReportNoShow(p)
    BY <1>1, <1>2, <2>0, <2>3 DEF ReportNoShow
  <2>4. CASE CreateTicket(p) \/ MarkMilestoneCompleted(p) \/ MilestoneActionFails(p)
    BY <1>1, <2>0, <2>4 DEF CreateTicket, MarkMilestoneCompleted, MilestoneActionFails
  <2>5. CASE ApproveLoad(p)
    BY <1>0, <2>0, <2>5 DEF ApproveLoad
  <2> QED BY <1>4, <1>7, <2>0, <2>1, <2>2, <2>3, <2>4, <2>5 DEF PartyRequest, PartyStep
<1>8. ASSUME NEW w \in Workers, WorkerPass(w) \/ WorkerStep(w) PROVE Goal
  <2>0. w \in Procs
    BY DEF Procs
  <2>1. CASE StartEngagement(w)
    BY <1>2, <2>0, <2>1 DEF StartEngagement
  <2>2. CASE ActivateMilestone(w) \/ CloseMilestone(w)
    BY <1>3, <2>2 DEF ActivateMilestone, CloseMilestone
  <2>3. CASE AutoReleaseCandidate(w) \/ ReleaseOne(w)
    BY <1>0, <2>0, <2>3 DEF AutoReleaseCandidate, ReleaseOne
  <2>4. CASE EngagementStarted(w) \/ ReleaseSkipped(w)
    BY <1>1, <2>0, <2>4 DEF EngagementStarted, ReleaseSkipped
  <2> QED BY <1>8, <2>1, <2>2, <2>3, <2>4 DEF WorkerPass, WorkerStep
<1>9. ASSUME NEW p \in Procs, CompletionStep(p) PROVE Goal
  <2>1. CASE CountOutstanding(p) \/ CompleteEngagement(p)
    BY <1>0, <1>1, <2>1 DEF CountOutstanding, CompleteEngagement
  <2>2. CASE CompleteOffer(p)
    BY <1>1, <1>2, <2>2 DEF CompleteOffer
  <2>3. CASE CompleteEngagementLost(p) \/ OfferCompleted(p)
    BY <1>1, <2>3 DEF CompleteEngagementLost, OfferCompleted
  <2> QED BY <1>9, <2>1, <2>2, <2>3 DEF CompletionStep
<1>10. ASSUME NEW a \in Admins, ResolveDispute(a) \/ AdminStep(a) PROVE Goal
  <2>0. a \in Procs
    BY DEF Procs
  <2>1. CASE ResolveDispute(a)
    <3>1. PICK step, x : step # "mark" /\ Goto(a, step, x)
      <4>1. PICK d \in openDisputes, res \in Resolutions :
              Goto(a, IF res = "SPLIT" THEN "split" ELSE "plan", [NoArgs EXCEPT !.d = d, !.r = res, !.t = now])
        BY <2>1 DEF ResolveDispute
      <4> QED BY <4>1
    <3> QED BY <1>0, <2>0, <3>1
  <2>2. CASE SplitRead(a) \/ SettleSplit(a) \/ SettleRead(a) \/ ReleaseRemainingMilestones(a)
    BY <1>0, <2>0, <2>2 DEF SplitRead, SettleSplit, SettleRead, ReleaseRemainingMilestones
  <2>3. CASE RefundUnreleasedEscrow(a)
    BY <1>0, <1>1, <2>0, <2>3 DEF RefundUnreleasedEscrow
  <2>4. CASE ResolvePlan(a)
    BY <1>1, <1>2, <2>0, <2>4 DEF ResolvePlan
  <2>5. CASE SplitLost(a) \/ CloseTicket(a)
    BY <1>1, <2>0, <2>5 DEF SplitLost, CloseTicket
  <2> QED BY <1>10, <2>1, <2>2, <2>3, <2>4, <2>5 DEF AdminStep
<1>11. ASSUME NEW p \in Procs, Handler(p) PROVE Goal
  BY <1>6, <1>7, <1>8, <1>9, <1>10, <1>11 DEF Handler
<1>12. Goal
  BY <1>5, <1>6, <1>7, <1>8, <1>10, <1>11 DEF Next
<1> QED BY <1>12 DEF Goal

\* A milestone that may be closed has no session to come.
LEMMA CompletableIsOver ==
  ASSUME NEW m \in Milestones, booking[m] # "CANCELLED_BY_STUDENT", milestoneCompletableAt(m) <= now
  PROVE  SessionOver(m)
  BY DEF milestoneCompletableAt, SessionOver, hasEnded

\* A milestone begins to wait for its payout only when the coach marks it or the worker closes it.
LEMMA PendingMoves ==
  ASSUME TypeOK, Plans, RowsStillFrozen, PayoutComesAfterSession, [Next]_vars, NEW m \in Milestones,
         milestone'[m] = "PENDING_CONFIRMATION", milestone[m] # "PENDING_CONFIRMATION"
  PROVE  SessionOver(m)
<1>1. ASSUME NEW p \in Parties, MarkMilestoneCompleted(p) PROVE SessionOver(m)
  <2>1. arg[p].m = m /\ pc[p] = "mark" /\ p \in Procs
    BY <1>1 DEF MarkMilestoneCompleted, TypeOK, Procs
  <2> QED BY <2>1 DEF PayoutComesAfterSession
<1>2. ASSUME NEW w \in Workers, CloseMilestone(w) PROVE SessionOver(m)
  <2>1. m \in closeDue
    BY <1>2 DEF CloseMilestone, TypeOK, closeDue
  <2> QED BY <2>1, CompletableIsOver DEF closeDue, PayoutComesAfterSession, Freezable
<1>3. ~Still /\ ~Freeze
  BY DEF Still, Freeze, Freezable
<1>4. ASSUME NEW k \in Milestones, PayOne(k) PROVE FALSE
  BY <1>4 DEF PayOne, PostRelease, TypeOK
<1>5. ~SettleFrozen
  BY DEF SettleFrozen, Settled
<1>6. ASSUME NEW p \in Parties, PartyRequest(p) \/ PartyStep(p), ~MarkMilestoneCompleted(p) PROVE FALSE
  <2>1. p \in Procs
    BY DEF Procs
  <2>2. CASE FlagCoachNoShow(p) \/ CreateTicket(p)
    BY <1>3, <2>2 DEF FlagCoachNoShow, CreateTicket, Still, rows, ledger
  <2>3. CASE OpenDispute(p) \/ MarkLoad(p) \/ ApproveLoad(p) \/ ReportNoShow(p) \/ MilestoneActionFails(p)
    BY <1>3, <2>3 DEF OpenDispute, MarkLoad, ApproveLoad, ReportNoShow, MilestoneActionFails, Still, db,
       rows, ledger
  <2>4. CASE FreezePendingMilestones(p)
    BY <1>3, <2>4 DEF FreezePendingMilestones, Freeze, ledger
  <2>5. CASE ApproveMilestoneRelease(p)
    BY <1>4, <2>1, <2>5 DEF ApproveMilestoneRelease, PayOne, Plans
  <2> QED BY <1>6, <2>2, <2>3, <2>4, <2>5 DEF PartyRequest, PartyStep
<1>7. ASSUME NEW w \in Workers, WorkerPass(w) \/ WorkerStep(w), ~CloseMilestone(w) PROVE FALSE
  <2>1. w \in Procs
    BY DEF Procs
  <2>2. CASE StartEngagement(w) \/ AutoReleaseCandidate(w) \/ ReleaseSkipped(w) \/ EngagementStarted(w)
    BY <1>3, <2>2 DEF StartEngagement, AutoReleaseCandidate, ReleaseSkipped, EngagementStarted, Still, db,
       rows, ledger
  <2>3. CASE ActivateMilestone(w)
    BY <2>3 DEF ActivateMilestone, TypeOK, activateDue
  <2>4. CASE ReleaseOne(w)
    BY <1>4, <2>1, <2>4 DEF ReleaseOne, PayOne, Plans
  <2> QED BY <1>7, <2>2, <2>3, <2>4 DEF WorkerPass, WorkerStep
<1>8. ~(Tick \/ MoveSession \/ UNCHANGED vars \/ \E p \in Procs : Crash(p) \/ TransitionLost(p) \/ CompletionStep(p))
  BY <1>3, CompletionMoves DEF Tick, MoveSession, vars, Crash, TransitionLost, db, rows, ledger, Still
<1>9. ASSUME NEW a \in Admins, ResolveDispute(a) \/ AdminStep(a) PROVE FALSE
  BY <1>3, <1>5, <1>9, AdminMoves DEF Procs
<1> QED BY <1>1, <1>2, <1>6, <1>7, <1>8, <1>9 DEF Next, Handler

LEMMA PayoutAfterSessionInductive ==
  ASSUME TypeOK, Plans, FreezeComesFirst, RowsStillFrozen, PayoutComesAfterSession, [Next]_vars, TypeOK', Plans'
  PROVE  PayoutComesAfterSession'
<1>1. ASSUME NEW m \in Milestones, milestone'[m] = "PENDING_CONFIRMATION" PROVE SessionOver(m)'
  <2>1. SessionOver(m)
    BY <1>1, PendingMoves DEF PayoutComesAfterSession
  <2> QED BY <2>1, SessionStaysOver
<1>2. ASSUME NEW m \in Milestones, milestone'[m] \in Freezable PROVE booking'[m] # "CANCELLED_BY_STUDENT"
  <2>1. milestone[m] \in Freezable
    BY <1>2, Progress DEF TypeOK, MilestoneStatus, Freezable, Settled
  <2>2. ~NoneFreezable
    BY <2>1 DEF NoneFreezable, Freezable, Settled
  <2> QED BY <2>1, <2>2, BookingMoves DEF PayoutComesAfterSession
<1>3. ASSUME NEW p \in Procs, pc'[p] = "mark" PROVE SessionOver(arg[p].m)'
  <2>1. arg'[p].m \in Milestones
    BY <1>3 DEF Plans
  <2>2. SessionOver(arg'[p].m)
    <3>1. CASE pc[p] = "mark" /\ arg'[p] = arg[p]
      BY <3>1 DEF PayoutComesAfterSession
    <3>2. ASSUME NEW m \in Milestones, arg'[p].m = m, milestone[m] \in Freezable, milestoneCompletableAt(m) <= now
          PROVE  SessionOver(arg'[p].m)
      <4>1. SessionOver(m)
        BY <3>2, CompletableIsOver DEF PayoutComesAfterSession
      <4> QED BY <3>2, <4>1
    <3> QED BY <1>3, <3>1, <3>2, MarkMoves
  <2>3. PICK k \in Milestones : k = arg'[p].m
    BY <2>1
  <2>4. SessionOver(k)'
    BY <2>2, <2>3, SessionStaysOver
  <2> QED BY <2>3, <2>4 DEF SessionOver
<1> QED BY <1>1, <1>2, <1>3 DEF PayoutComesAfterSession

-------------------------------------------------------------------------------
(* The invariant, and the theorems *)

LEMMA InitInvariant == Init => IInv
<1> SUFFICES ASSUME Init PROVE IInv
  OBVIOUS
<1>1. TypeOK
  BY InitType
<1>2. StepOwners /\ Plans /\ CompletionComesLast
  BY DEF Init, StepOwners, Plans, CompletionComesLast, AdminSteps, CompletionSteps
<1>3. FreezeComesFirst /\ RowsStillFrozen
  BY DEF Init, FreezeComesFirst, RowsStillFrozen, AdminSteps, openDisputes
<1>4. SettledOnce
  BY DEF Init, SettledOnce, Settled
<1>5. FrozenOnlyInDispute /\ NothingLeftBehind
  BY DEF Init, FrozenOnlyInDispute, NothingLeftBehind
<1>6. PayoutComesAfterSession
  BY DEF Init, PayoutComesAfterSession, Freezable
<1> QED BY <1>1, <1>2, <1>3, <1>4, <1>5, <1>6 DEF IInv

LEMMA InvariantStep ==
  ASSUME Serialized, IInv, [Next]_vars
  PROVE  IInv'
<1> USE DEF IInv
<1>1. TypeOK'
  BY TypeInductive
<1>2. StepOwners' /\ Plans'
  BY ControlInductive
<1>3. FreezeComesFirst'
  BY FreezeFirstInductive
<1>4. RowsStillFrozen'
  BY RowsInductive
<1>5. CompletionComesLast'
  BY CompletionLastInductive
<1>6. SettledOnce'
  BY SettledOnceInductive
<1>7. FrozenOnlyInDispute'
  BY FrozenOnlyInDisputeInductive
<1>8. NothingLeftBehind'
  BY NothingLeftInductive
<1>9. PayoutComesAfterSession'
  BY <1>1, <1>2, PayoutAfterSessionInductive
<1> QED BY <1>1, <1>2, <1>3, <1>4, <1>5, <1>6, <1>7, <1>8, <1>9

\* IInv is an invariant of the lifecycle when admin decisions are serialized: by one admin, or
\* because none of them is a split.  (With a split beside another decision it is not; see the
\* run escrow_overdraft.)
THEOREM InvariantHolds ==
  ASSUME Serialized
  PROVE  Spec => []IInv
<1>1. Init => IInv
  BY InitInvariant
<1>2. IInv /\ [Next]_vars => IInv'
  BY InvariantStep
<1> QED BY <1>1, <1>2, PTL DEF Spec

\* Every milestone's money leaves escrow exactly once (postMilestoneRelease, refundFromEscrow and
\* settleSplit of escrow.ts and dispute-service.ts), whatever the interleaving of cron, approvals,
\* disputes and crashes, and an offer or engagement that has ended leaves no milestone unsettled.
THEOREM EachMilestoneSettledOnce ==
  ASSUME Serialized
  PROVE  Spec => []NeitherTwiceNorForgotten
<1>1. IInv => NeitherTwiceNorForgotten
  BY DEF IInv, NeitherTwiceNorForgotten
<1> QED BY <1>1, InvariantHolds, PTL

\* A frozen milestone belongs to an offer in dispute, so an admin's decision can still reach it.
THEOREM FrozenIsInDispute ==
  ASSUME Serialized
  PROVE  Spec => []FrozenOnlyInDispute
<1>1. IInv => FrozenOnlyInDispute
  BY DEF IInv
<1> QED BY <1>1, InvariantHolds, PTL

\* While an offer is in dispute only an admin's transaction moves money.
LEMMA DisputedMoney ==
  ASSUME IInv, [Next]_vars, offer = "DISPUTED", ledger' # ledger
  PROVE  \E a \in Admins : pc[a] \in {"splitting", "settling"} /\ pc'[a] # pc[a]
<1> USE DEF IInv
<1>1. ~Still /\ ~(\E m \in Milestones : Work(m)) /\ ~Freeze
  BY DEF Still, Work, Freeze, ledger
<1>2. ASSUME NEW m \in Milestones, PayOne(m) PROVE FALSE
  BY <1>2 DEF PayOne, FreezeComesFirst, NoneFreezable, Settled
<1>3. PICK a \in Admins :
        SettleSplit(a) \/ ReleaseRemainingMilestones(a) \/ RefundUnreleasedEscrow(a)
  BY <1>1, <1>2, StepMoves
<1>4. a \in Procs
  BY DEF Procs
<1>5. CASE SettleSplit(a) \/ ReleaseRemainingMilestones(a)
  BY <1>4, <1>5, GotoForm DEF SettleSplit, ReleaseRemainingMilestones
<1>6. CASE RefundUnreleasedEscrow(a)
  BY <1>4, <1>6, GotoForm DEF RefundUnreleasedEscrow, Return
<1> QED BY <1>3, <1>5, <1>6

\* From the freeze until the admin has decided, no auto-release, approval or completion that was
\* already under way moves money (TESTING.md:44).
THEOREM DisputeFreezesMoney ==
  ASSUME Serialized
  PROVE  Spec => NoMoneyMovesWhileDisputed
<1>1. IInv /\ [Next]_vars
        => [offer = "DISPUTED" /\ ledger' # ledger
              => \E a \in Admins : pc[a] \in {"splitting", "settling"} /\ pc'[a] # pc[a]]_vars
  BY DisputedMoney
<1> QED BY <1>1, InvariantHolds, PTL DEF Spec, NoMoneyMovesWhileDisputed

\* Outside a dispute nothing is paid out but a milestone that waits for its payout.
LEMMA UndisputedPayout ==
  ASSUME IInv, [Next]_vars, NEW m \in Milestones,
         milestone[m] # "DISPUTED", milestone'[m] = "RELEASED", milestone[m] # "RELEASED"
  PROVE  booking[m] = "NONE" \/ hasEnded(m)
<1> USE DEF IInv
<1>1. ~Still /\ ~Freeze /\ ~SettleFrozen
  BY DEF Still, Freeze, SettleFrozen, Frozen
<1>2. ASSUME NEW k \in Milestones, Work(k) PROVE FALSE
  BY <1>2 DEF Work, TypeOK, Freezable
<1>3. ASSUME NEW k \in Milestones, PayOne(k) PROVE milestone[m] = "PENDING_CONFIRMATION"
  BY <1>3 DEF PayOne, PostRelease, TypeOK
<1>4. milestone[m] = "PENDING_CONFIRMATION"
  BY <1>1, <1>2, <1>3, StepMoves
<1> QED BY <1>4 DEF PayoutComesAfterSession, SessionOver

\* Without a dispute a coach is never paid before the session has ended, whoever pays (the worker's
\* auto-release, the student's approval) and whatever happened since they looked (scope.ts:110-115),
\* however often the session was moved, unless it was moved once after it had ended: the history
\* variable movedLate says which sessions were.
THEOREM NobodyIsPaidBeforehand ==
  ASSUME Serialized
  PROVE  Spec => NoPayoutBeforeSession
<1>1. IInv /\ [Next]_vars
        => [\A m \in Milestones :
              milestone[m] # "DISPUTED" /\ milestone'[m] = "RELEASED" /\ milestone[m] # "RELEASED"
                => booking[m] = "NONE" \/ hasEnded(m)]_vars
  BY UndisputedPayout
<1> QED BY <1>1, InvariantHolds, PTL DEF Spec, NoPayoutBeforeSession

-------------------------------------------------------------------------------
(* What the parties are shown *)

LEMMA ProgramInvStep ==
  ASSUME Serialized, ProgramInv, [Next]_vars
  PROVE  ProgramInv'
<1>0. IInv /\ IInv'
  BY InvariantStep DEF ProgramInv
<1>1. offer' \in {"PAID_IN_ESCROW", "ACTIVE", "DISPUTED", "COMPLETED", "REFUNDED"}
  <2>1. ASSUME NEW a \in Admins, RefundUnreleasedEscrow(a) PROVE offer' = "REFUNDED"
    BY <2>1 DEF RefundUnreleasedEscrow
  <2> QED BY <1>0, <2>1, OfferMoves DEF ProgramInv, IInv
<1>2. ASSUME engagement' # "ACTIVE" PROVE NoneFreezable'
  <2>1. allSettled' => NoneFreezable'
    BY DEF allSettled, NoneFreezable
  <2>2. CASE engagement' = engagement
    BY <1>0, <1>2, <2>2, Stable DEF ProgramInv, IInv
  <2>3. CASE offer' = "DISPUTED"
    BY <1>0, <2>3 DEF IInv, FreezeComesFirst
  <2>4. CASE engagement' = "COMPLETED"
    BY <1>0, <2>1, <2>4 DEF IInv, NothingLeftBehind
  <2>5. ASSUME NEW a \in Admins, SettleSplit(a) \/ RefundUnreleasedEscrow(a) PROVE NoneFreezable'
    BY <1>0, <2>1, <2>5, DecisionSettlesAll DEF IInv, Procs
  <2> QED BY <1>2, <2>2, <2>3, <2>4, <2>5, EngagementMoves
<1> QED BY <1>0, <1>1, <1>2 DEF ProgramInv

THEOREM ProgramInvariant ==
  ASSUME Serialized
  PROVE  Spec => []ProgramInv
<1>1. Init => ProgramInv
  BY InitInvariant DEF Init, ProgramInv
<1>2. ProgramInv /\ [Next]_vars => ProgramInv'
  BY ProgramInvStep
<1> QED BY <1>1, <1>2, PTL DEF Spec

\* While a milestone is under way its program is in nobody's hands but the parties'.
LEMMA UnderWay ==
  ASSUME ProgramInv, NEW m \in Milestones, milestone[m] \in Freezable
  PROVE  engagement = "ACTIVE" /\ openDisputes = {} /\ offer \in {"PAID_IN_ESCROW", "ACTIVE"}
<1>1. ~NoneFreezable /\ ~allSettled
  BY DEF NoneFreezable, allSettled, Freezable, Settled
<1> QED BY <1>1 DEF ProgramInv, IInv, FreezeComesFirst, NothingLeftBehind

\* What the modal lets be sent has a length that the schema takes.
LEMMA DetailFits ==
  ASSUME NEW mode \in Modes, NEW n \in DetailLengths, detailOk(mode, n)
  PROVE  MIN_DETAIL <= sentDetail(mode, n) /\ sentDetail(mode, n) <= MAX_DETAIL
<1>1. n \in Nat /\ n <= MAX_DETAIL
  BY DetailAssumption
<1> QED BY <1>1 DEF detailOk, sentDetail, Modes, MIN_DETAIL, MAX_DETAIL, DEFAULT_DETAIL

\* The buttons of a milestone, drawn from its status alone, ask for nothing that the engagement,
\* the open tickets or the table refuse (conversation.ts:203), whatever the worker, the admins and
\* crashes did up to then.
THEOREM NoButtonIsRefused ==
  ASSUME Serialized
  PROVE  Spec => []MilestoneButtonsWork
<1>1. ASSUME ProgramInv PROVE MilestoneButtonsWork
  <2> SUFFICES ASSUME NEW m \in Milestones, NEW viewer \in Viewers
               PROVE  /\ showsComplete(m, viewer) => completeServed(m)
                      /\ showsRelease(m, viewer) => releaseServed(m)
                      /\ showsReport(m, viewer) =>
                           \A mode \in Modes, n \in DetailLengths :
                             detailOk(mode, n) => disputeServed(mode, n) \/ windowClosed
    BY DEF MilestoneButtonsWork
  <2>1. showsComplete(m, viewer) => completeServed(m)
    BY <1>1, UnderWay DEF showsComplete, completeServed, Freezable
  <2>2. showsRelease(m, viewer) => releaseServed(m)
    BY <1>1, UnderWay DEF showsRelease, releaseServed, Freezable
  <2>3. ASSUME showsReport(m, viewer), NEW mode \in Modes, NEW n \in DetailLengths,
               detailOk(mode, n), ~windowClosed
        PROVE  disputeServed(mode, n)
    <3>1. openDisputes = {} /\ offer \in {"PAID_IN_ESCROW", "ACTIVE"}
      BY <1>1, <2>3, UnderWay DEF showsReport
    <3>2. now <= endDate + DISPUTE_WINDOW
      <4>1. now \in Int /\ endDate + DISPUTE_WINDOW \in Int
        BY <1>1, CountAssumption, HorizonAssumption
           DEF ProgramInv, IInv, TypeOK, Time, endDate, DISPUTE_WINDOW
      <4> QED BY <2>3, <4>1 DEF windowClosed
    <3>3. checkGuards("OPEN_DISPUTE", buildContext)
      BY <3>1, <3>2 DEF checkGuards, buildContext
    <3>4. <<offer, "OPEN_DISPUTE", "DISPUTED">> \in TRANSITIONS /\ offer \notin TERMINAL_STATES
      BY <3>1 DEF TRANSITIONS, TERMINAL_STATES
    <3>5. "STUDENT" \in allowedActors["OPEN_DISPUTE"] /\ "DISPUTED" \in OfferStatus
      BY DEF allowedActors, OfferEventName, OfferStatus
    <3>6. canTransition(offer, "OPEN_DISPUTE", "STUDENT", buildContext)
      BY <3>3, <3>4, <3>5 DEF canTransition, Transition
    <3> QED BY <2>3, <3>6, DetailFits DEF disputeServed
  <2> QED BY <2>1, <2>2, <2>3
<1> QED BY <1>1, ProgramInvariant, PTL

-------------------------------------------------------------------------------
(* The lifecycle implements the abstract escrow account *)

LEMMA AccountStep ==
  ASSUME IInv, [Next]_vars
  PROVE  [Account!Next]_(Account!vars)
<1> USE DEF IInv, Account!vars
<1>0. \A m \in Milestones :
        /\ released[m] \in Nat /\ refunded[m] \in Nat /\ Amount[m] \in Nat
        /\ milestone[m] \notin Settled => released[m] = 0 /\ refunded[m] = 0
  <2> SUFFICES ASSUME NEW m \in Milestones
               PROVE  /\ released[m] \in Nat /\ refunded[m] \in Nat /\ Amount[m] \in Nat
                      /\ milestone[m] \notin Settled => released[m] = 0 /\ refunded[m] = 0
    OBVIOUS
  <2>1. released[m] \in Nat /\ refunded[m] \in Nat /\ Amount[m] \in Nat
    BY AmountAssumption DEF TypeOK
  <2>2. milestone[m] \notin Settled => released[m] + refunded[m] = 0
    BY DEF SettledOnce
  <2> QED BY <2>1, <2>2
<1>1. CASE UNCHANGED <<released, refunded>>
  BY <1>1
<1>2. ASSUME NEW k \in Milestones, PayOne(k) PROVE Account!Next
  <2>1. milestone[k] \notin Settled
    BY <1>2 DEF PayOne, Settled
  <2>2. /\ released' = [released EXCEPT ![k] = released[k] + Amount[k]]
        /\ refunded' = refunded
    BY <1>2 DEF PayOne, PostRelease
  <2>3. released'[k] = Amount[k] /\ refunded'[k] = 0
    BY <1>0, <2>1, <2>2 DEF TypeOK
  <2>4. Account!Settle({k})
    <3>1. Account!Held(k)
      BY <1>0, <2>1 DEF Account!Held
    <3>2. Account!PaidOut(k)
      BY <1>0, <2>3 DEF Account!PaidOut
    <3>3. \A m \in Milestones \ {k} : released'[m] = released[m] /\ refunded'[m] = refunded[m]
      BY <2>2 DEF TypeOK
    <3> QED BY <3>1, <3>2, <3>3 DEF Account!Settle
  <2> QED BY <2>4 DEF Account!Next
<1>3. CASE SettleFrozen
  <2>1. ASSUME NEW m \in Frozen PROVE Account!Held(m) /\ Account!PaidOut(m)
    <3>1. m \in Milestones /\ released[m] = 0 /\ refunded[m] = 0 /\ Amount[m] \in Nat
      BY <1>0, <2>1 DEF Frozen, Settled
    <3>2. PICK share \in Nat : /\ share <= Amount[m]
                               /\ released'[m] = released[m] + share
                               /\ refunded'[m] = refunded[m] + (Amount[m] - share)
      BY <1>3, <2>1, <3>1 DEF SettleFrozen
    <3> QED BY <3>1, <3>2 DEF Account!Held, Account!PaidOut
  <2>2. \A m \in Milestones \ Frozen : released'[m] = released[m] /\ refunded'[m] = refunded[m]
    BY <1>3 DEF SettleFrozen
  <2>3. Account!Settle(Frozen) /\ Frozen \in SUBSET Milestones
    BY <2>1, <2>2 DEF Account!Settle, Frozen
  <2> QED BY <2>3 DEF Account!Next
<1> QED BY <1>1, <1>2, <1>3, StepMoves DEF Still, Work, Freeze

\* The lifecycle implements EscrowAccount: every payment a handler makes is one full payout of
\* milestones whose money was still held.
THEOREM LifecycleImplementsAccount ==
  ASSUME Serialized
  PROVE  Spec => ImplementsEscrowAccount
<1>1. Init => Account!Init
  BY DEF Init, Account!Init
<1>2. IInv /\ [Next]_vars => [Account!Next]_(Account!vars)
  BY AccountStep
<1> QED BY <1>1, <1>2, InvariantHolds, PTL DEF Spec, ImplementsEscrowAccount, Account!Spec
===============================================================================
