------------------------------ MODULE ProgramPage ------------------------------
(***************************************************************************)
(* What the two parties of a paid program are shown of its milestones      *)
(* (MilestonesPanel and its DisputeModal) and what the server actions      *)
(* behind the buttons ask for.  There are no variables: the operators are  *)
(* views of a state of EscrowLifecycle, whose parties press the buttons of *)
(* pages of any age.                                                       *)
(*                                                                         *)
(* Of the description a student types, only its length is kept.  Of a      *)
(* conversation's engagements the page shows the active one, or the last;  *)
(* there is one here.                                                      *)
(***************************************************************************)
EXTENDS EscrowLifecycle

CONSTANT DetailLengths   \* the lengths of the descriptions a student may type

MAX_DETAIL == 2000
MIN_DETAIL == 10

\* The text box cuts off at MAX_DETAIL.
ASSUME DetailAssumption == \A n \in DetailLengths : n \in Nat /\ n <= MAX_DETAIL

Viewers == {"STUDENT", "COACH"}
Modes == {"CANCEL", "DISPUTE"}

-------------------------------------------------------------------------------
(* What is shown *)

\* Wrong: the button appears with the milestone's period, also when its lesson was moved.
completeAfterPeriod(m, viewer) ==
  /\ viewer = "COACH" /\ milestone[m] \in {"SCHEDULED", "IN_PROGRESS"} /\ periodEnd(m) <= now

\* "Tamamlandı olarak işaretle"
showsComplete(m, viewer) ==
  /\ viewer = "COACH" /\ milestone[m] \in {"SCHEDULED", "IN_PROGRESS"}
  /\ milestoneCompletableAt(m) <= now

\* "Onayla ve ücreti aktar"
showsRelease(m, viewer) == viewer = "STUDENT" /\ milestone[m] = "PENDING_CONFIRMATION"

canDispute(viewer) == viewer = "STUDENT" /\ engagement = "ACTIVE"

\* "Sorun bildir" of one milestone
showsReport(m, viewer) == canDispute(viewer) /\ milestone[m] \in Freezable

\* The modal's button, once n characters are typed.
detailOk(mode, n) == mode = "CANCEL" \/ n >= MIN_DETAIL

-------------------------------------------------------------------------------
(* What is served *)

completeServed(m) ==
  /\ engagement = "ACTIVE" /\ openDisputes = {}
  /\ milestone[m] \in Freezable /\ milestoneCompletableAt(m) <= now

releaseServed(m) ==
  engagement = "ACTIVE" /\ openDisputes = {} /\ milestone[m] = "PENDING_CONFIRMATION"

\* The length of the sentence that stands in for a cancellation without a reason.
DEFAULT_DETAIL == 40

\* requestCancellation after the payment is a dispute with a description of its own.
sentDetail(mode, n) == IF mode = "CANCEL" /\ n < MIN_DETAIL THEN DEFAULT_DETAIL ELSE n

\* disputeSchema, and the transition openDispute asks for.
disputeServed(mode, n) ==
  /\ MIN_DETAIL <= sentDetail(mode, n) /\ sentDetail(mode, n) <= MAX_DETAIL
  /\ canTransition(offer, "OPEN_DISPUTE", "STUDENT", buildContext)

windowClosed == now > endDate + DISPUTE_WINDOW

-------------------------------------------------------------------------------
(* Properties *)

\* The panel decides from the milestone's status what the services decide from the engagement,
\* the open tickets and the table ("Two sources of truth here would mean buttons that throw when
\* pressed", conversation.ts:203): pressed before anything else happens, a milestone's buttons do
\* what they say, and what the modal lets be sent is taken until the dispute window closes.
MilestoneButtonsWork ==
  \A m \in Milestones, viewer \in Viewers :
    /\ showsComplete(m, viewer) => completeServed(m)
    /\ showsRelease(m, viewer) => releaseServed(m)
    /\ showsReport(m, viewer) =>
         \A mode \in Modes, n \in DetailLengths :
           detailOk(mode, n) => disputeServed(mode, n) \/ windowClosed

-------------------------------------------------------------------------------
(* The inductive invariant behind it *)

\* A program's offer is in one of five statuses, and while its engagement is not active no
\* milestone is under way.
ProgramInv ==
  /\ IInv
  /\ offer \in {"PAID_IN_ESCROW", "ACTIVE", "DISPUTED", "COMPLETED", "REFUNDED"}
  /\ engagement # "ACTIVE" => NoneFreezable

-------------------------------------------------------------------------------
(* What is promised and not kept *)

\* "Sorun bildir [...]. Bildirim son dersten sonraki 7 gün içinde yapılabilir" (documents.ts:349):
\* a milestone that has not been paid out can be reported until a dispute window after the last
\* lesson.
ReportableAfterLastLesson ==
  \A m, last \in Milestones, n \in DetailLengths :
    /\ showsReport(m, "STUDENT") /\ detailOk("DISPUTE", n)
    /\ booking[last] = "SCHEDULED" /\ now <= sessionEnd[last] + DISPUTE_WINDOW
    => disputeServed("DISPUTE", n)
===============================================================================
