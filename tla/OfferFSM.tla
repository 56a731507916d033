------------------------------- MODULE OfferFSM -------------------------------
(***************************************************************************)
(* The offer / escrow state machine of src/lib/offers/state-machine.ts: a  *)
(* pure table and the function transition() that every writer of           *)
(* Offer.status calls.  The modules that model the writers use Transition  *)
(* below, so the table is stated once.                                     *)
(*                                                                         *)
(* In the code every row of one event carries the same allowed actors and  *)
(* the same effects, so a row is here the triple <<from, event, to>> and   *)
(* actors and effects are functions of the event.  NOTIFY and AUDIT        *)
(* effects (mail and log rows) are left out.                               *)
(***************************************************************************)

OfferStatus == {"DRAFT", "OFFERED", "COUNTERED", "ACCEPTED", "PAID_IN_ESCROW",
                "ACTIVE", "COMPLETED", "DISPUTED", "REFUNDED", "CANCELLED", "EXPIRED"}

ActorRole == {"STUDENT", "COACH", "ADMIN", "SYSTEM"}

OfferEventName == {"SUBMIT", "COUNTER", "ACCEPT", "PAYMENT_CAPTURED",
                   "ENGAGEMENT_STARTED", "ALL_MILESTONES_RELEASED", "OPEN_DISPUTE",
                   "RESOLVE_DISPUTE_RELEASE", "RESOLVE_DISPUTE_REFUND", "REFUND",
                   "CANCEL", "EXPIRE"}

TERMINAL_STATES == {"COMPLETED", "REFUNDED", "CANCELLED", "EXPIRED"}

ESCROW_FUNDED_STATES == {"PAID_IN_ESCROW", "ACTIVE", "DISPUTED"}

TRANSITIONS ==
  {<<"DRAFT", "SUBMIT", "OFFERED">>,
   <<"OFFERED", "COUNTER", "COUNTERED">>,
   <<"COUNTERED", "COUNTER", "COUNTERED">>,
   <<"ACCEPTED", "PAYMENT_CAPTURED", "PAID_IN_ESCROW">>,
   <<"PAID_IN_ESCROW", "ENGAGEMENT_STARTED", "ACTIVE">>,
   <<"ACTIVE", "ALL_MILESTONES_RELEASED", "COMPLETED">>,
   <<"DISPUTED", "RESOLVE_DISPUTE_RELEASE", "ACTIVE">>,
   <<"DISPUTED", "RESOLVE_DISPUTE_REFUND", "REFUNDED">>,
   <<"PAID_IN_ESCROW", "REFUND", "REFUNDED">>}
  \cup {<<from, "ACCEPT", "ACCEPTED">> : from \in {"OFFERED", "COUNTERED"}}
  \cup {<<from, "OPEN_DISPUTE", "DISPUTED">> :
           from \in {"ACTIVE", "PAID_IN_ESCROW", "COMPLETED"}}
  \cup {<<from, "CANCEL", "CANCELLED">> :
           from \in {"DRAFT", "OFFERED", "COUNTERED", "ACCEPTED"}}
  \cup {<<from, "EXPIRE", "EXPIRED">> : from \in {"OFFERED", "COUNTERED", "ACCEPTED"}}

allowedActors ==
  [event \in OfferEventName |->
     CASE event \in {"SUBMIT", "COUNTER", "ACCEPT"} -> {"STUDENT", "COACH"}
       [] event \in {"OPEN_DISPUTE", "CANCEL"} -> {"STUDENT", "COACH", "ADMIN"}
       [] event \in {"RESOLVE_DISPUTE_RELEASE", "RESOLVE_DISPUTE_REFUND"} -> {"ADMIN"}
       [] event = "REFUND" -> {"ADMIN", "SYSTEM"}
       [] OTHER -> {"SYSTEM"}]

effects ==
  [event \in OfferEventName |->
     CASE event = "SUBMIT" -> <<"CREATE_SLOT_HOLDS">>
       [] event = "COUNTER" -> <<"SUPERSEDE_PARENT_OFFER", "EXTEND_SLOT_HOLDS">>
       [] event = "ACCEPT" -> <<"EXTEND_SLOT_HOLDS">>
       [] event = "PAYMENT_CAPTURED" -> <<"CREATE_ENGAGEMENT", "POST_ESCROW_FUNDING",
                                          "CREATE_MILESTONES", "CONVERT_HOLDS_TO_BOOKINGS">>
       [] event = "OPEN_DISPUTE" -> <<"FREEZE_PENDING_MILESTONES">>
       [] event = "RESOLVE_DISPUTE_RELEASE" -> <<"RELEASE_REMAINING_MILESTONES">>
       [] event \in {"RESOLVE_DISPUTE_REFUND", "REFUND"} ->
             <<"REFUND_UNRELEASED_ESCROW", "RELEASE_SLOT_HOLDS">>
       [] event \in {"CANCEL", "EXPIRE"} -> <<"RELEASE_SLOT_HOLDS">>
       [] OTHER -> <<>>]

(***************************************************************************)
(* TransitionContext: the facts about the rows around the offer that a     *)
(* guard may ask for, each read from the caller's snapshot.                *)
(***************************************************************************)
TransitionContext ==
  [hasCapturedPayment : BOOLEAN, hasOpenDispute : BOOLEAN,
   allMilestonesSettled : BOOLEAN, startDateReached : BOOLEAN,
   withinDisputeWindow : BOOLEAN, isInitiatorOfCurrentOffer : BOOLEAN]

checkGuards(event, ctx) ==
  CASE event \in {"COUNTER", "ACCEPT"} -> ~ctx.isInitiatorOfCurrentOffer
    [] event = "PAYMENT_CAPTURED" -> ctx.hasCapturedPayment
    [] event = "ENGAGEMENT_STARTED" -> ctx.startDateReached
    [] event = "ALL_MILESTONES_RELEASED" -> ctx.allMilestonesSettled /\ ~ctx.hasOpenDispute
    [] event = "OPEN_DISPUTE" -> ~ctx.hasOpenDispute /\ ctx.withinDisputeWindow
    [] event \in {"CANCEL", "EXPIRE"} -> ~ctx.hasCapturedPayment
    [] event = "REFUND" -> ~ctx.startDateReached
    [] OTHER -> TRUE

\* transition(current, event, actor, ctx) returns `to`; it throws when no `to` satisfies this.
Transition(current, event, actor, ctx, to) ==
  /\ current \notin TERMINAL_STATES
  /\ <<current, event, to>> \in TRANSITIONS
  /\ actor \in allowedActors[event]
  /\ checkGuards(event, ctx)

canTransition(current, event, actor, ctx) ==
  \E to \in OfferStatus : Transition(current, event, actor, ctx, to)

availableEvents(current, actor) ==
  {event \in OfferEventName :
     /\ actor \in allowedActors[event]
     /\ \E to \in OfferStatus : <<current, event, to>> \in TRANSITIONS}
===============================================================================
