------------------------------- MODULE OfferPage -------------------------------
(***************************************************************************)
(* What the two parties of a negotiation are shown: the offers of the      *)
(* conversation page with their buttons, and the conversation list with    *)
(* whose turn it is.  Both are computed from the Offer rows whenever they  *)
(* are shown, each by a query of its own, so this module has no variables: *)
(* its operators are views of a state of Negotiation.  A page that is out  *)
(* of date needs no view: Negotiation's requests come from any page.       *)
(***************************************************************************)
EXTENDS Negotiation

Viewers == {"STUDENT", "COACH"}

\* Another row names this one as its parent, whatever became of that row.
superseded(o) == \E c \in Offers : offer[c].parent = o

\* Wrong: the table alone decides, and a party may answer itself.
actionsOfTable(o, viewer) ==
  IF superseded(o) THEN {} ELSE availableEvents(offer[o].status, viewer)

mine(o, viewer) == offer[o].initiator = viewer

\* The events the page asks the state machine for: one may not accept or counter one's own offer.
actions(o, viewer) ==
  IF superseded(o) THEN {}
  ELSE {event \in availableEvents(offer[o].status, viewer) :
          mine(o, viewer) => event \notin {"ACCEPT", "COUNTER"}}

canPay(o, viewer) == viewer = "STUDENT" /\ offer[o].status = "ACCEPTED"

\* OfferBlock: four of the buttons there could be, and none on an offer that was replaced.
buttons(o, viewer) ==
  IF superseded(o) THEN {}
  ELSE (actions(o, viewer) \cap {"ACCEPT", "COUNTER", "CANCEL"})
         \cup (IF canPay(o, viewer) THEN {"PAY"} ELSE {})

\* Wrong: the list falls back to a parent whose child has settled.
openWithParents(o) == offer[o].status \in {"OFFERED", "COUNTERED", "ACCEPTED"}

\* The offers that page and list take for the one that is still open.
open(o) == offer[o].status \in {"OFFERED", "COUNTERED", "ACCEPTED"} /\ ~superseded(o)

\* The list: an accepted offer waits for the student to pay, any other for who did not make it.
awaiting(o, viewer) ==
  open(o) /\ IF offer[o].status = "ACCEPTED" THEN viewer = "STUDENT" ELSE ~mine(o, viewer)

-------------------------------------------------------------------------------
(* Properties *)

\* "The state machine decides what is legal; the UI only renders it. Two sources of truth here
\* would mean buttons that throw when pressed" (conversation.ts:203): pressed before anything
\* else happens, a button does what it says, but for a cancellation beside a captured payment.
ButtonsWork ==
  \A o \in Offers \ captured, viewer \in Viewers :
    \A event \in buttons(o, viewer) \ {"PAY"} :
      canTransition(offer[o].status, event, viewer, buildContext(o, viewer))

\* The list says "the ball is in the viewer's court" (conversation.ts:321) to the party that the
\* page lets go on with it, and to no other: two queries, one answer.
OneCourt ==
  \A o \in Offers, viewer \in Viewers :
    awaiting(o, viewer) <=> buttons(o, viewer) \cap {"ACCEPT", "PAY"} # {}

\* Page, list and state machine answer the same question alike (conversation.ts:203, :321).
PageFollowsTheRules == ButtonsWork /\ OneCourt

\* Two offers that are shown as open, in one conversation or in two, never ask for the same hour,
\* unless the sweep has taken the hours of one: whoever accepts and pays gets what is on the page
\* ("instead of showing four live-looking offers at once", conversation.ts:163).
OpenOffersAreApart ==
  \A o, c \in Offers \ expired :
    o # c /\ open(o) /\ open(c) => \A s \in offer[o].scope, t \in offer[c].scope : ~Overlaps(s, t)

-------------------------------------------------------------------------------
(* The inductive invariant behind OpenOffersAreApart *)

\* A row is nobody's child before it exists, and a countered offer has a child.
Parents ==
  \A o \in Offers : /\ offer[o].status = "none" => offer[o].parent = NoOffer
                    /\ offer[o].status = "COUNTERED" => superseded(o)

\* An accepted offer keeps its hours, but for a countered one that was accepted from an old page:
\* its child has them.
AcceptedOfferHoldsItsSlots ==
  \A o \in Offers \ expired :
    offer[o].status = "ACCEPTED" /\ ~superseded(o) => heldSlots(o) = offer[o].scope

PageInv == OfferInv /\ Parents /\ AcceptedOfferHoldsItsSlots

-------------------------------------------------------------------------------
(* What is promised and not kept *)

\* "Creates and submits an offer atomically" (offer-service.ts:654), and the page takes a counter-offer
\* for its parent's replacement from the first of the three transactions on: once every request
\* has come to its end, an offer that was sent and not answered can be accepted from the page.
OpenOfferCanBeAnswered ==
  (\A p \in Requests : pc[p] = "idle") =>
    \A o \in Offers, viewer \in Viewers :
      offer[o].status = "OFFERED" /\ ~mine(o, viewer) => "ACCEPT" \in buttons(o, viewer)
===============================================================================
