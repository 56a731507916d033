----------------------------- MODULE Negotiation ------------------------------
(***************************************************************************)
(* The negotiations over one coach's calendar: offers and counter-offers,  *)
(* acceptance, withdrawal and payment, and what each does to the coach's   *)
(* time, kept in the tables SlotHold and Booking.                          *)
(*                                                                         *)
(* Exclusivity is the database's: an exclusion constraint within each      *)
(* table and a trigger that looks at the other one, in transactions at     *)
(* READ COMMITTED.  So a transaction that writes several rows is several   *)
(* steps here.  What it has written and not committed is in its arg, where *)
(* the constraint of others finds it (and waits) and a query of others     *)
(* does not.  A transaction of one statement is one step.                  *)
(*                                                                         *)
(* There is no clock: an offer or a hold may pass its deadline at any      *)
(* time.  Prices, notes, milestones and money are left out.                *)
(***************************************************************************)
EXTENDS OfferFSM, Integers, FiniteSets

CONSTANTS
  Offers,      \* bound: rows of the Offer table
  Slots,       \* pairs <<startsAt, endsAt>>
  Scopes,      \* the sets of slots a student may ask for
  Requests,    \* concurrent requests and cron invocations
  MaxEvents,   \* bound: sweeps, invites accepted and crashes, all together
  NoOffer, NoSlot

ASSUME SlotAssumption == \A s \in Slots : s[1] \in Int /\ s[2] \in Int /\ s[1] < s[2]

Overlaps(s, t) == s[1] < t[2] /\ t[1] < s[2]

\* inviteTimeProblem and the calendar the student picks from give no offer two slots that overlap.
ASSUME ScopeAssumption ==
  /\ Scopes \subseteq SUBSET Slots
  /\ \A S \in Scopes : S # {} /\ IsFiniteSet(S) /\ \A s, t \in S : s # t => ~Overlaps(s, t)

ASSUME BoundAssumption ==
  NoOffer \notin Offers /\ NoSlot \notin Slots /\ MaxEvents \in Nat

VARIABLES
  offer,     \* the Offer rows
  captured,  \* offers with a captured payment
  calendar,  \* the committed rows that take time: HELD holds and SCHEDULED bookings
  expired,   \* offers that have EXPIRED holds
  pc, arg, events

vars == <<offer, captured, calendar, expired, pc, arg, events>>

Row == [kind : {"hold", "session", "extra"}, offer : Offers, slot : Slots]

OfferRow == [status : OfferStatus \cup {"none"}, initiator : ActorRole,
             parent : Offers \cup {NoOffer}, scope : Scopes \cup {{}}]

NoRow == [status |-> "none", initiator |-> "STUDENT", parent |-> NoOffer, scope |-> {}]

NoArgs == [offer |-> NoOffer, from |-> "none", to |-> "none", role |-> "SYSTEM",
           kind |-> "hold", todo |-> {}, slot |-> NoSlot, written |-> {}, ended |-> {}]

Init ==
  /\ offer = [o \in Offers |-> NoRow] /\ captured = {}
  /\ calendar = {} /\ expired = {}
  /\ pc = [p \in Requests |-> "idle"] /\ arg = [p \in Requests |-> NoArgs]
  /\ events = 0

Goto(p, step, a) == pc' = [pc EXCEPT ![p] = step] /\ arg' = [arg EXCEPT ![p] = a]

\* The handler ends; what its transaction had not committed is gone.
Return(p) == Goto(p, "idle", NoArgs)

-------------------------------------------------------------------------------
(* PostgreSQL *)

SameTable(r, t) == (r.kind = "hold") <=> (t.kind = "hold")
Collide(r, t) == SameTable(r, t) /\ Overlaps(r.slot, t.slot)

\* What a query of p's transaction sees.
visible(p) == (calendar \ arg[p].ended) \cup arg[p].written

\* assert_no_cross_slot_overlap
TriggerRaises(p, r) == \E t \in visible(p) : ~SameTable(r, t) /\ Overlaps(r.slot, t.slot)

\* Wrong: "SELECT, then INSERT": what others have not committed is not waited for.
waitsForNobody(p, r) == {}

\* The transactions whose end decides whether p's row may stay.
waitsFor(p, r) ==
  {q \in Requests \ {p} : \E t \in arg[q].written \cup arg[q].ended : Collide(r, t)}

\* Rows that nobody is about to end.
settledRows == calendar \ UNION {arg[q].ended : q \in Requests}

\* slot_hold_no_overlap, booking_no_overlap
ConstraintRaises(p, r) == \E t \in settledRows : Collide(r, t)

inTransaction == {p \in Requests : pc[p] \in {"insert", "check", "convert", "commit"}}

\* Wrong: the status is written outside the transaction, so no row lock is held.
offerFree(p, o) == FALSE

\* Another transaction has updated the offer row; who updates it next waits.
offerLocked(p, o) ==
  \E q \in inTransaction \ {p} : arg[q].offer = o /\ arg[q].to # "none"

newRow(p) == [kind |-> arg[p].kind, offer |-> arg[p].offer, slot |-> arg[p].slot]

earliest(S) == {s \in S : \A t \in S : s[1] <= t[1]}

\* create() of the next slot: the BEFORE trigger, then the row and its index entry.
InsertRow(p) ==
  /\ pc[p] = "insert"
  /\ \E s \in earliest(arg[p].todo) :
       LET r == [kind |-> arg[p].kind, offer |-> arg[p].offer, slot |-> s]
       IN IF TriggerRaises(p, r) THEN Return(p)
          ELSE Goto(p, "check", [arg[p] EXCEPT !.slot = s, !.written = @ \cup {r}])
  /\ UNCHANGED <<offer, captured, calendar, expired, events>>

\* Wrong: the loop goes on with the next slot when one is taken.
CheckSkipping(p) ==
  /\ pc[p] = "check"
  /\ waitsFor(p, newRow(p)) = {}
  /\ LET rest == arg[p].todo \ {arg[p].slot}
     IN Goto(p, IF rest = {} THEN "commit" ELSE "insert",
             [arg[p] EXCEPT !.todo = rest,
                !.written = IF ConstraintRaises(p, newRow(p)) THEN @ \ {newRow(p)} ELSE @])
  /\ UNCHANGED <<offer, captured, calendar, expired, events>>

\* The exclusion constraint of the row just written: one error ends all of it.
CheckExclusion(p) ==
  /\ pc[p] = "check"
  /\ \/ ConstraintRaises(p, newRow(p)) /\ Return(p)
     \/ /\ ~ConstraintRaises(p, newRow(p)) /\ waitsFor(p, newRow(p)) = {}
        /\ LET rest == arg[p].todo \ {arg[p].slot}
           IN Goto(p, IF rest = {} THEN "commit" ELSE "insert", [arg[p] EXCEPT !.todo = rest])
  /\ UNCHANGED <<offer, captured, calendar, expired, events>>

Waits(p, q) == pc[p] = "check" /\ ~ConstraintRaises(p, newRow(p)) /\ q \in waitsFor(p, newRow(p))

\* The deadlock detector ends one transaction of a circle.
DeadlockDetected(p) ==
  /\ \E C \in SUBSET Requests : p \in C /\ \A q \in C : \E r \in C : Waits(q, r)
  /\ Return(p)
  /\ UNCHANGED <<offer, captured, calendar, expired, events>>

-------------------------------------------------------------------------------
(* Helpers of the offer service *)

buildContext(o, role) ==
  [hasCapturedPayment |-> o \in captured, hasOpenDispute |-> FALSE,
   allMilestonesSettled |-> FALSE, startDateReached |-> FALSE, withinDisputeWindow |-> TRUE,
   isInitiatorOfCurrentOffer |-> offer[o].initiator = role]

holdsOf(o) == {r \in calendar : r.kind = "hold" /\ r.offer = o}
sessionsOf(o) == {r \in calendar : r.kind = "session" /\ r.offer = o}
heldSlots(o) == {r.slot : r \in holdsOf(o)}

\* The id of the next row.
fresh == CHOOSE o \in Offers : offer[o].status = "none"
mayCreate == \E o \in Offers : offer[o].status = "none"

\* extendHolds updates the rows, and every update fires the trigger.
ExtendRaises(p, o) ==
  \E r \in visible(p) : r.kind = "hold" /\ r.offer = o /\ TriggerRaises(p, r)

-------------------------------------------------------------------------------
(* createOffer *)

\* The DRAFT row of a student's own offer.
SubmitOffer(p) ==
  /\ pc[p] = "idle" /\ mayCreate
  /\ \E S \in Scopes :
       /\ offer' = [offer EXCEPT ![fresh] = [NoRow EXCEPT !.status = "DRAFT", !.scope = S]]
       /\ Goto(p, "submit", [NoArgs EXCEPT !.offer = fresh, !.role = "STUDENT"])
  /\ UNCHANGED <<captured, calendar, expired, events>>

\* The DRAFT row of a counter-offer: the parent's slots, a new price.  The status read with the
\* parent is the one COUNTER expects.
CounterOffer(p) ==
  /\ pc[p] = "idle" /\ mayCreate
  /\ \E parent \in Offers, role \in {"STUDENT", "COACH"} :
       /\ offer[parent].status \in {"OFFERED", "COUNTERED"}
       /\ offer' = [offer EXCEPT ![fresh] = [offer[parent] EXCEPT !.status = "DRAFT",
                                                                  !.initiator = role,
                                                                  !.parent = parent]]
       /\ Goto(p, "counter", [NoArgs EXCEPT !.offer = fresh, !.role = role,
                                            !.from = offer[parent].status])
  /\ UNCHANGED <<captured, calendar, expired, events>>

transferred(old, new) == (calendar \ holdsOf(old)) \cup {[r EXCEPT !.offer = new] : r \in holdsOf(old)}

\* Wrong: the parent's slots are released and left to the child to acquire.
CounterReleasing(p) ==
  /\ pc[p] = "counter"
  /\ LET o == arg[p].offer
         parent == offer[o].parent
     IN /\ ~offerLocked(p, parent)
        /\ \E to \in OfferStatus :
             /\ offer[parent].status = arg[p].from
             /\ Transition(arg[p].from, "COUNTER", arg[p].role, buildContext(parent, arg[p].role), to)
             /\ offer' = [offer EXCEPT ![parent].status = to]
             /\ calendar' = calendar \ holdsOf(parent)
             /\ Goto(p, "submit", arg[p])
  /\ UNCHANGED <<captured, expired, events>>

\* COUNTER on the parent, with SUPERSEDE_PARENT_OFFER; the parent has no holds left to extend.
Counter(p) ==
  /\ pc[p] = "counter"
  /\ LET o == arg[p].offer
         parent == offer[o].parent
         Allowed(to) ==
           /\ offer[parent].status = arg[p].from
           /\ Transition(arg[p].from, "COUNTER", arg[p].role, buildContext(parent, arg[p].role), to)
           /\ ~ExtendRaises(p, parent)
     IN /\ ~offerLocked(p, parent)
        /\ \/ \E to \in OfferStatus :
                /\ Allowed(to)
                /\ offer' = [offer EXCEPT ![parent].status = to]
                /\ calendar' = transferred(parent, o)
                /\ Goto(p, "submit", arg[p])
           \/ /\ \A to \in OfferStatus : ~Allowed(to)
              /\ Return(p)
              /\ UNCHANGED <<offer, calendar>>
  /\ UNCHANGED <<captured, expired, events>>

\* SUBMIT and the beginning of CREATE_SLOT_HOLDS: stale holds go, missing ones are to be acquired.
Submit(p) ==
  /\ pc[p] = "submit"
  /\ LET o == arg[p].offer
         stale == {r \in holdsOf(o) : r.slot \notin offer[o].scope}
         missing == offer[o].scope \ heldSlots(o)
     IN /\ ~offerLocked(p, o)
        /\ \/ \E to \in OfferStatus :
                /\ Transition(offer[o].status, "SUBMIT", arg[p].role, buildContext(o, arg[p].role), to)
                /\ Goto(p, IF missing = {} THEN "commit" ELSE "insert",
                        [arg[p] EXCEPT !.to = to, !.todo = missing, !.ended = stale])
           \/ /\ ~canTransition(offer[o].status, "SUBMIT", arg[p].role, buildContext(o, arg[p].role))
              /\ Return(p)
  /\ UNCHANGED <<offer, captured, calendar, expired, events>>

\* The end of a transaction of several rows; SUBMIT extends the holds it found before it commits.
Commit(p) ==
  /\ pc[p] = "commit"
  /\ LET o == arg[p].offer
     IN IF arg[p].to = "OFFERED" /\ holdsOf(o) # {} /\ ExtendRaises(p, o)
        THEN UNCHANGED <<offer, calendar>>
        ELSE /\ calendar' = visible(p)
             /\ offer' = IF arg[p].to = "none" THEN offer
                         ELSE [offer EXCEPT ![o].status = arg[p].to]
  /\ Return(p)
  /\ UNCHANGED <<captured, expired, events>>

-------------------------------------------------------------------------------
(* ACCEPT, CANCEL, EXPIRE *)

\* The reads of acceptOffer, declineOffer or expireOffers, and transition()'s verdict on them.
Decide(p) ==
  /\ pc[p] = "idle"
  /\ \E o \in Offers, event \in {"ACCEPT", "CANCEL", "EXPIRE"}, role \in ActorRole \ {"ADMIN"},
        to \in OfferStatus :
       /\ offer[o].status # "none"
       /\ Transition(offer[o].status, event, role, buildContext(o, role), to)
       /\ Goto(p, "decide", [NoArgs EXCEPT !.offer = o, !.from = offer[o].status, !.to = to])
  /\ UNCHANGED <<offer, captured, calendar, expired, events>>

Withdrawn == {"CANCELLED", "EXPIRED"}

\* Wrong: the holds of the counter-offers are released with those of the offer.
DecidedForChain(p) ==
  /\ pc[p] = "decide" /\ ~offerLocked(p, arg[p].offer)
  /\ LET o == arg[p].offer
         chain == {c \in Offers : c = o \/ offer[c].parent = o}
     IN IF offer[o].status = arg[p].from
        THEN /\ offer' = [offer EXCEPT ![o].status = arg[p].to]
             /\ calendar' = IF arg[p].to \in Withdrawn
                            THEN calendar \ UNION {holdsOf(c) : c \in chain} ELSE calendar
        ELSE UNCHANGED <<offer, calendar>>
  /\ Return(p)
  /\ UNCHANGED <<captured, expired, events>>

\* The compare-and-set and RELEASE_SLOT_HOLDS or EXTEND_SLOT_HOLDS.
Decided(p) ==
  /\ pc[p] = "decide" /\ ~offerLocked(p, arg[p].offer)
  /\ LET o == arg[p].offer
     IN IF offer[o].status = arg[p].from /\ (arg[p].to = "ACCEPTED" => ~ExtendRaises(p, o))
        THEN /\ offer' = [offer EXCEPT ![o].status = arg[p].to]
             /\ calendar' = IF arg[p].to \in Withdrawn THEN calendar \ holdsOf(o) ELSE calendar
        ELSE UNCHANGED <<offer, calendar>>
  /\ Return(p)
  /\ UNCHANGED <<captured, expired, events>>

-------------------------------------------------------------------------------
(* Payment, invites, the sweep *)

\* The payment is recorded; the transition comes in a transaction of its own.  (A payment that is
\* late for its offer changes no calendar: Checkout.)
PaymentCaptured(p) ==
  /\ pc[p] = "idle"
  /\ \E o \in Offers \ captured :
       /\ offer[o].status = "ACCEPTED"
       /\ captured' = captured \cup {o}
       /\ Goto(p, "capture", [NoArgs EXCEPT !.offer = o])
  /\ UNCHANGED <<offer, calendar, expired, events>>

\* The compare-and-set, and the findMany of convertHoldsToBookings.
ConvertHoldsToBookings(p) ==
  /\ pc[p] = "capture" /\ ~offerLocked(p, arg[p].offer)
  /\ LET o == arg[p].offer
     IN \/ \E to \in OfferStatus :
             /\ Transition(offer[o].status, "PAYMENT_CAPTURED", "SYSTEM", buildContext(o, "SYSTEM"), to)
             /\ Goto(p, IF holdsOf(o) = {} THEN "commit" ELSE "convert",
                     [arg[p] EXCEPT !.to = to, !.kind = "session", !.todo = heldSlots(o)])
        \/ /\ ~canTransition(offer[o].status, "PAYMENT_CAPTURED", "SYSTEM", buildContext(o, "SYSTEM"))
           /\ Return(p)
  /\ UNCHANGED <<offer, captured, calendar, expired, events>>

\* Its updateMany: the holds that are still HELD become CONVERTED.  The bookings are created from
\* what the findMany returned.
ConvertHolds(p) ==
  /\ pc[p] = "convert"
  /\ Goto(p, "insert", [arg[p] EXCEPT !.ended = holdsOf(arg[p].offer)])
  /\ UNCHANGED <<offer, captured, calendar, expired, events>>

\* The transaction of an accepted invite: an extra session, or a session that moves.
AcceptInvite(p) ==
  /\ pc[p] = "idle" /\ events < MaxEvents
  /\ events' = events + 1
  /\ \E o \in Offers, s \in Slots :
       /\ offer[o].status = "PAID_IN_ESCROW"
       /\ \/ Goto(p, "insert", [NoArgs EXCEPT !.offer = o, !.kind = "extra", !.todo = {s}])
          \/ \E r \in settledRows :
               /\ r.kind # "hold" /\ r.offer = o
               /\ Goto(p, "insert", [NoArgs EXCEPT !.offer = o, !.kind = r.kind, !.todo = {s},
                                                   !.ended = {r}])
  /\ UNCHANGED <<offer, captured, calendar, expired>>

\* One statement; a row that another transaction is updating is looked at again when that ends.
ExpireStaleHolds(p) ==
  /\ pc[p] = "idle" /\ events < MaxEvents
  /\ events' = events + 1
  /\ \E o \in Offers :
       /\ holdsOf(o) # {} /\ holdsOf(o) \subseteq settledRows
       /\ calendar' = calendar \ holdsOf(o)
       /\ expired' = expired \cup {o}
  /\ UNCHANGED <<offer, captured, pc, arg>>

-------------------------------------------------------------------------------
\* A handler dies, or its transaction is rolled back: the time limit, a lost connection.
Crash(p) ==
  /\ pc[p] # "idle" /\ events < MaxEvents
  /\ events' = events + 1
  /\ Return(p)
  /\ UNCHANGED <<offer, captured, calendar, expired>>

Handler(p) == \/ Counter(p) \/ Submit(p) \/ Decided(p)
              \/ ConvertHoldsToBookings(p) \/ ConvertHolds(p)
              \/ InsertRow(p) \/ CheckExclusion(p) \/ Commit(p)

Next == \E p \in Requests :
  \/ SubmitOffer(p) \/ CounterOffer(p) \/ Decide(p) \/ PaymentCaptured(p)
  \/ AcceptInvite(p) \/ ExpireStaleHolds(p)
  \/ Handler(p) \/ DeadlockDetected(p) \/ Crash(p)

Spec == Init /\ [][Next]_vars

-------------------------------------------------------------------------------
(* Properties *)

\* The type of every variable.
TypeOK ==
  /\ offer \in [Offers -> OfferRow]
  /\ captured \subseteq Offers /\ expired \subseteq Offers
  /\ calendar \subseteq Row
  /\ pc \in [Requests -> {"idle", "counter", "submit", "decide", "capture", "convert",
                          "insert", "check", "commit"}]
  /\ arg \in [Requests -> [offer : Offers \cup {NoOffer}, from : OfferStatus \cup {"none"},
                           to : OfferStatus \cup {"none"}, role : ActorRole,
                           kind : {"hold", "session", "extra"}, todo : SUBSET Slots,
                           slot : Slots \cup {NoSlot}, written : SUBSET Row, ended : SUBSET Row]]
  /\ events \in Nat

\* "A coach cannot have two live holds" nor two scheduled bookings "covering the same instant"
\* (migration.sql:8), whatever the transactions that take, transfer, convert and move them.
NoDoubleBooking == \A r, t \in calendar : r # t => ~Collide(r, t)

\* "Acquires all slots or none" (holds.ts:48): at no commit does an offer hold a part of the
\* hours it asks for, nor a program have a part of its sessions.
NeverHalfBooked ==
  \A o \in Offers : /\ heldSlots(o) \in {{}, offer[o].scope}
                    /\ Cardinality(sessionsOf(o)) \in {0, Cardinality(offer[o].scope)}

\* "An offer visible to the counterparty without holds is an offer whose calendar can be taken out
\* from under it" (offer-service.ts:654): an open offer holds its hours until the sweep takes them.
OpenOfferHoldsItsSlots ==
  \A o \in Offers \ expired : offer[o].status = "OFFERED" => heldSlots(o) = offer[o].scope

\* "Its holds are transferred to the child rather than released and re-acquired"
\* (offer-service.ts:327): no step that counters an offer opens its hours to others.
CounterKeepsSlots ==
  [][\A o \in Offers : offer'[o].status = "COUNTERED" /\ offer[o].status = "OFFERED"
                       => {r.slot : r \in {h \in calendar : h.kind = "hold"}}
                            \subseteq {r.slot : r \in {h \in calendar' : h.kind = "hold"}}]_vars

\* An offer that expired, and one that was cancelled and is nobody's child, keeps no hours.
DeadOfferFreesItsSlots ==
  \A o \in Offers :
    (offer[o].status = "EXPIRED" \/ (offer[o].status = "CANCELLED" /\ offer[o].parent = NoOffer))
    => holdsOf(o) = {}

\* What an offer holds follows its status, whoever decides about its chain at the same time.
HoursFollowTheOffer == OpenOfferHoldsItsSlots /\ DeadOfferFreesItsSlots

-------------------------------------------------------------------------------
(* The inductive invariant behind NoDoubleBooking *)

\* Outside a transaction nothing is written, and what is under way is about an offer.
TransactionsOnly == \A p \in Requests :
  /\ pc[p] # "idle" => arg[p].offer \in Offers
  /\ p \notin inTransaction => arg[p].todo = {} /\ arg[p].written = {} /\ arg[p].ended = {}
  /\ pc[p] = "convert" => arg[p].written = {} /\ arg[p].ended = {} /\ arg[p].to # "none"
  /\ pc[p] = "check" => newRow(p) \in arg[p].written /\ arg[p].slot \in arg[p].todo

\* Two transactions do not update the same offer, and a hold is ended by the one that updates
\* its offer.
OneWriterPerOffer ==
  /\ \A p \in inTransaction, q \in inTransaction :
       p # q /\ arg[p].to # "none" /\ arg[q].to # "none" => arg[p].offer # arg[q].offer
  /\ \A p \in Requests : \A r \in arg[p].ended :
       r.kind = "hold" => r.offer = arg[p].offer /\ arg[p].to # "none"

\* A row is ended by one transaction, and is there until that commits.
OneEndPerRow ==
  /\ \A p \in Requests : arg[p].ended \subseteq calendar
  /\ \A p, q \in Requests : p # q => arg[p].ended \cap arg[q].ended = {}

\* The rows of p that have passed their constraint.
placed(p) == IF pc[p] = "check" THEN arg[p].written \ {newRow(p)} ELSE arg[p].written

\* What p still has to insert overlaps neither itself nor what p has inserted.
TodoIsApart == \A p \in Requests :
  /\ \A s, t \in arg[p].todo : s # t => ~Overlaps(s, t)
  /\ \A s \in arg[p].todo, r \in placed(p) : ~Overlaps(s, r.slot)
  /\ \A r, t \in placed(p) : r # t => ~Overlaps(r.slot, t.slot)

\* A row that has passed its constraint collides with no row but those that its own transaction
\* is about to end, and with no row of another transaction that has passed its constraint too.
PlacedIsClear == \A p \in Requests : \A r \in placed(p) :
  /\ \A t \in calendar \ arg[p].ended : ~Collide(r, t)
  /\ \A q \in Requests \ {p} : \A t \in placed(q) : ~Collide(r, t)

\* What keeps two transactions that cannot see each other's rows from committing the same hour.
SlotInv == /\ TypeOK /\ TransactionsOnly /\ OneWriterPerOffer /\ OneEndPerRow
           /\ TodoIsApart /\ PlacedIsClear /\ NoDoubleBooking

-------------------------------------------------------------------------------
(* The inductive invariant behind the properties about whole offers *)

sending(p) == p \in inTransaction /\ arg[p].to = "OFFERED"
funding(p) == p \in inTransaction /\ arg[p].to = "PAID_IN_ESCROW"
inviting(p) == p \in inTransaction /\ arg[p].to = "none"

\* The hours p's transaction has taken and will take.
claimed(p) == arg[p].todo \cup {r.slot : r \in placed(p)}

\* There are three transactions of several rows, and each writes rows of one kind for its offer.
ThreeTransactions == \A p \in inTransaction :
  /\ sending(p) \/ funding(p) \/ inviting(p)
  /\ \A r \in arg[p].written : r.kind = arg[p].kind /\ r.offer = arg[p].offer
  /\ pc[p] = "commit" => arg[p].todo = {}
  /\ pc[p] = "convert" => funding(p)

\* An offer that is being sent is no other request's, and at most a withdrawal reaches it.
UnsentOffers == \A p \in Requests :
  /\ pc[p] \in {"counter", "submit"} =>
       arg[p].kind = "hold" /\ offer[arg[p].offer].status \in {"DRAFT", "CANCELLED"}
  /\ pc[p] = "counter" => offer[arg[p].offer].parent \in Offers /\ holdsOf(arg[p].offer) = {}
  /\ \A q \in Requests \ {p} :
       /\ pc[p] \in {"counter", "submit"} \/ sending(p)
       /\ pc[q] \in {"counter", "submit"} \/ sending(q)
       => arg[p].offer # arg[q].offer

\* The verdicts of transition() that a compare-and-set may carry out.
VerdictsKnown == \A p \in Requests : pc[p] = "decide" =>
  /\ arg[p].to \in {"ACCEPTED", "CANCELLED", "EXPIRED"}
  /\ arg[p].from \in {"DRAFT", "OFFERED", "COUNTERED", "ACCEPTED"}
  /\ arg[p].from = "DRAFT" => arg[p].to = "CANCELLED"

\* Who sends an offer takes all of its hours, or finds them held.
SendsWhole == \A p \in Requests : sending(p) =>
  LET o == arg[p].offer
  IN  /\ offer[o].status = "DRAFT" /\ arg[p].kind = "hold" /\ arg[p].ended = {}
      /\ \/ claimed(p) = offer[o].scope /\ holdsOf(o) = {}
         \/ claimed(p) = {} /\ (heldSlots(o) = offer[o].scope \/ o \in expired)

\* Who funds an offer books all of its hours or none, and ends its holds.
FundsWhole == \A p \in Requests : funding(p) =>
  LET o == arg[p].offer
  IN  /\ offer[o].status = "ACCEPTED" /\ arg[p].kind = "session"
      /\ sessionsOf(o) = {} /\ claimed(p) \in {{}, offer[o].scope}
      /\ arg[p].ended \subseteq holdsOf(o)
      /\ pc[p] # "convert" => holdsOf(o) \subseteq arg[p].ended

\* Who accepts an invite books one hour, in place of the session that moves.
InvitesOne == \A p \in Requests : inviting(p) =>
  LET o == arg[p].offer
  IN  /\ offer[o].status = "PAID_IN_ESCROW" /\ arg[p].kind # "hold"
      /\ \E s \in Slots : claimed(p) = {s}
      /\ arg[p].kind = "session" => \E r \in sessionsOf(o) : arg[p].ended = {r}
      /\ arg[p].kind = "extra" => \A r \in arg[p].ended : r.kind = "extra"

\* An offer that does not exist holds nothing, a counter-offer asks for its parent's hours, and
\* only paid programs have sessions.
RowsKnown == \A o \in Offers :
  /\ offer[o].status = "none" => holdsOf(o) = {}
  /\ offer[o].parent \in Offers => /\ offer[offer[o].parent].status # "none"
                                   /\ offer[o].scope = offer[offer[o].parent].scope
  /\ sessionsOf(o) # {} => offer[o].status = "PAID_IN_ESCROW" /\ IsFiniteSet(sessionsOf(o))

\* What keeps the hours of an offer together through transactions that are cut short, transferred
\* or raced by the sweep.
OfferInv == /\ SlotInv /\ ThreeTransactions /\ UnsentOffers /\ VerdictsKnown
            /\ SendsWhole /\ FundsWhole /\ InvitesOne /\ RowsKnown
            /\ NeverHalfBooked /\ OpenOfferHoldsItsSlots /\ DeadOfferFreesItsSlots

-------------------------------------------------------------------------------
(* What is promised and not kept *)

\* "Holds and bookings must also not collide with each other [...] a trigger closes the gap"
\* (migration.sql:29).
HoldsKeepOffBookings ==
  \A r, t \in calendar : r.kind = "hold" /\ t.kind # "hold" => ~Overlaps(r.slot, t.slot)
===============================================================================
