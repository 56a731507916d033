---------------------- MODULE NegotiationOffers_proofs -----------------------
(***************************************************************************)
(* No offer is held or booked in part, an open offer holds its hours, and  *)
(* a dead one keeps none, for any number of offers, slots and requests.    *)
(*                                                                         *)
(* Every step does one of eleven things (Deeds), and to every offer it     *)
(* does one of nine (Fates).  Each part of OfferInv is preserved by each.  *)
(***************************************************************************)
EXTENDS OfferPage, Negotiation_proofs, FiniteSetTheorems

-------------------------------------------------------------------------------
(* What a step does *)

SameRows == offer' = offer /\ calendar' = calendar /\ expired' = expired

Quits(p) == SameRows /\ pc'[p] = "idle"

Creates(p) ==
  /\ pc'[p] \in {"counter", "submit"} /\ arg'[p].kind = "hold" /\ arg'[p].offer \in Offers
  /\ \E row \in OfferRow :
       /\ offer' = [offer EXCEPT ![arg'[p].offer] = row]
       /\ row.status = "DRAFT"
       /\ pc'[p] = "counter" => row.parent \in Offers
       /\ row.parent \in Offers => /\ offer[row.parent].status # "none"
                                   /\ row.scope = offer[row.parent].scope
  /\ offer[arg'[p].offer].status = "none"
  /\ calendar' = calendar /\ expired' = expired

Supersedes(p) ==
  /\ pc[p] = "counter" /\ pc'[p] = "submit" /\ arg'[p] = arg[p]
  /\ LET o == arg[p].offer
         parent == offer[o].parent
     IN /\ ~offerLocked(p, parent)
        /\ offer[parent].status \in {"OFFERED", "COUNTERED"}
        /\ offer' = [offer EXCEPT ![parent].status = "COUNTERED"]
        /\ calendar' = transferred(parent, o)
  /\ expired' = expired

Considers(p) ==
  /\ SameRows
  /\ \/ pc'[p] = "capture"
     \/ /\ pc'[p] = "decide"
        /\ arg'[p].to \in {"ACCEPTED", "CANCELLED", "EXPIRED"}
        /\ arg'[p].from \in {"DRAFT", "OFFERED", "COUNTERED", "ACCEPTED"}
        /\ arg'[p].from = "DRAFT" => arg'[p].to = "CANCELLED"

Resolves(p) ==
  /\ pc[p] = "decide" /\ pc'[p] = "idle"
  /\ LET o == arg[p].offer
     IN /\ ~offerLocked(p, o) /\ offer[o].status = arg[p].from
        /\ offer' = [offer EXCEPT ![o].status = arg[p].to]
        /\ calendar' = IF arg[p].to \in Withdrawn THEN calendar \ holdsOf(o) ELSE calendar
  /\ expired' = expired

Sends(p) ==
  /\ SameRows /\ pc[p] = "submit" /\ pc'[p] \in {"insert", "commit"}
  /\ arg'[p].offer = arg[p].offer /\ arg'[p].to = "OFFERED" /\ arg'[p].kind = arg[p].kind
  /\ LET o == arg[p].offer
     IN /\ ~offerLocked(p, o) /\ offer[o].status = "DRAFT"
        /\ arg'[p].todo = offer[o].scope \ heldSlots(o)
        /\ arg'[p].written = {}
        /\ arg'[p].ended = {r \in holdsOf(o) : r.slot \notin offer[o].scope}
  /\ pc'[p] = "commit" => arg'[p].todo = {}

Funds(p) ==
  /\ SameRows /\ pc[p] = "capture" /\ pc'[p] \in {"convert", "commit"}
  /\ arg'[p].offer = arg[p].offer /\ arg'[p].to = "PAID_IN_ESCROW" /\ arg'[p].kind = "session"
  /\ ~offerLocked(p, arg[p].offer) /\ offer[arg[p].offer].status = "ACCEPTED"
  /\ arg'[p].todo = heldSlots(arg[p].offer) /\ arg'[p].written = {} /\ arg'[p].ended = {}
  /\ pc'[p] = "commit" => holdsOf(arg[p].offer) = {}

Invites(p) ==
  /\ SameRows /\ pc'[p] = "insert"
  /\ arg'[p].offer \in Offers /\ offer[arg'[p].offer].status = "PAID_IN_ESCROW"
  /\ arg'[p].to = "none" /\ arg'[p].written = {}
  /\ \E s \in Slots : arg'[p].todo = {s}
  /\ \/ arg'[p].kind = "extra" /\ arg'[p].ended = {}
     \/ \E r \in calendar : /\ r.kind # "hold" /\ r.offer = arg'[p].offer
                            /\ arg'[p].kind = r.kind /\ arg'[p].ended = {r}

Lands(p) ==
  /\ pc[p] = "commit" /\ pc'[p] = "idle"
  /\ calendar' = visible(p) /\ expired' = expired
  /\ offer' = IF arg[p].to = "none" THEN offer
              ELSE [offer EXCEPT ![arg[p].offer].status = arg[p].to]

Sweeps(p) ==
  /\ pc' = pc /\ arg' = arg /\ pc[p] = "idle" /\ offer' = offer
  /\ \E o \in Offers : /\ calendar' = calendar \ holdsOf(o)
                       /\ expired' = expired \cup {o}

GoesOn(p) == /\ SameRows /\ (Converts(p) \/ Inserts(p) \/ Checks(p))
             /\ pc'[p] = "commit" => arg'[p].todo = {}

Deeds(p) == OthersStay(p) /\ (\/ Quits(p) \/ Creates(p) \/ Supersedes(p) \/ Considers(p)
                              \/ Resolves(p) \/ Sends(p) \/ Funds(p) \/ Invites(p)
                              \/ Lands(p) \/ Sweeps(p) \/ GoesOn(p))

LEMMA QuitsByReturn ==
  ASSUME TypeOK, NEW p \in Requests, Return(p), SameRows
  PROVE  Deeds(p)
  BY ReturnEffect DEF Deeds, Quits

\* The two creations.
LEMMA CreationDeeds ==
  ASSUME OfferInv, NEW p \in Requests, SubmitOffer(p) \/ CounterOffer(p)
  PROVE  Deeds(p)
  <1>0. TypeOK
    BY DEF OfferInv, SlotInv
  <1>1. fresh \in Offers /\ offer[fresh].status = "none"
    BY DEF SubmitOffer, CounterOffer, fresh, mayCreate
  <1>2. CASE SubmitOffer(p)
    <2>1. PICK S \in Scopes :
             /\ offer' = [offer EXCEPT ![fresh] = [NoRow EXCEPT !.status = "DRAFT", !.scope = S]]
             /\ Goto(p, "submit", [NoArgs EXCEPT !.offer = fresh, !.role = "STUDENT"])
      BY <1>2 DEF SubmitOffer
    <2> DEFINE row == [NoRow EXCEPT !.status = "DRAFT", !.scope = S]
    <2>2. row \in OfferRow /\ row.status = "DRAFT" /\ row.parent \notin Offers
      BY NoRowType, BoundAssumption DEF OfferRow, OfferStatus, NoRow
    <2>3. /\ pc'[p] = "submit" /\ OthersStay(p)
          /\ arg'[p] = [NoArgs EXCEPT !.offer = fresh, !.role = "STUDENT"]
      BY <1>0, <2>1, GotoEffect
    <2>4. arg'[p].offer = fresh /\ arg'[p].kind = "hold"
      BY <2>3 DEF NoArgs
    <2>5. calendar' = calendar /\ expired' = expired
      BY <1>2 DEF SubmitOffer
    <2>6. offer' = [offer EXCEPT ![arg'[p].offer] = row]
      BY <2>1, <2>4
    <2> HIDE DEF row
    <2>7. Creates(p)
      BY <1>1, <2>2, <2>3, <2>4, <2>5, <2>6 DEF Creates
    <2> QED BY <2>3, <2>7 DEF Deeds
  <1>3. CASE CounterOffer(p)
    <2>1. PICK parent \in Offers, role \in {"STUDENT", "COACH"} :
             /\ offer[parent].status \in {"OFFERED", "COUNTERED"}
             /\ offer' = [offer EXCEPT ![fresh] = [offer[parent] EXCEPT !.status = "DRAFT",
                                                     !.initiator = role, !.parent = parent]]
             /\ Goto(p, "counter", [NoArgs EXCEPT !.offer = fresh, !.role = role,
                                                  !.from = offer[parent].status])
      BY <1>3 DEF CounterOffer
    <2> DEFINE row == [offer[parent] EXCEPT !.status = "DRAFT", !.initiator = role, !.parent = parent]
    <2>2. row \in OfferRow /\ row.status = "DRAFT" /\ row.parent = parent
          /\ row.scope = offer[parent].scope
      BY <1>0, StepsAndArgs DEF OfferRow, OfferStatus, ActorRole
    <2>3. /\ pc'[p] = "counter" /\ OthersStay(p)
          /\ arg'[p] = [NoArgs EXCEPT !.offer = fresh, !.role = role, !.from = offer[parent].status]
      BY <1>0, <2>1, GotoEffect
    <2>4. arg'[p].offer = fresh /\ arg'[p].kind = "hold"
      BY <2>3 DEF NoArgs
    <2>5. calendar' = calendar /\ expired' = expired
      BY <1>3 DEF CounterOffer
    <2>6. offer' = [offer EXCEPT ![arg'[p].offer] = row]
      BY <2>1, <2>4
    <2>7. offer[parent].status # "none"
      BY <2>1
    <2> HIDE DEF row
    <2>8. Creates(p)
      BY <1>1, <2>2, <2>3, <2>4, <2>5, <2>6, <2>7 DEF Creates
    <2> QED BY <2>3, <2>8 DEF Deeds
  <1> QED BY <1>2, <1>3

\* What the table lets the writers of this module do.
LEMMA Verdicts ==
  \A current, actor, ctx, to :
    /\ Transition(current, "SUBMIT", actor, ctx, to) => current = "DRAFT" /\ to = "OFFERED"
    /\ Transition(current, "COUNTER", actor, ctx, to)
         => current \in {"OFFERED", "COUNTERED"} /\ to = "COUNTERED"
    /\ Transition(current, "PAYMENT_CAPTURED", actor, ctx, to)
         => current = "ACCEPTED" /\ to = "PAID_IN_ESCROW"
    /\ Transition(current, "ACCEPT", actor, ctx, to)
         => current \in {"OFFERED", "COUNTERED"} /\ to = "ACCEPTED"
    /\ Transition(current, "CANCEL", actor, ctx, to)
         => current \in {"DRAFT", "OFFERED", "COUNTERED", "ACCEPTED"} /\ to = "CANCELLED"
    /\ Transition(current, "EXPIRE", actor, ctx, to)
         => current \in {"OFFERED", "COUNTERED", "ACCEPTED"} /\ to = "EXPIRED"
  BY DEF Transition, TRANSITIONS

LEMMA OfferDeeds ==
  ASSUME OfferInv, NEW p \in Requests, Counter(p) \/ Submit(p) \/ Decided(p)
  PROVE  Deeds(p)
  <1>0. TypeOK /\ TransactionsOnly
    BY DEF OfferInv, SlotInv
  <1> DEFINE o == arg[p].offer
  <1>1. CASE Counter(p)
    <2> DEFINE parent == offer[o].parent
    <2>1. CASE Return(p) /\ UNCHANGED <<offer, calendar>>
      BY <1>0, <1>1, <2>1, QuitsByReturn DEF Counter, SameRows
    <2>2. CASE \E to \in OfferStatus :
                 /\ offer[parent].status = arg[p].from
                 /\ Transition(arg[p].from, "COUNTER", arg[p].role, buildContext(parent, arg[p].role), to)
                 /\ offer' = [offer EXCEPT ![parent].status = to]
                 /\ calendar' = transferred(parent, o)
                 /\ Goto(p, "submit", arg[p])
      <3>1. /\ offer[parent].status \in {"OFFERED", "COUNTERED"}
            /\ offer' = [offer EXCEPT ![parent].status = "COUNTERED"]
            /\ calendar' = transferred(parent, o)
            /\ Goto(p, "submit", arg[p])
        <4>1. PICK to \in OfferStatus :
                /\ offer[parent].status = arg[p].from
                /\ Transition(arg[p].from, "COUNTER", arg[p].role, buildContext(parent, arg[p].role), to)
                /\ offer' = [offer EXCEPT ![parent].status = to]
                /\ calendar' = transferred(parent, o)
                /\ Goto(p, "submit", arg[p])
          BY <2>2
        <4>2. arg[p].from \in {"OFFERED", "COUNTERED"} /\ to = "COUNTERED"
          BY <4>1, Verdicts
        <4> HIDE DEF parent, o
        <4> QED BY <4>1, <4>2
      <3>2. pc'[p] = "submit" /\ arg'[p] = arg[p] /\ OthersStay(p)
        BY <1>0, <3>1, GotoEffect
      <3>3. pc[p] = "counter" /\ expired' = expired /\ ~offerLocked(p, parent)
        BY <1>1 DEF Counter
      <3>4. Supersedes(p)
        BY <3>1, <3>2, <3>3 DEF Supersedes
      <3> QED BY <3>2, <3>4 DEF Deeds
    <2> QED BY <1>1, <2>1, <2>2 DEF Counter
  <1>2. CASE Submit(p)
    <2> DEFINE stale == {r \in holdsOf(o) : r.slot \notin offer[o].scope}
               missing == offer[o].scope \ heldSlots(o)
    <2>0. SameRows /\ pc[p] = "submit" /\ ~offerLocked(p, o) /\ arg[p].written = {} /\ arg[p] \in Args
      BY <1>0, <1>2, StepsAndArgs DEF Submit, SameRows, TransactionsOnly, inTransaction
    <2>1. CASE Return(p)
      BY <1>0, <2>0, <2>1, QuitsByReturn
    <2>2. CASE \E to \in OfferStatus :
                 /\ Transition(offer[o].status, "SUBMIT", arg[p].role, buildContext(o, arg[p].role), to)
                 /\ Goto(p, IF missing = {} THEN "commit" ELSE "insert",
                         [arg[p] EXCEPT !.to = to, !.todo = missing, !.ended = stale])
      <3>1. /\ offer[o].status = "DRAFT"
            /\ Goto(p, IF missing = {} THEN "commit" ELSE "insert",
                    [arg[p] EXCEPT !.to = "OFFERED", !.todo = missing, !.ended = stale])
        BY <2>2, Verdicts
      <3>2. /\ pc'[p] = IF missing = {} THEN "commit" ELSE "insert"
            /\ arg'[p] = [arg[p] EXCEPT !.to = "OFFERED", !.todo = missing, !.ended = stale]
            /\ OthersStay(p)
        BY <1>0, <3>1, GotoEffect
      <3>3. /\ arg'[p].offer = o /\ arg'[p].to = "OFFERED" /\ arg'[p].kind = arg[p].kind
            /\ arg'[p].todo = missing /\ arg'[p].ended = stale /\ arg'[p].written = {}
        BY <2>0, <3>2 DEF Args
      <3>4. pc'[p] \in {"insert", "commit"} /\ (pc'[p] = "commit" => missing = {})
        BY <3>2
      <3>5. Sends(p)
        BY <2>0, <3>1, <3>3, <3>4 DEF Sends
      <3> QED BY <3>2, <3>5 DEF Deeds
    <2> QED BY <1>2, <2>1, <2>2 DEF Submit
  <1>3. CASE Decided(p)
    <2>1. pc[p] = "decide" /\ ~offerLocked(p, o) /\ expired' = expired /\ Return(p)
      BY <1>3 DEF Decided
    <2>2. CASE UNCHANGED <<offer, calendar>>
      BY <1>0, <2>1, <2>2, QuitsByReturn DEF SameRows
    <2>3. CASE /\ offer[o].status = arg[p].from
               /\ offer' = [offer EXCEPT ![o].status = arg[p].to]
               /\ calendar' = IF arg[p].to \in Withdrawn THEN calendar \ holdsOf(o) ELSE calendar
      <3>1. pc'[p] = "idle" /\ OthersStay(p)
        BY <1>0, <2>1, ReturnEffect
      <3>2. Resolves(p)
        BY <2>1, <2>3, <3>1 DEF Resolves
      <3> QED BY <3>1, <3>2 DEF Deeds
    <2> QED BY <1>3, <2>2, <2>3 DEF Decided
  <1> QED BY <1>1, <1>2, <1>3

LEMMA PaymentDeeds ==
  ASSUME OfferInv, NEW p \in Requests,
         Decide(p) \/ PaymentCaptured(p) \/ ConvertHoldsToBookings(p) \/ AcceptInvite(p)
  PROVE  Deeds(p)
  <1>0. TypeOK /\ TransactionsOnly
    BY DEF OfferInv, SlotInv
  <1>1. CASE Decide(p)
    <2>1. PICK o \in Offers, event \in {"ACCEPT", "CANCEL", "EXPIRE"}, role \in ActorRole,
              to \in OfferStatus :
            /\ Transition(offer[o].status, event, role, buildContext(o, role), to)
            /\ Goto(p, "decide", [NoArgs EXCEPT !.offer = o, !.from = offer[o].status, !.to = to])
      BY <1>1 DEF Decide
    <2>2. pc'[p] = "decide" /\ OthersStay(p)
          /\ arg'[p] = [NoArgs EXCEPT !.offer = o, !.from = offer[o].status, !.to = to]
      BY <1>0, <2>1, GotoEffect
    <2>3. arg'[p].from = offer[o].status /\ arg'[p].to = to
      BY <2>2 DEF NoArgs
    <2>4. /\ to \in {"ACCEPTED", "CANCELLED", "EXPIRED"}
          /\ offer[o].status \in {"DRAFT", "OFFERED", "COUNTERED", "ACCEPTED"}
          /\ offer[o].status = "DRAFT" => to = "CANCELLED"
      BY <2>1, Verdicts
    <2> QED BY <1>1, <2>2, <2>3, <2>4 DEF Decide, Deeds, Considers, SameRows
  <1>2. CASE PaymentCaptured(p)
    <2>1. PICK o \in Offers : Goto(p, "capture", [NoArgs EXCEPT !.offer = o])
      BY <1>2 DEF PaymentCaptured
    <2>2. pc'[p] = "capture" /\ OthersStay(p)
      BY <1>0, <2>1, GotoEffect
    <2> QED BY <1>2, <2>2 DEF PaymentCaptured, Deeds, Considers, SameRows
  <1>3. CASE ConvertHoldsToBookings(p)
    <2> DEFINE o == arg[p].offer
    <2>0. /\ SameRows /\ pc[p] = "capture" /\ ~offerLocked(p, o) /\ arg[p] \in Args
          /\ arg[p].written = {} /\ arg[p].ended = {}
      BY <1>0, <1>3, StepsAndArgs DEF ConvertHoldsToBookings, SameRows, TransactionsOnly, inTransaction
    <2>1. CASE Return(p)
      BY <1>0, <2>0, <2>1, QuitsByReturn
    <2>2. CASE \E to \in OfferStatus :
             /\ Transition(offer[o].status, "PAYMENT_CAPTURED", "SYSTEM", buildContext(o, "SYSTEM"), to)
             /\ Goto(p, IF holdsOf(o) = {} THEN "commit" ELSE "convert",
                     [arg[p] EXCEPT !.to = to, !.kind = "session", !.todo = heldSlots(o)])
      <3>1. /\ offer[o].status = "ACCEPTED"
            /\ Goto(p, IF holdsOf(o) = {} THEN "commit" ELSE "convert",
                    [arg[p] EXCEPT !.to = "PAID_IN_ESCROW", !.kind = "session", !.todo = heldSlots(o)])
        BY <2>2, Verdicts
      <3>2. /\ pc'[p] = IF holdsOf(o) = {} THEN "commit" ELSE "convert"
            /\ arg'[p] = [arg[p] EXCEPT !.to = "PAID_IN_ESCROW", !.kind = "session", !.todo = heldSlots(o)]
            /\ OthersStay(p)
        BY <1>0, <3>1, GotoEffect
      <3>3. /\ arg'[p].offer = o /\ arg'[p].to = "PAID_IN_ESCROW" /\ arg'[p].kind = "session"
            /\ arg'[p].todo = heldSlots(o) /\ arg'[p].ended = {} /\ arg'[p].written = {}
        BY <2>0, <3>2 DEF Args
      <3>4. pc'[p] \in {"convert", "commit"} /\ (pc'[p] = "commit" => holdsOf(o) = {})
        BY <3>2
      <3>5. Funds(p)
        BY <2>0, <3>1, <3>3, <3>4 DEF Funds
      <3> QED BY <3>2, <3>5 DEF Deeds
    <2> QED BY <1>3, <2>1, <2>2 DEF ConvertHoldsToBookings
  <1>4. CASE AcceptInvite(p)
    <2>1. PICK o \in Offers, s \in Slots :
       /\ offer[o].status = "PAID_IN_ESCROW"
       /\ \/ Goto(p, "insert", [NoArgs EXCEPT !.offer = o, !.kind = "extra", !.todo = {s}])
          \/ \E r \in settledRows :
               /\ r.kind # "hold" /\ r.offer = o
               /\ Goto(p, "insert", [NoArgs EXCEPT !.offer = o, !.kind = r.kind, !.todo = {s},
                                                   !.ended = {r}])
      BY <1>4 DEF AcceptInvite
    <2>2. SameRows
      BY <1>4 DEF AcceptInvite, SameRows
    <2>3. CASE Goto(p, "insert", [NoArgs EXCEPT !.offer = o, !.kind = "extra", !.todo = {s}])
      <3>1. /\ pc'[p] = "insert" /\ OthersStay(p)
            /\ arg'[p] = [NoArgs EXCEPT !.offer = o, !.kind = "extra", !.todo = {s}]
        BY <1>0, <2>3, GotoEffect
      <3>2. /\ arg'[p].offer = o /\ arg'[p].kind = "extra" /\ arg'[p].todo = {s}
            /\ arg'[p].ended = {} /\ arg'[p].written = {} /\ arg'[p].to = "none"
        BY <3>1 DEF NoArgs
      <3>3. Invites(p)
        BY <2>1, <2>2, <3>1, <3>2 DEF Invites
      <3> QED BY <3>1, <3>3 DEF Deeds
    <2>4. CASE \E r \in settledRows :
               /\ r.kind # "hold" /\ r.offer = o
               /\ Goto(p, "insert", [NoArgs EXCEPT !.offer = o, !.kind = r.kind, !.todo = {s},
                                                   !.ended = {r}])
      <3>1. PICK r \in settledRows :
               /\ r.kind # "hold" /\ r.offer = o
               /\ Goto(p, "insert", [NoArgs EXCEPT !.offer = o, !.kind = r.kind, !.todo = {s},
                                                   !.ended = {r}])
        BY <2>4
      <3>2. /\ pc'[p] = "insert" /\ OthersStay(p)
            /\ arg'[p] = [NoArgs EXCEPT !.offer = o, !.kind = r.kind, !.todo = {s}, !.ended = {r}]
        BY <1>0, <3>1, GotoEffect
      <3>3. /\ arg'[p].offer = o /\ arg'[p].kind = r.kind /\ arg'[p].todo = {s}
            /\ arg'[p].ended = {r} /\ arg'[p].written = {} /\ arg'[p].to = "none"
        BY <3>2 DEF NoArgs
      <3>4. r \in calendar
        BY DEF settledRows
      <3>5. Invites(p)
        BY <2>1, <2>2, <3>1, <3>2, <3>3, <3>4 DEF Invites
      <3> QED BY <3>2, <3>5 DEF Deeds
    <2> QED BY <2>1, <2>3, <2>4
  <1> QED BY <1>1, <1>2, <1>3, <1>4

LEMMA RowDeeds ==
  ASSUME OfferInv, NEW p \in Requests,
         \/ ConvertHolds(p) \/ InsertRow(p) \/ CheckExclusion(p) \/ Commit(p)
         \/ ExpireStaleHolds(p) \/ DeadlockDetected(p) \/ Crash(p)
  PROVE  Deeds(p)
  <1>0. TypeOK
    BY DEF OfferInv, SlotInv
  <1>1. CASE ConvertHolds(p)
    <2>1. pc'[p] = "insert" /\ arg'[p] = [arg[p] EXCEPT !.ended = holdsOf(arg[p].offer)]
          /\ OthersStay(p)
      BY <1>0, <1>1, GotoEffect DEF ConvertHolds
    <2> QED BY <1>1, <2>1 DEF ConvertHolds, Deeds, GoesOn, SameRows, Converts
  <1>2. CASE InsertRow(p)
    <2>0. SameRows /\ pc[p] = "insert"
      BY <1>2 DEF InsertRow, SameRows
    <2>1. CASE Return(p)
      BY <1>0, <2>0, <2>1, QuitsByReturn
    <2>2. CASE \E s \in arg[p].todo :
                 Goto(p, "check", [arg[p] EXCEPT !.slot = s,
                   !.written = @ \cup {[kind |-> arg[p].kind, offer |-> arg[p].offer, slot |-> s]}])
      <3>1. PICK s \in arg[p].todo :
                 Goto(p, "check", [arg[p] EXCEPT !.slot = s,
                   !.written = @ \cup {[kind |-> arg[p].kind, offer |-> arg[p].offer, slot |-> s]}])
        BY <2>2
      <3>2. pc'[p] = "check" /\ OthersStay(p)
            /\ arg'[p] = [arg[p] EXCEPT !.slot = s,
                  !.written = @ \cup {[kind |-> arg[p].kind, offer |-> arg[p].offer, slot |-> s]}]
        BY <1>0, <3>1, GotoEffect
      <3> QED BY <2>0, <3>2 DEF Deeds, GoesOn, SameRows, Inserts
    <2> QED BY <1>2, <2>1, <2>2 DEF InsertRow, earliest
  <1>3. CASE CheckExclusion(p)
    <2>0. SameRows /\ pc[p] = "check"
      BY <1>3 DEF CheckExclusion, SameRows
    <2>1. CASE Return(p)
      BY <1>0, <2>0, <2>1, QuitsByReturn
    <2>2. CASE /\ ~ConstraintRaises(p, newRow(p)) /\ waitsFor(p, newRow(p)) = {}
               /\ Goto(p, IF arg[p].todo \ {arg[p].slot} = {} THEN "commit" ELSE "insert",
                       [arg[p] EXCEPT !.todo = arg[p].todo \ {arg[p].slot}])
      <3>1. /\ pc'[p] = IF arg[p].todo \ {arg[p].slot} = {} THEN "commit" ELSE "insert"
            /\ arg'[p] = [arg[p] EXCEPT !.todo = arg[p].todo \ {arg[p].slot}]
            /\ OthersStay(p)
        BY <1>0, <2>2, GotoEffect
      <3>2. arg'[p].todo = arg[p].todo \ {arg[p].slot}
        BY <1>0, <3>1, StepsAndArgs DEF Args
      <3> QED BY <2>0, <2>2, <3>1, <3>2 DEF Deeds, GoesOn, SameRows, Checks
    <2> QED BY <1>3, <2>1, <2>2 DEF CheckExclusion
  <1>4. CASE Commit(p)
    <2>1. OthersStay(p) /\ pc'[p] = "idle" /\ pc[p] = "commit" /\ expired' = expired
      BY <1>0, <1>4, ReturnEffect DEF Commit
    <2>2. CASE UNCHANGED <<offer, calendar>>
      BY <2>1, <2>2 DEF Deeds, Quits, SameRows
    <2>3. CASE /\ calendar' = visible(p)
               /\ offer' = IF arg[p].to = "none" THEN offer
                           ELSE [offer EXCEPT ![arg[p].offer].status = arg[p].to]
      BY <2>1, <2>3 DEF Deeds, Lands
    <2> QED BY <1>4, <2>2, <2>3 DEF Commit
  <1>5. CASE ExpireStaleHolds(p)
    BY <1>5 DEF ExpireStaleHolds, Deeds, Sweeps, OthersStay
  <1>6. CASE DeadlockDetected(p)
    BY <1>0, <1>6, QuitsByReturn DEF DeadlockDetected, SameRows
  <1>7. CASE Crash(p)
    BY <1>0, <1>7, QuitsByReturn DEF Crash, SameRows
  <1> QED BY <1>1, <1>2, <1>3, <1>4, <1>5, <1>6, <1>7

LEMMA StepDeeds == OfferInv /\ Next => \E p \in Requests : Deeds(p)
  BY CreationDeeds, OfferDeeds, PaymentDeeds, RowDeeds DEF Next, Handler

-------------------------------------------------------------------------------
(* What becomes of an offer *)

Keeps(x) == /\ offer'[x].scope = offer[x].scope /\ offer'[x].parent = offer[x].parent
            /\ expired \subseteq expired'

Untouched(x) == /\ Keeps(x) /\ offer'[x].status = offer[x].status
                /\ holdsOf(x)' = holdsOf(x) /\ sessionsOf(x)' = sessionsOf(x)

Born(p, x) ==
  /\ pc'[p] \in {"counter", "submit"} /\ arg'[p].offer = x /\ expired' = expired
  /\ offer[x].status = "none" /\ offer'[x].status = "DRAFT"
  /\ pc'[p] = "counter" => offer'[x].parent \in Offers
  /\ offer'[x].parent \in Offers => /\ offer[offer'[x].parent].status # "none"
                                    /\ offer'[x].scope = offer[offer'[x].parent].scope
  /\ holdsOf(x)' = {} /\ sessionsOf(x)' = {}

Superseded(p, x) ==
  /\ Keeps(x) /\ pc[p] = "counter" /\ ~offerLocked(p, x)
  /\ offer[x].status \in {"OFFERED", "COUNTERED"} /\ offer'[x].status = "COUNTERED"
  /\ holdsOf(x)' = {} /\ sessionsOf(x)' = sessionsOf(x)

Inherits(p, x) ==
  /\ Keeps(x) /\ pc[p] = "counter" /\ pc'[p] = "submit" /\ arg[p].offer = x
  /\ offer'[x].status = offer[x].status
  /\ heldSlots(x)' = heldSlots(offer[x].parent) /\ sessionsOf(x)' = sessionsOf(x)

Resolved(p, x) ==
  /\ Keeps(x) /\ pc[p] = "decide" /\ arg[p].offer = x /\ ~offerLocked(p, x)
  /\ offer[x].status = arg[p].from /\ offer'[x].status = arg[p].to
  /\ holdsOf(x)' = (IF arg[p].to \in Withdrawn THEN {} ELSE holdsOf(x))
  /\ sessionsOf(x)' = sessionsOf(x)

Landing(p, x) == Keeps(x) /\ pc[p] = "commit" /\ arg[p].offer = x

Sent(p, x) ==
  /\ Landing(p, x) /\ sending(p) /\ offer'[x].status = "OFFERED"
  /\ holdsOf(x)' = holdsOf(x) \cup arg[p].written /\ sessionsOf(x)' = sessionsOf(x)

Funded(p, x) ==
  /\ Landing(p, x) /\ funding(p) /\ offer'[x].status = "PAID_IN_ESCROW"
  /\ holdsOf(x)' = {} /\ sessionsOf(x)' = arg[p].written

Rebooked(p, x) ==
  /\ Landing(p, x) /\ inviting(p) /\ offer'[x].status = offer[x].status
  /\ holdsOf(x)' = holdsOf(x)
  /\ sessionsOf(x)' = IF arg[p].kind = "session"
                      THEN (sessionsOf(x) \ arg[p].ended) \cup arg[p].written ELSE sessionsOf(x)

Swept(x) ==
  /\ Keeps(x) /\ offer'[x].status = offer[x].status /\ x \in expired'
  /\ pc' = pc /\ arg' = arg
  /\ holdsOf(x)' = {} /\ sessionsOf(x)' = sessionsOf(x)

Fates(p, x) ==
  \/ Untouched(x) \/ Born(p, x) \/ Superseded(p, x) \/ Inherits(p, x) \/ Resolved(p, x)
  \/ Sent(p, x) \/ Funded(p, x) \/ Rebooked(p, x) \/ Swept(x)

\* A new status leaves the rest of a row alone.
LEMMA StatusOnly ==
  ASSUME TypeOK, NEW x \in Offers, NEW y \in Offers, NEW to,
         offer' = [offer EXCEPT ![y].status = to]
  PROVE  /\ offer'[x].scope = offer[x].scope /\ offer'[x].parent = offer[x].parent
         /\ offer'[x].status = IF x = y THEN to ELSE offer[x].status
  BY StepsAndArgs DEF OfferRow

LEMMA SameCalendar ==
  ASSUME NEW x, calendar' = calendar
  PROVE  holdsOf(x)' = holdsOf(x) /\ sessionsOf(x)' = sessionsOf(x) /\ heldSlots(x)' = heldSlots(x)
  BY DEF holdsOf, sessionsOf, heldSlots

LEMMA UntouchedRows ==
  ASSUME NEW x, SameRows
  PROVE  Untouched(x)
  BY SameCalendar DEF SameRows, Untouched, Keeps

LEMMA HoldsGone ==
  ASSUME NEW x, NEW y, calendar' = calendar \ holdsOf(y)
  PROVE  /\ holdsOf(x)' = IF x = y THEN {} ELSE holdsOf(x)
         /\ sessionsOf(x)' = sessionsOf(x)
  BY DEF holdsOf, sessionsOf

\* The transfer takes the hours along.
LEMMA Transferred ==
  ASSUME TypeOK, NEW old \in Offers, NEW new \in Offers, old # new, NEW x \in Offers,
         calendar' = transferred(old, new)
  PROVE  /\ sessionsOf(x)' = sessionsOf(x)
         /\ x \notin {old, new} => holdsOf(x)' = holdsOf(x)
         /\ holdsOf(old)' = {}
         /\ holdsOf(new) = {} => heldSlots(new)' = heldSlots(old)
  <1> DEFINE moved == {[r EXCEPT !.offer = new] : r \in holdsOf(old)}
  <1>1. \A t \in moved : t.kind = "hold" /\ t.offer = new /\ \E r \in holdsOf(old) : t.slot = r.slot
    BY StepsAndArgs DEF holdsOf, Row
  <1>2. \A r \in holdsOf(old) : \E t \in moved : t.kind = "hold" /\ t.offer = new /\ t.slot = r.slot
    <2> SUFFICES ASSUME NEW r \in holdsOf(old)
                 PROVE  \E t \in moved : t.kind = "hold" /\ t.offer = new /\ t.slot = r.slot
      OBVIOUS
    <2> DEFINE t == [r EXCEPT !.offer = new]
    <2>1. t \in moved
      OBVIOUS
    <2>2. t.kind = "hold" /\ t.offer = new /\ t.slot = r.slot
      BY StepsAndArgs DEF holdsOf, Row
    <2> QED BY <2>1, <2>2
  <1>3. calendar' = (calendar \ holdsOf(old)) \cup moved
    BY DEF transferred
  <1> HIDE DEF moved
  <1>4. sessionsOf(x)' = sessionsOf(x)
    BY <1>1, <1>3 DEF sessionsOf, holdsOf
  <1>5. x \notin {old, new} => holdsOf(x)' = holdsOf(x)
    BY <1>1, <1>3 DEF holdsOf
  <1>6. holdsOf(old)' = {}
    BY <1>1, <1>3 DEF holdsOf
  <1>7. ASSUME holdsOf(new) = {} PROVE heldSlots(new)' = heldSlots(old)
    <2>1. holdsOf(new)' = moved
      BY <1>1, <1>3, <1>7 DEF holdsOf
    <2> QED BY <1>1, <1>2, <2>1 DEF heldSlots
  <1> QED BY <1>4, <1>5, <1>6, <1>7

\* What a commit does to the rows of an offer.
LEMMA LandsFate ==
  ASSUME OfferInv, NEW p \in Requests, Lands(p), NEW x \in Offers
  PROVE  Untouched(x) \/ Sent(p, x) \/ Funded(p, x) \/ Rebooked(p, x)
  <1> DEFINE o == arg[p].offer
  <1>0. TypeOK /\ TransactionsOnly /\ ThreeTransactions /\ arg[p].ended \subseteq calendar
    BY DEF OfferInv, SlotInv, OneEndPerRow
  <1>1. p \in inTransaction /\ o \in Offers /\ pc[p] = "commit" /\ expired' = expired
    BY <1>0 DEF Lands, inTransaction, TransactionsOnly
  <1>2. /\ \A r \in arg[p].written : r.kind = arg[p].kind /\ r.offer = o
        /\ calendar' = (calendar \ arg[p].ended) \cup arg[p].written
    BY <1>0, <1>1 DEF ThreeTransactions, Lands, visible
  <1>3. CASE sending(p)
    <2>1. arg[p].kind = "hold" /\ arg[p].ended = {} /\ arg[p].to = "OFFERED"
      BY <1>3 DEF OfferInv, SendsWhole, sending
    <2>2. offer' = [offer EXCEPT ![o].status = arg[p].to]
      BY <2>1 DEF Lands
    <2>3. Keeps(x) /\ (x # o => offer'[x].status = offer[x].status)
          /\ (x = o => offer'[x].status = "OFFERED")
      <3>1. /\ Keeps(x)
            /\ offer'[x].status = IF x = o THEN arg[p].to ELSE offer[x].status
        BY <1>0, <1>1, <2>2, StepsAndArgs DEF Keeps, OfferRow
      <3> QED BY <2>1, <3>1
    <2>4. /\ x # o => holdsOf(x)' = holdsOf(x)
          /\ x = o => holdsOf(x)' = holdsOf(x) \cup arg[p].written
          /\ sessionsOf(x)' = sessionsOf(x)
      BY <1>2, <2>1 DEF holdsOf, sessionsOf
    <2> QED BY <1>1, <1>3, <2>3, <2>4 DEF Untouched, Sent, Landing
  <1>4. CASE funding(p)
    <2>1. /\ arg[p].kind = "session" /\ arg[p].ended = holdsOf(o) /\ arg[p].to = "PAID_IN_ESCROW"
          /\ sessionsOf(o) = {}
      BY <1>1, <1>4 DEF OfferInv, FundsWhole, funding
    <2>2. offer' = [offer EXCEPT ![o].status = arg[p].to]
      BY <2>1 DEF Lands
    <2>3. Keeps(x) /\ (x # o => offer'[x].status = offer[x].status)
          /\ (x = o => offer'[x].status = "PAID_IN_ESCROW")
      <3>1. /\ Keeps(x)
            /\ offer'[x].status = IF x = o THEN arg[p].to ELSE offer[x].status
        BY <1>0, <1>1, <2>2, StepsAndArgs DEF Keeps, OfferRow
      <3> QED BY <2>1, <3>1
    <2>4. /\ x # o => holdsOf(x)' = holdsOf(x) /\ sessionsOf(x)' = sessionsOf(x)
          /\ x = o => holdsOf(x)' = {}
      BY <1>2, <2>1 DEF holdsOf, sessionsOf
    <2>5. x = o => sessionsOf(x)' = arg[p].written
      BY <1>2, <2>1 DEF holdsOf, sessionsOf
    <2> QED BY <1>1, <1>4, <2>3, <2>4, <2>5 DEF Untouched, Funded, Landing
  <1>5. CASE inviting(p)
    <2>1. /\ arg[p].kind # "hold" /\ arg[p].to = "none" /\ arg[p].kind \in {"session", "extra"}
          /\ arg[p].kind = "session" => \E r \in sessionsOf(o) : arg[p].ended = {r}
          /\ arg[p].kind = "extra" => \A r \in arg[p].ended : r.kind = "extra"
      BY <1>0, <1>5, StepsAndArgs DEF OfferInv, InvitesOne, inviting, Args
    <2>2. offer' = offer
      BY <2>1 DEF Lands
    <2>3. Keeps(x) /\ offer'[x].status = offer[x].status
      BY <1>1, <2>2 DEF Keeps
    <2>4. CASE arg[p].kind = "extra"
      <3>1. holdsOf(x)' = holdsOf(x) /\ sessionsOf(x)' = sessionsOf(x)
        BY <1>2, <2>1, <2>4 DEF holdsOf, sessionsOf
      <3> QED BY <2>3, <3>1 DEF Untouched
    <2>5. CASE arg[p].kind = "session"
      <3>1. PICK r \in sessionsOf(o) : arg[p].ended = {r}
        BY <2>1, <2>5
      <3>2. r.kind = "session" /\ r.offer = o
        BY DEF sessionsOf
      <3>3. holdsOf(x)' = holdsOf(x)
        BY <1>2, <2>5, <3>1, <3>2 DEF holdsOf
      <3>4. x # o => sessionsOf(x)' = sessionsOf(x)
        BY <1>2, <2>5, <3>1, <3>2 DEF sessionsOf
      <3>5. x = o => sessionsOf(x)' = (sessionsOf(x) \ arg[p].ended) \cup arg[p].written
        BY <1>2, <2>5, <3>1, <3>2 DEF sessionsOf
      <3> QED BY <1>1, <1>5, <2>3, <2>5, <3>3, <3>4, <3>5 DEF Untouched, Rebooked, Landing
    <2> QED BY <2>1, <2>4, <2>5
  <1> QED BY <1>0, <1>1, <1>3, <1>4, <1>5 DEF ThreeTransactions

LEMMA StepFates ==
  ASSUME OfferInv, NEW p \in Requests, Deeds(p), NEW x \in Offers
  PROVE  Fates(p, x)
  <1>0. TypeOK /\ TransactionsOnly
    BY DEF OfferInv, SlotInv
  <1>1. CASE SameRows
    BY <1>1, UntouchedRows DEF Fates
  <1>2. CASE Creates(p)
    <2> DEFINE n == arg'[p].offer
    <2>1. PICK row \in OfferRow :
            /\ offer' = [offer EXCEPT ![n] = row]
            /\ row.status = "DRAFT"
            /\ pc'[p] = "counter" => row.parent \in Offers
            /\ row.parent \in Offers => /\ offer[row.parent].status # "none"
                                        /\ row.scope = offer[row.parent].scope
      BY <1>2 DEF Creates
    <2>2. calendar' = calendar /\ expired' = expired /\ n \in Offers /\ offer[n].status = "none"
      BY <1>2 DEF Creates
    <2>3. CASE x # n
      <3>1. offer'[x] = offer[x]
        BY <2>1, <2>3
      <3> QED BY <2>2, <3>1, SameCalendar DEF Fates, Untouched, Keeps
    <2>4. CASE x = n
      <3>1. offer'[x] = row
        BY <1>0, <2>1, <2>2, <2>4, StepsAndArgs
      <3>2. holdsOf(x) = {} /\ sessionsOf(x) = {}
        BY <2>2, <2>4 DEF OfferInv, RowsKnown
      <3>3. holdsOf(x)' = {} /\ sessionsOf(x)' = {}
        BY <2>2, <3>2, SameCalendar
      <3>4. Born(p, x)
        BY <1>2, <2>1, <2>2, <2>4, <3>1, <3>3 DEF Born, Creates
      <3> QED BY <3>4 DEF Fates
    <2> QED BY <2>3, <2>4
  <1>3. CASE Supersedes(p)
    <2>0. /\ pc[p] = "counter" /\ arg[p].offer \in Offers
          /\ offer[arg[p].offer].parent \in Offers /\ holdsOf(arg[p].offer) = {}
          /\ offer[arg[p].offer].status \in {"DRAFT", "CANCELLED"}
      BY <1>0, <1>3 DEF OfferInv, UnsentOffers, TransactionsOnly, Supersedes
    <2>1. PICK o \in Offers, parent \in Offers, to \in {"COUNTERED"} :
            /\ o = arg[p].offer /\ parent = offer[o].parent
            /\ pc[p] = "counter" /\ pc'[p] = "submit" /\ expired' = expired
            /\ ~offerLocked(p, parent) /\ offer[parent].status \in {"OFFERED", "COUNTERED"}
            /\ offer' = [offer EXCEPT ![parent].status = to]
            /\ calendar' = transferred(parent, o)
      BY <1>3, <2>0 DEF Supersedes
    <2>3. o # parent /\ holdsOf(o) = {}
      BY <2>0, <2>1
    <2>4. /\ sessionsOf(x)' = sessionsOf(x)
          /\ x \notin {parent, o} => holdsOf(x)' = holdsOf(x)
          /\ holdsOf(parent)' = {}
          /\ heldSlots(o)' = heldSlots(parent)
      BY <1>0, <2>1, <2>3, Transferred
    <2>5. /\ Keeps(x)
          /\ offer'[x].status = IF x = parent THEN to ELSE offer[x].status
      BY <1>0, <2>1, StepsAndArgs DEF Keeps, OfferRow
    <2>6. CASE x = parent
      BY <2>1, <2>4, <2>5, <2>6 DEF Fates, Superseded
    <2>7. CASE x = o
      BY <2>1, <2>3, <2>4, <2>5, <2>7 DEF Fates, Inherits
    <2>8. CASE x \notin {parent, o}
      BY <2>4, <2>5, <2>8 DEF Fates, Untouched
    <2> QED BY <2>6, <2>7, <2>8
  <1>4. CASE Resolves(p)
    <2> DEFINE o == arg[p].offer
    <2>1. /\ pc[p] = "decide" /\ expired' = expired
          /\ ~offerLocked(p, o) /\ offer[o].status = arg[p].from
          /\ offer' = [offer EXCEPT ![o].status = arg[p].to]
          /\ calendar' = IF arg[p].to \in Withdrawn THEN calendar \ holdsOf(o) ELSE calendar
      BY <1>4 DEF Resolves
    <2>2. o \in Offers
      BY <1>0, <2>1 DEF TransactionsOnly
    <2>3. /\ holdsOf(x)' = IF x = o /\ arg[p].to \in Withdrawn THEN {} ELSE holdsOf(x)
          /\ sessionsOf(x)' = sessionsOf(x)
      <3>1. CASE arg[p].to \in Withdrawn
        BY <2>1, <3>1, HoldsGone
      <3>2. CASE arg[p].to \notin Withdrawn
        BY <2>1, <3>2, SameCalendar
      <3> QED BY <3>1, <3>2
    <2>4. /\ Keeps(x)
          /\ offer'[x].status = IF x = o THEN arg[p].to ELSE offer[x].status
      BY <1>0, <2>1, <2>2, StatusOnly DEF Keeps
    <2>5. CASE x = o
      BY <2>1, <2>3, <2>4, <2>5 DEF Fates, Resolved
    <2>6. CASE x # o
      BY <2>3, <2>4, <2>6 DEF Fates, Untouched
    <2> QED BY <2>5, <2>6
  <1>5. CASE Lands(p)
    BY <1>5, LandsFate DEF Fates
  <1>6. CASE Sweeps(p)
    <2>1. PICK o \in Offers : calendar' = calendar \ holdsOf(o) /\ expired' = expired \cup {o}
      BY <1>6 DEF Sweeps
    <2>2. offer' = offer /\ pc' = pc /\ arg' = arg
      BY <1>6 DEF Sweeps
    <2> QED BY <2>1, <2>2, HoldsGone DEF Fates, Untouched, Swept, Keeps
  <1> QED BY <1>1, <1>2, <1>3, <1>4, <1>5, <1>6
          DEF Deeds, Quits, Considers, Sends, Funds, Invites, GoesOn

-------------------------------------------------------------------------------
(* What a step leaves of the requests *)

LEMMA OthersGoOn ==
  ASSUME NEW p \in Requests, OthersStay(p), NEW q \in Requests \ {p}
  PROVE  /\ pc'[q] = pc[q] /\ arg'[q] = arg[q]
         /\ sending(q)' = sending(q) /\ funding(q)' = funding(q) /\ inviting(q)' = inviting(q)
         /\ claimed(q)' = claimed(q)
  <1>1. pc'[q] = pc[q] /\ arg'[q] = arg[q]
    BY DEF OthersStay
  <1>2. q \in inTransaction' <=> q \in inTransaction
    BY InTransactionNext
  <1>3. placed(q)' = placed(q)
    BY PlacedOthers
  <1> QED BY <1>1, <1>2, <1>3 DEF sending, funding, inviting, claimed

\* Within a transaction the hours it claims stay the same.
LEMMA TransactionGoesOn ==
  ASSUME OfferInv, NEW p \in Requests, GoesOn(p)
  PROVE  /\ p \in inTransaction /\ p \in inTransaction'
         /\ arg'[p].offer = arg[p].offer /\ arg'[p].to = arg[p].to /\ arg'[p].kind = arg[p].kind
         /\ claimed(p)' = claimed(p)
         /\ \/ arg'[p].ended = arg[p].ended /\ pc[p] # "convert"
            \/ arg'[p].ended = holdsOf(arg[p].offer) /\ pc[p] = "convert"
         /\ pc'[p] # "convert" /\ pc'[p] \notin {"counter", "submit", "decide"}
         /\ pc'[p] = "commit" => arg'[p].todo = {}
         /\ \A r \in arg'[p].written : r.kind = arg[p].kind /\ r.offer = arg[p].offer
  <1>0. TypeOK /\ TransactionsOnly /\ SlotInv /\ arg[p] \in Args
    BY StepsAndArgs DEF OfferInv, SlotInv
  <1>1. p \in inTransaction => \A r \in arg[p].written : r.kind = arg[p].kind /\ r.offer = arg[p].offer
    BY DEF OfferInv, ThreeTransactions
  <1>2. CASE Converts(p)
    <2>1. /\ arg'[p].offer = arg[p].offer /\ arg'[p].to = arg[p].to /\ arg'[p].kind = arg[p].kind
          /\ arg'[p].written = arg[p].written /\ arg'[p].todo = arg[p].todo
          /\ arg'[p].ended = holdsOf(arg[p].offer) /\ pc[p] = "convert" /\ pc'[p] = "insert"
      BY <1>0, <1>2 DEF Converts, Args
    <2>2. placed(p)' = placed(p)
      BY <2>1 DEF placed
    <2>3. claimed(p)' = claimed(p)
      BY <2>1, <2>2 DEF claimed
    <2> QED BY <1>1, <2>1, <2>3 DEF inTransaction
  <1>3. CASE Inserts(p)
    <2>1. PICK s \in arg[p].todo :
            arg'[p] = [arg[p] EXCEPT !.slot = s,
                !.written = @ \cup {[kind |-> arg[p].kind, offer |-> arg[p].offer, slot |-> s]}]
      BY <1>3 DEF Inserts
    <2>2. /\ arg'[p].offer = arg[p].offer /\ arg'[p].to = arg[p].to /\ arg'[p].kind = arg[p].kind
          /\ arg'[p].todo = arg[p].todo /\ arg'[p].ended = arg[p].ended /\ arg'[p].slot = s
          /\ arg'[p].written = arg[p].written \cup {[kind |-> arg[p].kind, offer |-> arg[p].offer, slot |-> s]}
          /\ pc[p] = "insert" /\ pc'[p] = "check"
      BY <1>0, <1>3, <2>1 DEF Inserts, Args
    <2> DEFINE w == [kind |-> arg[p].kind, offer |-> arg[p].offer, slot |-> s]
    <2>3. newRow(p)' = w
      BY <2>2 DEF newRow
    <2>4. placed(p) = arg[p].written /\ placed(p)' = (arg[p].written \cup {w}) \ {w}
      BY <2>2, <2>3 DEF placed
    <2>5. w.slot = s /\ w.kind = arg[p].kind /\ w.offer = arg[p].offer
      OBVIOUS
    <2> HIDE DEF w
    <2>6. claimed(p)' = claimed(p)
      BY <2>1, <2>2, <2>4, <2>5 DEF claimed
    <2>7. \A r \in arg'[p].written : r \in arg[p].written \/ r = w
      BY <2>2 DEF w
    <2> QED BY <1>1, <2>2, <2>5, <2>6, <2>7 DEF inTransaction
  <1>4. CASE Checks(p)
    <2>1. /\ arg'[p].offer = arg[p].offer /\ arg'[p].to = arg[p].to /\ arg'[p].kind = arg[p].kind
          /\ arg'[p].todo = arg[p].todo \ {arg[p].slot} /\ arg'[p].ended = arg[p].ended
          /\ arg'[p].written = arg[p].written
          /\ pc[p] = "check" /\ pc'[p] \in {"insert", "commit"}
      BY <1>0, <1>4 DEF Checks, Args
    <2>2. newRow(p) \in arg[p].written /\ arg[p].slot \in arg[p].todo /\ newRow(p).slot = arg[p].slot
      BY <1>0, <2>1 DEF TransactionsOnly, newRow
    <2>3. placed(p) = arg[p].written \ {newRow(p)} /\ placed(p)' = arg[p].written
      BY <2>1 DEF placed
    <2>4. claimed(p)' = claimed(p)
      BY <2>1, <2>2, <2>3 DEF claimed
    <2> QED BY <1>1, <2>1, <2>4 DEF inTransaction, GoesOn
  <1> QED BY <1>2, <1>3, <1>4 DEF GoesOn

-------------------------------------------------------------------------------
(* Each part of the invariant: requests *)

LEMMA VerdictsInductive ==
  ASSUME OfferInv, NEW p \in Requests, Deeds(p)
  PROVE  VerdictsKnown'
  <1>1. VerdictsKnown /\ OthersStay(p)
    BY DEF OfferInv, Deeds
  <1>2. pc'[p] = "decide" => Considers(p) \/ Sweeps(p)
    BY TransactionGoesOn DEF Deeds, Quits, Creates, Supersedes, Resolves, Sends, Funds, Invites, Lands
  <1>3. pc'[p] = "decide" =>
          /\ arg'[p].to \in {"ACCEPTED", "CANCELLED", "EXPIRED"}
          /\ arg'[p].from \in {"DRAFT", "OFFERED", "COUNTERED", "ACCEPTED"}
          /\ arg'[p].from = "DRAFT" => arg'[p].to = "CANCELLED"
    BY <1>1, <1>2 DEF Considers, Sweeps
  <1> QED BY <1>1, <1>3 DEF VerdictsKnown, OthersStay

LEMMA ThreeInductive ==
  ASSUME OfferInv, NEW p \in Requests, Deeds(p)
  PROVE  ThreeTransactions'
  <1>0. ThreeTransactions /\ OthersStay(p)
    BY DEF OfferInv, Deeds
  <1> DEFINE Good(q) == q \in inTransaction =>
               /\ sending(q) \/ funding(q) \/ inviting(q)
               /\ \A r \in arg[q].written : r.kind = arg[q].kind /\ r.offer = arg[q].offer
               /\ pc[q] = "commit" => arg[q].todo = {}
               /\ pc[q] = "convert" => funding(q)
  <1>1. ASSUME NEW q \in Requests \ {p} PROVE Good(q)'
    <2>1. Good(q)
      BY <1>0 DEF ThreeTransactions
    <2>2. q \in inTransaction' <=> q \in inTransaction
      BY <1>0, InTransactionNext
    <2> QED BY <1>0, <2>1, <2>2, OthersGoOn
  <1>2. Good(p)'
    <2>1. CASE Quits(p) \/ Creates(p) \/ Supersedes(p) \/ Considers(p) \/ Resolves(p) \/ Lands(p)
               \/ Sweeps(p)
      <3>1. p \notin inTransaction'
        BY <2>1 DEF Quits, Creates, Supersedes, Considers, Resolves, Lands, Sweeps, inTransaction
      <3> QED BY <3>1
    <2>2. CASE Sends(p)
      BY <2>2 DEF Sends, sending, inTransaction
    <2>3. CASE Funds(p)
      <3>1. holdsOf(arg[p].offer) = {} => heldSlots(arg[p].offer) = {}
        BY DEF heldSlots
      <3> QED BY <2>3, <3>1 DEF Funds, funding, inTransaction
    <2>4. CASE Invites(p)
      BY <2>4 DEF Invites, inviting, inTransaction
    <2>5. CASE GoesOn(p)
      <3>1. Good(p)
        BY <1>0 DEF ThreeTransactions
      <3>2. sending(p) \/ funding(p) \/ inviting(p)
        BY <2>5, <3>1, TransactionGoesOn
      <3>3. sending(p)' \/ funding(p)' \/ inviting(p)'
        BY <2>5, <3>2, TransactionGoesOn DEF sending, funding, inviting
      <3> QED BY <2>5, <3>3, TransactionGoesOn
    <2> QED BY <2>1, <2>2, <2>3, <2>4, <2>5 DEF Deeds
  <1> QED BY <1>1, <1>2 DEF ThreeTransactions, inTransaction

\* Whether an offer is being sent by p.
Sender(p) == pc[p] \in {"counter", "submit"} \/ sending(p)

LEMMA SenderOf ==
  ASSUME OfferInv, NEW p \in Requests, Sender(p)
  PROVE  /\ arg[p].offer \in Offers
         /\ offer[arg[p].offer].status \in {"DRAFT", "CANCELLED"}
  <1>1. arg[p].offer \in Offers
    BY DEF OfferInv, SlotInv, TransactionsOnly, Sender, sending, inTransaction
  <1>2. CASE sending(p)
    BY <1>1, <1>2 DEF OfferInv, SendsWhole
  <1>3. CASE pc[p] \in {"counter", "submit"}
    BY <1>1, <1>3 DEF OfferInv, UnsentOffers
  <1> QED BY <1>1, <1>2, <1>3 DEF Sender

LEMMA NextSender ==
  ASSUME OfferInv, NEW p \in Requests, Deeds(p), Sender(p)'
  PROVE  \/ Creates(p)
         \/ Sender(p) /\ arg'[p].offer = arg[p].offer
  <1>1. CASE Quits(p) \/ Considers(p) \/ Resolves(p) \/ Lands(p) \/ Funds(p) \/ Invites(p)
    BY <1>1 DEF Quits, Considers, Resolves, Lands, Funds, Invites, Sender, sending, inTransaction
  <1>2. CASE Sweeps(p)
    BY <1>2 DEF Sweeps, Sender, sending, inTransaction
  <1>3. CASE Supersedes(p) \/ Sends(p)
    BY <1>3 DEF Supersedes, Sends, Sender
  <1>4. CASE GoesOn(p)
    BY <1>4, TransactionGoesOn DEF Sender, sending
  <1> QED BY <1>1, <1>2, <1>3, <1>4 DEF Deeds

\* The offers of two requests that send differ.
LEMMA SendersDiffer ==
  ASSUME OfferInv, NEW p \in Requests, Deeds(p)
  PROVE  \A q, u \in Requests : q # u /\ Sender(q)' /\ Sender(u)' => arg'[q].offer # arg'[u].offer
  <1>0. OthersStay(p)
    BY DEF Deeds
  <1>1. \A q, u \in Requests : q # u /\ Sender(q) /\ Sender(u) => arg[q].offer # arg[u].offer
    BY DEF OfferInv, UnsentOffers, Sender
  <1>2. \A q \in Requests \ {p} : (Sender(q)' <=> Sender(q)) /\ arg'[q] = arg[q]
    BY <1>0, OthersGoOn DEF Sender
  <1>3. ASSUME NEW q \in Requests \ {p}, Sender(q), Sender(p)'
        PROVE  arg'[p].offer # arg[q].offer
    <2>1. CASE Creates(p)
      BY <1>3, <2>1, SenderOf DEF Creates
    <2>2. CASE Sender(p) /\ arg'[p].offer = arg[p].offer
      BY <1>1, <1>3, <2>2
    <2> QED BY <1>3, <2>1, <2>2, NextSender
  <1> QED BY <1>1, <1>2, <1>3

\* What the landing transactions are about.
LEMMA LandingStatus ==
  ASSUME OfferInv, NEW p \in Requests, NEW x
  PROVE  /\ Sent(p, x) => offer[x].status = "DRAFT" /\ Sender(p) /\ arg[p].offer = x
         /\ Funded(p, x) => offer[x].status = "ACCEPTED"
         /\ Rebooked(p, x) => offer[x].status = "PAID_IN_ESCROW"
  BY DEF OfferInv, SendsWhole, FundsWhole, InvitesOne, Sent, Funded, Rebooked, Landing, Sender

LEMMA UnsentInductive ==
  ASSUME OfferInv, NEW p \in Requests, Deeds(p)
  PROVE  UnsentOffers'
  <1>0. UnsentOffers /\ OthersStay(p)
    BY DEF OfferInv, Deeds
  <1> DEFINE Good(q) ==
        /\ pc[q] \in {"counter", "submit"} =>
             arg[q].kind = "hold" /\ offer[arg[q].offer].status \in {"DRAFT", "CANCELLED"}
        /\ pc[q] = "counter" => offer[arg[q].offer].parent \in Offers /\ holdsOf(arg[q].offer) = {}
  <1>1. ASSUME NEW q \in Requests \ {p} PROVE Good(q)'
    <2>1. pc'[q] = pc[q] /\ arg'[q] = arg[q] /\ Good(q)
      BY <1>0, OthersGoOn DEF UnsentOffers
    <2>2. CASE pc[q] \notin {"counter", "submit"}
      BY <2>1, <2>2
    <2>3. CASE pc[q] \in {"counter", "submit"}
      <3>1. PICK x \in Offers : x = arg[q].offer /\ offer[x].status \in {"DRAFT", "CANCELLED"}
        BY <2>3, SenderOf DEF Sender
      <3>2. ~(Sender(p) /\ arg[p].offer = x)
        BY <1>0, <2>3, <3>1 DEF UnsentOffers, Sender
      <3>3. Fates(p, x)
        BY StepFates
      <3>4. CASE Untouched(x) \/ Swept(x)
        BY <2>1, <2>3, <3>1, <3>4 DEF Untouched, Swept, Keeps
      <3>5. CASE Resolved(p, x)
        <4>1. arg[p].from = "DRAFT" => arg[p].to = "CANCELLED"
          BY <3>5 DEF OfferInv, VerdictsKnown, Resolved
        <4>2. arg[p].from # "CANCELLED"
          BY <3>5 DEF OfferInv, VerdictsKnown, Resolved
        <4> QED BY <2>1, <2>3, <3>1, <3>5, <4>1, <4>2 DEF Resolved, Keeps
      <3>6. ~Born(p, x) /\ ~Superseded(p, x)
        BY <3>1 DEF Born, Superseded
      <3>7. ~Inherits(p, x)
        BY <3>2 DEF Inherits, Sender
      <3>8. ~Sent(p, x) /\ ~Funded(p, x) /\ ~Rebooked(p, x)
        BY <3>1, <3>2, LandingStatus
      <3> QED BY <3>3, <3>4, <3>5, <3>6, <3>7, <3>8 DEF Fates
    <2> QED BY <2>2, <2>3
  <1>2. Good(p)'
    <2>1. CASE Quits(p) \/ Considers(p) \/ Resolves(p) \/ Lands(p) \/ Funds(p) \/ Invites(p) \/ Sends(p)
      BY <2>1 DEF Quits, Considers, Resolves, Lands, Funds, Invites, Sends
    <2>2. CASE Sweeps(p)
      BY <2>2 DEF Sweeps
    <2>3. CASE GoesOn(p)
      BY <2>3, TransactionGoesOn
    <2>4. CASE Creates(p)
      <3>1. PICK n \in Offers, row \in OfferRow :
              /\ n = arg'[p].offer /\ offer[n].status = "none"
              /\ offer' = [offer EXCEPT ![n] = row] /\ row.status = "DRAFT"
              /\ pc'[p] = "counter" => row.parent \in Offers
        BY <2>4 DEF Creates
      <3>2. offer'[n] = row
        BY <3>1, StepsAndArgs DEF OfferInv, SlotInv
      <3>3. holdsOf(n) = {}
        BY <3>1 DEF OfferInv, RowsKnown
      <3>4. holdsOf(n)' = {}
        BY <2>4, <3>3, SameCalendar DEF Creates
      <3>5. arg'[p].kind = "hold"
        BY <2>4 DEF Creates
      <3> QED BY <3>1, <3>2, <3>4, <3>5
    <2>5. CASE Supersedes(p)
      <3>1. pc[p] = "counter" /\ pc'[p] = "submit" /\ arg'[p] = arg[p]
        BY <2>5 DEF Supersedes
      <3>2. PICK x \in Offers : x = arg[p].offer /\ offer[x].status \in {"DRAFT", "CANCELLED"}
        BY <3>1, SenderOf DEF Sender
      <3>3. offer'[x].status = offer[x].status
        <4>1. ~Born(p, x) /\ ~Superseded(p, x) /\ ~Resolved(p, x)
          BY <3>1, <3>2 DEF Born, Superseded, Resolved
        <4>2. ~Sent(p, x) /\ ~Funded(p, x) /\ ~Rebooked(p, x)
          BY <3>1 DEF Sent, Funded, Rebooked, Landing
        <4>3. Fates(p, x)
          BY StepFates
        <4> QED BY <4>1, <4>2, <4>3 DEF Fates, Untouched, Inherits, Swept
      <3>4. arg[p].kind = "hold"
        BY <1>0, <3>1 DEF UnsentOffers
      <3> QED BY <3>1, <3>2, <3>3, <3>4
    <2> QED BY <2>1, <2>2, <2>3, <2>4, <2>5 DEF Deeds
  <1>3. \A q \in Requests : Good(q)'
    BY <1>1, <1>2
  <1> QED BY <1>3, SendersDiffer DEF UnsentOffers, Sender

-------------------------------------------------------------------------------
(* Each part of the invariant: transactions *)

LEMMA HeldSlots ==
  ASSUME NEW x
  PROVE  /\ holdsOf(x)' = holdsOf(x) => heldSlots(x)' = heldSlots(x)
         /\ holdsOf(x)' = {} => heldSlots(x)' = {}
         /\ holdsOf(x) = {} => heldSlots(x) = {}
  BY DEF heldSlots

\* Between the steps of q, the offer that q updates is at most swept.
LEMMA UpdatedOffer ==
  ASSUME OfferInv, NEW p \in Requests, Deeds(p), NEW q \in Requests \ {p},
         sending(q) \/ funding(q), NEW x \in Offers, x = arg[q].offer
  PROVE  Untouched(x) \/ Swept(x)
  <1>1. q \in inTransaction /\ arg[q].to # "none"
    BY DEF sending, funding
  <1>2. offerLocked(p, x)
    BY <1>1 DEF offerLocked
  <1>3. offer[x].status \in {"DRAFT", "ACCEPTED"}
    BY DEF OfferInv, SendsWhole, FundsWhole
  <1>4. ~(Sender(p) /\ arg[p].offer = x)
    <2>1. CASE sending(q)
      BY <2>1 DEF OfferInv, UnsentOffers, Sender
    <2>2. CASE funding(q)
      <3>1. offer[x].status = "ACCEPTED"
        BY <2>2 DEF OfferInv, FundsWhole
      <3> QED BY <3>1, SenderOf
    <2> QED BY <2>1, <2>2
  <1>5. ~Funded(p, x)
    <2>1. ~(funding(p) /\ arg[p].offer = x)
      BY <1>1 DEF OfferInv, SlotInv, OneWriterPerOffer, funding
    <2> QED BY <2>1 DEF Funded, Landing
  <1>6. ~Born(p, x) /\ ~Superseded(p, x) /\ ~Inherits(p, x) /\ ~Resolved(p, x)
    BY <1>2, <1>3, <1>4 DEF Born, Superseded, Inherits, Resolved, Sender
  <1>7. ~Sent(p, x) /\ ~Rebooked(p, x)
    BY <1>3, <1>4, LandingStatus
  <1> QED BY <1>5, <1>6, <1>7, StepFates DEF Fates

LEMMA SendsInductive ==
  ASSUME OfferInv, NEW p \in Requests, Deeds(p)
  PROVE  SendsWhole'
  <1>0. TypeOK /\ TransactionsOnly /\ OthersStay(p)
    BY DEF OfferInv, SlotInv, Deeds
  <1> SUFFICES ASSUME NEW q \in Requests, sending(q)'
               PROVE  /\ offer'[arg'[q].offer].status = "DRAFT"
                      /\ arg'[q].kind = "hold" /\ arg'[q].ended = {}
                      /\ \/ /\ claimed(q)' = offer'[arg'[q].offer].scope
                            /\ holdsOf(arg[q].offer)' = {}
                         \/ /\ claimed(q)' = {}
                            /\ \/ heldSlots(arg[q].offer)' = offer'[arg'[q].offer].scope
                               \/ arg'[q].offer \in expired'
    BY DEF SendsWhole
  <1>1. CASE q # p
    <2>1. sending(q) /\ arg'[q] = arg[q] /\ claimed(q)' = claimed(q)
      BY <1>0, <1>1, OthersGoOn
    <2>2. PICK x \in Offers : x = arg[q].offer
      BY <1>0, <2>1 DEF TransactionsOnly, sending, inTransaction
    <2>3. /\ offer[x].status = "DRAFT" /\ arg[q].kind = "hold" /\ arg[q].ended = {}
          /\ \/ claimed(q) = offer[x].scope /\ holdsOf(x) = {}
             \/ claimed(q) = {} /\ (heldSlots(x) = offer[x].scope \/ x \in expired)
      BY <2>1, <2>2 DEF OfferInv, SendsWhole
    <2>4. Untouched(x) \/ Swept(x)
      BY <1>1, <2>1, <2>2, UpdatedOffer
    <2>5. /\ offer'[x].status = "DRAFT" /\ offer'[x].scope = offer[x].scope
          /\ \/ holdsOf(x)' = holdsOf(x) /\ heldSlots(x)' = heldSlots(x) /\ expired \subseteq expired'
             \/ holdsOf(x)' = {} /\ x \in expired'
      BY <2>3, <2>4, HeldSlots DEF Untouched, Swept, Keeps
    <2>6. x = arg'[q].offer
      BY <2>1, <2>2
    <2> QED BY <2>1, <2>3, <2>5, <2>6
  <1>2. CASE q = p
    <2>1. CASE Quits(p) \/ Creates(p) \/ Supersedes(p) \/ Considers(p) \/ Resolves(p) \/ Lands(p)
               \/ Funds(p) \/ Invites(p) \/ Sweeps(p)
      BY <1>2, <2>1 DEF Quits, Creates, Supersedes, Considers, Resolves, Lands, Funds, Invites, Sweeps,
                        sending, inTransaction
    <2>2. CASE Sends(p)
      <3>1. PICK x \in Offers : x = arg[p].offer
        BY <1>0, <2>2 DEF Sends, TransactionsOnly
      <3>2. /\ offer' = offer /\ calendar' = calendar /\ expired' = expired
            /\ arg'[p].offer = x /\ arg'[p].kind = arg[p].kind
            /\ offer[x].status = "DRAFT" /\ arg'[p].written = {}
            /\ arg'[p].todo = offer[x].scope \ heldSlots(x)
            /\ arg'[p].ended = {r \in holdsOf(x) : r.slot \notin offer[x].scope}
            /\ pc'[p] # "check"
        BY <2>2, <3>1 DEF Sends, SameRows
      <3>3. arg[p].kind = "hold"
        BY <2>2 DEF Sends, OfferInv, UnsentOffers
      <3>4. claimed(p)' = arg'[p].todo
        BY <3>2 DEF claimed, placed
      <3>5. heldSlots(x) \in {{}, offer[x].scope}
        BY DEF OfferInv, NeverHalfBooked
      <3>6. holdsOf(x)' = holdsOf(x) /\ heldSlots(x)' = heldSlots(x)
        BY <3>2, SameCalendar
      <3>7. heldSlots(x) = {} => holdsOf(x) = {}
        BY DEF heldSlots
      <3>8. arg'[p].ended = {}
        BY <3>2, <3>5 DEF heldSlots
      <3>9. \/ claimed(p)' = offer[x].scope /\ holdsOf(x)' = {}
            \/ claimed(p)' = {} /\ heldSlots(x)' = offer[x].scope
        BY <3>2, <3>4, <3>5, <3>6, <3>7
      <3> QED BY <1>2, <3>2, <3>3, <3>8, <3>9
    <2>3. CASE GoesOn(p)
      <3>1. /\ p \in inTransaction /\ arg'[p].offer = arg[p].offer /\ arg'[p].to = arg[p].to
            /\ arg'[p].kind = arg[p].kind /\ claimed(p)' = claimed(p)
            /\ \/ arg'[p].ended = arg[p].ended /\ pc[p] # "convert"
               \/ pc[p] = "convert"
        BY <2>3, TransactionGoesOn
      <3>2. sending(p)
        BY <1>2, <3>1 DEF sending
      <3>3. pc[p] # "convert"
        BY <3>1, <3>2 DEF OfferInv, ThreeTransactions, sending, funding
      <3>4. PICK x \in Offers : x = arg[p].offer
        BY <1>0, <3>1 DEF TransactionsOnly, inTransaction
      <3>5. /\ offer[x].status = "DRAFT" /\ arg[p].kind = "hold" /\ arg[p].ended = {}
            /\ \/ claimed(p) = offer[x].scope /\ holdsOf(x) = {}
               \/ claimed(p) = {} /\ (heldSlots(x) = offer[x].scope \/ x \in expired)
        BY <3>2, <3>4 DEF OfferInv, SendsWhole
      <3>6. /\ offer' = offer /\ expired' = expired
            /\ holdsOf(x)' = holdsOf(x) /\ heldSlots(x)' = heldSlots(x)
        BY <2>3, SameCalendar DEF GoesOn, SameRows
      <3>7. x = arg'[p].offer
        BY <3>1, <3>4
      <3> QED BY <1>2, <3>1, <3>3, <3>5, <3>6, <3>7
    <2> QED BY <2>1, <2>2, <2>3 DEF Deeds
  <1> QED BY <1>1, <1>2

LEMMA FundsInductive ==
  ASSUME OfferInv, OneEndPerRow', NEW p \in Requests, Deeds(p)
  PROVE  FundsWhole'
  <1>0. TypeOK /\ TransactionsOnly /\ OthersStay(p)
    BY DEF OfferInv, SlotInv, Deeds
  <1> SUFFICES ASSUME NEW q \in Requests, funding(q)'
               PROVE  /\ offer'[arg'[q].offer].status = "ACCEPTED" /\ arg'[q].kind = "session"
                      /\ sessionsOf(arg[q].offer)' = {}
                      /\ claimed(q)' \in {{}, offer'[arg'[q].offer].scope}
                      /\ arg'[q].ended \subseteq holdsOf(arg[q].offer)'
                      /\ pc'[q] # "convert" => holdsOf(arg[q].offer)' \subseteq arg'[q].ended
    BY DEF FundsWhole
  <1>1. CASE q # p
    <2>1. funding(q) /\ pc'[q] = pc[q] /\ arg'[q] = arg[q] /\ claimed(q)' = claimed(q)
      BY <1>0, <1>1, OthersGoOn
    <2>2. PICK x \in Offers : x = arg[q].offer
      BY <1>0, <2>1 DEF TransactionsOnly, funding, inTransaction
    <2>3. /\ offer[x].status = "ACCEPTED" /\ arg[q].kind = "session"
          /\ sessionsOf(x) = {} /\ claimed(q) \in {{}, offer[x].scope}
          /\ arg[q].ended \subseteq holdsOf(x)
          /\ pc[q] # "convert" => holdsOf(x) \subseteq arg[q].ended
      BY <2>1, <2>2 DEF OfferInv, FundsWhole
    <2>4. Untouched(x) \/ Swept(x)
      BY <1>1, <2>1, <2>2, UpdatedOffer
    <2>5. /\ offer'[x].status = "ACCEPTED" /\ offer'[x].scope = offer[x].scope
          /\ sessionsOf(x)' = {} /\ holdsOf(x)' \subseteq holdsOf(x)
      BY <2>3, <2>4 DEF Untouched, Swept, Keeps
    <2>6. arg[q].ended \subseteq holdsOf(x)'
      BY <2>1, <2>3 DEF OneEndPerRow, holdsOf
    <2>7. x = arg'[q].offer
      BY <2>1, <2>2
    <2> QED BY <2>1, <2>3, <2>5, <2>6, <2>7
  <1>2. CASE q = p
    <2>1. CASE Quits(p) \/ Creates(p) \/ Supersedes(p) \/ Considers(p) \/ Resolves(p) \/ Lands(p)
               \/ Sends(p) \/ Invites(p) \/ Sweeps(p)
      BY <1>2, <2>1 DEF Quits, Creates, Supersedes, Considers, Resolves, Lands, Sends, Invites, Sweeps,
                        funding, inTransaction
    <2>2. CASE Funds(p)
      <3>1. PICK x \in Offers : x = arg[p].offer
        BY <1>0, <2>2 DEF Funds, TransactionsOnly
      <3>2. /\ offer' = offer /\ calendar' = calendar
            /\ arg'[p].offer = x /\ arg'[p].kind = "session"
            /\ offer[x].status = "ACCEPTED" /\ arg'[p].written = {} /\ arg'[p].ended = {}
            /\ arg'[p].todo = heldSlots(x) /\ pc'[p] # "check"
            /\ pc'[p] # "convert" => holdsOf(x) = {}
        BY <2>2, <3>1 DEF Funds, SameRows
      <3>3. claimed(p)' = heldSlots(x)
        BY <3>2 DEF claimed, placed
      <3>4. heldSlots(x) \in {{}, offer[x].scope} /\ sessionsOf(x) = {}
        BY <3>2 DEF OfferInv, NeverHalfBooked, RowsKnown
      <3>5. holdsOf(x)' = holdsOf(x) /\ sessionsOf(x)' = sessionsOf(x)
        BY <3>2, SameCalendar
      <3> QED BY <1>2, <3>2, <3>3, <3>4, <3>5
    <2>3. CASE GoesOn(p)
      <3>1. /\ p \in inTransaction /\ arg'[p].offer = arg[p].offer /\ arg'[p].to = arg[p].to
            /\ arg'[p].kind = arg[p].kind /\ claimed(p)' = claimed(p)
            /\ \/ arg'[p].ended = arg[p].ended /\ pc[p] # "convert"
               \/ arg'[p].ended = holdsOf(arg[p].offer) /\ pc[p] = "convert"
        BY <2>3, TransactionGoesOn
      <3>2. funding(p)
        BY <1>2, <3>1 DEF funding
      <3>3. PICK x \in Offers : x = arg[p].offer
        BY <1>0, <3>1 DEF TransactionsOnly, inTransaction
      <3>4. /\ offer[x].status = "ACCEPTED" /\ arg[p].kind = "session"
            /\ sessionsOf(x) = {} /\ claimed(p) \in {{}, offer[x].scope}
            /\ arg[p].ended \subseteq holdsOf(x)
            /\ pc[p] # "convert" => holdsOf(x) \subseteq arg[p].ended
        BY <3>2, <3>3 DEF OfferInv, FundsWhole
      <3>5. offer' = offer /\ holdsOf(x)' = holdsOf(x) /\ sessionsOf(x)' = sessionsOf(x)
        BY <2>3, SameCalendar DEF GoesOn, SameRows
      <3>6. x = arg'[p].offer
        BY <3>1, <3>3
      <3> QED BY <1>2, <3>1, <3>3, <3>4, <3>5, <3>6
    <2> QED BY <2>1, <2>2, <2>3 DEF Deeds
  <1> QED BY <1>1, <1>2

\* A paid program is paid after any step, and its calendar changes by its own invites alone.
LEMMA PaidStays ==
  ASSUME OfferInv, NEW p \in Requests, Deeds(p), NEW x \in Offers,
         offer[x].status = "PAID_IN_ESCROW"
  PROVE  /\ Untouched(x) \/ Rebooked(p, x) \/ Swept(x)
         /\ offer'[x].status = "PAID_IN_ESCROW"
  <1>1. ~Born(p, x) /\ ~Superseded(p, x)
    BY DEF Born, Superseded
  <1>2. ~Inherits(p, x)
    BY SenderOf DEF Inherits, Sender
  <1>3. ~Resolved(p, x)
    BY DEF OfferInv, VerdictsKnown, Resolved
  <1>4. ~Sent(p, x) /\ ~Funded(p, x)
    BY LandingStatus
  <1> QED BY <1>1, <1>2, <1>3, <1>4, StepFates DEF Fates, Untouched, Rebooked, Swept

LEMMA InvitesInductive ==
  ASSUME OfferInv, OneEndPerRow', NEW p \in Requests, Deeds(p)
  PROVE  InvitesOne'
  <1>0. TypeOK /\ TransactionsOnly /\ OthersStay(p)
    BY DEF OfferInv, SlotInv, Deeds
  <1> SUFFICES ASSUME NEW q \in Requests, inviting(q)'
               PROVE  /\ offer'[arg'[q].offer].status = "PAID_IN_ESCROW" /\ arg'[q].kind # "hold"
                      /\ \E s \in Slots : claimed(q)' = {s}
                      /\ arg'[q].kind = "session" => \E r \in sessionsOf(arg[q].offer)' : arg'[q].ended = {r}
                      /\ arg'[q].kind = "extra" => \A r \in arg'[q].ended : r.kind = "extra"
    BY DEF InvitesOne
  <1>1. CASE q # p
    <2>1. inviting(q) /\ arg'[q] = arg[q] /\ claimed(q)' = claimed(q)
      BY <1>0, <1>1, OthersGoOn
    <2>2. PICK x \in Offers : x = arg[q].offer
      BY <1>0, <2>1 DEF TransactionsOnly, inviting, inTransaction
    <2>3. /\ offer[x].status = "PAID_IN_ESCROW" /\ arg[q].kind # "hold"
          /\ \E s \in Slots : claimed(q) = {s}
          /\ arg[q].kind = "session" => \E r \in sessionsOf(x) : arg[q].ended = {r}
          /\ arg[q].kind = "extra" => \A r \in arg[q].ended : r.kind = "extra"
      BY <2>1, <2>2 DEF OfferInv, InvitesOne
    <2>4. offer'[x].status = "PAID_IN_ESCROW"
      BY <2>3, PaidStays
    <2>5. ASSUME arg[q].kind = "session"
          PROVE  \E r \in sessionsOf(x)' : arg[q].ended = {r}
      <3>1. PICK r \in sessionsOf(x) : arg[q].ended = {r}
        BY <2>3, <2>5
      <3>2. r \in calendar'
        BY <2>1, <3>1 DEF OneEndPerRow
      <3>3. r \in sessionsOf(x)'
        BY <3>1, <3>2 DEF sessionsOf
      <3> QED BY <3>1, <3>3
    <2>6. x = arg'[q].offer
      BY <2>1, <2>2
    <2> QED BY <2>1, <2>2, <2>3, <2>4, <2>5, <2>6
  <1>2. CASE q = p
    <2>1. CASE Quits(p) \/ Creates(p) \/ Supersedes(p) \/ Considers(p) \/ Resolves(p) \/ Lands(p)
               \/ Sends(p) \/ Funds(p) \/ Sweeps(p)
      BY <1>2, <2>1 DEF Quits, Creates, Supersedes, Considers, Resolves, Lands, Sends, Funds, Sweeps,
                        inviting, inTransaction
    <2>2. CASE Invites(p)
      <3>1. PICK x \in Offers : x = arg'[p].offer
        BY <2>2 DEF Invites
      <3>2. /\ offer' = offer /\ calendar' = calendar /\ offer[x].status = "PAID_IN_ESCROW"
            /\ arg'[p].written = {} /\ pc'[p] = "insert"
            /\ \E s \in Slots : arg'[p].todo = {s}
            /\ \/ arg'[p].kind = "extra" /\ arg'[p].ended = {}
               \/ \E r \in calendar : /\ r.kind # "hold" /\ r.offer = x
                                      /\ arg'[p].kind = r.kind /\ arg'[p].ended = {r}
        BY <2>2, <3>1 DEF Invites, SameRows
      <3>3. claimed(p)' = arg'[p].todo
        BY <3>2 DEF claimed, placed
      <3>4. arg'[p].kind # "hold"
        BY <3>2
      <3>5. arg'[p].kind = "session" => \E r \in sessionsOf(x) : arg'[p].ended = {r}
        BY <3>2 DEF sessionsOf
      <3>6. arg'[p].kind = "extra" => \A r \in arg'[p].ended : r.kind = "extra"
        BY <3>2
      <3>7. sessionsOf(x)' = sessionsOf(x)
        BY <3>2, SameCalendar
      <3> QED BY <1>2, <3>1, <3>2, <3>3, <3>4, <3>5, <3>6, <3>7
    <2>3. CASE GoesOn(p)
      <3>1. /\ p \in inTransaction /\ arg'[p].offer = arg[p].offer /\ arg'[p].to = arg[p].to
            /\ arg'[p].kind = arg[p].kind /\ claimed(p)' = claimed(p)
            /\ arg'[p].ended = arg[p].ended \/ pc[p] = "convert"
        BY <2>3, TransactionGoesOn
      <3>2. inviting(p)
        BY <1>2, <3>1 DEF inviting
      <3>3. pc[p] # "convert"
        BY <3>1, <3>2 DEF OfferInv, ThreeTransactions, inviting, funding
      <3>4. PICK x \in Offers : x = arg[p].offer
        BY <1>0, <3>1 DEF TransactionsOnly, inTransaction
      <3>5. /\ offer[x].status = "PAID_IN_ESCROW" /\ arg[p].kind # "hold"
            /\ \E s \in Slots : claimed(p) = {s}
            /\ arg[p].kind = "session" => \E r \in sessionsOf(x) : arg[p].ended = {r}
            /\ arg[p].kind = "extra" => \A r \in arg[p].ended : r.kind = "extra"
        BY <3>2, <3>4 DEF OfferInv, InvitesOne
      <3>6. offer' = offer /\ sessionsOf(x)' = sessionsOf(x)
        BY <2>3, SameCalendar DEF GoesOn, SameRows
      <3>7. x = arg'[p].offer
        BY <3>1, <3>4
      <3> QED BY <1>2, <3>1, <3>3, <3>4, <3>5, <3>6, <3>7
    <2> QED BY <2>1, <2>2, <2>3 DEF Deeds
  <1> QED BY <1>1, <1>2

-------------------------------------------------------------------------------
(* Each part of the invariant: offers *)

LEMMA ScopesFinite ==
  ASSUME TypeOK, NEW x \in Offers
  PROVE  IsFiniteSet(offer[x].scope)
  <1>1. offer[x].scope \in Scopes \cup {{}}
    BY StepsAndArgs DEF OfferRow
  <1> QED BY <1>1, ScopeAssumption, FS_EmptySet

\* A transaction that commits has written one row for each hour it claimed.
LEMMA WrittenRows ==
  ASSUME OfferInv, NEW p \in Requests, pc[p] = "commit", IsFiniteSet(claimed(p))
  PROVE  /\ {r.slot : r \in arg[p].written} = claimed(p)
         /\ IsFiniteSet(arg[p].written) /\ Cardinality(arg[p].written) = Cardinality(claimed(p))
         /\ \A r \in arg[p].written : r.kind = arg[p].kind /\ r.offer = arg[p].offer
  <1>1. /\ \A r \in arg[p].written : r.kind = arg[p].kind /\ r.offer = arg[p].offer
        /\ arg[p].todo = {}
    BY DEF OfferInv, ThreeTransactions, inTransaction
  <1>2. {r.slot : r \in arg[p].written} = claimed(p)
    BY <1>1 DEF claimed, placed
  <1>3. arg[p].written \subseteq Row
    BY StepsAndArgs DEF OfferInv, SlotInv, Args
  <1>4. \A r, t \in arg[p].written : r.slot = t.slot => r = t
    BY <1>1, <1>3 DEF Row
  <1> DEFINE W == arg[p].written
             f == [r \in W |-> r.slot]
  <1>5. f \in Bijection(W, claimed(p))
    BY <1>2, <1>4 DEF Bijection, Injection, Surjection, IsInjective
  <1>6. f \in Injection(W, claimed(p)) /\ f \in Surjection(W, claimed(p))
    BY <1>5 DEF Bijection
  <1> HIDE DEF W, f
  <1>7. IsFiniteSet(W) /\ Cardinality(W) = Cardinality(claimed(p))
    BY <1>6, FS_Injection
  <1> QED BY <1>1, <1>2, <1>7 DEF W

LEMMA FundedSessions ==
  ASSUME OfferInv, NEW p \in Requests, NEW x \in Offers, Funded(p, x)
  PROVE  /\ IsFiniteSet(sessionsOf(x)')
         /\ Cardinality(sessionsOf(x)') \in {0, Cardinality(offer[x].scope)}
  <1>1. claimed(p) \in {{}, offer[x].scope} /\ pc[p] = "commit"
    BY DEF OfferInv, FundsWhole, Funded, Landing
  <1>2. IsFiniteSet(claimed(p))
    BY <1>1, ScopesFinite, FS_EmptySet DEF OfferInv, SlotInv
  <1> QED BY <1>1, <1>2, WrittenRows, FS_EmptySet DEF Funded

LEMMA RebookedSessions ==
  ASSUME OfferInv, NEW p \in Requests, NEW x \in Offers, Rebooked(p, x)
  PROVE  /\ IsFiniteSet(sessionsOf(x)')
         /\ Cardinality(sessionsOf(x)') = Cardinality(sessionsOf(x))
  <1>0. IsFiniteSet(sessionsOf(x))
    BY FS_EmptySet DEF OfferInv, RowsKnown
  <1>1. CASE arg[p].kind # "session"
    BY <1>0, <1>1 DEF Rebooked
  <1>2. CASE arg[p].kind = "session"
    <2>1. pc[p] = "commit" /\ arg[p].offer = x /\ inviting(p)
      BY DEF Rebooked, Landing
    <2>2. PICK s \in Slots : claimed(p) = {s}
      BY <2>1 DEF OfferInv, InvitesOne
    <2>3. PICK r \in sessionsOf(x) : arg[p].ended = {r}
      BY <1>2, <2>1 DEF OfferInv, InvitesOne
    <2>4. IsFiniteSet(claimed(p)) /\ Cardinality(claimed(p)) = 1
      BY <2>2, FS_Singleton
    <2>5. IsFiniteSet(arg[p].written) /\ Cardinality(arg[p].written) = 1
      BY <2>1, <2>4, WrittenRows
    <2>6. PICK w : arg[p].written = {w}
      BY <2>5, FS_Singleton
    <2>7. w \notin calendar \ arg[p].ended
      <3>1. w \in Row /\ w \in placed(p)
        BY <2>1, <2>6, StepsAndArgs DEF OfferInv, SlotInv, Args, placed
      <3>2. w.slot \in Slots
        BY <3>1 DEF Row
      <3>3. Collide(w, w)
        BY <3>2, SlotAssumption DEF Collide, SameTable, Overlaps
      <3> QED BY <3>1, <3>3 DEF OfferInv, SlotInv, PlacedIsClear
    <2>8. w \notin sessionsOf(x) \ {r}
      BY <2>3, <2>7 DEF sessionsOf
    <2>9. sessionsOf(x)' = (sessionsOf(x) \ {r}) \cup {w}
      BY <1>2, <2>3, <2>6 DEF Rebooked
    <2>10. /\ IsFiniteSet(sessionsOf(x) \ {r})
           /\ Cardinality(sessionsOf(x) \ {r}) = Cardinality(sessionsOf(x)) - 1
      BY <1>0, <2>3, FS_RemoveElement
    <2>11. /\ IsFiniteSet((sessionsOf(x) \ {r}) \cup {w})
           /\ Cardinality((sessionsOf(x) \ {r}) \cup {w}) = Cardinality(sessionsOf(x) \ {r}) + 1
      BY <2>8, <2>10, FS_AddElement
    <2>12. Cardinality(sessionsOf(x)) \in Nat
      BY <1>0, FS_CardinalityType
    <2> QED BY <2>9, <2>10, <2>11, <2>12
  <1> QED BY <1>1, <1>2

\* An offer that exists goes on to exist, and asks for the hours it asked for.
LEMMA OffersLive ==
  ASSUME OfferInv, NEW p \in Requests, Deeds(p), NEW x \in Offers, offer[x].status # "none"
  PROVE  Keeps(x) /\ offer'[x].status # "none"
  <1>1. ~Born(p, x)
    BY DEF Born
  <1>2. CASE Untouched(x) \/ Swept(x) \/ Inherits(p, x) \/ Rebooked(p, x)
    BY <1>2 DEF Untouched, Swept, Inherits, Rebooked, Landing
  <1>3. CASE Superseded(p, x) \/ Sent(p, x) \/ Funded(p, x)
    BY <1>3 DEF Superseded, Sent, Funded, Landing
  <1>4. CASE Resolved(p, x)
    BY <1>4 DEF Resolved, OfferInv, VerdictsKnown
  <1> QED BY <1>1, <1>2, <1>3, <1>4, StepFates DEF Fates

LEMMA RowsInductive ==
  ASSUME OfferInv, NEW p \in Requests, Deeds(p)
  PROVE  RowsKnown'
  <1> SUFFICES ASSUME NEW x \in Offers
               PROVE  /\ offer'[x].status = "none" => holdsOf(x)' = {}
                      /\ offer'[x].parent \in Offers =>
                           /\ offer'[offer'[x].parent].status # "none"
                           /\ offer'[x].scope = offer'[offer'[x].parent].scope
                      /\ sessionsOf(x)' # {} => /\ offer'[x].status = "PAID_IN_ESCROW"
                                                /\ IsFiniteSet(sessionsOf(x)')
    BY DEF RowsKnown
  <1>0. /\ offer[x].status = "none" => holdsOf(x) = {}
        /\ offer[x].parent \in Offers => /\ offer[offer[x].parent].status # "none"
                                         /\ offer[x].scope = offer[offer[x].parent].scope
        /\ sessionsOf(x) # {} => offer[x].status = "PAID_IN_ESCROW" /\ IsFiniteSet(sessionsOf(x))
    BY DEF OfferInv, RowsKnown
  <1>1. Fates(p, x)
    BY StepFates
  <1>2. offer'[x].status = "none" => holdsOf(x)' = {}
    <2>1. SUFFICES ASSUME offer'[x].status = "none" PROVE holdsOf(x)' = {}
      OBVIOUS
    <2>2. offer[x].status = "none"
      BY <2>1, OffersLive
    <2>3. ~Inherits(p, x)
      BY <2>2, SenderOf DEF Inherits, Sender
    <2>4. ~Superseded(p, x) /\ ~Resolved(p, x)
      BY <2>2 DEF Superseded, Resolved, OfferInv, VerdictsKnown
    <2>5. ~Sent(p, x) /\ ~Funded(p, x) /\ ~Rebooked(p, x)
      BY <2>2, LandingStatus
    <2> QED BY <1>0, <1>1, <2>2, <2>3, <2>4, <2>5 DEF Fates, Untouched, Born, Swept
  <1>3. offer'[x].parent \in Offers => /\ offer'[offer'[x].parent].status # "none"
                                       /\ offer'[x].scope = offer'[offer'[x].parent].scope
    <2>1. SUFFICES ASSUME NEW y \in Offers, offer'[x].parent = y
                   PROVE  offer'[y].status # "none" /\ offer'[x].scope = offer'[y].scope
      OBVIOUS
    <2>2. offer[y].status # "none" /\ offer'[x].scope = offer[y].scope
      <3>1. CASE Born(p, x)
        BY <2>1, <3>1 DEF Born
      <3>2. CASE Keeps(x)
        BY <1>0, <2>1, <3>2 DEF Keeps
      <3> QED BY <1>1, <3>1, <3>2 DEF Fates, Untouched, Superseded, Inherits, Resolved, Sent, Funded,
                                      Rebooked, Landing, Swept
    <2>3. Keeps(y) /\ offer'[y].status # "none"
      BY <2>2, OffersLive
    <2> QED BY <2>2, <2>3 DEF Keeps
  <1>4. sessionsOf(x)' # {} => offer'[x].status = "PAID_IN_ESCROW" /\ IsFiniteSet(sessionsOf(x)')
    <2>1. CASE Untouched(x) \/ Swept(x)
      BY <1>0, <2>1 DEF Untouched, Swept
    <2>2. CASE Born(p, x)
      BY <2>2 DEF Born
    <2>3. CASE Superseded(p, x)
      BY <1>0, <2>3 DEF Superseded
    <2>4. CASE Inherits(p, x)
      BY <1>0, <2>4, SenderOf DEF Inherits, Sender
    <2>5. CASE Resolved(p, x)
      BY <1>0, <2>5 DEF Resolved, OfferInv, VerdictsKnown
    <2>6. CASE Sent(p, x)
      BY <1>0, <2>6, LandingStatus DEF Sent
    <2>7. CASE Funded(p, x)
      BY <2>7, FundedSessions DEF Funded
    <2>8. CASE Rebooked(p, x)
      BY <2>8, RebookedSessions, LandingStatus DEF Rebooked
    <2> QED BY <1>1, <2>1, <2>2, <2>3, <2>4, <2>5, <2>6, <2>7, <2>8 DEF Fates
  <1> QED BY <1>2, <1>3, <1>4

\* What an offer holds when its sending commits.
LEMMA SentHolds ==
  ASSUME OfferInv, NEW p \in Requests, NEW x \in Offers, Sent(p, x)
  PROVE  /\ heldSlots(x)' \in {{}, offer[x].scope}
         /\ heldSlots(x)' = offer[x].scope \/ x \in expired
  <1>1. pc[p] = "commit" /\ arg[p].offer = x /\ sending(p)
    BY DEF Sent, Landing
  <1>2. \/ claimed(p) = offer[x].scope /\ holdsOf(x) = {}
        \/ claimed(p) = {} /\ (heldSlots(x) = offer[x].scope \/ x \in expired)
    BY <1>1 DEF OfferInv, SendsWhole
  <1>3. {r.slot : r \in arg[p].written} = claimed(p)
    BY <1>1, <1>2, WrittenRows, ScopesFinite, FS_EmptySet DEF OfferInv, SlotInv
  <1>4. holdsOf(x)' = holdsOf(x) \cup arg[p].written
    BY DEF Sent
  <1>5. heldSlots(x)' = heldSlots(x) \cup claimed(p)
    BY <1>3, <1>4 DEF heldSlots
  <1>6. heldSlots(x) \in {{}, offer[x].scope}
    BY DEF OfferInv, NeverHalfBooked
  <1>7. holdsOf(x) = {} => heldSlots(x) = {}
    BY DEF heldSlots
  <1> QED BY <1>2, <1>5, <1>6, <1>7

LEMMA HalfInductive ==
  ASSUME OfferInv, NEW p \in Requests, Deeds(p)
  PROVE  NeverHalfBooked'
  <1> SUFFICES ASSUME NEW x \in Offers
               PROVE  /\ heldSlots(x)' \in {{}, offer'[x].scope}
                      /\ Cardinality(sessionsOf(x)') \in {0, Cardinality(offer'[x].scope)}
    BY DEF NeverHalfBooked
  <1>0. /\ heldSlots(x) \in {{}, offer[x].scope}
        /\ Cardinality(sessionsOf(x)) \in {0, Cardinality(offer[x].scope)}
    BY DEF OfferInv, NeverHalfBooked
  <1>1. CASE Untouched(x) \/ Swept(x) \/ Superseded(p, x)
    BY <1>0, <1>1, HeldSlots DEF Untouched, Swept, Superseded, Keeps
  <1>2. CASE Born(p, x)
    BY <1>2, HeldSlots, FS_EmptySet DEF Born
  <1>3. CASE Inherits(p, x)
    <2>1. /\ offer'[x].scope = offer[x].scope /\ sessionsOf(x)' = sessionsOf(x)
          /\ heldSlots(x)' = heldSlots(offer[x].parent)
      BY <1>3 DEF Inherits, Keeps
    <2>2. offer[x].parent \in Offers
      BY <1>3 DEF Inherits, OfferInv, UnsentOffers
    <2>3. heldSlots(offer[x].parent) \in {{}, offer[offer[x].parent].scope}
      BY <2>2 DEF OfferInv, NeverHalfBooked
    <2>4. offer[x].scope = offer[offer[x].parent].scope
      BY <2>2 DEF OfferInv, RowsKnown
    <2> QED BY <1>0, <2>1, <2>3, <2>4
  <1>4. CASE Resolved(p, x)
    BY <1>0, <1>4, HeldSlots DEF Resolved, Keeps
  <1>5. CASE Sent(p, x)
    BY <1>0, <1>5, SentHolds DEF Sent, Landing, Keeps
  <1>6. CASE Funded(p, x)
    BY <1>6, FundedSessions, HeldSlots DEF Funded, Landing, Keeps
  <1>7. CASE Rebooked(p, x)
    BY <1>0, <1>7, RebookedSessions, HeldSlots DEF Rebooked, Landing, Keeps
  <1> QED BY <1>1, <1>2, <1>3, <1>4, <1>5, <1>6, <1>7, StepFates DEF Fates

LEMMA OpenInductive ==
  ASSUME OfferInv, NEW p \in Requests, Deeds(p)
  PROVE  OpenOfferHoldsItsSlots'
  <1> SUFFICES ASSUME NEW x \in Offers, x \notin expired', offer'[x].status = "OFFERED"
               PROVE  heldSlots(x)' = offer'[x].scope
    BY DEF OpenOfferHoldsItsSlots
  <1>1. CASE Untouched(x)
    BY <1>1, HeldSlots DEF OfferInv, OpenOfferHoldsItsSlots, Untouched, Keeps
  <1>2. CASE Sent(p, x)
    BY <1>2, SentHolds DEF Sent, Landing, Keeps
  <1>3. ~Born(p, x) /\ ~Superseded(p, x) /\ ~Funded(p, x) /\ ~Swept(x)
    BY DEF Born, Superseded, Funded, Swept
  <1>4. ~Inherits(p, x)
    BY SenderOf DEF Inherits, Sender
  <1>5. ~Resolved(p, x)
    BY DEF Resolved, OfferInv, VerdictsKnown
  <1>6. ~Rebooked(p, x)
    BY LandingStatus DEF Rebooked
  <1> QED BY <1>1, <1>2, <1>3, <1>4, <1>5, <1>6, StepFates DEF Fates

LEMMA DeadInductive ==
  ASSUME OfferInv, NEW p \in Requests, Deeds(p)
  PROVE  DeadOfferFreesItsSlots'
  <1> SUFFICES ASSUME NEW x \in Offers,
                      \/ offer'[x].status = "EXPIRED"
                      \/ offer'[x].status = "CANCELLED" /\ offer'[x].parent = NoOffer
               PROVE  holdsOf(x)' = {}
    BY DEF DeadOfferFreesItsSlots
  <1>1. CASE Untouched(x)
    BY <1>1 DEF OfferInv, DeadOfferFreesItsSlots, Untouched, Keeps
  <1>2. CASE Swept(x)
    BY <1>2 DEF Swept
  <1>3. CASE Resolved(p, x)
    BY <1>3 DEF Resolved, Withdrawn
  <1>4. ~Born(p, x) /\ ~Superseded(p, x) /\ ~Sent(p, x) /\ ~Funded(p, x)
    BY DEF Born, Superseded, Sent, Funded
  <1>5. ~Inherits(p, x)
    <2>1. SUFFICES ASSUME Inherits(p, x) PROVE FALSE
      OBVIOUS
    <2>2. offer[x].parent \in Offers /\ offer[x].status \in {"DRAFT", "CANCELLED"}
      BY <2>1 DEF Inherits, OfferInv, UnsentOffers
    <2> QED BY <2>1, <2>2, BoundAssumption DEF Inherits, Keeps
  <1>6. ~Rebooked(p, x)
    BY LandingStatus DEF Rebooked
  <1> QED BY <1>1, <1>2, <1>3, <1>4, <1>5, <1>6, StepFates DEF Fates

\* Only the request that counters an offer makes it a countered one.
LEMMA CounteredBy ==
  ASSUME OfferInv, NEW p \in Requests, Deeds(p), NEW x \in Offers,
         offer'[x].status = "COUNTERED", offer[x].status # "COUNTERED"
  PROVE  Supersedes(p) /\ arg[p].offer \in Offers /\ offer[arg[p].offer].parent = x
  <1>1. ~Untouched(x) /\ ~Born(p, x) /\ ~Inherits(p, x) /\ ~Swept(x) /\ ~Rebooked(p, x)
    BY DEF Untouched, Born, Inherits, Swept, Rebooked
  <1>2. ~Sent(p, x) /\ ~Funded(p, x)
    BY DEF Sent, Funded
  <1>3. ~Resolved(p, x)
    BY DEF Resolved, OfferInv, VerdictsKnown
  <1>4. Superseded(p, x)
    BY <1>1, <1>2, <1>3, StepFates DEF Fates
  <1>5. pc[p] = "counter" /\ offer' # offer
    BY <1>4 DEF Superseded
  <1>6. ~Creates(p)
    <2>1. SUFFICES ASSUME Creates(p) PROVE FALSE
      OBVIOUS
    <2>2. PICK row \in OfferRow : /\ offer' = [offer EXCEPT ![arg'[p].offer] = row]
                                  /\ row.status = "DRAFT"
      BY <2>1 DEF Creates
    <2>3. offer'[x] = offer[x] \/ offer'[x] = row
      BY <2>2, StepsAndArgs DEF OfferInv, SlotInv
    <2> QED BY <2>2, <2>3
  <1>7. Supersedes(p)
    BY <1>5, <1>6 DEF Deeds, Quits, Considers, Resolves, Sends, Funds, Invites, Lands,
                      Sweeps, GoesOn, SameRows
  <1>8. /\ arg[p].offer \in Offers /\ offer[arg[p].offer].parent \in Offers
        /\ offer' = [offer EXCEPT ![offer[arg[p].offer].parent].status = "COUNTERED"]
    BY <1>7 DEF OfferInv, SlotInv, UnsentOffers, TransactionsOnly, Supersedes
  <1>9. offer[arg[p].offer].parent = x
    <2>1. SUFFICES ASSUME offer[arg[p].offer].parent # x PROVE FALSE
      OBVIOUS
    <2>2. offer'[x] = offer[x]
      BY <1>8, <2>1
    <2> QED BY <2>2
  <1> QED BY <1>7, <1>8, <1>9

-------------------------------------------------------------------------------
(* Theorems *)

LEMMA InitOfferInv == Init => OfferInv
  <1> SUFFICES ASSUME Init PROVE OfferInv
    OBVIOUS
  <1>1. SlotInv
    BY InitSlotInv
  <1>2. \A p \in Requests : pc[p] = "idle" /\ p \notin inTransaction
    BY DEF Init, inTransaction
  <1>3. ThreeTransactions /\ UnsentOffers /\ VerdictsKnown
    <2>1. ThreeTransactions
      BY <1>2 DEF ThreeTransactions, inTransaction
    <2>2. UnsentOffers
      BY <1>2 DEF UnsentOffers, sending
    <2>3. VerdictsKnown
      BY <1>2 DEF VerdictsKnown
    <2> QED BY <2>1, <2>2, <2>3
  <1>4. SendsWhole /\ FundsWhole /\ InvitesOne
    BY <1>2 DEF SendsWhole, FundsWhole, InvitesOne, sending, funding, inviting
  <1>5. \A x : holdsOf(x) = {} /\ sessionsOf(x) = {} /\ heldSlots(x) = {}
    BY DEF Init, holdsOf, sessionsOf, heldSlots
  <1>6. \A x \in Offers : offer[x].status = "none" /\ offer[x].parent \notin Offers
    BY BoundAssumption DEF Init, NoRow
  <1>7. RowsKnown /\ NeverHalfBooked
    BY <1>5, <1>6, FS_EmptySet DEF RowsKnown, NeverHalfBooked
  <1>8. OpenOfferHoldsItsSlots /\ DeadOfferFreesItsSlots
    BY <1>5, <1>6 DEF OpenOfferHoldsItsSlots, DeadOfferFreesItsSlots
  <1> QED BY <1>1, <1>3, <1>4, <1>7, <1>8 DEF OfferInv

LEMMA OfferInvInductive == OfferInv /\ [Next]_vars => OfferInv'
  <1> SUFFICES ASSUME OfferInv, [Next]_vars PROVE OfferInv'
    OBVIOUS
  <1>1. SlotInv'
    BY SlotInvInductive DEF OfferInv
  <1>2. CASE UNCHANGED vars
    <2>1. ThreeTransactions' /\ UnsentOffers' /\ VerdictsKnown'
      BY <1>2 DEF OfferInv, vars, ThreeTransactions, UnsentOffers, VerdictsKnown, sending, funding,
                  inviting, inTransaction, holdsOf
    <2>2. SendsWhole'
      BY <1>2 DEF OfferInv, vars, SendsWhole, sending, inTransaction, claimed, placed, newRow,
                  holdsOf, heldSlots
    <2>3. FundsWhole'
      BY <1>2 DEF OfferInv, vars, FundsWhole, funding, inTransaction, claimed, placed, newRow,
                  holdsOf, sessionsOf
    <2>4. InvitesOne'
      BY <1>2 DEF OfferInv, vars, InvitesOne, inviting, inTransaction, claimed, placed, newRow,
                  sessionsOf
    <2>5. RowsKnown' /\ NeverHalfBooked' /\ OpenOfferHoldsItsSlots' /\ DeadOfferFreesItsSlots'
      BY <1>2 DEF OfferInv, vars, RowsKnown, NeverHalfBooked, OpenOfferHoldsItsSlots,
                  DeadOfferFreesItsSlots, holdsOf, sessionsOf, heldSlots
    <2> QED BY <1>1, <2>1, <2>2, <2>3, <2>4, <2>5 DEF OfferInv
  <1>3. CASE Next
    <2>1. PICK p \in Requests : Deeds(p)
      BY <1>3, StepDeeds
    <2>2. OneEndPerRow'
      BY <1>1 DEF SlotInv
    <2> QED BY <1>1, <2>1, <2>2, ThreeInductive, UnsentInductive, VerdictsInductive, SendsInductive,
               FundsInductive, InvitesInductive, RowsInductive, HalfInductive, OpenInductive,
               DeadInductive DEF OfferInv
  <1> QED BY <1>2, <1>3

\* Through counter-offers, payments, invites, sweeps and crashes, in any order and cut short
\* anywhere, the requests keep to the offers they have read and the hours they have claimed.
THEOREM OfferInvariant == Spec => []OfferInv
  BY InitOfferInv, OfferInvInductive, PTL DEF Spec

\* No offer ever holds a part of its hours, and no program has a part of its sessions (holds.ts:48).
THEOREM AllHoursOrNone == Spec => []NeverHalfBooked
  <1>1. OfferInv => NeverHalfBooked
    BY DEF OfferInv
  <1> QED BY <1>1, OfferInvariant, PTL

\* An offer the counterparty can see holds its hours unless the sweep took them, and one that
\* expired or was cancelled gives them back (offer-service.ts:654; holds.ts, releaseHolds).
THEOREM HoursFollow == Spec => []HoursFollowTheOffer
  <1>1. OfferInv => HoursFollowTheOffer
    BY DEF OfferInv, HoursFollowTheOffer
  <1> QED BY <1>1, OfferInvariant, PTL

heldHours == {r.slot : r \in {h \in calendar : h.kind = "hold"}}

\* The one deed that supersedes an offer moves its holds.
LEMMA SupersedingKeepsHours ==
  ASSUME OfferInv, NEW p \in Requests, Supersedes(p)
  PROVE  heldHours \subseteq heldHours'
  <1>0. /\ TypeOK /\ pc[p] = "counter" /\ arg[p].offer \in Offers
        /\ offer[arg[p].offer].parent \in Offers
    BY DEF OfferInv, SlotInv, UnsentOffers, TransactionsOnly, Supersedes
  <1>1. PICK o \in Offers, parent \in Offers : calendar' = transferred(parent, o)
    BY <1>0 DEF Supersedes
  <1> SUFFICES ASSUME NEW h \in calendar, h.kind = "hold"
               PROVE  \E t \in calendar' : t.kind = "hold" /\ t.slot = h.slot
    BY DEF heldHours
  <1>2. CASE h \notin holdsOf(parent)
    BY <1>1, <1>2 DEF transferred
  <1>3. CASE h \in holdsOf(parent)
    <2> DEFINE t == [h EXCEPT !.offer = o]
    <2>1. t \in calendar'
      BY <1>1, <1>3 DEF transferred
    <2>2. t.kind = "hold" /\ t.slot = h.slot
      BY <1>0, StepsAndArgs DEF Row
    <2> QED BY <2>1, <2>2
  <1> QED BY <1>2, <1>3

\* A counter-offer takes its parent's hours over without opening them to anyone
\* (offer-service.ts:327).
THEOREM CountersKeepHours == Spec => CounterKeepsSlots
  <1>1. ASSUME OfferInv, [Next]_vars, NEW x \in Offers,
               offer'[x].status = "COUNTERED", offer[x].status = "OFFERED"
        PROVE  heldHours \subseteq heldHours'
    <2>1. ~UNCHANGED vars
      BY <1>1 DEF vars
    <2>2. PICK p \in Requests : Deeds(p)
      BY <1>1, <2>1, StepDeeds
    <2>3. Supersedes(p)
      BY <1>1, <2>2, CounteredBy
    <2> QED BY <1>1, <2>3, SupersedingKeepsHours
  <1>2. ASSUME OfferInv, [Next]_vars
        PROVE  [\A o \in Offers : offer'[o].status = "COUNTERED" /\ offer[o].status = "OFFERED"
                       => {r.slot : r \in {h \in calendar : h.kind = "hold"}}
                            \subseteq {r.slot : r \in {h \in calendar' : h.kind = "hold"}}]_vars
    BY <1>1, <1>2 DEF heldHours
  <1> QED BY <1>2, OfferInvariant, PTL DEF Spec, CounterKeepsSlots

-------------------------------------------------------------------------------
(* What the parties are shown *)

\* A row keeps the parent it was written with, so an offer that was replaced stays replaced.
LEMMA SupersededStays ==
  ASSUME PageInv, NEW p \in Requests, Deeds(p), NEW x \in Offers, superseded(x)
  PROVE  superseded(x)'
  <1>1. PICK c \in Offers : offer[c].parent = x
    BY DEF superseded
  <1>2. offer[c].status # "none"
    BY <1>1, BoundAssumption DEF PageInv, Parents
  <1>3. offer'[c].parent = x
    BY <1>1, <1>2, OffersLive DEF PageInv, Keeps
  <1> QED BY <1>3 DEF superseded

LEMMA ParentsInductive ==
  ASSUME PageInv, NEW p \in Requests, Deeds(p)
  PROVE  Parents'
  <1>0. OfferInv
    BY DEF PageInv
  <1>1. ASSUME NEW x \in Offers, offer'[x].status = "none"
        PROVE  offer'[x].parent = NoOffer
    <2>1. offer[x].status = "none"
      BY <1>0, <1>1, OffersLive
    <2>2. Keeps(x)
      BY <1>0, <1>1, StepFates DEF Fates, Untouched, Born, Superseded, Inherits, Resolved, Sent, Funded,
                                   Rebooked, Landing, Swept
    <2> QED BY <2>1, <2>2 DEF PageInv, Parents, Keeps
  <1>2. ASSUME NEW x \in Offers, offer'[x].status = "COUNTERED"
        PROVE  superseded(x)'
    <2>1. superseded(x)
      <3>1. CASE offer[x].status = "COUNTERED"
        BY <3>1 DEF PageInv, Parents
      <3>2. CASE offer[x].status # "COUNTERED"
        BY <1>0, <1>2, <3>2, CounteredBy DEF superseded
      <3> QED BY <3>1, <3>2
    <2> QED BY <2>1, SupersededStays
  <1> QED BY <1>1, <1>2 DEF Parents

LEMMA AcceptedInductive ==
  ASSUME PageInv, NEW p \in Requests, Deeds(p)
  PROVE  AcceptedOfferHoldsItsSlots'
  <1> SUFFICES ASSUME NEW x \in Offers, x \notin expired', offer'[x].status = "ACCEPTED",
                      ~superseded(x)'
               PROVE  heldSlots(x)' = offer'[x].scope
    BY DEF AcceptedOfferHoldsItsSlots
  <1>0. OfferInv /\ ~superseded(x) /\ offer[x].status # "COUNTERED"
    BY SupersededStays DEF PageInv, Parents
  <1>1. CASE Untouched(x)
    BY <1>0, <1>1, HeldSlots DEF PageInv, AcceptedOfferHoldsItsSlots, Untouched, Keeps
  <1>2. CASE Resolved(p, x)
    <2>1. offer[x].status \in {"OFFERED", "ACCEPTED"} /\ Keeps(x) /\ holdsOf(x)' = holdsOf(x)
      BY <1>0, <1>2 DEF Resolved, Withdrawn, OfferInv, VerdictsKnown
    <2>2. heldSlots(x) = offer[x].scope
      BY <1>0, <2>1 DEF PageInv, OfferInv, OpenOfferHoldsItsSlots, AcceptedOfferHoldsItsSlots, Keeps
    <2> QED BY <2>1, <2>2, HeldSlots DEF Keeps
  <1>3. ~Born(p, x) /\ ~Superseded(p, x) /\ ~Sent(p, x) /\ ~Funded(p, x) /\ ~Swept(x)
    BY DEF Born, Superseded, Sent, Funded, Swept
  <1>4. ~Inherits(p, x)
    BY <1>0, SenderOf DEF Inherits, Sender
  <1>5. ~Rebooked(p, x)
    BY <1>0, LandingStatus DEF Rebooked
  <1> QED BY <1>0, <1>1, <1>2, <1>3, <1>4, <1>5, StepFates DEF Fates

LEMMA InitPageInv == Init => PageInv
  <1> SUFFICES ASSUME Init PROVE PageInv
    OBVIOUS
  <1>1. \A x \in Offers : offer[x].status = "none" /\ offer[x].parent = NoOffer
    BY DEF Init, NoRow
  <1> QED BY <1>1, InitOfferInv DEF PageInv, Parents, AcceptedOfferHoldsItsSlots

LEMMA PageInvInductive == PageInv /\ [Next]_vars => PageInv'
  <1> SUFFICES ASSUME PageInv, [Next]_vars PROVE PageInv'
    OBVIOUS
  <1>1. OfferInv'
    BY OfferInvInductive DEF PageInv
  <1>2. CASE UNCHANGED vars
    <2>1. Parents' /\ AcceptedOfferHoldsItsSlots'
      BY <1>2 DEF PageInv, vars, Parents, AcceptedOfferHoldsItsSlots, superseded, heldSlots, holdsOf
    <2> QED BY <1>1, <2>1 DEF PageInv
  <1>3. CASE Next
    <2>1. PICK p \in Requests : Deeds(p)
      BY <1>3, StepDeeds DEF PageInv
    <2> QED BY <1>1, <2>1, ParentsInductive, AcceptedInductive DEF PageInv
  <1> QED BY <1>2, <1>3

THEOREM PageInvariant == Spec => []PageInv
  BY InitPageInv, PageInvInductive, PTL DEF Spec

LEMMA OpenHolds ==
  ASSUME PageInv, NEW o \in Offers \ expired, open(o)
  PROVE  heldSlots(o) = offer[o].scope
  BY DEF PageInv, OfferInv, OpenOfferHoldsItsSlots, AcceptedOfferHoldsItsSlots, Parents, open

\* What stands open beside each other on a page or in a list can all be had
\* (conversation.ts:163): no two of the offers want the same hour of the coach.
THEOREM OpenOffersNeverMeet == Spec => []OpenOffersAreApart
  <1>1. ASSUME PageInv PROVE OpenOffersAreApart
    <2> SUFFICES ASSUME NEW o \in Offers \ expired, NEW c \in Offers \ expired, o # c, open(o), open(c),
                        NEW s \in offer[o].scope, NEW t \in offer[c].scope
                 PROVE  ~Overlaps(s, t)
      BY DEF OpenOffersAreApart
    <2>1. s \in heldSlots(o) /\ t \in heldSlots(c)
      BY <1>1, OpenHolds
    <2>2. PICK r \in holdsOf(o), u \in holdsOf(c) : r.slot = s /\ u.slot = t
      BY <2>1 DEF heldSlots
    <2>3. /\ r \in calendar /\ u \in calendar /\ r.kind = "hold" /\ u.kind = "hold"
          /\ r.offer = o /\ u.offer = c
      BY DEF holdsOf
    <2>4. ~Collide(r, u)
      BY <1>1, <2>3 DEF PageInv, OfferInv, SlotInv, NoDoubleBooking
    <2> QED BY <2>2, <2>3, <2>4 DEF Collide, SameTable
  <1> QED BY <1>1, PageInvariant, PTL

\* Which of the table's events a party may ask for.
LEMMA PartyEvents ==
  ASSUME NEW viewer \in Viewers, NEW status, NEW event \in {"ACCEPT", "COUNTER", "CANCEL"}
  PROVE  event \in availableEvents(status, viewer)
           <=> \/ status \in {"OFFERED", "COUNTERED"}
               \/ event = "CANCEL" /\ status \in {"DRAFT", "ACCEPTED"}
  <1>1. event \in OfferEventName /\ viewer \in allowedActors[event]
    BY DEF OfferEventName, allowedActors, Viewers
  <1>2. (\E to \in OfferStatus : <<status, event, to>> \in TRANSITIONS)
           <=> \/ status \in {"OFFERED", "COUNTERED"}
               \/ event = "CANCEL" /\ status \in {"DRAFT", "ACCEPTED"}
    BY DEF TRANSITIONS, OfferStatus
  <1> QED BY <1>1, <1>2 DEF availableEvents

\* "The state machine decides what is legal; the UI only renders it" (conversation.ts:203): no
\* button of an offer is refused for anything but what happened since it was drawn.
LEMMA OfferButtonsWork == ButtonsWork
  <1> SUFFICES ASSUME NEW o \in Offers \ captured, NEW viewer \in Viewers,
                      NEW event \in buttons(o, viewer) \ {"PAY"}
               PROVE  canTransition(offer[o].status, event, viewer, buildContext(o, viewer))
    BY DEF ButtonsWork
  <1>1. /\ event \in {"ACCEPT", "COUNTER", "CANCEL"}
        /\ event \in availableEvents(offer[o].status, viewer)
        /\ mine(o, viewer) => event \notin {"ACCEPT", "COUNTER"}
    BY DEF buttons, actions
  <1>2. PICK to \in OfferStatus : <<offer[o].status, event, to>> \in TRANSITIONS
    BY <1>1 DEF availableEvents
  <1>3. offer[o].status \notin TERMINAL_STATES
    BY <1>1, PartyEvents DEF TERMINAL_STATES
  <1>4. viewer \in allowedActors[event]
    BY <1>1 DEF availableEvents
  <1>5. checkGuards(event, buildContext(o, viewer))
    BY <1>1 DEF checkGuards, buildContext, mine
  <1> QED BY <1>2, <1>3, <1>4, <1>5 DEF canTransition, Transition

\* The conversation list and the conversation page, two queries, never disagree about whose turn
\* it is (conversation.ts:321).
LEMMA ListAndPageAgree == OneCourt
  <1> SUFFICES ASSUME NEW o \in Offers, NEW viewer \in Viewers
               PROVE  awaiting(o, viewer) <=> ("ACCEPT" \in buttons(o, viewer) \/ "PAY" \in buttons(o, viewer))
    BY DEF OneCourt
  <1>1. "ACCEPT" \in availableEvents(offer[o].status, viewer)
          <=> offer[o].status \in {"OFFERED", "COUNTERED"}
    BY PartyEvents
  <1>2. "ACCEPT" \in buttons(o, viewer)
          <=> ~superseded(o) /\ offer[o].status \in {"OFFERED", "COUNTERED"} /\ ~mine(o, viewer)
    BY <1>1 DEF buttons, actions
  <1>3. "PAY" \in buttons(o, viewer)
          <=> ~superseded(o) /\ viewer = "STUDENT" /\ offer[o].status = "ACCEPTED"
    BY DEF buttons, canPay
  <1> QED BY <1>2, <1>3 DEF awaiting, open

\* Page, list and state machine, three places that answer what a party may do with an offer,
\* answer alike: no button is refused, and the list waits for the party that can go on
\* (conversation.ts:203, :321).
THEOREM PageIsRight == Spec => []PageFollowsTheRules
  <1>1. PageFollowsTheRules
    BY OfferButtonsWork, ListAndPageAgree DEF PageFollowsTheRules
  <1> QED BY <1>1, PTL
===============================================================================
