-------------------------- MODULE Negotiation_proofs --------------------------
(***************************************************************************)
(* No hour of a coach is held twice or booked twice, for any number of     *)
(* offers, slots and requests.                                             *)
(*                                                                         *)
(* Every step is of one of six kinds (StepKinds); each part of SlotInv is  *)
(* preserved by each kind.                                                 *)
(***************************************************************************)
EXTENDS Negotiation, TLAPS

Transacting == {"insert", "check", "convert", "commit"}
Steps == {"idle", "counter", "submit", "decide", "capture"} \cup Transacting

Args == [offer : Offers \cup {NoOffer}, from : OfferStatus \cup {"none"},
         to : OfferStatus \cup {"none"}, role : ActorRole,
         kind : {"hold", "session", "extra"}, todo : SUBSET Slots,
         slot : Slots \cup {NoSlot}, written : SUBSET Row, ended : SUBSET Row]

LEMMA StepsAndArgs ==
  TypeOK <=> /\ offer \in [Offers -> OfferRow]
             /\ captured \subseteq Offers /\ expired \subseteq Offers
             /\ calendar \subseteq Row
             /\ pc \in [Requests -> Steps]
             /\ arg \in [Requests -> Args]
             /\ events \in Nat
  <1>1. Steps = {"idle", "counter", "submit", "decide", "capture", "convert",
                 "insert", "check", "commit"}
    BY DEF Steps, Transacting
  <1> QED BY <1>1 DEF TypeOK, Args

LEMMA TypeNext ==
  ASSUME offer' \in [Offers -> OfferRow], captured' \subseteq Offers, expired' \subseteq Offers,
         calendar' \subseteq Row, pc' \in [Requests -> Steps], arg' \in [Requests -> Args],
         events' \in Nat
  PROVE  TypeOK'
  <1>1. Steps = {"idle", "counter", "submit", "decide", "capture", "convert",
                 "insert", "check", "commit"}
    BY DEF Steps, Transacting
  <1> QED BY <1>1 DEF TypeOK, Args

LEMMA NoArgsType == NoArgs \in Args
  BY DEF NoArgs, Args, OfferStatus, ActorRole

LEMMA NoRowType == NoRow \in OfferRow
  BY DEF NoRow, OfferRow, OfferStatus, ActorRole

LEMMA NoneIsNoStatus == "none" \notin OfferStatus
  BY DEF OfferStatus

LEMMA GotoType ==
  ASSUME TypeOK, NEW p \in Requests, NEW step \in Steps, NEW a \in Args, Goto(p, step, a)
  PROVE  pc' \in [Requests -> Steps] /\ arg' \in [Requests -> Args]
  BY StepsAndArgs DEF Goto

LEMMA ReturnType ==
  ASSUME TypeOK, NEW p \in Requests, Return(p)
  PROVE  pc' \in [Requests -> Steps] /\ arg' \in [Requests -> Args]
  BY GotoType, NoArgsType DEF Return, Steps

\* A handler's step leaves the others where they are.
OthersStay(p) == \A q \in Requests \ {p} : pc'[q] = pc[q] /\ arg'[q] = arg[q]

LEMMA GotoEffect ==
  ASSUME TypeOK, NEW p \in Requests, NEW step, NEW a, Goto(p, step, a)
  PROVE  pc'[p] = step /\ arg'[p] = a /\ OthersStay(p)
  BY StepsAndArgs DEF Goto, OthersStay

LEMMA ReturnEffect ==
  ASSUME TypeOK, NEW p \in Requests, Return(p)
  PROVE  pc'[p] = "idle" /\ arg'[p] = NoArgs /\ OthersStay(p)
  BY GotoEffect DEF Return

LEMMA TransferType ==
  ASSUME calendar \subseteq Row, NEW old, NEW new \in Offers
  PROVE  transferred(old, new) \subseteq Row
  BY DEF transferred, holdsOf, Row

-------------------------------------------------------------------------------
(* Types *)

LEMMA CreationType ==
  ASSUME TypeOK, TransactionsOnly, NEW p \in Requests,
         SubmitOffer(p) \/ CounterOffer(p) \/ Counter(p) \/ Submit(p) \/ Commit(p)
  PROVE  TypeOK'
  <1> USE StepsAndArgs, TypeNext
  <1>0. fresh \in Offers \/ ~mayCreate
    BY DEF fresh, mayCreate
  <1>1. CASE SubmitOffer(p)
    <2>1. PICK S \in Scopes :
             /\ offer' = [offer EXCEPT ![fresh] = [NoRow EXCEPT !.status = "DRAFT", !.scope = S]]
             /\ Goto(p, "submit", [NoArgs EXCEPT !.offer = fresh, !.role = "STUDENT"])
      BY <1>1 DEF SubmitOffer
    <2>2. [NoRow EXCEPT !.status = "DRAFT", !.scope = S] \in OfferRow
      BY NoRowType DEF OfferRow, OfferStatus
    <2>3. [NoArgs EXCEPT !.offer = fresh, !.role = "STUDENT"] \in Args
      BY <1>0, <1>1, NoArgsType DEF SubmitOffer, Args, ActorRole
    <2> QED BY <1>0, <1>1, <2>1, <2>2, <2>3, GotoType DEF SubmitOffer, Steps
  <1>2. CASE CounterOffer(p)
    <2>1. PICK parent \in Offers, role \in {"STUDENT", "COACH"} :
             /\ offer' = [offer EXCEPT ![fresh] = [offer[parent] EXCEPT !.status = "DRAFT",
                                                     !.initiator = role, !.parent = parent]]
             /\ Goto(p, "counter", [NoArgs EXCEPT !.offer = fresh, !.role = role,
                                                  !.from = offer[parent].status])
      BY <1>2 DEF CounterOffer
    <2>2. [offer[parent] EXCEPT !.status = "DRAFT", !.initiator = role, !.parent = parent]
            \in OfferRow
      BY DEF OfferRow, OfferStatus, ActorRole
    <2>3. [NoArgs EXCEPT !.offer = fresh, !.role = role, !.from = offer[parent].status] \in Args
      BY <1>0, <1>2, NoArgsType DEF CounterOffer, Args, ActorRole, OfferRow
    <2> QED BY <1>0, <1>2, <2>1, <2>2, <2>3, GotoType DEF CounterOffer, Steps
  <1>3. CASE Counter(p)
    <2>1. arg[p].offer \in Offers /\ arg[p] \in Args
      BY <1>3 DEF Counter, TransactionsOnly
    <2>2. CASE /\ Return(p)
               /\ UNCHANGED <<offer, calendar>>
      BY <1>3, <2>2, ReturnType DEF Counter
    <2>3. CASE \E to \in OfferStatus :
                 /\ offer' = [offer EXCEPT ![offer[arg[p].offer].parent].status = to]
                 /\ calendar' = transferred(offer[arg[p].offer].parent, arg[p].offer)
                 /\ Goto(p, "submit", arg[p])
      <3>1. offer' \in [Offers -> OfferRow]
        <4>1. PICK to \in OfferStatus :
                offer' = [offer EXCEPT ![offer[arg[p].offer].parent].status = to]
          BY <2>3
        <4>2. \A o \in Offers : [offer[o] EXCEPT !.status = to] \in OfferRow
          BY DEF OfferRow
        <4> QED BY <4>1, <4>2
      <3>2. calendar' \subseteq Row
        BY <2>1, <2>3, TransferType
      <3> QED BY <1>3, <2>1, <2>3, <3>1, <3>2, GotoType DEF Counter, Steps
    <2> QED BY <1>3, <2>2, <2>3 DEF Counter
  <1>4. CASE Submit(p)
    <2>1. CASE Return(p)
      BY <1>4, <2>1, ReturnType DEF Submit
    <2>2. CASE \E to \in OfferStatus :
                 Goto(p, IF offer[arg[p].offer].scope \ heldSlots(arg[p].offer) = {}
                         THEN "commit" ELSE "insert",
                      [arg[p] EXCEPT !.to = to,
                         !.todo = offer[arg[p].offer].scope \ heldSlots(arg[p].offer),
                         !.ended = {r \in holdsOf(arg[p].offer) : r.slot \notin offer[arg[p].offer].scope}])
      <3>1. arg[p].offer \in Offers /\ arg[p] \in Args
        BY <1>4 DEF Submit, TransactionsOnly
      <3>2. offer[arg[p].offer].scope \in SUBSET Slots
        BY <3>1, ScopeAssumption DEF OfferRow
      <3>3. holdsOf(arg[p].offer) \subseteq Row
        BY DEF holdsOf
      <3>4. PICK to \in OfferStatus :
                 Goto(p, IF offer[arg[p].offer].scope \ heldSlots(arg[p].offer) = {}
                         THEN "commit" ELSE "insert",
                      [arg[p] EXCEPT !.to = to,
                         !.todo = offer[arg[p].offer].scope \ heldSlots(arg[p].offer),
                         !.ended = {r \in holdsOf(arg[p].offer) : r.slot \notin offer[arg[p].offer].scope}])
        BY <2>2
      <3>5. [arg[p] EXCEPT !.to = to,
                         !.todo = offer[arg[p].offer].scope \ heldSlots(arg[p].offer),
                         !.ended = {r \in holdsOf(arg[p].offer) : r.slot \notin offer[arg[p].offer].scope}]
              \in Args
        BY <3>1, <3>2, <3>3 DEF Args
      <3>6. (IF offer[arg[p].offer].scope \ heldSlots(arg[p].offer) = {}
             THEN "commit" ELSE "insert") \in Steps
        BY DEF Steps, Transacting
      <3> QED BY <1>4, <3>4, <3>5, <3>6, GotoType DEF Submit
    <2> QED BY <1>4, <2>1, <2>2 DEF Submit
  <1>5. CASE Commit(p)
    <2>1. arg[p] \in Args
      OBVIOUS
    <2>2. offer' \in [Offers -> OfferRow]
      <3>1. offer' = offer \/ (arg[p].to # "none" /\ offer' = [offer EXCEPT ![arg[p].offer].status = arg[p].to])
        BY <1>5 DEF Commit
      <3> QED BY <2>1, <3>1 DEF OfferRow, Args
    <2>3. calendar' \subseteq Row
      <3>1. calendar' = calendar \/ calendar' = visible(p)
        BY <1>5 DEF Commit
      <3> QED BY <2>1, <3>1 DEF visible, Args
    <2> QED BY <1>5, <2>2, <2>3, ReturnType DEF Commit
  <1> QED BY <1>1, <1>2, <1>3, <1>4, <1>5

LEMMA SlotType ==
  ASSUME TypeOK, TransactionsOnly, NEW p \in Requests,
         InsertRow(p) \/ CheckExclusion(p) \/ ConvertHoldsToBookings(p) \/ ConvertHolds(p)
           \/ AcceptInvite(p)
  PROVE  TypeOK'
  <1> USE StepsAndArgs, TypeNext
  <1>0. arg[p] \in Args
    OBVIOUS
  <1>1. CASE InsertRow(p)
    <2>1. CASE Return(p)
      BY <1>1, <2>1, ReturnType DEF InsertRow
    <2>2. CASE \E s \in arg[p].todo :
                 Goto(p, "check", [arg[p] EXCEPT !.slot = s,
                   !.written = @ \cup {[kind |-> arg[p].kind, offer |-> arg[p].offer, slot |-> s]}])
      <3>1. PICK s \in arg[p].todo :
                 Goto(p, "check", [arg[p] EXCEPT !.slot = s,
                   !.written = @ \cup {[kind |-> arg[p].kind, offer |-> arg[p].offer, slot |-> s]}])
        BY <2>2
      <3>2. arg[p].offer \in Offers /\ s \in Slots
        BY <1>0, <1>1 DEF InsertRow, TransactionsOnly, Args
      <3>3. [kind |-> arg[p].kind, offer |-> arg[p].offer, slot |-> s] \in Row
        BY <1>0, <3>2 DEF Row, Args
      <3>4. [arg[p] EXCEPT !.slot = s,
               !.written = @ \cup {[kind |-> arg[p].kind, offer |-> arg[p].offer, slot |-> s]}] \in Args
        BY <1>0, <3>2, <3>3 DEF Args
      <3> QED BY <1>1, <3>1, <3>4, GotoType DEF InsertRow, Steps, Transacting
    <2> QED BY <1>1, <2>1, <2>2 DEF InsertRow, earliest
  <1>2. CASE CheckExclusion(p)
    <2>1. CASE Return(p)
      BY <1>2, <2>1, ReturnType DEF CheckExclusion
    <2>2. CASE Goto(p, IF arg[p].todo \ {arg[p].slot} = {} THEN "commit" ELSE "insert",
                    [arg[p] EXCEPT !.todo = arg[p].todo \ {arg[p].slot}])
      <3>1. [arg[p] EXCEPT !.todo = arg[p].todo \ {arg[p].slot}] \in Args
        BY <1>0 DEF Args
      <3>2. (IF arg[p].todo \ {arg[p].slot} = {} THEN "commit" ELSE "insert") \in Steps
        BY DEF Steps, Transacting
      <3> QED BY <1>2, <2>2, <3>1, <3>2, GotoType DEF CheckExclusion
    <2> QED BY <1>2, <2>1, <2>2 DEF CheckExclusion
  <1>3. CASE ConvertHoldsToBookings(p)
    <2>1. CASE Return(p)
      BY <1>3, <2>1, ReturnType DEF ConvertHoldsToBookings
    <2>2. CASE \E to \in OfferStatus :
                 Goto(p, IF holdsOf(arg[p].offer) = {} THEN "commit" ELSE "convert",
                      [arg[p] EXCEPT !.to = to, !.kind = "session", !.todo = heldSlots(arg[p].offer)])
      <3>1. PICK to \in OfferStatus :
                 Goto(p, IF holdsOf(arg[p].offer) = {} THEN "commit" ELSE "convert",
                      [arg[p] EXCEPT !.to = to, !.kind = "session", !.todo = heldSlots(arg[p].offer)])
        BY <2>2
      <3>2. heldSlots(arg[p].offer) \in SUBSET Slots
        BY DEF heldSlots, holdsOf, Row
      <3>3. [arg[p] EXCEPT !.to = to, !.kind = "session", !.todo = heldSlots(arg[p].offer)] \in Args
        BY <1>0, <3>2 DEF Args
      <3>4. (IF holdsOf(arg[p].offer) = {} THEN "commit" ELSE "convert") \in Steps
        BY DEF Steps, Transacting
      <3> QED BY <1>3, <3>1, <3>3, <3>4, GotoType DEF ConvertHoldsToBookings
    <2> QED BY <1>3, <2>1, <2>2 DEF ConvertHoldsToBookings
  <1>4. CASE ConvertHolds(p)
    <2>1. [arg[p] EXCEPT !.ended = holdsOf(arg[p].offer)] \in Args
      BY <1>0 DEF Args, holdsOf
    <2> QED BY <1>4, <2>1, GotoType DEF ConvertHolds, Steps, Transacting
  <1>5. CASE AcceptInvite(p)
    <2>1. PICK o \in Offers, s \in Slots :
             \/ Goto(p, "insert", [NoArgs EXCEPT !.offer = o, !.kind = "extra", !.todo = {s}])
             \/ \E r \in settledRows :
                  /\ r.kind # "hold"
                  /\ Goto(p, "insert", [NoArgs EXCEPT !.offer = o, !.kind = r.kind, !.todo = {s},
                                                      !.ended = {r}])
      BY <1>5 DEF AcceptInvite
    <2>2. "insert" \in Steps
      BY DEF Steps, Transacting
    <2>0. UNCHANGED <<offer, captured, calendar, expired>> /\ events' = events + 1
      BY <1>5 DEF AcceptInvite
    <2>3. CASE Goto(p, "insert", [NoArgs EXCEPT !.offer = o, !.kind = "extra", !.todo = {s}])
      <3> DEFINE a == [NoArgs EXCEPT !.offer = o, !.kind = "extra", !.todo = {s}]
      <3>1. a \in Args
        BY NoArgsType DEF Args
      <3>2. Goto(p, "insert", a)
        BY <2>3
      <3> HIDE DEF a
      <3>3. pc' \in [Requests -> Steps] /\ arg' \in [Requests -> Args]
        BY <2>2, <3>1, <3>2, GotoType
      <3> QED BY <2>0, <3>3
    <2>4. CASE \E r \in settledRows :
                  /\ r.kind # "hold"
                  /\ Goto(p, "insert", [NoArgs EXCEPT !.offer = o, !.kind = r.kind, !.todo = {s},
                                                      !.ended = {r}])
      <3>1. PICK r \in settledRows :
                  Goto(p, "insert", [NoArgs EXCEPT !.offer = o, !.kind = r.kind, !.todo = {s},
                                                   !.ended = {r}])
        BY <2>4
      <3> DEFINE a == [NoArgs EXCEPT !.offer = o, !.kind = r.kind, !.todo = {s}, !.ended = {r}]
      <3>2. a \in Args
        BY NoArgsType DEF Args, settledRows, Row
      <3>3. Goto(p, "insert", a)
        BY <3>1
      <3> HIDE DEF a
      <3>4. pc' \in [Requests -> Steps] /\ arg' \in [Requests -> Args]
        BY <2>2, <3>2, <3>3, GotoType
      <3> QED BY <2>0, <3>4
    <2> QED BY <2>1, <2>3, <2>4
  <1> QED BY <1>1, <1>2, <1>3, <1>4, <1>5

LEMMA OtherType ==
  ASSUME TypeOK, TransactionsOnly, NEW p \in Requests,
         Decide(p) \/ Decided(p) \/ PaymentCaptured(p) \/ ExpireStaleHolds(p)
           \/ DeadlockDetected(p) \/ Crash(p)
  PROVE  TypeOK'
  <1> USE StepsAndArgs, TypeNext
  <1>1. CASE Decide(p)
    <2>1. PICK o \in Offers, to \in OfferStatus :
             Goto(p, "decide", [NoArgs EXCEPT !.offer = o, !.from = offer[o].status, !.to = to])
      BY <1>1 DEF Decide
    <2>2. [NoArgs EXCEPT !.offer = o, !.from = offer[o].status, !.to = to] \in Args
      BY NoArgsType DEF Args, OfferRow
    <2> QED BY <1>1, <2>1, <2>2, GotoType DEF Decide, Steps
  <1>2. CASE Decided(p)
    <2>1. arg[p].offer \in Offers /\ arg[p] \in Args
      BY <1>2 DEF Decided, TransactionsOnly
    <2>2. offer' \in [Offers -> OfferRow]
      <3>1. offer' = offer \/ offer' = [offer EXCEPT ![arg[p].offer].status = arg[p].to]
        BY <1>2 DEF Decided
      <3> QED BY <2>1, <3>1 DEF OfferRow, Args
    <2>3. calendar' \subseteq Row
      BY <1>2 DEF Decided
    <2> QED BY <1>2, <2>2, <2>3, ReturnType DEF Decided
  <1>3. CASE PaymentCaptured(p)
    <2>1. PICK o \in Offers : /\ captured' = captured \cup {o}
                              /\ Goto(p, "capture", [NoArgs EXCEPT !.offer = o])
      BY <1>3 DEF PaymentCaptured
    <2>2. [NoArgs EXCEPT !.offer = o] \in Args
      BY NoArgsType DEF Args
    <2> QED BY <1>3, <2>1, <2>2, GotoType DEF PaymentCaptured, Steps
  <1>4. CASE ExpireStaleHolds(p)
    BY <1>4 DEF ExpireStaleHolds
  <1>5. CASE DeadlockDetected(p)
    BY <1>5, ReturnType DEF DeadlockDetected
  <1>6. CASE Crash(p)
    BY <1>6, ReturnType DEF Crash
  <1> QED BY <1>1, <1>2, <1>3, <1>4, <1>5, <1>6

LEMMA TypeInductive == TypeOK /\ TransactionsOnly /\ [Next]_vars => TypeOK'
  <1> SUFFICES ASSUME TypeOK, TransactionsOnly, [Next]_vars PROVE TypeOK'
    OBVIOUS
  <1>1. CASE UNCHANGED vars
    BY <1>1, StepsAndArgs, TypeNext DEF vars
  <1>2. CASE Next
    BY <1>2, CreationType, SlotType, OtherType DEF Next, Handler
  <1> QED BY <1>1, <1>2

-------------------------------------------------------------------------------
(* The six kinds of steps *)

\* p is, or falls, out of any transaction; nothing but rows nobody is ending leave the calendar,
\* or holds nobody is ending change their offer.
Outside(p) == /\ pc'[p] \notin Transacting
              /\ arg'[p].todo = {} /\ arg'[p].written = {} /\ arg'[p].ended = {}
              /\ pc'[p] # "idle" => arg'[p].offer \in Offers

Shrinks(p) == /\ calendar' \subseteq calendar
              /\ \A q \in Requests \ {p} : arg[q].ended \subseteq calendar'

Moves(p) == \E old \in Offers \cup {NoOffer}, new \in Offers :
              /\ calendar' = transferred(old, new)
              /\ \A q \in Requests \ {p} : arg[q].ended \cap holdsOf(old) = {}

Quiet(p) == Outside(p) /\ (Shrinks(p) \/ Moves(p))

\* p begins a transaction of several rows.
Begins(p) ==
  /\ calendar' = calendar
  /\ p \notin inTransaction
  /\ pc'[p] \in {"insert", "commit", "convert"}
  /\ arg'[p].offer \in Offers /\ arg'[p].written = {}
  /\ pc'[p] = "convert" => arg'[p].ended = {} /\ arg'[p].to # "none"
  /\ arg'[p].ended \subseteq calendar
  /\ \A q \in Requests \ {p} : arg'[p].ended \cap arg[q].ended = {}
  /\ arg'[p].to # "none" => ~offerLocked(p, arg'[p].offer)
  /\ \A r \in arg'[p].ended :
       r.kind = "hold" => r.offer = arg'[p].offer /\ arg'[p].to # "none"
  /\ \A s, t \in arg'[p].todo : s # t => ~Overlaps(s, t)

Converts(p) == /\ pc[p] = "convert" /\ pc'[p] = "insert"
               /\ arg'[p] = [arg[p] EXCEPT !.ended = holdsOf(arg[p].offer)]
               /\ calendar' = calendar

Inserts(p) == /\ pc[p] = "insert" /\ pc'[p] = "check"
              /\ \E s \in arg[p].todo :
                   arg'[p] = [arg[p] EXCEPT !.slot = s,
                     !.written = @ \cup {[kind |-> arg[p].kind, offer |-> arg[p].offer, slot |-> s]}]
              /\ calendar' = calendar

Checks(p) == /\ pc[p] = "check" /\ pc'[p] \in {"insert", "commit"}
             /\ ~ConstraintRaises(p, newRow(p)) /\ waitsFor(p, newRow(p)) = {}
             /\ arg'[p] = [arg[p] EXCEPT !.todo = @ \ {arg[p].slot}]
             /\ calendar' = calendar

Commits(p) == /\ pc[p] = "commit" /\ Outside(p)
              /\ calendar' = visible(p)

Kinds(p) == OthersStay(p) /\ (\/ Quiet(p) \/ Begins(p) \/ Converts(p) \/ Inserts(p)
                              \/ Checks(p) \/ Commits(p))

LEMMA OutsideReturn ==
  ASSUME TypeOK, NEW p \in Requests, Return(p)
  PROVE  OthersStay(p) /\ Outside(p)
  <1>1. pc'[p] = "idle" /\ arg'[p] = NoArgs /\ OthersStay(p)
    BY ReturnEffect
  <1> QED BY <1>1 DEF Outside, Transacting, NoArgs

LEMMA CalendarStays ==
  ASSUME SlotInv, calendar' = calendar, NEW p \in Requests
  PROVE  Shrinks(p)
  BY DEF SlotInv, OneEndPerRow, Shrinks

LEMMA QuietReturn ==
  ASSUME SlotInv, NEW p \in Requests, Return(p), calendar' = calendar
  PROVE  Kinds(p)
  BY OutsideReturn, CalendarStays DEF SlotInv, Kinds, Quiet

\* Rows of an offer that no other transaction updates are ended by none.
LEMMA NobodyEnds ==
  ASSUME SlotInv, NEW p \in Requests, NEW o, ~offerLocked(p, o)
  PROVE  \A q \in Requests \ {p} : arg[q].ended \cap holdsOf(o) = {}
  <1> SUFFICES ASSUME NEW q \in Requests \ {p}, NEW r \in arg[q].ended, r \in holdsOf(o)
               PROVE  FALSE
    OBVIOUS
  <1>1. q \in inTransaction
    BY DEF SlotInv, TransactionsOnly
  <1>2. arg[q].offer = o /\ arg[q].to # "none"
    BY DEF SlotInv, OneWriterPerOffer, holdsOf
  <1> QED BY <1>1, <1>2 DEF offerLocked

LEMMA CreationKinds ==
  ASSUME SlotInv, NEW p \in Requests, SubmitOffer(p) \/ CounterOffer(p) \/ Counter(p)
  PROVE  Kinds(p)
  <1>0. TypeOK /\ TransactionsOnly
    BY DEF SlotInv
  <1>1. CASE SubmitOffer(p)
    <2>1. Goto(p, "submit", [NoArgs EXCEPT !.offer = fresh, !.role = "STUDENT"]) /\ fresh \in Offers
      BY <1>1 DEF SubmitOffer, fresh, mayCreate
    <2>2. pc'[p] = "submit" /\ arg'[p] = [NoArgs EXCEPT !.offer = fresh, !.role = "STUDENT"]
          /\ OthersStay(p)
      BY <1>0, <2>1, GotoEffect
    <2>3. Outside(p)
      BY <2>1, <2>2 DEF Outside, Transacting, NoArgs
    <2> QED BY <1>1, <2>2, <2>3, CalendarStays DEF SubmitOffer, Kinds, Quiet
  <1>2. CASE CounterOffer(p)
    <2>1. PICK parent \in Offers, role \in {"STUDENT", "COACH"} :
            Goto(p, "counter", [NoArgs EXCEPT !.offer = fresh, !.role = role,
                                              !.from = offer[parent].status])
      BY <1>2 DEF CounterOffer
    <2>2. fresh \in Offers
      BY <1>2 DEF CounterOffer, fresh, mayCreate
    <2>3. pc'[p] = "counter" /\ OthersStay(p)
          /\ arg'[p] = [NoArgs EXCEPT !.offer = fresh, !.role = role, !.from = offer[parent].status]
      BY <1>0, <2>1, GotoEffect
    <2>4. Outside(p)
      BY <2>2, <2>3 DEF Outside, Transacting, NoArgs
    <2> QED BY <1>2, <2>3, <2>4, CalendarStays DEF CounterOffer, Kinds, Quiet
  <1>3. CASE Counter(p)
    <2>1. pc[p] = "counter" /\ p \notin inTransaction
      BY <1>3 DEF Counter, inTransaction
    <2>2. arg[p].offer \in Offers /\ arg[p].todo = {} /\ arg[p].written = {} /\ arg[p].ended = {}
      BY <1>0, <2>1 DEF TransactionsOnly
    <2>3. CASE Return(p) /\ UNCHANGED <<offer, calendar>>
      BY <2>3, QuietReturn
    <2>4. CASE /\ calendar' = transferred(offer[arg[p].offer].parent, arg[p].offer)
               /\ Goto(p, "submit", arg[p])
      <3>1. pc'[p] = "submit" /\ arg'[p] = arg[p] /\ OthersStay(p)
        BY <1>0, <2>4, GotoEffect
      <3>2. Outside(p)
        BY <2>2, <3>1 DEF Outside, Transacting
      <3>3. offer[arg[p].offer].parent \in Offers \cup {NoOffer}
        BY <1>0, <2>2, StepsAndArgs DEF OfferRow
      <3>4. ~offerLocked(p, offer[arg[p].offer].parent)
        BY <1>3 DEF Counter
      <3>5. Moves(p)
        BY <2>2, <2>4, <3>3, <3>4, NobodyEnds DEF Moves
      <3> QED BY <3>1, <3>2, <3>5 DEF Kinds, Quiet
    <2> QED BY <1>3, <2>3, <2>4 DEF Counter
  <1> QED BY <1>1, <1>2, <1>3

LEMMA BeginningKinds ==
  ASSUME SlotInv, NEW p \in Requests, Submit(p) \/ ConvertHoldsToBookings(p) \/ AcceptInvite(p)
  PROVE  Kinds(p)
  <1>0. TypeOK /\ TransactionsOnly
    BY DEF SlotInv
  <1>00. p \notin inTransaction /\ calendar' = calendar
    BY DEF Submit, ConvertHoldsToBookings, AcceptInvite, inTransaction
  <1>1. CASE Submit(p)
    <2> DEFINE o == arg[p].offer
               stale == {r \in holdsOf(o) : r.slot \notin offer[o].scope}
               missing == offer[o].scope \ heldSlots(o)
    <2>1. o \in Offers /\ arg[p] \in Args /\ arg[p].written = {}
      BY <1>0, <1>00, <1>1, StepsAndArgs DEF Submit, TransactionsOnly
    <2>2. CASE Return(p)
      BY <1>00, <2>2, QuietReturn
    <2>3. CASE \E to \in OfferStatus :
                 Goto(p, IF missing = {} THEN "commit" ELSE "insert",
                      [arg[p] EXCEPT !.to = to, !.todo = missing, !.ended = stale])
      <3>1. PICK to \in OfferStatus :
                 Goto(p, IF missing = {} THEN "commit" ELSE "insert",
                      [arg[p] EXCEPT !.to = to, !.todo = missing, !.ended = stale])
        BY <2>3
      <3>2. /\ pc'[p] = IF missing = {} THEN "commit" ELSE "insert"
            /\ arg'[p] = [arg[p] EXCEPT !.to = to, !.todo = missing, !.ended = stale]
            /\ OthersStay(p)
        BY <1>0, <3>1, GotoEffect
      <3>3. /\ arg'[p].offer = o /\ arg'[p].written = {} /\ arg'[p].to # "none"
            /\ arg'[p].todo = missing /\ arg'[p].ended = stale
        BY <2>1, <3>2, NoneIsNoStatus DEF Args
      <3>4. ~offerLocked(p, o)
        BY <1>1 DEF Submit
      <3>5. \A q \in Requests \ {p} : arg[q].ended \cap stale = {}
        BY <3>4, NobodyEnds
      <3>6. \A s, t \in missing : s # t => ~Overlaps(s, t)
        BY <1>0, <2>1, StepsAndArgs, ScopeAssumption DEF OfferRow
      <3>7. stale \subseteq calendar /\ \A r \in stale : r.offer = o
        BY DEF holdsOf
      <3>8. pc'[p] \in {"insert", "commit", "convert"} /\ pc'[p] # "convert"
        BY <3>2
      <3> HIDE DEF o, stale, missing
      <3>9. Begins(p)
        BY <1>00, <2>1, <3>3, <3>4, <3>5, <3>6, <3>7, <3>8 DEF Begins
      <3> QED BY <3>2, <3>9 DEF Kinds
    <2> QED BY <1>1, <2>2, <2>3 DEF Submit
  <1>2. CASE ConvertHoldsToBookings(p)
    <2> DEFINE o == arg[p].offer
    <2>1. o \in Offers /\ arg[p] \in Args /\ arg[p].written = {} /\ arg[p].ended = {}
      BY <1>0, <1>00, <1>2, StepsAndArgs DEF ConvertHoldsToBookings, TransactionsOnly
    <2>2. CASE Return(p)
      BY <1>00, <2>2, QuietReturn
    <2>3. CASE \E to \in OfferStatus :
                 Goto(p, IF holdsOf(o) = {} THEN "commit" ELSE "convert",
                      [arg[p] EXCEPT !.to = to, !.kind = "session", !.todo = heldSlots(o)])
      <3>1. PICK to \in OfferStatus :
                 Goto(p, IF holdsOf(o) = {} THEN "commit" ELSE "convert",
                      [arg[p] EXCEPT !.to = to, !.kind = "session", !.todo = heldSlots(o)])
        BY <2>3
      <3>2. /\ pc'[p] = IF holdsOf(o) = {} THEN "commit" ELSE "convert"
            /\ arg'[p] = [arg[p] EXCEPT !.to = to, !.kind = "session", !.todo = heldSlots(o)]
            /\ OthersStay(p)
        BY <1>0, <3>1, GotoEffect
      <3>3. /\ arg'[p].offer = o /\ arg'[p].written = {} /\ arg'[p].to # "none"
            /\ arg'[p].todo = heldSlots(o) /\ arg'[p].ended = {}
        BY <2>1, <3>2, NoneIsNoStatus DEF Args
      <3>4. ~offerLocked(p, o)
        BY <1>2 DEF ConvertHoldsToBookings
      <3>5. \A s, t \in heldSlots(o) : s # t => ~Overlaps(s, t)
        BY DEF SlotInv, NoDoubleBooking, Collide, SameTable, heldSlots, holdsOf
      <3>6. pc'[p] \in {"insert", "commit", "convert"}
        BY <3>2
      <3> HIDE DEF o
      <3>7. Begins(p)
        BY <1>00, <2>1, <3>3, <3>4, <3>5, <3>6 DEF Begins
      <3> QED BY <3>2, <3>7 DEF Kinds
    <2> QED BY <1>2, <2>2, <2>3 DEF ConvertHoldsToBookings
  <1>3. CASE AcceptInvite(p)
    <2>1. PICK o \in Offers, s \in Slots :
             \/ Goto(p, "insert", [NoArgs EXCEPT !.offer = o, !.kind = "extra", !.todo = {s}])
             \/ \E r \in settledRows :
                  /\ r.kind # "hold"
                  /\ Goto(p, "insert", [NoArgs EXCEPT !.offer = o, !.kind = r.kind, !.todo = {s},
                                                      !.ended = {r}])
      BY <1>3 DEF AcceptInvite
    <2>2. CASE Goto(p, "insert", [NoArgs EXCEPT !.offer = o, !.kind = "extra", !.todo = {s}])
      <3>1. /\ pc'[p] = "insert" /\ OthersStay(p)
            /\ arg'[p] = [NoArgs EXCEPT !.offer = o, !.kind = "extra", !.todo = {s}]
        BY <1>0, <2>2, GotoEffect
      <3>2. Begins(p)
        BY <1>00, <3>1 DEF Begins, NoArgs
      <3> QED BY <3>1, <3>2 DEF Kinds
    <2>3. CASE \E r \in settledRows :
                  /\ r.kind # "hold"
                  /\ Goto(p, "insert", [NoArgs EXCEPT !.offer = o, !.kind = r.kind, !.todo = {s},
                                                      !.ended = {r}])
      <3>1. PICK r \in settledRows :
                  /\ r.kind # "hold"
                  /\ Goto(p, "insert", [NoArgs EXCEPT !.offer = o, !.kind = r.kind, !.todo = {s},
                                                      !.ended = {r}])
        BY <2>3
      <3>2. /\ pc'[p] = "insert" /\ OthersStay(p)
            /\ arg'[p] = [NoArgs EXCEPT !.offer = o, !.kind = r.kind, !.todo = {s}, !.ended = {r}]
        BY <1>0, <3>1, GotoEffect
      <3>3. r \in calendar /\ \A q \in Requests : r \notin arg[q].ended
        BY DEF settledRows
      <3>4. Begins(p)
        BY <1>00, <3>1, <3>2, <3>3 DEF Begins, NoArgs
      <3> QED BY <3>2, <3>4 DEF Kinds
    <2> QED BY <2>1, <2>2, <2>3
  <1> QED BY <1>1, <1>2, <1>3

LEMMA TransactionKinds ==
  ASSUME SlotInv, NEW p \in Requests,
         ConvertHolds(p) \/ InsertRow(p) \/ CheckExclusion(p) \/ Commit(p)
  PROVE  Kinds(p)
  <1>0. TypeOK /\ TransactionsOnly
    BY DEF SlotInv
  <1>1. CASE ConvertHolds(p)
    <2>1. pc'[p] = "insert" /\ arg'[p] = [arg[p] EXCEPT !.ended = holdsOf(arg[p].offer)]
          /\ OthersStay(p)
      BY <1>0, <1>1, GotoEffect DEF ConvertHolds
    <2> QED BY <1>1, <2>1 DEF ConvertHolds, Kinds, Converts
  <1>2. CASE InsertRow(p)
    <2>1. CASE Return(p)
      BY <1>2, <2>1, QuietReturn DEF InsertRow
    <2>2. CASE \E s \in arg[p].todo :
                 Goto(p, "check", [arg[p] EXCEPT !.slot = s,
                   !.written = @ \cup {[kind |-> arg[p].kind, offer |-> arg[p].offer, slot |-> s]}])
      <3>1. PICK s \in arg[p].todo :
                 Goto(p, "check", [arg[p] EXCEPT !.slot = s,
                   !.written = @ \cup {[kind |-> arg[p].kind, offer |-> arg[p].offer, slot |-> s]}])
        BY <2>2
      <3>2. pc'[p] = "check" /\ OthersStay(p)
            /\ arg'[p] = [arg[p] EXCEPT !.slot = s,
                  !.written = @ \cup {[kind |-> arg[p].kind, offer |-> arg[p].offer, slot |-> s]}]
        BY <1>0, <3>1, GotoEffect
      <3> QED BY <1>2, <3>2 DEF InsertRow, Kinds, Inserts
    <2> QED BY <1>2, <2>1, <2>2 DEF InsertRow, earliest
  <1>3. CASE CheckExclusion(p)
    <2>1. CASE Return(p)
      BY <1>3, <2>1, QuietReturn DEF CheckExclusion
    <2>2. CASE /\ ~ConstraintRaises(p, newRow(p)) /\ waitsFor(p, newRow(p)) = {}
               /\ Goto(p, IF arg[p].todo \ {arg[p].slot} = {} THEN "commit" ELSE "insert",
                       [arg[p] EXCEPT !.todo = arg[p].todo \ {arg[p].slot}])
      <3>1. /\ pc'[p] = IF arg[p].todo \ {arg[p].slot} = {} THEN "commit" ELSE "insert"
            /\ arg'[p] = [arg[p] EXCEPT !.todo = arg[p].todo \ {arg[p].slot}]
            /\ OthersStay(p)
        BY <1>0, <2>2, GotoEffect
      <3> QED BY <1>3, <2>2, <3>1 DEF CheckExclusion, Kinds, Checks
    <2> QED BY <1>3, <2>1, <2>2 DEF CheckExclusion
  <1>4. CASE Commit(p)
    <2>1. OthersStay(p) /\ Outside(p)
      BY <1>0, <1>4, OutsideReturn DEF Commit
    <2>2. CASE calendar' = calendar
      BY <2>1, <2>2, CalendarStays DEF Kinds, Quiet
    <2>3. CASE calendar' = visible(p)
      BY <1>4, <2>1, <2>3 DEF Commit, Kinds, Commits
    <2> QED BY <1>4, <2>2, <2>3 DEF Commit
  <1> QED BY <1>1, <1>2, <1>3, <1>4

LEMMA OtherKinds ==
  ASSUME SlotInv, NEW p \in Requests,
         Decide(p) \/ Decided(p) \/ PaymentCaptured(p) \/ ExpireStaleHolds(p)
           \/ DeadlockDetected(p) \/ Crash(p)
  PROVE  Kinds(p)
  <1>0. TypeOK /\ TransactionsOnly
    BY DEF SlotInv
  <1>1. CASE Decide(p)
    <2>1. PICK o \in Offers, to \in OfferStatus :
            Goto(p, "decide", [NoArgs EXCEPT !.offer = o, !.from = offer[o].status, !.to = to])
      BY <1>1 DEF Decide
    <2>2. pc'[p] = "decide" /\ OthersStay(p)
          /\ arg'[p] = [NoArgs EXCEPT !.offer = o, !.from = offer[o].status, !.to = to]
      BY <1>0, <2>1, GotoEffect
    <2>3. Outside(p)
      BY <2>2 DEF Outside, Transacting, NoArgs
    <2> QED BY <1>1, <2>2, <2>3, CalendarStays DEF Decide, Kinds, Quiet
  <1>2. CASE Decided(p)
    <2>1. OthersStay(p) /\ Outside(p)
      BY <1>0, <1>2, OutsideReturn DEF Decided
    <2>2. CASE calendar' = calendar
      BY <2>1, <2>2, CalendarStays DEF Kinds, Quiet
    <2>3. CASE calendar' = calendar \ holdsOf(arg[p].offer)
      <3>1. \A q \in Requests \ {p} : arg[q].ended \cap holdsOf(arg[p].offer) = {}
        BY <1>2, NobodyEnds DEF Decided
      <3>2. Shrinks(p)
        BY <2>3, <3>1 DEF Shrinks, SlotInv, OneEndPerRow
      <3> QED BY <2>1, <3>2 DEF Kinds, Quiet
    <2> QED BY <1>2, <2>2, <2>3 DEF Decided
  <1>3. CASE PaymentCaptured(p)
    <2>1. PICK o \in Offers : Goto(p, "capture", [NoArgs EXCEPT !.offer = o])
      BY <1>3 DEF PaymentCaptured
    <2>2. pc'[p] = "capture" /\ OthersStay(p) /\ arg'[p] = [NoArgs EXCEPT !.offer = o]
      BY <1>0, <2>1, GotoEffect
    <2>3. Outside(p)
      BY <2>2 DEF Outside, Transacting, NoArgs
    <2> QED BY <1>3, <2>2, <2>3, CalendarStays DEF PaymentCaptured, Kinds, Quiet
  <1>4. CASE ExpireStaleHolds(p)
    <2>1. PICK o \in Offers : holdsOf(o) \subseteq settledRows /\ calendar' = calendar \ holdsOf(o)
      BY <1>4 DEF ExpireStaleHolds
    <2>2. pc' = pc /\ arg' = arg /\ pc[p] = "idle"
      BY <1>4 DEF ExpireStaleHolds
    <2>3. OthersStay(p) /\ Outside(p)
      BY <1>0, <2>2 DEF OthersStay, Outside, Transacting, TransactionsOnly, inTransaction
    <2>4. Shrinks(p)
      BY <2>1 DEF Shrinks, SlotInv, OneEndPerRow, settledRows
    <2> QED BY <2>3, <2>4 DEF Kinds, Quiet
  <1>5. CASE DeadlockDetected(p)
    BY <1>5, QuietReturn DEF DeadlockDetected
  <1>6. CASE Crash(p)
    BY <1>6, QuietReturn DEF Crash
  <1> QED BY <1>1, <1>2, <1>3, <1>4, <1>5, <1>6

LEMMA StepKinds == SlotInv /\ Next => \E p \in Requests : Kinds(p)
  BY CreationKinds, BeginningKinds, TransactionKinds, OtherKinds DEF Next, Handler

-------------------------------------------------------------------------------
(* Each part of the invariant, through each kind of step *)

\* The fields of p's arguments, as the kinds leave them.
LEMMA ConvertedFields ==
  ASSUME TypeOK, NEW p \in Requests, Converts(p)
  PROVE  /\ arg'[p].offer = arg[p].offer /\ arg'[p].to = arg[p].to
         /\ arg'[p].written = arg[p].written /\ arg'[p].todo = arg[p].todo
         /\ arg'[p].ended = holdsOf(arg[p].offer)
  BY StepsAndArgs DEF Converts, Args

LEMMA CheckedFields ==
  ASSUME TypeOK, NEW p \in Requests, Checks(p)
  PROVE  /\ arg'[p].offer = arg[p].offer /\ arg'[p].to = arg[p].to
         /\ arg'[p].written = arg[p].written /\ arg'[p].ended = arg[p].ended
         /\ arg'[p].todo = arg[p].todo \ {arg[p].slot}
  BY StepsAndArgs DEF Checks, Args

LEMMA InsertedFields ==
  ASSUME TypeOK, NEW p \in Requests, Inserts(p)
  PROVE  /\ arg'[p].offer = arg[p].offer /\ arg'[p].to = arg[p].to
         /\ arg'[p].ended = arg[p].ended /\ arg'[p].todo = arg[p].todo
         /\ arg'[p].slot \in arg[p].todo
         /\ newRow(p)' \in arg'[p].written
         /\ arg'[p].written \ {newRow(p)'} \subseteq arg[p].written
  BY StepsAndArgs DEF Inserts, Args, newRow

LEMMA InTransactionNext ==
  ASSUME NEW p \in Requests, OthersStay(p)
  PROVE  \A q \in Requests \ {p} : q \in inTransaction' <=> q \in inTransaction
  BY DEF inTransaction, OthersStay

LEMMA TransactionsInductive ==
  ASSUME SlotInv, NEW p \in Requests, Kinds(p)
  PROVE  TransactionsOnly'
  <1>0. TypeOK /\ TransactionsOnly /\ OthersStay(p)
    BY DEF SlotInv, Kinds
  <1> DEFINE Good(q) == /\ pc[q] # "idle" => arg[q].offer \in Offers
                        /\ q \notin inTransaction => arg[q].todo = {} /\ arg[q].written = {} /\ arg[q].ended = {}
                        /\ pc[q] = "convert" => arg[q].written = {} /\ arg[q].ended = {} /\ arg[q].to # "none"
                        /\ pc[q] = "check" => newRow(q) \in arg[q].written /\ arg[q].slot \in arg[q].todo
  <1>1. \A q \in Requests \ {p} : Good(q)'
    BY <1>0, InTransactionNext DEF TransactionsOnly, OthersStay, newRow
  <1>2. Good(p)'
    <2>1. CASE Quiet(p)
      BY <2>1 DEF Quiet, Outside, Transacting
    <2>2. CASE Begins(p)
      BY <2>2 DEF Begins, inTransaction
    <2>3. CASE Converts(p)
      BY <1>0, <2>3, ConvertedFields DEF Converts, inTransaction, TransactionsOnly
    <2>4. CASE Inserts(p)
      BY <1>0, <2>4, InsertedFields DEF Inserts, inTransaction, TransactionsOnly
    <2>5. CASE Checks(p)
      BY <1>0, <2>5, CheckedFields DEF Checks, inTransaction, TransactionsOnly
    <2>6. CASE Commits(p)
      BY <2>6 DEF Commits, Outside, Transacting
    <2> QED BY <2>1, <2>2, <2>3, <2>4, <2>5, <2>6 DEF Kinds
  <1> QED BY <1>1, <1>2 DEF TransactionsOnly

LEMMA OneWriterInductive ==
  ASSUME SlotInv, NEW p \in Requests, Kinds(p)
  PROVE  OneWriterPerOffer'
  <1>0. TypeOK /\ TransactionsOnly /\ OneWriterPerOffer /\ OthersStay(p)
    BY DEF SlotInv, Kinds
  <1>1. \A q \in Requests \ {p} : \A r \in arg'[q].ended :
          r.kind = "hold" => r.offer = arg'[q].offer /\ arg'[q].to # "none"
    BY <1>0 DEF OneWriterPerOffer, OthersStay
  <1>2. \A q, u \in inTransaction' \ {p} :
          q # u /\ arg'[q].to # "none" /\ arg'[u].to # "none" => arg'[q].offer # arg'[u].offer
    BY <1>0, InTransactionNext DEF OneWriterPerOffer, OthersStay, inTransaction
  <1>3. ASSUME p \in inTransaction, arg'[p].offer = arg[p].offer, arg'[p].to = arg[p].to
        PROVE  \A q \in inTransaction' \ {p} :
                 arg'[p].to # "none" /\ arg'[q].to # "none" => arg'[p].offer # arg'[q].offer
    BY <1>0, <1>3, InTransactionNext DEF OneWriterPerOffer, OthersStay, inTransaction
  <1>4. /\ p \in inTransaction' => \A q \in inTransaction' \ {p} :
             arg'[p].to # "none" /\ arg'[q].to # "none" => arg'[p].offer # arg'[q].offer
        /\ \A r \in arg'[p].ended :
             r.kind = "hold" => r.offer = arg'[p].offer /\ arg'[p].to # "none"
    <2>1. CASE Quiet(p) \/ Commits(p)
      BY <2>1 DEF Quiet, Commits, Outside, Transacting, inTransaction
    <2>2. CASE Begins(p)
      BY <1>0, <2>2, InTransactionNext DEF Begins, offerLocked, OthersStay, inTransaction
    <2>3. CASE Converts(p)
      BY <1>0, <1>3, <2>3, ConvertedFields DEF Converts, holdsOf, TransactionsOnly, inTransaction
    <2>4. CASE Inserts(p)
      BY <1>0, <1>3, <2>4, InsertedFields DEF Inserts, OneWriterPerOffer, inTransaction
    <2>5. CASE Checks(p)
      BY <1>0, <1>3, <2>5, CheckedFields DEF Checks, OneWriterPerOffer, inTransaction
    <2> QED BY <2>1, <2>2, <2>3, <2>4, <2>5 DEF Kinds
  <1> QED BY <1>1, <1>2, <1>4 DEF OneWriterPerOffer, inTransaction

\* A hold that changes its offer stays where it is in the calendar.
LEMMA MovedRow ==
  ASSUME TypeOK, NEW old, NEW new, NEW t \in transferred(old, new)
  PROVE  \/ t \in calendar /\ t \notin holdsOf(old)
         \/ \E r \in holdsOf(old) :
              /\ t.kind = r.kind /\ t.slot = r.slot /\ t.offer = new
              /\ t = [r EXCEPT !.offer = new]
  BY StepsAndArgs DEF transferred, holdsOf, Row

LEMMA OneEndInductive ==
  ASSUME SlotInv, NEW p \in Requests, Kinds(p)
  PROVE  OneEndPerRow'
  <1>0. TypeOK /\ TransactionsOnly /\ OneWriterPerOffer /\ OneEndPerRow /\ OthersStay(p)
    BY DEF SlotInv, Kinds
  <1>1. CASE Quiet(p) \/ Commits(p)
    <2>1. arg'[p].ended = {}
      BY <1>1 DEF Quiet, Commits, Outside
    <2>2. \A q \in Requests \ {p} : arg[q].ended \subseteq calendar'
      <3>1. CASE Quiet(p) /\ Shrinks(p)
        BY <3>1 DEF Shrinks
      <3>2. CASE Quiet(p) /\ Moves(p)
        BY <1>0, <3>2 DEF Moves, transferred, OneEndPerRow
      <3>3. CASE Commits(p)
        BY <1>0, <3>3 DEF Commits, visible, OneEndPerRow
      <3> QED BY <1>1, <3>1, <3>2, <3>3 DEF Quiet
    <2> QED BY <1>0, <2>1, <2>2 DEF OneEndPerRow, OthersStay
  <1>2. ASSUME calendar' = calendar, arg'[p].ended \subseteq calendar,
               \A q \in Requests \ {p} : arg'[p].ended \cap arg[q].ended = {}
        PROVE  OneEndPerRow'
    BY <1>0, <1>2 DEF OneEndPerRow, OthersStay
  <1>3. CASE Begins(p)
    BY <1>2, <1>3 DEF Begins
  <1>4. CASE Converts(p)
    <2>1. ~offerLocked(p, arg[p].offer)
      BY <1>0, <1>4 DEF Converts, offerLocked, OneWriterPerOffer, TransactionsOnly, inTransaction
    <2> QED BY <1>0, <1>2, <1>4, <2>1, ConvertedFields, NobodyEnds DEF Converts, holdsOf
  <1>5. CASE Inserts(p)
    BY <1>0, <1>2, <1>5, InsertedFields DEF Inserts, OneEndPerRow
  <1>6. CASE Checks(p)
    BY <1>0, <1>2, <1>6, CheckedFields DEF Checks, OneEndPerRow
  <1> QED BY <1>1, <1>3, <1>4, <1>5, <1>6 DEF Kinds

LEMMA OverlapsSymmetric == \A s, t : Overlaps(s, t) <=> Overlaps(t, s)
  BY DEF Overlaps

LEMMA CollideSymmetric == \A r, t : Collide(r, t) <=> Collide(t, r)
  BY OverlapsSymmetric DEF Collide, SameTable

\* What is placed changes for p only, and by at most the row that p checks.
LEMMA PlacedOthers ==
  ASSUME NEW p \in Requests, OthersStay(p), NEW q \in Requests \ {p}
  PROVE  placed(q)' = placed(q)
  BY DEF OthersStay, placed, newRow

LEMMA PlacedNext ==
  ASSUME SlotInv, NEW p \in Requests, Kinds(p)
  PROVE  \/ placed(p)' = {}
         \/ Converts(p) /\ placed(p) = {} /\ placed(p)' = {}
         \/ Inserts(p) /\ placed(p)' \subseteq placed(p)
         \/ Checks(p) /\ placed(p)' = placed(p) \cup {newRow(p)}
  <1>0. TypeOK /\ TransactionsOnly
    BY DEF SlotInv
  <1>1. CASE Quiet(p) \/ Commits(p)
    BY <1>1 DEF Quiet, Commits, Outside, Transacting, placed
  <1>2. CASE Begins(p)
    BY <1>2 DEF Begins, placed
  <1>3. CASE Converts(p)
    BY <1>0, <1>3, ConvertedFields DEF Converts, TransactionsOnly, placed
  <1>4. CASE Inserts(p)
    BY <1>0, <1>4, InsertedFields DEF Inserts, placed
  <1>5. CASE Checks(p)
    BY <1>0, <1>5, CheckedFields DEF Checks, placed, TransactionsOnly
  <1> QED BY <1>1, <1>2, <1>3, <1>4, <1>5 DEF Kinds

LEMMA NewRowSlot == \A p : newRow(p).slot = arg[p].slot
  BY DEF newRow

LEMMA TodoInductive ==
  ASSUME SlotInv, NEW p \in Requests, Kinds(p)
  PROVE  TodoIsApart'
  <1>0. TypeOK /\ TransactionsOnly /\ TodoIsApart /\ OthersStay(p)
    BY DEF SlotInv, Kinds
  <1> DEFINE Apart(q) == /\ \A s, t \in arg[q].todo : s # t => ~Overlaps(s, t)
                         /\ \A s \in arg[q].todo, r \in placed(q) : ~Overlaps(s, r.slot)
                         /\ \A r, t \in placed(q) : r # t => ~Overlaps(r.slot, t.slot)
  <1>1. \A q \in Requests \ {p} : Apart(q)'
    BY <1>0, PlacedOthers DEF TodoIsApart, OthersStay
  <1>2. Apart(p)
    BY <1>0 DEF TodoIsApart
  <1>3. Apart(p)'
    <2>1. CASE Quiet(p) \/ Commits(p)
      <3>1. placed(p)' = {}
        BY <2>1 DEF Quiet, Commits, Outside, Transacting, placed
      <3>2. arg'[p].todo = {}
        BY <2>1 DEF Quiet, Commits, Outside
      <3> QED BY <3>1, <3>2
    <2>2. CASE Begins(p)
      <3>1. placed(p)' = {}
        BY <2>2 DEF Begins, placed
      <3> QED BY <2>2, <3>1 DEF Begins
    <2>3. CASE Converts(p)
      <3>1. placed(p)' = {} /\ arg'[p].todo = arg[p].todo
        BY <1>0, <2>3, ConvertedFields DEF Converts, TransactionsOnly, placed
      <3> QED BY <1>2, <3>1
    <2>4. CASE Inserts(p)
      <3>1. placed(p)' \subseteq placed(p) /\ arg'[p].todo = arg[p].todo
        BY <1>0, <2>4, InsertedFields DEF Inserts, placed
      <3> QED BY <1>2, <3>1
    <2>5. CASE Checks(p)
      <3>1. placed(p)' = placed(p) \cup {newRow(p)}
        BY <1>0, <2>5, CheckedFields DEF Checks, placed, TransactionsOnly
      <3>2. arg'[p].todo = arg[p].todo \ {arg[p].slot} /\ arg[p].slot \in arg[p].todo
        BY <1>0, <2>5, CheckedFields DEF Checks, TransactionsOnly
      <3>3. \A s \in arg'[p].todo : ~Overlaps(s, newRow(p).slot)
        BY <1>2, <3>2, NewRowSlot
      <3>4. \A r \in placed(p) : ~Overlaps(newRow(p).slot, r.slot) /\ ~Overlaps(r.slot, newRow(p).slot)
        BY <1>2, <3>2, NewRowSlot, OverlapsSymmetric
      <3> QED BY <1>2, <3>1, <3>2, <3>3, <3>4
    <2> QED BY <2>1, <2>2, <2>3, <2>4, <2>5 DEF Kinds
  <1> QED BY <1>1, <1>3 DEF TodoIsApart

\* The rows that p checks against are those it may collide with: the committed ones that nobody
\* is ending, and what others have written or are ending.
LEMMA CheckedIsClear ==
  ASSUME SlotInv, NEW p \in Requests, Checks(p)
  PROVE  /\ \A t \in calendar \ arg[p].ended : ~Collide(newRow(p), t)
         /\ \A q \in Requests \ {p} : \A t \in placed(q) : ~Collide(newRow(p), t)
  <1>1. \A q \in Requests \ {p} : \A t \in arg[q].written \cup arg[q].ended : ~Collide(newRow(p), t)
    <2>1. \A q \in Requests \ {p} : \A t \in arg[q].written \cup arg[q].ended :
            ~Collide(newRow(p), t) \/ q \in waitsFor(p, newRow(p))
      BY CollideSymmetric DEF waitsFor
    <2> QED BY <2>1, CollideSymmetric DEF Checks
  <1>2. \A t \in settledRows : ~Collide(newRow(p), t)
    BY DEF Checks, ConstraintRaises
  <1>3. \A t \in calendar \ arg[p].ended :
          t \in settledRows \/ \E q \in Requests \ {p} : t \in arg[q].ended
    BY DEF settledRows
  <1>4. \A q \in Requests : placed(q) \subseteq arg[q].written
    BY DEF placed
  <1> QED BY <1>1, <1>2, <1>3, <1>4

\* Clear of the calendar as it was is clear of the calendar as it is, unless p commits.
LEMMA QuietCalendar ==
  ASSUME SlotInv, NEW p \in Requests, Quiet(p), NEW q \in Requests \ {p},
         NEW t \in calendar' \ arg[q].ended
  PROVE  \E r \in calendar \ arg[q].ended : t.kind = r.kind /\ t.slot = r.slot
  <1>1. CASE Shrinks(p)
    BY <1>1 DEF Shrinks
  <1>2. CASE Moves(p)
    <2>1. PICK old \in Offers \cup {NoOffer}, new \in Offers :
            /\ calendar' = transferred(old, new)
            /\ arg[q].ended \cap holdsOf(old) = {}
      BY <1>2 DEF Moves
    <2>2. CASE t \in calendar
      BY <2>2
    <2>3. CASE t \notin calendar
      <3>1. PICK r \in holdsOf(old) : t.kind = r.kind /\ t.slot = r.slot
        BY <2>1, <2>3, MovedRow DEF SlotInv
      <3> QED BY <2>1, <3>1 DEF holdsOf
    <2> QED BY <2>2, <2>3
  <1> QED BY <1>1, <1>2 DEF Quiet

LEMMA CollideByPlace ==
  \A r, t, u : t.kind = u.kind /\ t.slot = u.slot => (Collide(r, t) <=> Collide(r, u))
  BY DEF Collide, SameTable

LEMMA PlacedInductive ==
  ASSUME SlotInv, NEW p \in Requests, Kinds(p)
  PROVE  PlacedIsClear'
  <1>0. TypeOK /\ TransactionsOnly /\ PlacedIsClear /\ OthersStay(p)
    BY DEF SlotInv, Kinds
  <1>1. \A q \in Requests \ {p} : placed(q)' = placed(q) /\ arg'[q] = arg[q]
    BY <1>0, PlacedOthers DEF OthersStay
  <1>2. ASSUME NEW q \in Requests \ {p}, NEW r \in placed(q), NEW u \in Requests \ {p, q},
               NEW t \in placed(u)
        PROVE  ~Collide(r, t)
    BY <1>0, <1>2 DEF PlacedIsClear
  <1>3. ASSUME NEW q \in Requests \ {p}, NEW r \in placed(q), NEW t \in calendar' \ arg[q].ended
        PROVE  ~Collide(r, t)
    <2>1. CASE Quiet(p)
      <3>1. PICK u \in calendar \ arg[q].ended : t.kind = u.kind /\ t.slot = u.slot
        BY <1>3, <2>1, QuietCalendar
      <3> QED BY <1>0, <3>1, CollideByPlace DEF PlacedIsClear
    <2>2. CASE Commits(p)
      <3>1. t \in calendar \ arg[q].ended \/ t \in placed(p)
        BY <2>2 DEF Commits, visible, placed
      <3> QED BY <1>0, <3>1 DEF PlacedIsClear
    <2>3. CASE calendar' = calendar
      BY <1>0, <2>3 DEF PlacedIsClear
    <2> QED BY <2>1, <2>2, <2>3 DEF Kinds, Begins, Converts, Inserts, Checks
  <1>4. /\ \A r \in placed(p)' : \A t \in calendar' \ arg'[p].ended : ~Collide(r, t)
        /\ \A r \in placed(p)' : \A q \in Requests \ {p} : \A t \in placed(q) : ~Collide(r, t)
    <2>1. CASE placed(p)' = {}
      BY <2>1
    <2>2. CASE Inserts(p) /\ placed(p)' \subseteq placed(p)
      <3>1. calendar' = calendar /\ arg'[p].ended = arg[p].ended
        BY <1>0, <2>2, InsertedFields DEF Inserts
      <3> QED BY <1>0, <2>2, <3>1 DEF PlacedIsClear
    <2>3. CASE Checks(p) /\ placed(p)' = placed(p) \cup {newRow(p)}
      <3>1. calendar' = calendar /\ arg'[p].ended = arg[p].ended
        BY <1>0, <2>3, CheckedFields DEF Checks
      <3> QED BY <1>0, <2>3, <3>1, CheckedIsClear DEF PlacedIsClear
    <2> QED BY <2>1, <2>2, <2>3, PlacedNext
  <1> QED BY <1>1, <1>2, <1>3, <1>4, CollideSymmetric DEF PlacedIsClear

LEMMA BookingInductive ==
  ASSUME SlotInv, NEW p \in Requests, Kinds(p)
  PROVE  NoDoubleBooking'
  <1>0. TypeOK /\ NoDoubleBooking /\ TodoIsApart /\ PlacedIsClear
    BY DEF SlotInv
  <1>1. CASE calendar' \subseteq calendar
    BY <1>0, <1>1 DEF NoDoubleBooking
  <1>2. CASE Moves(p)
    <2>1. PICK old \in Offers \cup {NoOffer}, new \in Offers : calendar' = transferred(old, new)
      BY <1>2 DEF Moves
    <2> SUFFICES ASSUME NEW r \in calendar', NEW t \in calendar', r # t
                 PROVE  ~Collide(r, t)
      BY DEF NoDoubleBooking
    <2>2. \A x \in calendar' : \/ x \in calendar /\ x \notin holdsOf(old)
                               \/ \E y \in holdsOf(old) : /\ x.kind = y.kind /\ x.slot = y.slot
                                                          /\ x = [y EXCEPT !.offer = new]
      BY <1>0, <2>1, MovedRow
    <2>3. PICK r0 \in calendar : /\ r.kind = r0.kind /\ r.slot = r0.slot
                                 /\ \/ r0 \notin holdsOf(old) /\ r = r0
                                    \/ r0 \in holdsOf(old) /\ r = [r0 EXCEPT !.offer = new]
      BY <2>2 DEF holdsOf
    <2>4. PICK t0 \in calendar : /\ t.kind = t0.kind /\ t.slot = t0.slot
                                 /\ \/ t0 \notin holdsOf(old) /\ t = t0
                                    \/ t0 \in holdsOf(old) /\ t = [t0 EXCEPT !.offer = new]
      BY <2>2 DEF holdsOf
    <2>5. r0 # t0
      BY <2>3, <2>4
    <2>6. ~Collide(r0, t0)
      BY <1>0, <2>5 DEF NoDoubleBooking
    <2> QED BY <2>3, <2>4, <2>6, CollideByPlace, CollideSymmetric
  <1>3. CASE Commits(p)
    <2>1. calendar' = (calendar \ arg[p].ended) \cup placed(p)
      BY <1>3 DEF Commits, visible, placed
    <2>2. \A r, t \in placed(p) : r # t => ~Collide(r, t)
      BY <1>0 DEF TodoIsApart, Collide
    <2>3. \A r \in placed(p), t \in calendar \ arg[p].ended : ~Collide(r, t)
      BY <1>0 DEF PlacedIsClear
    <2>4. \A r, t \in calendar : r # t => ~Collide(r, t)
      BY <1>0 DEF NoDoubleBooking
    <2> QED BY <2>1, <2>2, <2>3, <2>4, CollideSymmetric DEF NoDoubleBooking
  <1> QED BY <1>1, <1>2, <1>3 DEF Kinds, Quiet, Shrinks, Begins, Converts, Inserts, Checks

-------------------------------------------------------------------------------
(* Theorems *)

LEMMA InitSlotInv == Init => SlotInv
  <1> SUFFICES ASSUME Init PROVE SlotInv
    OBVIOUS
  <1>1. \A p \in Requests : pc[p] = "idle" /\ arg[p] = NoArgs
    BY DEF Init
  <1>2. TypeOK
    <2>1. pc \in [Requests -> Steps]
      BY DEF Init, Steps
    <2>2. arg \in [Requests -> Args]
      BY NoArgsType DEF Init
    <2>3. offer \in [Offers -> OfferRow]
      BY NoRowType DEF Init
    <2> QED BY <2>1, <2>2, <2>3, StepsAndArgs DEF Init
  <1>3. \A p \in Requests : /\ arg[p].todo = {} /\ arg[p].written = {} /\ arg[p].ended = {}
                            /\ placed(p) = {} /\ p \notin inTransaction
    BY <1>1 DEF NoArgs, placed, inTransaction
  <1>4. TransactionsOnly
    BY <1>1, <1>3 DEF TransactionsOnly
  <1>5. OneWriterPerOffer /\ OneEndPerRow
    BY <1>3 DEF OneWriterPerOffer, OneEndPerRow, inTransaction
  <1>6. TodoIsApart /\ PlacedIsClear
    BY <1>3 DEF TodoIsApart, PlacedIsClear
  <1>7. NoDoubleBooking
    BY DEF Init, NoDoubleBooking
  <1> QED BY <1>2, <1>4, <1>5, <1>6, <1>7 DEF SlotInv

LEMMA SlotInvInductive == SlotInv /\ [Next]_vars => SlotInv'
  <1> SUFFICES ASSUME SlotInv, [Next]_vars PROVE SlotInv'
    OBVIOUS
  <1>1. CASE UNCHANGED vars
    BY <1>1 DEF vars, SlotInv, TypeOK, TransactionsOnly, OneWriterPerOffer, OneEndPerRow,
                TodoIsApart, PlacedIsClear, NoDoubleBooking, placed, newRow, inTransaction
  <1>2. CASE Next
    <2>1. TypeOK'
      BY TypeInductive DEF SlotInv
    <2>2. PICK p \in Requests : Kinds(p)
      BY <1>2, StepKinds
    <2> QED BY <2>1, <2>2, TransactionsInductive, OneWriterInductive, OneEndInductive, TodoInductive,
               PlacedInductive, BookingInductive DEF SlotInv
  <1> QED BY <1>1, <1>2

\* Whatever transactions see of one another at READ COMMITTED, what each has written and ended
\* stays compatible with the rest.
THEOREM SlotInvariant == Spec => []SlotInv
  BY InitSlotInv, SlotInvInductive, PTL DEF Spec

\* Every behaviour of the negotiations keeps the type of every variable.
THEOREM NegotiationTypes == Spec => []TypeOK
  <1>1. SlotInv => TypeOK
    BY DEF SlotInv
  <1> QED BY <1>1, SlotInvariant, PTL

\* No hour of the coach is in two holds, or in two bookings, at any time (migration.sql:8).
THEOREM NoHourTwice == Spec => []NoDoubleBooking
  <1>1. SlotInv => NoDoubleBooking
    BY DEF SlotInv
  <1> QED BY <1>1, SlotInvariant, PTL
===============================================================================
