---------------------------- MODULE MCNegotiation -----------------------------
(* Instances of Negotiation for TLC. *)
EXTENDS OfferPage, TLC

CONSTANTS o1, o2, o3, p1, p2

\* Two hours, one that overlaps the first, and what a student may ask for.
Hour1 == <<0, 2>>
Hour2 == <<2, 4>>
HalfPast == <<1, 3>>

MCSlots == {Hour1, Hour2, HalfPast}
MCScopes == {{Hour1, Hour2}, {HalfPast}}

\* The first student asks for the two hours, the second for the half past between them; the third
\* offer is a counter-offer.
TwoConversations ==
  /\ offer[o1].status # "none" => offer[o1].scope = {Hour1, Hour2}
  /\ \A o \in {o2, o3} : offer[o].status # "none" /\ offer[o].parent = NoOffer
                           => o = o2 /\ offer[o].scope = {HalfPast}

\* Leaves out counters that the page has no button for.
CountersOfTheOther ==
  \A p \in Requests : pc[p] = "counter" => ~mine(offer[arg[p].offer].parent, arg[p].role)

Symmetry == Permutations(Requests)
===============================================================================
