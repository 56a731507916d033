-------------------------------- MODULE Money --------------------------------
(***************************************************************************)
(* What an agreed price becomes: its milestones and their periods, the     *)
(* basket the payment provider is sent, the amounts as the provider writes *)
(* them, and the lowest price an offer may carry.                          *)
(*                                                                         *)
(* All of it is arithmetic without state: the module is a set of operators *)
(* and one variable, `terms`, the agreement they are evaluated on.  An     *)
(* amount is an integer of kurus.  A decimal string is the pair of its     *)
(* integer part and the sequence of its fractional digits.                 *)
(***************************************************************************)
EXTENDS Ledger, Sequences, SequencesExt

CONSTANTS
  Agreements,  \* bound: [total, count, bps]
  Calendars,   \* bound: [starts, count, last], the hours of the sessions, which take an hour
  PriceLists   \* bound: [single, monthly, sessionsPerCycle], 0 for a tier the coach has not

ASSUME MoneyAssumption ==
  /\ \A a \in Agreements : a.count \in Nat \ {0} /\ a.total \in Nat /\ a.total >= a.count /\ a.bps \in Nat /\ a.bps <= 5000
  /\ \A c \in Calendars : c.starts # {} /\ c.count >= 1 /\ \A s \in c.starts : s < c.last
  /\ \A p \in PriceLists : p.single \in Nat /\ p.monthly \in Nat /\ p.sessionsPerCycle \in Nat \ {0}

VARIABLE terms

TermsInit == terms \in Agreements \cup Calendars \cup PriceLists

-------------------------------------------------------------------------------
(* The split of a price *)

\* The remainder goes to the first milestones.
splitIntoMilestones(total, count) ==
  [i \in 1..count |-> (total \div count) + (IF i <= total % count THEN 1 ELSE 0)]

\* The basket of the provider, one item per milestone.
buildSplit(amounts, bps) ==
  [i \in DOMAIN amounts |->
     [price |-> amounts[i], subMerchantPrice |-> amounts[i] - (amounts[i] * bps) \div 10000]]

basketOf(agreement) ==
  buildSplit(splitIntoMilestones(agreement.total, agreement.count), agreement.bps)

\* What the offer card tells both parties before they agree.
computeBreakdown(total, bps) ==
  [platformFee |-> (total * bps) \div 10000, coachReceives |-> total - (total * bps) \div 10000]

-------------------------------------------------------------------------------
(* Amounts at the provider *)

\* Wrong: the kurus are not padded to two digits.
decimalUnpadded(minor) ==
  IF minor % 100 = 0 THEN <<minor \div 100, <<0>>>>
  ELSE IF minor % 100 < 10 THEN <<minor \div 100, <<minor % 100>>>>
  ELSE <<minor \div 100, <<(minor % 100) \div 10, minor % 10>>>>

minorToIyzicoAmount(minor) ==
  IF minor % 100 = 0 THEN <<minor \div 100, <<0>>>>
  ELSE <<minor \div 100, <<(minor % 100) \div 10, minor % 10>>>>

\* The digit in place k; a place that is not written counts nothing.
Digit(amount, k) == IF k <= Len(amount[2]) THEN amount[2][k] ELSE 0

iyzicoAmountToMinor(amount) == 100 * amount[1] + 10 * Digit(amount, 1) + Digit(amount, 2)

\* Trailing zeros go, and with the last of them the point.
normalizeAmountForSignature(amount) ==
  LET kept == {k \in 1..Len(amount[2]) : \E j \in k..Len(amount[2]) : amount[2][j] # 0}
  IN  <<amount[1], SubSeq(amount[2], 1, Cardinality(kept))>>

\* The provider refuses a basket whose items do not sum to the price.
basketAccepted(items, total) == Total([i \in DOMAIN items |-> items[i].price]) = total

\* assertAmountsMatch: a capture that does not add up is not recorded.
amountsMatch(paid, items, expected) ==
  paid = expected /\ basketAccepted(items, expected)

-------------------------------------------------------------------------------
(* The periods of the milestones *)

\* Equal parts of the time; the last one ends with the program.
milestonePeriods(start, end, count) ==
  LET step == (end - start) \div count
  IN  [i \in 1..count |-> [periodStart |-> start + step * (i - 1),
                           periodEnd |-> IF i = count THEN end ELSE start + step * i]]

\* The session milestone i begins with.
firstIndex(sessions, count, i) ==
  LET extra == sessions % count
  IN  1 + (sessions \div count) * (i - 1) + (IF i - 1 < extra THEN i - 1 ELSE extra)

milestonePeriodsForSlots(starts, start, end, count) ==
  LET sorted == SetToSortSeq(starts, <)
      first(i) == sorted[firstIndex(Len(sorted), count, i)]
  IN  IF Len(sorted) < count THEN milestonePeriods(start, end, count)
      ELSE [i \in 1..count |-> [periodStart |-> first(i),
                                periodEnd |-> IF i = count THEN Max({end, Last(sorted) + 1})
                                              ELSE first(i + 1)]]

-------------------------------------------------------------------------------
(* The lowest price of an offer *)

ABSOLUTE_MIN_OFFER == 10000
Packages == {"EXPLORATORY", "MONTHLY_4W"}

Round(a, b) == (2 * a + b) \div (2 * b)

\* 0: the coach lists no price from which one could be derived.
suggestedPrice(package, list) ==
  IF package = "MONTHLY_4W" THEN list.monthly
  ELSE IF list.single # 0 THEN list.single
  ELSE 100 * Round(Round(list.monthly, list.sessionsPerCycle), 100)

minOffer(package, list, role) ==
  LET price == suggestedPrice(package, list)
  IN  IF role = "COACH" \/ price = 0 THEN ABSOLUTE_MIN_OFFER
      ELSE Max({ABSOLUTE_MIN_OFFER, 10000 * ((price + 19999) \div 20000)})

-------------------------------------------------------------------------------
(* Properties *)

\* The milestones add up to the price to the last kurus, none of them is empty, and the ledger
\* credits the coach for each of them what the basket told the provider to pay out.
LedgerAgreesWithProvider ==
  \A a \in Agreements \cap {terms} :
    LET amounts == splitIntoMilestones(a.total, a.count)
        basket == basketOf(a)
    IN  /\ basketAccepted(basket, a.total) /\ amountsMatch(a.total, basket, a.total)
        /\ \A i \in DOMAIN amounts :
             /\ amounts[i] > 0
             /\ MilestoneRelease(amounts[i], a.bps)["COACH_PAYABLE"] = basket[i].subMerchantPrice
             /\ \A k \in {amounts[i], basket[i].subMerchantPrice} :
                  iyzicoAmountToMinor(normalizeAmountForSignature(minorToIyzicoAmount(k))) = k

\* What the milestones pay the coach in all is what the offer card showed, and at most a kurus per
\* further milestone more: the commission is rounded down in each of them.
CoachGetsWhatWasShown ==
  \A a \in Agreements \cap {terms} :
    LET amounts == splitIntoMilestones(a.total, a.count)
        paid == Total([i \in DOMAIN amounts |-> splitAmount(amounts[i], a.bps).netToCoach])
        shown == computeBreakdown(a.total, a.bps).coachReceives
    IN  shown <= paid /\ paid < shown + a.count

\* The periods follow one another, every session falls into exactly one of them, and when there are
\* as many sessions as milestones no milestone is paid for without a session.
EverySessionInOnePeriod ==
  \A c \in Calendars \cap {terms} :
    LET periods == milestonePeriodsForSlots(c.starts, Min(c.starts), c.last, c.count)
        in(s) == {i \in DOMAIN periods : periods[i].periodStart <= s /\ s < periods[i].periodEnd}
    IN  /\ \A i \in 1..c.count - 1 : periods[i].periodEnd = periods[i + 1].periodStart
        /\ \A s \in c.starts : Cardinality(in(s)) = 1
        /\ Cardinality(c.starts) >= c.count => UNION {in(s) : s \in c.starts} = 1..c.count

\* The price the composer fills in is one the server accepts from a student, unless it was derived from a
\* monthly price for so many sessions that it falls under the least price of all.
SuggestedPriceIsAccepted ==
  \A list \in PriceLists \cap {terms}, package \in Packages :
    suggestedPrice(package, list) >= ABSOLUTE_MIN_OFFER
      => suggestedPrice(package, list) >= minOffer(package, list, "STUDENT")
==============================================================================
