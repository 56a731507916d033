-------------------------------- MODULE Matching --------------------------------
(***************************************************************************)
(* How coaches are matched to a student: the weekly windows both are free  *)
(* in, the hard filters of the query, the scores of the seven dimensions,  *)
(* and the sentences a card shows for them.                                *)
(*                                                                         *)
(* All of it is arithmetic without state: one variable, `inquiry`, holds   *)
(* what the operators are evaluated on.  Scores are in thousandths, and    *)
(* the functions that are not rational (logarithm, exponential) are tables *)
(* given as constants.  A sentence is named by what it says, the empty one *)
(* is "unsaid".  The figure the card displays, and the order it puts the   *)
(* coaches in, are left out.                                               *)
(***************************************************************************)
EXTENDS Integers, Sequences, FiniteSets, FiniteSetsExt, Folds, Functions

CONSTANTS
  WindowPairs,     \* bound: [a, b], two sets of windows
  Inquiries,       \* bound: [student, coach]
  ln,              \* the logarithms of ranks
  decayed,         \* exp(-3.2 x) by percents over budget
  volume,          \* log(n + 1) / log(21) by engagements completed
  Unset

VARIABLE inquiry

\* What is asked is asked once.
MatchingInit == inquiry \in WindowPairs \cup Inquiries
MatchingSpec == MatchingInit /\ [][FALSE]_inquiry

-------------------------------------------------------------------------------
(* Weekly windows *)

MINUTES_PER_DAY == 1440

isValidWindow(w) ==
  /\ w.weekday \in 0..6
  /\ w.startMinute >= 0 /\ w.endMinute <= MINUTES_PER_DAY /\ w.endMinute > w.startMinute

\* Wrong: a window that lies within another cuts it short.
mergeByLast(next, so_far) ==
  IF next.startMinute <= so_far.current.endMinute
  THEN [so_far EXCEPT !.current.endMinute = next.endMinute]
  ELSE [out |-> so_far.out \cup {so_far.current}, current |-> next]

\* The next window prolongs the current one if they overlap or touch, else it takes its place.
merge(next, so_far) ==
  IF next.startMinute <= so_far.current.endMinute
  THEN [so_far EXCEPT !.current.endMinute = Max({@, next.endMinute})]
  ELSE [out |-> so_far.out \cup {so_far.current}, current |-> next]

\* A day's windows are merged in the order of their starts; in which order equal starts come makes no difference.
earliest(bucket) == CHOOSE w \in bucket : \A v \in bucket : w.startMinute <= v.startMinute
latest(bucket) == CHOOSE w \in bucket : \A v \in bucket : v.startMinute <= w.startMinute

mergeDay(bucket) ==
  LET first == earliest(bucket)
      merged == MapThenFoldSet(merge, [out |-> {}, current |-> first], LAMBDA w : w, latest, bucket \ {first})
  IN  merged.out \cup {merged.current}

normalizeWindows(windows) ==
  LET valid == {w \in windows : isValidWindow(w)}
  IN  UNION {mergeDay({w \in valid : w.weekday = day}) : day \in {w.weekday : w \in valid}}

totalMinutes(windows) ==
  SumFunctionOnSet([w \in normalizeWindows(windows) |-> w.endMinute - w.startMinute], normalizeWindows(windows))

coveredWeekdays(windows) == {w.weekday : w \in normalizeWindows(windows)}

intersectWindows(a, b) ==
  normalizeWindows(
    {[weekday |-> p[1].weekday, startMinute |-> Max({p[1].startMinute, p[2].startMinute}),
      endMinute |-> Min({p[1].endMinute, p[2].endMinute})] :
       p \in {q \in normalizeWindows(a) \X normalizeWindows(b) : q[1].weekday = q[2].weekday}})

-------------------------------------------------------------------------------
(* The dimensions *)

clamp01(n) == Max({0, Min({1000, n})})

Part(score, reason) == [score |-> clamp01(score), reason |-> reason]

\* Net indices by rank, for each track.
RANK_TO_NET ==
  [SAYISAL |-> <<<<500, 112>>, <<1000, 106>>, <<5000, 94>>, <<20000, 80>>, <<50000, 68>>, <<100000, 57>>, <<300000, 41>>>>,
   ESIT_AGIRLIK |-> <<<<500, 108>>, <<1000, 103>>, <<5000, 91>>, <<20000, 78>>, <<50000, 66>>, <<100000, 55>>, <<300000, 39>>>>,
   SOZEL |-> <<<<500, 105>>, <<1000, 100>>, <<5000, 88>>, <<20000, 75>>, <<50000, 64>>, <<100000, 53>>, <<300000, 38>>>>,
   DIL |-> <<<<500, 100>>, <<1000, 95>>, <<5000, 84>>, <<20000, 71>>, <<50000, 60>>, <<100000, 50>>, <<300000, 36>>>>]

\* Between two anchors the net is linear in the logarithm of the rank.
netIndexForRanking(track, r) ==
  LET anchors == RANK_TO_NET[track]
      last == anchors[Len(anchors)]
      i == CHOOSE k \in 1..Len(anchors)-1 : anchors[k][1] <= r /\ r <= anchors[k+1][1]
      step == anchors[i+1][2] - anchors[i][2]
  IN  IF r <= anchors[1][1] THEN anchors[1][2]
      ELSE IF r >= last[1] THEN last[2]
      ELSE anchors[i][2] + (step * (ln[r] - ln[anchors[i][1]])) \div (ln[anchors[i+1][1]] - ln[anchors[i][1]])

difference(x, y) == IF x = Unset \/ y = Unset THEN Unset ELSE x - y
requiredClimb(s) ==
  IF s.ranking = Unset THEN Unset ELSE difference(netIndexForRanking(s.track, s.ranking), s.baseNet)

\* Meeting the required climb is worth 850, exceeding it up to 150 more.
climbScore(demonstrated, required) ==
  LET ratio == IF required <= 0 THEN 1000 ELSE (1000 * demonstrated) \div required
  IN  IF ratio >= 1000 THEN 850 + (Min({ratio - 1000, 1000}) * 15) \div 100 ELSE (ratio * 85) \div 100

climbed(required, demonstrated) ==
  IF required # Unset /\ demonstrated # Unset THEN Part(climbScore(demonstrated, required), "climb")
  ELSE IF demonstrated # Unset /\ demonstrated > 0
  THEN Part(450 + (Min({20 * demonstrated, 1000}) * 4) \div 10, "ownClimb")
  ELSE Part(500, "unsaid")

\* The coach started where the student is.
withFamiliarity(part, distance) ==
  IF distance # Unset /\ distance \in -12..12
  THEN Part(part.score + 80, IF part.reason = "unsaid" THEN "sameStart" ELSE part.reason) ELSE part

withBand(part, s, c) ==
  IF s.ranking # Unset /\ c.toRank # Unset /\ 2 * c.toRank <= 3 * s.ranking
  THEN Part(part.score + 60, "specialization") ELSE part

withOutcomes(part, c, required) ==
  IF c.medianGain # Unset /\ required # Unset /\ required > 0
  THEN Part((7 * part.score + 3 * clamp01((1000 * c.medianGain) \div required)) \div 10,
            IF 10 * c.medianGain >= 8 * required THEN "studentsGained" ELSE part.reason)
  ELSE part

trajectory(s, c, required, demonstrated) ==
  IF required = Unset /\ demonstrated = Unset /\ c.medianGain = Unset THEN Part(500, "noData")
  ELSE [withOutcomes(withBand(withFamiliarity(climbed(required, demonstrated), difference(c.baselineNet, s.baseNet)),
                              s, c), c, required)
          EXCEPT !.reason = IF @ = "unsaid" THEN "similarClimb" ELSE @]

scoreTrajectory(s, c) == trajectory(s, c, requiredClimb(s), difference(c.finalNet, c.baselineNet))

\* The first preference weighs 1, the second 1/2, the third 1/3.
scoreStyle(s, c) ==
  LET weight == [k \in DOMAIN s.preferredStyles |-> 1000 \div k]
      possible == SumFunction(weight)
      earned == SumFunctionOnSet(weight, {k \in DOMAIN weight : s.preferredStyles[k] \in c.styles})
  IN  IF s.preferredStyles = <<>> THEN Part(500, "noPreference")
      ELSE Part((1000 * earned) \div possible, IF earned > 0 THEN "style" ELSE "otherStyle")

\* What is shared is measured by what the student wants, and by the days it is spread over.
scoreAvailability(s, c) ==
  LET shared == intersectWindows(s.availability, c.availability)
      coverage == clamp01((1000 * totalMinutes(shared)) \div Max({60, s.weeklyMinutes}))
      spread == clamp01((1000 * Cardinality(coveredWeekdays(shared))) \div 3)
  IN  IF s.availability = {} THEN Part(500, "noAvailability")
      ELSE IF shared = {} THEN Part(0, "noSharedHour")
      ELSE Part((7 * coverage + 3 * spread) \div 10, "sharedHours")

CRITICAL_SUBJECTS ==
  [SAYISAL |-> {"AYT Matematik", "Fizik", "Kimya", "Biyoloji"},
   ESIT_AGIRLIK |-> {"AYT Matematik", "Edebiyat", "Tarih", "Cografya"},
   SOZEL |-> {"Edebiyat", "Tarih", "Cografya", "Felsefe"},
   DIL |-> {"YDT Ingilizce", "TYT Turkce"}]

scoreTrackDepth(s, c) ==
  LET needed == CRITICAL_SUBJECTS[s.track]
      depth == (1000 * Cardinality(needed \cap c.subjects)) \div Cardinality(needed)
  IN  IF s.track \notin c.tracks THEN Part(0, "otherTrack")
      ELSE Part((IF c.ownTrack = s.track THEN 600 ELSE 420) + (depth * 4) \div 10, "track")

\* The tier the student asked for, or else the cheapest.
priceFor(s, c) ==
  LET preferred == {p \in c.pricing : p.cadence = s.cadence}
  IN  IF preferred # {} THEN (CHOOSE p \in preferred : TRUE).priceMinor
      ELSE Min({p.priceMinor : p \in c.pricing})

scoreBudget(s, c) ==
  LET price == priceFor(s, c)
      max == s.maxMinor
  IN  IF max = Unset THEN Part(600, "noBudget")
      ELSE IF c.pricing = {} THEN Part(400, "noPrice")
      ELSE IF price <= max THEN Part(850 + (150 * (max - price)) \div max, "withinBudget")
      ELSE Part(decayed[(100 * (price - max)) \div max], "overBudget")

\* An average rating is drawn to 4.4 by eight imaginary reviews.
scoreReputation(c) ==
  LET smoothed == (c.ratingAvg * c.ratingCount + 4400 * 8) \div (c.ratingCount + 8)
      ratingScore == clamp01((smoothed - 3000) \div 2)
      responseScore == IF c.responseHours = Unset THEN 600
                       ELSE clamp01(1000 - (1000 * (c.responseHours - 2)) \div (48 - 2))
      reliability == clamp01(1000 - (c.cancellationRate * 25) \div 10)
  IN  Part((45 * ratingScore + 20 * volume[c.completedEngagements] + 15 * responseScore + 20 * reliability) \div 100,
           IF c.ratingCount >= 3 THEN "rated" ELSE "newHere")

scoreGradeExperience(s, c) ==
  LET score == IF s.gradeLevel \in c.supportedGrades THEN 800 ELSE 350
  IN  IF s.gradeLevel = "MEZUN" /\ c.wasMezun THEN Part(score + 200, "mezunToo")
      ELSE Part(score, IF s.gradeLevel \in c.supportedGrades THEN "grade" ELSE "otherGrade")

-------------------------------------------------------------------------------
(* The match *)

WEIGHTS == [trajectory |-> 22, style |-> 17, availability |-> 15, trackDepth |-> 14, budget |-> 12,
            reputation |-> 12, gradeExperience |-> 8]

dimensions(s, c) ==
  [trajectory |-> scoreTrajectory(s, c), style |-> scoreStyle(s, c), availability |-> scoreAvailability(s, c),
   trackDepth |-> scoreTrackDepth(s, c), budget |-> scoreBudget(s, c), reputation |-> scoreReputation(c),
   gradeExperience |-> scoreGradeExperience(s, c)]

\* The share of the places that is taken, in percent, is at least so much.
utilised(c, percent) == c.maxActiveStudents > 0 /\ 100 * c.activeEngagements >= percent * c.maxActiveStudents

\* The sum of the dimensions; a coach nearly at capacity is demoted.
rawScore(c, parts) ==
  LET raw == SumFunction([d \in DOMAIN WEIGHTS |-> parts[d].score * WEIGHTS[d]]) \div 100
  IN  clamp01(IF utilised(c, 90) THEN (raw * 96) \div 100 ELSE raw)

\* Wrong: a middling score is worth a sentence.
worthSayingAny(score) == score >= 500

worthSaying(score) == score >= 620

\* The order of the list of dimensions, which a stable sort keeps between equals.
listedBefore(d, e) ==
  LET listed == <<"trajectory", "style", "availability", "reputation", "gradeExperience">>
  IN  \E i, j \in DOMAIN listed : i < j /\ listed[i] = d /\ listed[j] = e

\* The three sentences that count most; budget and track are not among them.
reasonsShown(parts) ==
  LET surfaced == {d \in DOMAIN WEIGHTS \ {"budget", "trackDepth"} : worthSaying(parts[d].score)}
      weighted(d) == parts[d].score * WEIGHTS[d]
      ahead(d) == {e \in surfaced : \/ weighted(e) > weighted(d)
                                    \/ weighted(e) = weighted(d) /\ listedBefore(e, d)}
  IN  {parts[d].reason : d \in {e \in surfaced : Cardinality(ahead(e)) < 3}}

caveats(c, parts) ==
  {x \in {"overBudget", "hoursDoNotMeet", "full"} :
     CASE x = "overBudget" -> parts.budget.reason = x
       [] x = "hoursDoNotMeet" -> parts.availability.score < 250
       [] OTHER -> utilised(c, 100)}

\* What the query lets through: 1.4 times the budget, and a weekday in common.
hardFilters(s, c) ==
  /\ c.verificationStatus = "APPROVED" /\ c.acceptingStudents /\ s.track \in c.tracks
  /\ \E p \in c.pricing : s.maxMinor # Unset => 10 * p.priceMinor <= 14 * s.maxMinor
  /\ coveredWeekdays(s.availability) # {} =>
       \E w \in c.availability : w.weekday \in coveredWeekdays(s.availability)

isShown(s, c, parts) == hardFilters(s, c) /\ rawScore(c, parts) >= 380

-------------------------------------------------------------------------------
(* What is known of a student and a coach: any of the figures may be missing *)

areWindows(windows) ==
  windows \subseteq [weekday : Int, startMinute : Int, endMinute : Int] /\ IsFiniteSet(windows)

isStudent(s) ==
  /\ s.track \in DOMAIN RANK_TO_NET /\ s.ranking \in DOMAIN ln \cup {Unset} /\ s.baseNet \in Int \cup {Unset}
  /\ s.preferredStyles \in Seq(STRING) /\ areWindows(s.availability)
  /\ s.weeklyMinutes \in Nat /\ s.maxMinor \in Nat \cup {Unset}

isCoach(c) ==
  /\ c.baselineNet \in Int \cup {Unset} /\ c.finalNet \in Int \cup {Unset} /\ c.medianGain \in Int \cup {Unset}
  /\ areWindows(c.availability)
  /\ c.pricing \subseteq [cadence : STRING, priceMinor : Nat] /\ IsFiniteSet(c.pricing)

\* The logarithm grows from anchor to anchor.
ASSUME MatchingAssumption ==
  /\ Unset \notin Int
  /\ \A r \in DOMAIN ln : r \in Nat /\ ln[r] \in Int
  /\ \A t \in DOMAIN RANK_TO_NET : \A i \in 1..Len(RANK_TO_NET[t]) - 1 :
        /\ {RANK_TO_NET[t][i][1], RANK_TO_NET[t][i+1][1]} \subseteq DOMAIN ln
        /\ ln[RANK_TO_NET[t][i][1]] < ln[RANK_TO_NET[t][i+1][1]]
  /\ \A q \in WindowPairs : DOMAIN q = {"a", "b"} /\ areWindows(q.a) /\ areWindows(q.b)
  /\ \A q \in Inquiries : DOMAIN q = {"student", "coach"} /\ isStudent(q.student) /\ isCoach(q.coach)

-------------------------------------------------------------------------------
(* Properties *)

minutesOf(windows) ==
  UNION {{<<w.weekday, m>> : m \in w.startMinute .. w.endMinute - 1} : w \in {x \in windows : isValidWindow(x)}}

\* The time a student and a coach share is counted to the minute, however their windows overlap, nest or
\* touch: the minutes that lie in a window of either.
MinutesAreCounted ==
  "a" \in DOMAIN inquiry =>
    totalMinutes(intersectWindows(inquiry.a, inquiry.b)) = Cardinality(minutesOf(inquiry.a) \cap minutesOf(inquiry.b))

\* A card on which no sentence stands for an answer that is missing or a thing that does not fit, and which
\* carries the caveat if the two have no hour in common, or none of the coach's prices is within the budget.
honestCard(s, c, parts) ==
  /\ reasonsShown(parts) \cap {"noData", "similarClimb", "noPreference", "otherStyle", "noAvailability",
                               "noSharedHour", "otherGrade"} = {}
  /\ (s.availability # {} /\ minutesOf(s.availability) \cap minutesOf(c.availability) = {}) =>
       "hoursDoNotMeet" \in caveats(c, parts)
  /\ (s.maxMinor # Unset /\ \A p \in c.pricing : p.priceMinor > s.maxMinor) =>
       "overBudget" \in caveats(c, parts)

honestIfShown(s, c, parts) == isShown(s, c, parts) => honestCard(s, c, parts)

\* Whoever passes the query and the threshold is shown on an honest card: the dimensions, the weights, the
\* threshold of a sentence and the caveats fit together, whatever is unknown about either of the two.
MatchIsHonest ==
  "coach" \in DOMAIN inquiry =>
    honestIfShown(inquiry.student, inquiry.coach, dimensions(inquiry.student, inquiry.coach))
===============================================================================
