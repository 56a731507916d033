------------------------------ MODULE MCFrontOffice ------------------------------
(***************************************************************************)
(* Ten components that share no state, checked side by side: `scenario`    *)
(* says which of them takes its steps while the others rest in one of      *)
(* their initial states, so the state space is the disjoint union of       *)
(* theirs.  Where nobody asks, `inquiry` is empty.                         *)
(***************************************************************************)
EXTENDS MeetingInvites, MeetingRoom, Planner, Availability, OfferComposer, Onboarding, SignIn,
        Matching, Conversation, Reviews, TLC

VARIABLE scenario

-------------------------------------------------------------------------------
(* Values for the constants *)

\* Two neighbouring hours of a day and its last.
CellsDef == {Cell(1, 7), Cell(1, 8), Cell(1, 22)}

Standing(startsAt, endsAt, state, expiresAt) ==
  [startsAt |-> startsAt, endsAt |-> endsAt, state |-> state, expiresAt |-> expiresAt]

\* For a zone three hours east of Greenwich: a lesson at half past and a hold that lapses; the student's own hold.
TakenDef ==
  {{Standing(28, 30, "BOOKED", 0), Standing(43, 44, "HELD", 30)},
   {Standing(29, 30, "MINE", 40), Standing(43, 44, "HELD", 60)}}

PerPackage == [EXPLORATORY |-> 1, MONTHLY_4W |-> 2]

TextsDef == {{"circumvention_intent"}, {"payment_vocabulary", "iban_tr"}, {"circumvention_intent", "payment_vocabulary"}}

ProgramOfDef == "p1" :> "e1" @@ "p2" :> "e1" @@ "p3" :> "e2"

Window(day, start, end) == [weekday |-> day, startMinute |-> start, endMinute |-> end]
Windows ==
  {w \in {Window(1, s, e) : s \in 1436..1440, e \in 1437..1441} : w.endMinute - w.startMinute \in {0, 1, 2, 4}}
    \cup {Window(1, -1, 1), Window(2, 1, 3), Window(7, 1, 3)}
WindowPairsDef ==
  [a : kSubset(3, Windows),
   b : {{Window(1, 1430, 1440), Window(2, 2, 9)}, {Window(1, 1437, 1438), Window(1, 1438, 1441)}}]

LnDef == 500 :> 6215 @@ 1000 :> 6908 @@ 2000 :> 7601 @@ 5000 :> 8517 @@ 20000 :> 9903 @@ 50000 :> 10820
           @@ 100000 :> 11513 @@ 300000 :> 12612
DecayedDef == 0 :> 1000 @@ 30 :> 383
VolumeDef == 3 :> 455

StudentDef ==
  [track |-> "SAYISAL", ranking |-> 5000, baseNet |-> 40, preferredStyles |-> <<"STRICT", "STRATEGIC">>,
   availability |-> {Window(1, 600, 720)}, weeklyMinutes |-> 120, maxMinor |-> 100, cadence |-> "MONTHLY",
   gradeLevel |-> "GRADE_12"]
CoachDef ==
  [verificationStatus |-> "APPROVED", acceptingStudents |-> TRUE, tracks |-> {"SAYISAL"}, ownTrack |-> "SAYISAL",
   subjects |-> {"Fizik", "Kimya"}, baselineNet |-> 45, finalNet |-> 95, toRank |-> 5000, medianGain |-> 60,
   styles |-> {"STRICT"}, availability |-> {Window(1, 600, 720)},
   pricing |-> {[cadence |-> "MONTHLY", priceMinor |-> 90]}, supportedGrades |-> {"GRADE_12"}, wasMezun |-> TRUE,
   ratingAvg |-> 4800, ratingCount |-> 5, completedEngagements |-> 3, responseHours |-> 2,
   cancellationRate |-> 0, activeEngagements |-> 1, maxActiveStudents |-> 2]

\* The climbs a student needs against those a coach has made, each of them possibly unknown.
Climbs ==
  {[student |-> [StudentDef EXCEPT !.ranking = r, !.baseNet = b],
    coach |-> [CoachDef EXCEPT !.baselineNet = climb[1], !.finalNet = climb[2], !.toRank = t, !.medianGain = g]] :
     r \in {Unset, 500, 2000, 5000, 100000}, b \in {Unset, 40, 90},
     climb \in {<<Unset, Unset>>, <<45, Unset>>, <<45, 95>>, <<45, 47>>, <<95, 30>>},
     t \in {Unset, 1000, 100000}, g \in {Unset, 3, 60}}

\* Students and coaches who suit each other or not, dimension by dimension.
Monthly(price) == [cadence |-> "MONTHLY", priceMinor |-> price]
Fits ==
  {[student |-> [StudentDef EXCEPT !.preferredStyles = p, !.availability = a, !.maxMinor = m, !.gradeLevel = l],
    coach |-> [CoachDef EXCEPT !.styles = y, !.availability = {w}, !.pricing = q, !.supportedGrades = {g},
                               !.wasMezun = z, !.ratingCount = n, !.activeEngagements = n]] :
     p \in {<<>>, <<"STRICT", "STRATEGIC">>, <<"EMPATHETIC">>}, a \in {{}, {Window(1, 600, 720)}},
     m \in {Unset, 100}, l \in {"GRADE_12", "MEZUN"}, y \in {{"STRICT"}, {"EMPATHETIC", "STRATEGIC"}},
     w \in {Window(1, 600, 630), Window(1, 720, 800), Window(2, 600, 720)},
     q \in {{}, {Monthly(130)}, {Monthly(100), [cadence |-> "WEEKLY", priceMinor |-> 120]}},
     g \in {"GRADE_12", "MEZUN"}, z \in BOOLEAN, n \in {0, 2, 5}}
InquiriesDef == Climbs \cup Fits

ClaimSymmetry == Permutations(Claims)

\* A bound: while two claims overlap, and after two people have claimed one row, no page is open, and
\* there is one row at most.
ClaimsApart ==
  (raced # {} \/ \E k, l \in Claims : k # l /\ claim[k] # NoClaim /\ claim[l] # NoClaim)
    => (\A b \in Browsers : ~tab[b].open) /\ \E t \in Tokens : row[t].is = "unused"

\* A bound: of the two coaches one keeps her hours until the student has sent an offer.
OneCoachIsFree == \A h \in Hours24 : hour["cb"][h] = "AVAILABLE" \/ (hour["cb"][h] = "HELD" /\ sent # {})

\* A bound: of the two programs under review one is never disputed and has no lesson paid out.
OneIsQuiet == engagement["e2"].status # "DISPUTED" /\ ~engagement["e2"].happened

-------------------------------------------------------------------------------
(* The union *)

Scenarios == {"invites", "room", "planner", "availability", "composer", "onboarding", "sign-in",
              "matching", "conversation", "reviews"}

FrontOfficeInit ==
  /\ scenario \in Scenarios
  /\ IF scenario = "matching" THEN MatchingInit ELSE inquiry = <<>>
  /\ InvitesInit
  /\ \A b \in Lessons : booking[b].startsAt = 1
  /\ RoomInit
  /\ scenario # "room" => meetingState = "OPEN"
  /\ AvailabilityInit
  /\ scenario # "availability" => zone = 3 /\ clock = 21 /\ standing = CHOOSE s \in Taken : TRUE
  /\ ComposerInit
  /\ profilePage.coach = "ca" /\ account.profile
  /\ account.named = (scenario # "composer")
  /\ PlannerInit /\ OnboardingInit /\ SignInInit /\ ConversationInit /\ ReviewsInit

FrontOfficeNext ==
  /\ UNCHANGED <<scenario, inquiry>>
  /\ IF scenario = "invites" THEN InvitesNext ELSE UNCHANGED inviteVars
  /\ IF scenario = "room" THEN RoomNext ELSE UNCHANGED roomVars
  /\ IF scenario = "planner" THEN PlannerNext ELSE UNCHANGED plannerVars
  /\ IF scenario = "availability" THEN AvailabilityNext ELSE UNCHANGED availabilityVars
  /\ IF scenario = "composer" THEN ComposerNext ELSE UNCHANGED composerVars
  /\ IF scenario = "onboarding" THEN OnboardingNext ELSE UNCHANGED onboardingVars
  /\ IF scenario = "sign-in" THEN SignInNext ELSE UNCHANGED signInVars
  /\ IF scenario = "conversation" THEN ConversationNext ELSE UNCHANGED conversationVars
  /\ IF scenario = "reviews" THEN ReviewsNext ELSE UNCHANGED reviewsVars

mcvars == <<scenario, inquiry, inviteVars, roomVars, plannerVars, availabilityVars, composerVars,
            onboardingVars, signInVars, conversationVars, reviewsVars>>

FrontOfficeSpec == FrontOfficeInit /\ [][FrontOfficeNext]_mcvars
==============================================================================
