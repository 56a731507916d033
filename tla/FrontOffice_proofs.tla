-------------------------- MODULE FrontOffice_proofs --------------------------
(***************************************************************************)
(* The components on the students' side, each with the invariant that      *)
(* keeps its promise for any number of browsers, forms, calls and people:  *)
(* the meeting invites, the waiting screen of a video call, the offer      *)
(* composer, the claim of a guest's answers, the sign-in limiter, the      *)
(* moderation of messages, the reviews, the availability and its calendar, *)
(* and the study planner.                                                  *)
(***************************************************************************)
EXTENDS MeetingInvites, MeetingRoom, OfferComposer, Onboarding, SignIn, Conversation, Reviews,
        Availability, Planner, Sums

-------------------------------------------------------------------------------
(* Meeting invites *)

BookingRows == booking = [b \in Bookings |-> booking[b]]

closed(b) == booking[b].status \in {"COMPLETED", "CANCELLED"}

\* The write of a booking looks at the row again; a booking not there yet is not closed either.
LEMMA ClosedStays ==
  ASSUME BookingRows, [InvitesNext]_inviteVars
  PROVE  BookingRows' /\ \A b \in Bookings : closed(b) => booking'[b] = booking[b]
  <1>1. ASSUME NEW r \in Requests, AcceptInvite(r)
        PROVE  BookingRows' /\ \A b \in Bookings : closed(b) => booking'[b] = booking[b]
    <2>1. CASE UNCHANGED booking
      BY <2>1 DEF BookingRows
    <2>2. CASE booking' # booking
      <3>1. PICK i : \E b \in target(i) : booking' = [booking EXCEPT ![b] = [status |-> "SCHEDULED", startsAt |-> invite[i].startsAt]]
        BY <1>1, <2>2 DEF AcceptInvite
      <3>2. PICK b \in target(i) : booking' = [booking EXCEPT ![b] = [status |-> "SCHEDULED", startsAt |-> invite[i].startsAt]]
        BY <3>1
      <3>3. booking[b].status \in {"none", "SCHEDULED"}
        BY <3>2 DEF target, movable
      <3> QED BY <3>2, <3>3 DEF BookingRows, closed
    <2> QED BY <2>1, <2>2
  <1>2. ASSUME NEW b \in Lessons, CompleteLesson(b)
        PROVE  BookingRows' /\ \A x \in Bookings : closed(x) => booking'[x] = booking[x]
    BY <1>2 DEF CompleteLesson, BookingRows, closed
  <1>3. CASE RefundProgram
    BY <1>3 DEF RefundProgram, BookingRows, closed
  <1>4. CASE UNCHANGED booking
    BY <1>4 DEF BookingRows
  <1> QED BY <1>1, <1>2, <1>3, <1>4
          DEF InvitesNext, inviteVars, ReadProgram, ReadInvite, ReadOwnInvite, CreateInvite, ExpireInvite,
              DeclineInvite, CancelInvite, WriteStatus, ExpireInvites, TimePasses

\* A lesson that was paid out or cancelled is never moved and never comes back, although the answer to an
\* invite is checked in one step and written in another.
THEOREM LessonsStayClosed == InvitesSpec => ClosedLessonStaysPut
  <1>1. InvitesInit => BookingRows
    BY DEF InvitesInit, BookingRows
  <1>2. BookingRows /\ [InvitesNext]_inviteVars => BookingRows'
    BY ClosedStays
  <1>3. BookingRows /\ [InvitesNext]_inviteVars =>
          [\A b \in Bookings : booking[b].status \in {"COMPLETED", "CANCELLED"} => booking'[b] = booking[b]]_inviteVars
    BY ClosedStays DEF closed
  <1> QED BY <1>1, <1>2, <1>3, PTL DEF InvitesSpec, ClosedLessonStaysPut

-------------------------------------------------------------------------------
(* The waiting screen *)

RoomTypes ==
  /\ screen \in [phase : Phase, busy : BOOLEAN, counterpartIn : BOOLEAN, counterpartInCall : BOOLEAN]
  /\ knownAbsent \in 0..PRESENCE_LAG /\ lagging \in 0..PRESENCE_LAG
  /\ presencePoll \in {"none", "asked", "present", "absent"}
  /\ there \in BOOLEAN /\ seenGone \in BOOLEAN

\* Once the page has seen the other party gone, it distrusts the endpoint for longer than that lags.
Distrust == seenGone =>
  /\ ~there /\ ~screen.counterpartIn
  /\ lagging <= knownAbsent
  /\ presencePoll = "present" => knownAbsent > 0

RoomInv == RoomTypes /\ Distrust

LEMMA Lag == PRESENCE_LAG \in Nat \ {0} /\ 0 \in 0..PRESENCE_LAG /\ PRESENCE_LAG \in 0..PRESENCE_LAG
  BY RoomAssumption

LEMMA RoomInductive == RoomInv /\ [RoomNext]_roomVars => RoomInv'
  <1> SUFFICES ASSUME RoomInv, [RoomNext]_roomVars PROVE RoomInv'
    OBVIOUS
  <1> USE Lag DEF RoomInv, RoomTypes, Distrust, Phase
  <1>1. CASE StartPoll
    BY <1>1 DEF StartPoll
  <1>2. CASE AnswerPoll
    <2>1. PICK present \in meetingPresence : presencePoll' = IF present THEN "present" ELSE "absent"
      BY <1>2 DEF AnswerPoll
    <2>2. present => there \/ lagging > 0
      BY <2>1 DEF meetingPresence
    <2>3. presencePoll' \in {"present", "absent"} /\ (presencePoll' = "present" => there \/ lagging > 0)
      BY <2>1, <2>2
    <2>4. UNCHANGED <<screen, knownAbsent, there, lagging, seenGone>>
      BY <1>2 DEF AnswerPoll
    <2> QED BY <2>3, <2>4
  <1>3. CASE ShowPoll
    <2>1. PICK shown \in BOOLEAN : screen' = [screen EXCEPT !.counterpartIn = shown] /\ (shown => knownAbsent = 0 /\ presencePoll = "present")
      <3>1. CASE notRefuted
        <4>1. notRefuted = TRUE
          BY <3>1
        <4> QED BY <1>3, <3>1, <4>1 DEF ShowPoll, notRefuted
      <3>2. CASE ~notRefuted
        <4>1. notRefuted = FALSE
          BY <3>2
        <4>2. screen' = [screen EXCEPT !.counterpartIn = FALSE]
          BY <1>3, <4>1 DEF ShowPoll
        <4> QED BY <4>2
      <3> QED BY <3>1, <3>2
    <2>2. presencePoll' = "none" /\ UNCHANGED <<knownAbsent, there, lagging, seenGone>>
      BY <1>3 DEF ShowPoll
    <2> QED BY <2>1, <2>2
  <1>4. ASSUME NEW j \in Joins, PressJoin(j) PROVE RoomInv'
    BY <1>4 DEF PressJoin, Show, pollUnder
  <1>5. ASSUME NEW j \in Joins, NEW ok \in BOOLEAN, AnswerJoin(j, ok) PROVE RoomInv'
    BY <1>5 DEF AnswerJoin, Show, pollUnder
  <1>6. ASSUME NEW j \in Joins, Connect(j) PROVE RoomInv'
    BY <1>6 DEF Connect, Show, pollUnder
  <1>7. ASSUME NEW j \in Joins, UnsupportedBrowser(j) PROVE RoomInv'
    BY <1>7 DEF UnsupportedBrowser, Show, pollUnder
  <1>8. CASE Joined
    <2>1. presencePoll' = "none"
      BY <1>8 DEF Joined, Show, pollUnder, counted, live
    <2>2. screen' \in [phase : Phase, busy : BOOLEAN, counterpartIn : BOOLEAN, counterpartInCall : BOOLEAN]
           /\ screen'.counterpartIn = there
      BY <1>8 DEF Joined, Show, counted
    <2>3. /\ knownAbsent' = IF there THEN knownAbsent ELSE PRESENCE_LAG
          /\ seenGone' = ~there /\ there' = there /\ lagging' = lagging
      BY <1>8 DEF Joined, absentAfter
    <2>4. CASE there
      BY <2>1, <2>2, <2>3, <2>4
    <2>5. CASE ~there
      BY <2>1, <2>2, <2>3, <2>5
    <2> QED BY <2>4, <2>5
  <1>9. CASE OtherComesOrGoes
    <2>1. /\ there' = ~there /\ lagging' = IF there THEN PRESENCE_LAG ELSE 0
          /\ there => lagging = 0
      BY <1>9 DEF OtherComesOrGoes
    <2>2. CASE frame = "joined"
      <3>1. /\ screen' = [screen EXCEPT !.counterpartIn = ~there, !.counterpartInCall = ~there]
            /\ presencePoll' \in {"none", presencePoll}
            /\ knownAbsent' = IF there THEN PRESENCE_LAG ELSE knownAbsent
            /\ seenGone' = there
        BY <1>9, <2>2 DEF OtherComesOrGoes, Show, pollUnder, counted, absentAfter
      <3>2. CASE there
        <4>1. screen' = [screen EXCEPT !.counterpartIn = FALSE, !.counterpartInCall = FALSE]
          BY <3>1, <3>2
        <4>2. ~there' /\ seenGone' /\ knownAbsent' = PRESENCE_LAG /\ lagging' = PRESENCE_LAG
          BY <2>1, <3>1, <3>2
        <4>3. there' \in BOOLEAN /\ seenGone' \in BOOLEAN
          BY <2>1, <3>1
        <4>4. RoomTypes'
          BY <3>1, <4>1, <4>2, <4>3
        <4> QED BY <4>1, <4>2, <4>4
      <3>3. CASE ~there
        <4>1. screen' = [screen EXCEPT !.counterpartIn = TRUE, !.counterpartInCall = TRUE]
          BY <3>1, <3>3
        <4>2. there' /\ ~seenGone' /\ knownAbsent' = knownAbsent /\ lagging' = 0
          BY <2>1, <3>1, <3>3
        <4>3. there' \in BOOLEAN /\ seenGone' \in BOOLEAN
          BY <2>1, <3>1
        <4>4. RoomTypes'
          BY <3>1, <4>1, <4>2, <4>3
        <4> QED BY <4>1, <4>2, <4>4
      <3> QED BY <3>2, <3>3
    <2>3. CASE frame # "joined"
      <3>1. UNCHANGED <<screen, presencePoll, knownAbsent>> /\ seenGone' = (there /\ seenGone)
        BY <1>9, <2>3 DEF OtherComesOrGoes
      <3>2. ~seenGone' /\ seenGone' \in BOOLEAN /\ there' \in BOOLEAN /\ lagging' \in 0..PRESENCE_LAG
        BY <2>1, <3>1
      <3> QED BY <3>1, <3>2
    <2> QED BY <2>2, <2>3
  <1>10. CASE Left
    <2>1. /\ knownAbsent' \in {knownAbsent, PRESENCE_LAG}
          /\ presencePoll' \in {"none", presencePoll}
          /\ UNCHANGED <<there, lagging, seenGone>>
      BY <1>10 DEF Left, Show, pollUnder
    <2>2. PICK phase \in Phase : screen' = [screen EXCEPT !.counterpartIn = FALSE, !.phase = phase]
      BY <1>10 DEF Left, Show
    <2>3. CASE knownAbsent' = knownAbsent
      BY <2>1, <2>2, <2>3
    <2>4. CASE knownAbsent' = PRESENCE_LAG
      <3>1. RoomTypes'
        BY <2>1, <2>2, <2>4
      <3>2. Distrust'
        BY <2>1, <2>2, <2>4
      <3> QED BY <3>1, <3>2
    <2> QED BY <2>1, <2>3, <2>4
  <1>11. CASE CallFails
    BY <1>11 DEF CallFails, Show, pollUnder
  <1>12. CASE Tick15s
    BY <1>12 DEF Tick15s, Less
  <1>13. CASE UNCHANGED roomVars
    BY <1>13 DEF roomVars
  <1> QED BY <1>1, <1>2, <1>3, <1>4, <1>5, <1>6, <1>7, <1>8, <1>9, <1>10, <1>11, <1>12, <1>13 DEF RoomNext

\* The page does not say that the other party is waiting when it has seen the room without them and
\* they have not been back, for every length of the presence endpoint's lag.
THEOREM NobodyIsMadeUp == RoomSpec => []NoStaleWelcome
  <1>1. RoomInit => RoomInv
    <2> SUFFICES ASSUME RoomInit PROVE RoomInv
      OBVIOUS
    <2>1. screen \in [phase : Phase, busy : BOOLEAN, counterpartIn : BOOLEAN, counterpartInCall : BOOLEAN]
      BY DEF RoomInit, Phase
    <2>2. knownAbsent = 0 /\ lagging = 0 /\ presencePoll = "none" /\ there = FALSE /\ seenGone = FALSE
      BY DEF RoomInit
    <2>3. there \in BOOLEAN /\ seenGone \in BOOLEAN /\ ~seenGone
      BY <2>2
    <2> QED BY <2>1, <2>2, <2>3, Lag DEF RoomInv, RoomTypes, Distrust
  <1>2. RoomInv => NoStaleWelcome
    BY DEF RoomInv, Distrust, NoStaleWelcome, saysWaiting
  <1> QED BY <1>1, <1>2, RoomInductive, PTL DEF RoomSpec

-------------------------------------------------------------------------------
(* The claim of a guest's answers *)

OnbRow(x) == x = [is |-> x.is, answers |-> x.answers, claimedBy |-> x.claimedBy]
Profile(x) == x = [exists |-> x.exists, answers |-> x.answers, source |-> x.source]

ClaimState(c) ==
  /\ c = [user |-> c.user, source |-> c.source, answers |-> c.answers, had |-> c.had]
  /\ c.user \in People \cup {Nobody}
  /\ c.user \in People => c.source \in Tokens
  /\ c.user = Nobody => c = NoClaim

ClaimTypes ==
  /\ jar \in [Browsers -> Tokens \cup {Nobody}] /\ signedIn \in [Browsers -> People \cup {Nobody}]
  /\ row = [t \in Tokens |-> row[t]] /\ \A t \in Tokens : OnbRow(row[t])
  /\ profile = [u \in People |-> profile[u]] /\ \A u \in People : Profile(profile[u])
  /\ claim = [k \in Claims |-> claim[k]] /\ \A k \in Claims : ClaimState(claim[k])

\* The row a profile was made of names its owner for as long as it can be claimed.
Owned == \A u \in People : profile[u].exists =>
  /\ profile[u].source \in Tokens
  /\ row[profile[u].source].is # "unused"
  /\ row[profile[u].source].is # "purged" =>
       row[profile[u].source].claimedBy = u \/ profile[u].source \in raced

\* Who is still to write to a row found it unclaimed or their own, and is alone with it if nobody raced.
ClaimsHold == \A k \in Claims : claim[k].user \in People =>
  LET t == claim[k].source IN
  /\ row[t].is # "unused"
  /\ t \notin raced =>
       /\ row[t].is # "purged" => row[t].claimedBy \in {Nobody, claim[k].user}
       /\ \A l \in Claims : claim[l].user \in People /\ claim[l].source = t => claim[l].user = claim[k].user

ClaimInv == ClaimTypes /\ Owned /\ ClaimsHold /\ OneOwner

\* What a step that makes no profile may do to a row.
RowKeepsOwner(t) ==
  \/ row'[t].is # "unused" /\ row'[t].claimedBy = row[t].claimedBy /\ row[t].is # "purged"
  \/ row'[t].is = "purged" /\ row[t].is # "unused"
  \/ row[t].is = "unused"

LEMMA OwnersKept ==
  ASSUME ClaimInv, UNCHANGED <<profile, claims>>, ClaimTypes',
         \A t \in Tokens : row'[t] = row[t] \/ RowKeepsOwner(t)
  PROVE  ClaimInv'
  <1>1. claim' = claim /\ raced' = raced /\ profile' = profile
    BY DEF claims
  <1>2. Owned' /\ OneOwner'
    BY <1>1 DEF ClaimInv, ClaimTypes, Owned, OneOwner, RowKeepsOwner
  <1>3. ClaimsHold'
    <2> SUFFICES ASSUME NEW k \in Claims, claim[k].user \in People, NEW t \in Tokens, t = claim[k].source
                 PROVE  /\ row'[t].is # "unused"
                        /\ t \notin raced =>
                             /\ row'[t].is # "purged" => row'[t].claimedBy \in {Nobody, claim[k].user}
                             /\ \A l \in Claims : claim[l].user \in People /\ claim[l].source = t
                                  => claim[l].user = claim[k].user
      BY <1>1 DEF ClaimsHold, ClaimInv, ClaimTypes, ClaimState
    <2> QED BY DEF ClaimInv, ClaimsHold, RowKeepsOwner
  <1> QED BY <1>2, <1>3 DEF ClaimInv

\* A claim that reads a row which another person's claim has read makes the row raced.
LEMMA ReadsKept ==
  ASSUME ClaimInv, NEW k \in Claims, NEW b \in Browsers, NEW u \in People, NEW t \in Tokens,
         t = jar[b], claimable(t, u), claim[k] = NoClaim, Read(k, b, u), UNCHANGED <<jar, row, profile>>,
         signedIn' \in [Browsers -> People \cup {Nobody}]
  PROVE  ClaimInv'
  <1>1. PICK c : /\ c = [user |-> u, source |-> t, answers |-> row[t].answers, had |-> profile[u].exists]
                 /\ claim' = [claim EXCEPT ![k] = c]
    BY DEF Read
  <1>2. claim'[k] = c /\ \A l \in Claims : l # k => claim'[l] = claim[l]
    BY <1>1 DEF ClaimInv, ClaimTypes
  <1>3. claim' = [l \in Claims |-> claim'[l]]
    BY <1>1 DEF ClaimInv, ClaimTypes
  <1>4. ClaimState(c) /\ c.user = u /\ c.source = t /\ u # Nobody
    BY <1>1, OnboardingAssumption DEF ClaimState
  <1>5. ClaimTypes'
    BY <1>2, <1>3, <1>4 DEF ClaimInv, ClaimTypes
  <1>6. raced \subseteq raced' /\ raced' \subseteq raced \cup {t}
    BY DEF Read
  <1>7. Owned' /\ OneOwner'
    BY <1>6 DEF ClaimInv, Owned, OneOwner
  <1>8. row[t].is = "kept" /\ row[t].claimedBy \in {Nobody, u}
    BY DEF claimable
  <1>9. t \notin raced' => \A l \in Claims : claim[l].source = t => claim[l].user = u
    BY DEF Read, race
  <1>10. ClaimsHold'
    <2> SUFFICES ASSUME NEW l \in Claims, claim'[l].user \in People, NEW x, x = claim'[l].source
                 PROVE  /\ row[x].is # "unused"
                        /\ x \notin raced' =>
                             /\ row[x].is # "purged" => row[x].claimedBy \in {Nobody, claim'[l].user}
                             /\ \A j \in Claims : claim'[j].user \in People /\ claim'[j].source = x
                                  => claim'[j].user = claim'[l].user
      BY DEF ClaimsHold
    <2>1. CASE x = t
      <3>1. ASSUME t \notin raced' PROVE \A j \in Claims : claim'[j].source = t => claim'[j].user = u
        BY <1>2, <1>4, <1>9, <3>1
      <3> QED BY <1>8, <2>1, <3>1
    <2>2. CASE x # t
      <3>1. l # k /\ claim'[l] = claim[l] /\ claim[l].user \in People /\ x = claim[l].source
        BY <1>2, <1>4, <2>2
      <3>2. \A j \in Claims : claim'[j].source = x => claim'[j] = claim[j]
        BY <1>2, <1>4, <2>2
      <3> QED BY <1>6, <3>1, <3>2 DEF ClaimInv, ClaimsHold
    <2> QED BY <2>1, <2>2
  <1> QED BY <1>5, <1>7, <1>10 DEF ClaimInv

\* A claim that ends takes itself out of the race.
LEMMA NoClaimIsNobodys == ClaimState(NoClaim) /\ NoClaim.user \notin People
  BY OnboardingAssumption DEF ClaimState, NoClaim

LEMMA ClaimsKept ==
  ASSUME ClaimInv, NEW k \in Claims, claimOnboardingSession(k)
  PROVE  ClaimInv'
  <1>1. PICK c : c = claim[k] /\ c # NoClaim
    BY DEF claimOnboardingSession
  <1>2. PICK u \in People, t \in Tokens : u = c.user /\ t = c.source
    BY <1>1 DEF ClaimInv, ClaimTypes, ClaimState
  <1>3. /\ claim' = [claim EXCEPT ![k] = NoClaim]
        /\ UNCHANGED <<jar, signedIn, raced>>
    BY DEF claimOnboardingSession
  <1>4. /\ claim' = [l \in Claims |-> claim'[l]] /\ claim'[k] = NoClaim
        /\ \A l \in Claims : l # k => claim'[l] = claim[l]
    BY <1>3 DEF ClaimInv, ClaimTypes
  <1>5. \A l \in Claims : claim'[l].user \in People => claim'[l] = claim[l] /\ l # k
    BY <1>4, NoClaimIsNobodys
  <1>6. \A l \in Claims : ClaimState(claim'[l])
    BY <1>4, NoClaimIsNobodys DEF ClaimInv, ClaimTypes
  <1>7. CASE writesFail(c)
    <2>1. UNCHANGED <<row, profile>>
      BY <1>1, <1>7 DEF claimOnboardingSession
    <2>2. ClaimTypes'
      BY <1>3, <1>4, <1>6, <2>1 DEF ClaimInv, ClaimTypes
    <2>3. ClaimsHold'
      BY <1>3, <1>5, <2>1 DEF ClaimInv, ClaimsHold
    <2> QED BY <1>3, <2>1, <2>2, <2>3 DEF ClaimInv, Owned, OneOwner
  <1>8. CASE ~writesFail(c)
    <2>1. /\ row' = [row EXCEPT ![t].claimedBy = u]
          /\ profile' = IF c.had THEN profile
               ELSE [profile EXCEPT ![u] = [exists |-> TRUE, answers |-> c.answers, source |-> t]]
      BY <1>1, <1>2, <1>8 DEF claimOnboardingSession
    <2>2. row[t].is # "purged" /\ row[t].is # "unused"
      BY <1>1, <1>2, <1>8 DEF writesFail, ClaimInv, ClaimsHold
    <2>3. row' = [x \in Tokens |-> row'[x]] /\ \A x \in Tokens : x # t => row'[x] = row[x]
      BY <2>1 DEF ClaimInv, ClaimTypes
    <2>4. row'[t] = [row[t] EXCEPT !.claimedBy = u]
      BY <2>1 DEF ClaimInv, ClaimTypes
    <2>5. row'[t].is = row[t].is /\ row'[t].claimedBy = u /\ OnbRow(row'[t])
      BY <2>1, <2>4 DEF ClaimInv, ClaimTypes, OnbRow
    <2>6. profile' = [w \in People |-> profile'[w]] /\ \A w \in People : w # u => profile'[w] = profile[w]
      BY <2>1 DEF ClaimInv, ClaimTypes
    <2>7. \/ profile'[u] = profile[u]
          \/ profile'[u] = [exists |-> TRUE, answers |-> c.answers, source |-> t]
      BY <2>1 DEF ClaimInv, ClaimTypes
    <2>8. Profile(profile'[u])
      BY <2>7 DEF ClaimInv, ClaimTypes, Profile
    <2>9. ClaimTypes'
      BY <1>3, <1>4, <1>6, <2>3, <2>5, <2>6, <2>8 DEF ClaimInv, ClaimTypes
    <2>10. t \notin raced => \A w \in People : w # u /\ profile[w].exists => profile[w].source # t
      <3>1. t \notin raced => row[t].claimedBy \in {Nobody, u}
        BY <1>1, <1>2, <2>2 DEF ClaimInv, ClaimsHold
      <3> QED BY <2>2, <3>1, OnboardingAssumption DEF ClaimInv, Owned
    <2>11. Owned'
      <3> SUFFICES ASSUME NEW w \in People, profile'[w].exists, NEW x, x = profile'[w].source
                   PROVE  /\ x \in Tokens /\ row'[x].is # "unused"
                          /\ row'[x].is # "purged" => row'[x].claimedBy = w \/ x \in raced'
        BY DEF Owned
      <3>1. CASE w # u
        BY <1>3, <2>2, <2>3, <2>5, <2>6, <2>10, <3>1 DEF ClaimInv, Owned
      <3>2. CASE w = u /\ profile'[u] = profile[u]
        BY <1>3, <2>2, <2>3, <2>5, <3>2 DEF ClaimInv, Owned
      <3>3. CASE w = u /\ profile'[u] = [exists |-> TRUE, answers |-> c.answers, source |-> t]
        BY <2>2, <2>5, <3>3
      <3> QED BY <2>7, <3>1, <3>2, <3>3
    <2>12. OneOwner'
      <3> SUFFICES ASSUME NEW v \in People, NEW w \in People, v # w, profile'[v].exists, profile'[w].exists,
                          profile'[v].source = profile'[w].source
                   PROVE  profile'[v].source \in raced
        BY <1>3 DEF OneOwner
      <3>1. CASE profile'[u] = profile[u]
        BY <2>6, <3>1 DEF ClaimInv, OneOwner
      <3>2. CASE profile'[u] = [exists |-> TRUE, answers |-> c.answers, source |-> t]
        BY <2>6, <2>10, <3>2 DEF ClaimInv, OneOwner
      <3> QED BY <2>7, <3>1, <3>2
    <2>13. ClaimsHold'
      <3> SUFFICES ASSUME NEW l \in Claims, claim[l].user \in People, l # k, NEW x, x = claim[l].source
                   PROVE  /\ row'[x].is # "unused"
                          /\ x \notin raced =>
                               /\ row'[x].is # "purged" => row'[x].claimedBy \in {Nobody, claim[l].user}
                               /\ \A j \in Claims : claim[j].user \in People /\ claim[j].source = x
                                    => claim[j].user = claim[l].user
        BY <1>3, <1>5 DEF ClaimsHold
      <3>1. x \in Tokens
        BY DEF ClaimInv, ClaimTypes, ClaimState
      <3>2. CASE x = t
        <4>1. t \notin raced => claim[l].user = u
          BY <1>1, <1>2, <3>2 DEF ClaimInv, ClaimsHold
        <4> QED BY <2>2, <2>5, <3>2, <4>1 DEF ClaimInv, ClaimsHold
      <3>3. CASE x # t
        BY <2>3, <3>1, <3>3 DEF ClaimInv, ClaimsHold
      <3> QED BY <3>2, <3>3
    <2> QED BY <2>9, <2>11, <2>12, <2>13 DEF ClaimInv
  <1> QED BY <1>7, <1>8

LEMMA SavesKept ==
  ASSUME ClaimInv, NEW b \in Browsers, upsertOnboardingSession(b), UNCHANGED <<signedIn, profile, claims>>
  PROVE  ClaimInv'
  <1>1. CASE jar[b] # Nobody /\ row[jar[b]].is \in {"kept", "expired"}
    <2>1. PICK t \in Tokens : t = jar[b]
      BY <1>1 DEF ClaimInv, ClaimTypes
    <2>2. PICK a : row' = [row EXCEPT ![t].is = "kept", ![t].answers = a] /\ jar' = jar
      BY <1>1, <2>1 DEF upsertOnboardingSession
    <2>3. row' = [x \in Tokens |-> row'[x]] /\ \A x \in Tokens : x # t => row'[x] = row[x]
      BY <2>2 DEF ClaimInv, ClaimTypes
    <2>4. row'[t] = [[row[t] EXCEPT !.is = "kept"] EXCEPT !.answers = a]
      BY <2>2 DEF ClaimInv, ClaimTypes
    <2>5. OnbRow(row'[t]) /\ row'[t].is = "kept" /\ row'[t].claimedBy = row[t].claimedBy
      BY <2>4 DEF ClaimInv, ClaimTypes, OnbRow
    <2>6. ClaimTypes'
      BY <2>2, <2>3, <2>5 DEF ClaimInv, ClaimTypes, claims
    <2>7. RowKeepsOwner(t)
      BY <1>1, <2>1, <2>5 DEF RowKeepsOwner
    <2> QED BY <2>3, <2>6, <2>7, OwnersKept
  <1>2. CASE ~(jar[b] # Nobody /\ row[jar[b]].is \in {"kept", "expired"})
    <2>1. \E t \in Tokens : /\ row[t].is = "unused"
                          /\ \E x : OnbRow(x) /\ row' = [row EXCEPT ![t] = x]
                          /\ jar' = [jar EXCEPT ![b] = t]
      BY <1>2 DEF upsertOnboardingSession, OnbRow
    <2>2. PICK t \in Tokens : /\ row[t].is = "unused"
                             /\ \E x : OnbRow(x) /\ row' = [row EXCEPT ![t] = x]
                             /\ jar' = [jar EXCEPT ![b] = t]
      BY <2>1
    <2>3. PICK x : OnbRow(x) /\ row' = [row EXCEPT ![t] = x]
      BY <2>2
    <2>4. ClaimTypes'
      BY <2>2, <2>3 DEF ClaimInv, ClaimTypes, claims
    <2>5. \A y \in Tokens : row'[y] = row[y] \/ RowKeepsOwner(y)
      BY <2>2, <2>3 DEF ClaimInv, ClaimTypes, RowKeepsOwner
    <2> QED BY <2>4, <2>5, OwnersKept
  <1> QED BY <1>1, <1>2

LEMMA ClaimInductive == ClaimInv /\ [OnboardingNext]_onboardingVars => ClaimInv'
  <1> SUFFICES ASSUME ClaimInv, [OnboardingNext]_onboardingVars PROVE ClaimInv'
    OBVIOUS
  <1>1. CASE UNCHANGED <<jar, signedIn, row, profile, claims>>
    BY <1>1, OwnersKept DEF ClaimInv, ClaimTypes, claims
  <1>2. ASSUME NEW b \in Browsers, NEW arrives \in BOOLEAN, NEW answered \in BOOLEAN,
               saveOnboardingStep(b, arrives, answered)
        PROVE  ClaimInv'
    BY <1>1, <1>2, SavesKept DEF saveOnboardingStep
  <1>3. ASSUME NEW k \in Claims, NEW b \in Browsers, NEW u \in People, OpenLink(k, b, u) PROVE ClaimInv'
    <2>1. jar[b] \in Tokens \cup {Nobody} /\ signedIn' \in [Browsers -> People \cup {Nobody}]
      BY <1>3 DEF OpenLink, ClaimInv, ClaimTypes
    <2>2. claim[k] = NoClaim /\ UNCHANGED <<jar, row, profile>>
      BY <1>3 DEF OpenLink
    <2>3. CASE jar[b] # Nobody /\ claimable(jar[b], u)
      <3>1. Read(k, b, u)
        BY <1>3, <2>3 DEF OpenLink
      <3> QED BY <2>1, <2>2, <2>3, <3>1, ReadsKept
    <2>4. CASE ~(jar[b] # Nobody /\ claimable(jar[b], u))
      <3>1. UNCHANGED claims
        BY <1>3, <2>4 DEF OpenLink
      <3>2. ClaimTypes'
        BY <2>1, <2>2, <3>1 DEF ClaimInv, ClaimTypes, claims
      <3> QED BY <2>2, <3>1, <3>2, OwnersKept
    <2> QED BY <2>3, <2>4
  <1>4. ASSUME NEW k \in Claims, NEW b \in Browsers, claimOnboardingSessionFromCookie(k, b) PROVE ClaimInv'
    <2>1. jar[b] \in Tokens /\ signedIn[b] \in People /\ signedIn' \in [Browsers -> People \cup {Nobody}]
      BY <1>4 DEF claimOnboardingSessionFromCookie, ClaimInv, ClaimTypes
    <2> QED BY <1>4, <2>1, ReadsKept DEF claimOnboardingSessionFromCookie
  <1>10. ASSUME NEW k \in Claims, claimOnboardingSession(k) PROVE ClaimInv'
    BY <1>10, ClaimsKept
  <1>5. ASSUME NEW b \in Browsers, signOut(b) PROVE ClaimInv'
    <2>1. ClaimTypes' /\ UNCHANGED <<row, profile, claims>>
      BY <1>5 DEF signOut, ClaimInv, ClaimTypes, claims
    <2> QED BY <2>1, OwnersKept
  <1>6. ASSUME NEW t \in Tokens, Expire(t) \/ purgeExpiredOnboardingSessions(t) PROVE ClaimInv'
    <2>1. UNCHANGED <<jar, signedIn, profile, claims>> /\ row[t].is \in {"kept", "expired"}
      BY <1>6 DEF Expire, purgeExpiredOnboardingSessions
    <2>2. PICK x : row' = [row EXCEPT ![t] = x] /\ OnbRow(x)
                   /\ (x.is = "purged" \/ (x.is = "expired" /\ x.claimedBy = row[t].claimedBy))
      <3>1. CASE Expire(t)
        <4>1. row' = [row EXCEPT ![t] = [row[t] EXCEPT !.is = "expired"]]
          BY <3>1 DEF Expire, ClaimInv, ClaimTypes
        <4>2. PICK x : x = [row[t] EXCEPT !.is = "expired"]
          OBVIOUS
        <4>3. OnbRow(x) /\ x.is = "expired" /\ x.claimedBy = row[t].claimedBy
          BY <4>2 DEF ClaimInv, ClaimTypes, OnbRow
        <4> QED BY <4>1, <4>2, <4>3
      <3>2. CASE purgeExpiredOnboardingSessions(t)
        <4>1. PICK x : x = [NoRow EXCEPT !.is = "purged"]
          OBVIOUS
        <4>2. OnbRow(x) /\ x.is = "purged"
          BY <4>1 DEF OnbRow, NoRow
        <4> QED BY <3>2, <4>1, <4>2 DEF purgeExpiredOnboardingSessions
      <3> QED BY <1>6, <3>1, <3>2
    <2>3. ClaimTypes'
      BY <2>1, <2>2 DEF ClaimInv, ClaimTypes, claims
    <2>4. \A y \in Tokens : row'[y] = row[y] \/ RowKeepsOwner(y)
      BY <2>1, <2>2 DEF ClaimInv, ClaimTypes, RowKeepsOwner
    <2> QED BY <2>1, <2>3, <2>4, OwnersKept
  <1>7. ASSUME NEW b \in Browsers,
               Mount(b) \/ CloseTab(b) \/ advance(b) \/ \E f \in Fields, v \in Answers : update(b, f, v)
        PROVE  ClaimInv'
    <2>1. UNCHANGED <<jar, signedIn, row, profile, claims>>
      BY <1>7 DEF Mount, CloseTab, advance, update
    <2> QED BY <1>1, <2>1
  <1>8. ASSUME NEW u \in People, requestSignInLink(u) PROVE ClaimInv'
    BY <1>1, <1>8 DEF requestSignInLink
  <1>9. CASE UNCHANGED onboardingVars
    BY <1>1, <1>9 DEF onboardingVars
  <1> QED BY <1>2, <1>3, <1>4, <1>5, <1>6, <1>7, <1>8, <1>9, <1>10 DEF OnboardingNext

\* For any number of browsers that people share, of sign-ins and of claims that overlap: the answers of
\* one guest make the profiles of two people only if both had claims under way on the row at one time;
\* a claim that reads after the other has written gets nothing (claimOnboardingSession, which locks
\* nothing between the two).
THEOREM AnswersHaveOneOwner == OnboardingSpec => []OneOwner
  <1>1. OnboardingInit => ClaimInv
    <2> SUFFICES ASSUME OnboardingInit PROVE ClaimInv
      OBVIOUS
    <2>1. OnbRow(NoRow) /\ Profile(NoProfile) /\ NoProfile.exists = FALSE
      BY DEF OnbRow, Profile, NoRow, NoProfile
    <2>5. claim = [k \in Claims |-> claim[k]] /\ \A k \in Claims : ClaimState(claim[k]) /\ claim[k].user \notin People
      BY NoClaimIsNobodys DEF OnboardingInit
    <2>2. \A t \in Tokens : row[t] = NoRow
      BY DEF OnboardingInit
    <2>3. \A u \in People : profile[u] = NoProfile
      BY DEF OnboardingInit
    <2>4. ClaimTypes
      BY <2>1, <2>2, <2>3, <2>5 DEF OnboardingInit, ClaimTypes
    <2> QED BY <2>1, <2>3, <2>4, <2>5 DEF ClaimInv, ClaimsHold, Owned, OneOwner
  <1>2. ClaimInv => OneOwner
    BY DEF ClaimInv
  <1> QED BY <1>1, <1>2, ClaimInductive, PTL DEF OnboardingSpec

-------------------------------------------------------------------------------
(* The sign-in limiter *)

EmailsOrNone == Emails \cup {NoEmail}

FormState == [email : EmailsOrNone, confirmedAsIs : EmailsOrNone, sentTo : EmailsOrNone,
              cooldown : Nat, failed : BOOLEAN]

SignInTypes ==
  /\ form \in [Forms -> FormState]
  /\ linkRequest \in [Forms -> [at : {"none", "ip", "check", "email", "deliver"}, email : EmailsOrNone]]
  /\ \A f \in Forms : linkRequest[f].at # "none" => linkRequest[f].email \in Emails
  /\ counter \in [Keys -> [hits : Nat, ttl : Nat]] /\ age \in [Keys -> Nat]

\* A key has an end from the first PEXPIRE that took effect on it, one window later, and no other.
EndsOnce(k) ==
  \/ age[k] = 0 /\ counter[k].ttl = 0
  \/ age[k] > 0 /\ counter[k].ttl > 0 /\ counter[k].ttl + age[k] = WINDOW + 1

LimiterInv == SignInTypes /\ \A k \in Keys : EndsOnce(k)

LEMMA AsksKept ==
  ASSUME LimiterInv, NEW f \in Forms, NEW e \in Emails, NEW g \in FormState, requestLink(f, e, g)
  PROVE  LimiterInv'
  <1>1. /\ linkRequest' = [linkRequest EXCEPT ![f] = [at |-> "ip", email |-> e]]
        /\ form' = [form EXCEPT ![f] = [g EXCEPT !.failed = FALSE]]
        /\ UNCHANGED <<counter, age>>
    BY DEF requestLink
  <1>2. [g EXCEPT !.failed = FALSE] \in FormState
    BY DEF FormState
  <1>3. form' \in [Forms -> FormState]
    BY <1>1, <1>2 DEF LimiterInv, SignInTypes, FormState
  <1> QED BY <1>1, <1>3 DEF LimiterInv, SignInTypes, EmailsOrNone, EndsOnce, FormState

LEMMA FillsKept ==
  ASSUME LimiterInv, NEW f \in Forms, NEW g \in FormState, Fill(f, g)
  PROVE  LimiterInv'
  BY DEF LimiterInv, SignInTypes, EndsOnce, FormState, Fill

LEMMA AnswersKept ==
  ASSUME LimiterInv, NEW f \in Forms, NEW ok, linkRequest[f].at # "none", Answered(f, ok)
  PROVE  /\ form' \in [Forms -> FormState]
         /\ linkRequest' \in [Forms -> [at : {"none", "ip", "check", "email", "deliver"}, email : EmailsOrNone]]
         /\ \A x \in Forms : linkRequest'[x].at # "none" => linkRequest'[x].email \in Emails
  <1>1. linkRequest' = [linkRequest EXCEPT ![f] = [at |-> "none", email |-> NoEmail]]
    BY DEF Answered
  <1>2. linkRequest[f].email \in EmailsOrNone /\ form[f] \in FormState /\ COOLDOWN \in Nat
    BY SignInAssumption DEF LimiterInv, SignInTypes, FormState
  <1>3. PICK g \in FormState : form' = [form EXCEPT ![f] = g]
    <2>1. [form[f] EXCEPT !.sentTo = linkRequest[f].email, !.cooldown = COOLDOWN] \in FormState
      BY <1>2 DEF FormState
    <2>2. [form[f] EXCEPT !.failed = TRUE] \in FormState
      BY <1>2 DEF FormState
    <2>3. CASE ok
      BY <2>1, <2>3 DEF Answered
    <2>4. CASE ~ok
      BY <2>2, <2>4 DEF Answered
    <2> QED BY <2>3, <2>4
  <1> QED BY <1>1, <1>3 DEF LimiterInv, SignInTypes, EmailsOrNone, FormState

LEMMA LimitsKept ==
  ASSUME LimiterInv, NEW f \in Forms, NEW k \in Keys, NEW ran, NEW replied, NEW onwards \in {"check", "deliver"},
         linkRequest[f].at # "none", enforceRateLimit(f, k, ran, replied, onwards)
  PROVE  LimiterInv'
  <1>1. PICK h \in Nat, l \in Nat : counter[k] = [hits |-> h, ttl |-> l]
    BY DEF LimiterInv, SignInTypes
  <1>2. WINDOW \in Nat \ {0} /\ age[k] \in Nat /\ EndsOnce(k)
    BY SignInAssumption DEF LimiterInv, SignInTypes
  <1>3. PICK c, a : /\ c = afterCommands(k, ran)
                    /\ a = IF "PEXPIRE" \in ran /\ c.hits > 0 /\ age[k] = 0 THEN 1 ELSE age[k]
    OBVIOUS
  <1>4. PICK i \in Nat : (IF "INCR" \in ran THEN [counter[k] EXCEPT !.hits = @ + 1] ELSE counter[k])
                         = [hits |-> i, ttl |-> l]
    <2>1. [counter[k] EXCEPT !.hits = @ + 1] = [hits |-> h + 1, ttl |-> l]
      BY <1>1
    <2>2. h + 1 \in Nat
      OBVIOUS
    <2> QED BY <1>1, <2>1, <2>2
  <1>5. c = IF "PEXPIRE" \in ran /\ i > 0 /\ l = 0 THEN [hits |-> i, ttl |-> WINDOW] ELSE [hits |-> i, ttl |-> l]
    <2>1. [[hits |-> i, ttl |-> l] EXCEPT !.ttl = WINDOW] = [hits |-> i, ttl |-> WINDOW]
      OBVIOUS
    <2> QED BY <1>3, <1>4, <2>1 DEF afterCommands, expireNX
  <1>6. /\ c \in [hits : Nat, ttl : Nat] /\ a \in Nat
        /\ (a = 0 /\ c.ttl = 0) \/ (a > 0 /\ c.ttl > 0 /\ c.ttl + a = WINDOW + 1)
    <2>1. (age[k] = 0 /\ l = 0) \/ (age[k] > 0 /\ l > 0 /\ l + age[k] = WINDOW + 1)
      BY <1>1, <1>2 DEF EndsOnce
    <2>2. CASE "PEXPIRE" \in ran /\ i > 0 /\ l = 0
      BY <1>2, <1>3, <1>5, <2>1, <2>2
    <2>3. CASE ~("PEXPIRE" \in ran /\ i > 0 /\ l = 0)
      BY <1>2, <1>3, <1>5, <2>1, <2>3
    <2> QED BY <2>2, <2>3
  <1>7. counter' = [counter EXCEPT ![k] = c] /\ age' = [age EXCEPT ![k] = a]
    <2>1. counter' = [counter EXCEPT ![k] = c]
      BY <1>3 DEF enforceRateLimit
    <2>2. age' = IF "PEXPIRE" \in ran /\ c.hits > 0 /\ age[k] = 0 THEN [age EXCEPT ![k] = 1] ELSE age
      BY <1>3 DEF enforceRateLimit
    <2>3. age = [age EXCEPT ![k] = age[k]]
      BY DEF LimiterInv, SignInTypes
    <2> QED BY <1>3, <2>1, <2>2, <2>3
  <1>8. \/ Answered(f, FALSE)
        \/ linkRequest' = [linkRequest EXCEPT ![f].at = onwards] /\ UNCHANGED form
    BY DEF enforceRateLimit
  <1>9. SignInTypes'
    <2>1. counter' \in [Keys -> [hits : Nat, ttl : Nat]] /\ age' \in [Keys -> Nat]
      BY <1>6, <1>7 DEF LimiterInv, SignInTypes
    <2>2. CASE Answered(f, FALSE)
      BY <2>1, <2>2, AnswersKept DEF SignInTypes, FormState
    <2>3. CASE linkRequest' = [linkRequest EXCEPT ![f].at = onwards] /\ UNCHANGED form
      BY <2>1, <2>3 DEF LimiterInv, SignInTypes
    <2> QED BY <1>8, <2>2, <2>3
  <1>10. ASSUME NEW x \in Keys PROVE EndsOnce(x)'
    <2>1. CASE x = k
      <3>1. counter'[k] = c /\ age'[k] = a
        BY <1>7 DEF LimiterInv, SignInTypes
      <3> QED BY <1>6, <2>1, <3>1 DEF EndsOnce
    <2>2. CASE x # k
      <3>1. counter'[x] = counter[x] /\ age'[x] = age[x]
        BY <1>7, <2>2 DEF LimiterInv, SignInTypes
      <3> QED BY <3>1 DEF EndsOnce, LimiterInv
    <2> QED BY <2>1, <2>2
  <1> QED BY <1>9, <1>10 DEF LimiterInv

LEMMA LimiterInductive == LimiterInv /\ [SignInNext]_signInVars => LimiterInv'
  <1> SUFFICES ASSUME LimiterInv, [SignInNext]_signInVars PROVE LimiterInv'
    OBVIOUS
  <1>0. \A f \in Forms : form[f] \in FormState
    BY DEF LimiterInv, SignInTypes, FormState
  <1>1. ASSUME NEW f \in Forms, NEW e \in Emails, TypeEmail(f, e) PROVE LimiterInv'
    <2>1. [form[f] EXCEPT !.email = e, !.failed = FALSE] \in FormState
      BY <1>0 DEF FormState, EmailsOrNone
    <2> QED BY <1>1, <2>1, FillsKept DEF TypeEmail
  <1>2. ASSUME NEW f \in Forms, UseOtherAddress(f) PROVE LimiterInv'
    <2>1. [form[f] EXCEPT !.sentTo = NoEmail, !.failed = FALSE] \in FormState
      BY <1>0 DEF FormState, EmailsOrNone
    <2> QED BY <1>2, <2>1, FillsKept DEF UseOtherAddress
  <1>3. ASSUME NEW f \in Forms, NEW b \in BOOLEAN, submitEmail(f, b) PROVE LimiterInv'
    <2>1. form[f].email \in Emails
      BY <1>0, <1>3 DEF submitEmail, FormState, EmailsOrNone
    <2> QED BY <1>0, <1>3, <2>1, AsksKept DEF submitEmail
  <1>4. ASSUME NEW f \in Forms, ConfirmAsIs(f) PROVE LimiterInv'
    <2>1. form[f].email \in Emails
      BY <1>0, <1>4 DEF ConfirmAsIs, FormState, EmailsOrNone
    <2>2. [form[f] EXCEPT !.confirmedAsIs = form[f].email] \in FormState
      BY <1>0, <2>1 DEF FormState, EmailsOrNone
    <2> QED BY <1>4, <2>1, <2>2, AsksKept DEF ConfirmAsIs
  <1>5. ASSUME NEW f \in Forms, Resend(f) PROVE LimiterInv'
    <2>1. form[f].sentTo \in Emails
      BY <1>0, <1>5 DEF Resend, FormState, EmailsOrNone
    <2> QED BY <1>0, <1>5, <2>1, AsksKept DEF Resend
  <1>6. ASSUME NEW f \in Forms, NEW ran \in SUBSET {"INCR", "PEXPIRE"}, NEW replied \in BOOLEAN,
               LimitByIp(f, ran, replied) \/ LimitByEmail(f, ran, replied)
        PROVE  LimiterInv'
    <2>1. CASE LimitByIp(f, ran, replied)
      BY <2>1, LimitsKept DEF LimitByIp, Keys
    <2>2. CASE LimitByEmail(f, ran, replied)
      <3>1. linkRequest[f].email \in Keys
        BY <2>2 DEF LimitByEmail, LimiterInv, SignInTypes, Keys
      <3> QED BY <2>2, <3>1, LimitsKept DEF LimitByEmail
    <2> QED BY <1>6, <2>1, <2>2
  <1>7. ASSUME NEW f \in Forms, NEW dns, checkSignInEmail(f, dns) PROVE LimiterInv'
    <2>1. linkRequest[f].at = "check" /\ UNCHANGED <<counter, age>>
      BY <1>7 DEF checkSignInEmail
    <2>2. \/ Answered(f, FALSE)
          \/ linkRequest' = [linkRequest EXCEPT ![f].at = "email"] /\ UNCHANGED form
      BY <1>7 DEF checkSignInEmail
    <2>3. CASE Answered(f, FALSE)
      BY <2>1, <2>3, AnswersKept DEF LimiterInv, SignInTypes, EndsOnce, FormState
    <2>4. CASE linkRequest' = [linkRequest EXCEPT ![f].at = "email"] /\ UNCHANGED form
      BY <2>1, <2>4 DEF LimiterInv, SignInTypes, EndsOnce
    <2> QED BY <2>2, <2>3, <2>4
  <1>8. ASSUME NEW f \in Forms, NEW ok \in BOOLEAN, Deliver(f, ok) PROVE LimiterInv'
    <2>1. linkRequest[f].at = "deliver" /\ UNCHANGED <<counter, age>> /\ Answered(f, ok)
      BY <1>8 DEF Deliver
    <2> QED BY <2>1, AnswersKept DEF LimiterInv, SignInTypes, EndsOnce, FormState
  <1>9. CASE Minute
    <2>1. form' \in [Forms -> FormState]
      <3>1. \A f \in Forms : [form[f] EXCEPT !.cooldown = IF @ = 0 THEN 0 ELSE @ - 1] \in FormState
        BY <1>0 DEF FormState
      <3> QED BY <1>9, <3>1 DEF Minute
    <2>2. counter' \in [Keys -> [hits : Nat, ttl : Nat]]
      <3>1. ASSUME NEW k \in Keys
            PROVE  (IF counter[k].ttl = 1 THEN [hits |-> 0, ttl |-> 0]
                    ELSE [counter[k] EXCEPT !.ttl = IF @ = 0 THEN 0 ELSE @ - 1]) \in [hits : Nat, ttl : Nat]
        <4>1. PICK h \in Nat, n \in Nat : counter[k] = [hits |-> h, ttl |-> n]
          BY DEF LimiterInv, SignInTypes
        <4> QED BY <4>1
      <3> QED BY <1>9, <3>1 DEF Minute
    <2>3. linkRequest' = linkRequest
      BY <1>9 DEF Minute
    <2>4. ASSUME NEW k \in Keys PROVE age'[k] \in Nat /\ EndsOnce(k)'
      <3>1. PICK h \in Nat, n \in Nat : counter[k] = [hits |-> h, ttl |-> n]
        BY DEF LimiterInv, SignInTypes
      <3>2. counter'[k].ttl = (IF n = 1 THEN 0 ELSE IF n = 0 THEN 0 ELSE n - 1)
        BY <1>9, <3>1 DEF Minute
      <3>3. age'[k] = IF n = 1 \/ age[k] = 0 THEN 0 ELSE age[k] + 1
        BY <1>9, <3>1 DEF Minute
      <3>4. age[k] \in Nat /\ WINDOW \in Nat /\ ((age[k] = 0 /\ n = 0) \/ (age[k] > 0 /\ n > 0 /\ n + age[k] = WINDOW + 1))
        BY <3>1, SignInAssumption DEF LimiterInv, SignInTypes, EndsOnce
      <3> QED BY <3>2, <3>3, <3>4 DEF EndsOnce
    <2>5. age' \in [Keys -> Nat]
      BY <1>9, <2>4 DEF Minute
    <2> QED BY <2>1, <2>2, <2>3, <2>4, <2>5 DEF LimiterInv, SignInTypes, FormState
  <1>10. CASE UNCHANGED signInVars
    BY <1>10 DEF signInVars, LimiterInv, SignInTypes, EndsOnce
  <1> QED BY <1>1, <1>2, <1>3, <1>4, <1>5, <1>6, <1>7, <1>8, <1>9, <1>10 DEF SignInNext

\* Whoever is locked out of asking for a link is let in again one window after the first PEXPIRE that took
\* effect on the key, whatever the limits, whichever commands failed before or after it, and however many
\* more were counted: a lockout without end takes a key on which every PEXPIRE has failed.
THEOREM LockoutsEnd == SignInSpec => []RefusalEnds
  <1>1. SignInInit => LimiterInv
    <2> SUFFICES ASSUME SignInInit PROVE LimiterInv
      OBVIOUS
    <2>1. EmptyForm \in FormState
      BY DEF EmptyForm, FormState, EmailsOrNone
    <2>2. form \in [Forms -> FormState]
      BY <2>1 DEF SignInInit
    <2> QED BY <2>2 DEF SignInInit, LimiterInv, SignInTypes, EndsOnce, FormState, EmailsOrNone
  <1>2. LimiterInv => RefusalEnds
    BY DEF LimiterInv, EndsOnce, RefusalEnds, SignInTypes
  <1> QED BY <1>1, <1>2, LimiterInductive, PTL DEF SignInSpec

-------------------------------------------------------------------------------
(* The offer composer *)

Draft(d) == d = [coach |-> d.coach, packageType |-> d.packageType, slots |-> d.slots,
                 price |-> d.price, studentName |-> d.studentName]

IsCall(x) == x = [draft |-> x.draft, result |-> x.result]

\* Every draft that is parked or under way was on screen when the student pressed send.
ComposerInv ==
  /\ \A d \in pressed : Draft(d)
  /\ cookie # NoDraft => cookie \in pressed
  /\ submission = [k \in SubmitCalls |-> submission[k]]
  /\ \A k \in SubmitCalls : /\ IsCall(submission[k])
                            /\ submission[k].result # "none" => submission[k].draft \in pressed
  /\ NothingSentUnasked

LEMMA CallsKept ==
  ASSUME ComposerInv, NEW k \in SubmitCalls, NEW d, callSubmitOffer(k, d), d \in pressed',
         pressed \subseteq pressed', \A x \in pressed' : Draft(x),
         cookie' = cookie \/ cookie' \in pressed', sent' = sent
  PROVE  ComposerInv'
  <1>1. submission' = [submission EXCEPT ![k] = [draft |-> d, result |-> "asked"]]
    BY DEF callSubmitOffer
  <1>2. PICK x : x = [draft |-> d, result |-> "asked"]
    OBVIOUS
  <1>3. IsCall(x) /\ x.draft = d
    BY <1>2 DEF IsCall
  <1>4. \A y \in SubmitCalls : submission'[y] = IF y = k THEN x ELSE submission[y]
    BY <1>1, <1>2 DEF ComposerInv
  <1>5. submission' = [y \in SubmitCalls |-> submission'[y]]
    BY <1>1 DEF ComposerInv
  <1>6. \A y \in SubmitCalls : IsCall(submission'[y]) /\ (submission'[y].result # "none" => submission'[y].draft \in pressed')
    BY <1>3, <1>4 DEF ComposerInv
  <1> QED BY <1>5, <1>6 DEF ComposerInv, NothingSentUnasked

\* Without a new call nothing is under way that was not.
LEMMA QuietKept ==
  ASSUME ComposerInv, submission' = submission, sent' = sent,
         cookie' = cookie \/ cookie' \in pressed' \/ cookie' = NoDraft,
         pressed \subseteq pressed', \A x \in pressed' : Draft(x)
  PROVE  ComposerInv'
  BY DEF ComposerInv, NothingSentUnasked

\* The page submits what the cookie holds, and the cookie holds what was pressed.
LEMMA ShownKept ==
  ASSUME ComposerInv, NEW c, NEW t, NEW s, NEW k \in SubmitCalls, ShowProfile(c, t, s, k),
         UNCHANGED <<cookie, sent, pressed>>
  PROVE  ComposerInv'
  <1>1. CASE t /\ resumes(c) /\ s
    <2>1. cookie \in pressed /\ Draft(cookie) /\ cookie.coach = c
      BY <1>1 DEF resumes, ComposerInv
    <2>2. [cookie EXCEPT !.coach = c] = cookie
      BY <2>1 DEF Draft
    <2>3. callSubmitOffer(k, cookie)
      BY <1>1, <2>2 DEF ShowProfile
    <2> QED BY <2>1, <2>3, CallsKept DEF ComposerInv
  <1>2. CASE ~(t /\ resumes(c) /\ s)
    <2>1. submission' = submission
      BY <1>2 DEF ShowProfile
    <2> QED BY <2>1, QuietKept DEF ComposerInv
  <1> QED BY <1>1, <1>2

LEMMA ComposerInductive == ComposerInv /\ [ComposerNext]_composerVars => ComposerInv'
  <1> SUFFICES ASSUME ComposerInv, [ComposerNext]_composerVars PROVE ComposerInv'
    OBVIOUS
  <1>1. CASE UNCHANGED <<cookie, submission, sent, pressed>>
    BY <1>1, QuietKept DEF ComposerInv
  <1>2. CASE CookieExpires
    BY <1>2, QuietKept DEF CookieExpires, ComposerInv
  <1>3. ASSUME NEW k \in SubmitCalls, PressSend(k) PROVE ComposerInv'
    <2>1. PICK d : d = buildDraft
      OBVIOUS
    <2>2. Draft(d)
      BY <2>1 DEF Draft, buildDraft
    <2>3. pressed' = pressed \cup {d} /\ sent' = sent
      BY <1>3, <2>1 DEF PressSend
    <2>4. \A x \in pressed' : Draft(x)
      BY <2>2, <2>3 DEF ComposerInv
    <2>5. \/ callSubmitOffer(k, d) /\ cookie' = cookie
          \/ cookie' = d /\ submission' = submission
      BY <1>3, <2>1 DEF PressSend
    <2> QED BY <2>3, <2>4, <2>5, CallsKept, QuietKept
  <1>4. ASSUME NEW k \in SubmitCalls, NEW b, SignInAtGate(b, k) PROVE ComposerInv'
    BY <1>4, ShownKept, QuietKept DEF SignInAtGate, ComposerInv
  <1>5. ASSUME NEW k \in SubmitCalls, NEW b, NEW c, OpenProfile(c, b, k) PROVE ComposerInv'
    BY <1>5, ShownKept DEF OpenProfile
  <1>6. ASSUME NEW k \in SubmitCalls, submitOffer(k) PROVE ComposerInv'
    <2>1. PICK v : submission' = [submission EXCEPT ![k].result = v]
      BY <1>6 DEF submitOffer
    <2>2. pressed' = pressed /\ submission[k].draft \in pressed
      BY <1>6 DEF submitOffer, ComposerInv
    <2>3. cookie' \in {cookie, NoDraft} /\ sent' \in {sent, sent \cup {submission[k].draft}}
      BY <1>6 DEF submitOffer
    <2>4. submission' = [y \in SubmitCalls |-> submission'[y]]
      BY <2>1 DEF ComposerInv
    <2>5. submission'[k] = [submission[k] EXCEPT !.result = v] /\ \A y \in SubmitCalls : y # k => submission'[y] = submission[y]
      BY <2>1 DEF ComposerInv
    <2>6. IsCall(submission'[k]) /\ submission'[k].draft = submission[k].draft
      BY <2>5 DEF ComposerInv, IsCall
    <2>7. \A y \in SubmitCalls : IsCall(submission'[y]) /\ (submission'[y].result # "none" => submission'[y].draft \in pressed)
      BY <2>2, <2>5, <2>6 DEF ComposerInv
    <2> QED BY <2>2, <2>3, <2>4, <2>7 DEF ComposerInv, NothingSentUnasked
  <1>7. ASSUME NEW k \in SubmitCalls, SubmissionAnswered(k) PROVE ComposerInv'
    <2>1. submission' = [submission EXCEPT ![k] = NoCall] /\ UNCHANGED <<cookie, sent, pressed>>
      BY <1>7 DEF SubmissionAnswered
    <2>2. IsCall(NoCall) /\ NoCall.result = "none"
      BY DEF IsCall, NoCall
    <2> QED BY <2>1, <2>2 DEF ComposerInv, NothingSentUnasked
  <1> QED BY <1>1, <1>2, <1>3, <1>4, <1>5, <1>6, <1>7
          DEF ComposerNext, composerVars, HourChanges, PickOnProfile, toggleSlot, changePackage, startOffer,
              TypePrice, TypeName, CloseComposer, CloseGate, Edit

\* An offer that reaches a coach stood on that coach's page as it is when the student pressed send
\* there, for any number of coaches, hours and submissions: neither the cookie a guest's draft is parked
\* in nor the automatic submission after the sign-in mixes up or makes up one.
THEOREM OffersWereAskedFor == ComposerSpec => []NothingSentUnasked
  <1>1. ComposerInit => ComposerInv
    <2>1. IsCall(NoCall) /\ NoCall.result = "none"
      BY DEF IsCall, NoCall
    <2> QED BY <2>1 DEF ComposerInit, ComposerInv, NothingSentUnasked
  <1>2. ComposerInv => NothingSentUnasked
    BY DEF ComposerInv
  <1> QED BY <1>1, <1>2, ComposerInductive, PTL DEF ComposerSpec

-------------------------------------------------------------------------------
(* Moderation *)

ConversationTypeOK ==
  /\ box \in [Boxes -> [body : Texts \cup {NoText}, call : {"none", "asked", "moderate", "answered"},
                        sending : Texts \cup {NoText}, prior : Nat, answer : {"none", "sent", "refused", "too fast"}]]
  /\ conversation \in [riskScore : Nat, flaggedAt : BOOLEAN]
  /\ found \in Nat

\* What a call has read was found, it has a text, and it refuses for a reason.
CallIsSound(b) ==
  /\ box[b].prior <= found
  /\ box[b].call # "none" => box[b].sending \in Texts
  /\ box[b].call # "answered" => box[b].answer = "none"
  /\ (box[b].answer = "refused" /\ riskOf(box[b].sending) < THRESHOLDS.block) =>
       found >= THRESHOLDS.flagConversation

ConversationInv ==
  /\ ConversationTypeOK
  /\ conversation.riskScore <= found
  /\ conversation.flaggedAt => found >= THRESHOLDS.flagConversation
  /\ \A b \in Boxes : CallIsSound(b)

\* There are finitely many detectors.
LEMMA FinitelyManyDetectors == IsFiniteSet(DOMAIN DETECTORS)
<1>1. ASSUME NEW S, IsFiniteSet(S), NEW a, NEW b, NEW c PROVE IsFiniteSet({a, b, c} \cup S)
  <2>1. IsFiniteSet({a}) /\ IsFiniteSet({b}) /\ IsFiniteSet({c})
    BY FS_Singleton
  <2>2. IsFiniteSet({c} \cup S)
    BY <1>1, <2>1, FS_Union
  <2>3. IsFiniteSet({b} \cup ({c} \cup S))
    BY <2>1, <2>2, FS_Union
  <2>4. IsFiniteSet({a} \cup ({b} \cup ({c} \cup S)))
    BY <2>1, <2>3, FS_Union
  <2>5. {a} \cup ({b} \cup ({c} \cup S)) = {a, b, c} \cup S
    OBVIOUS
  <2> QED BY <2>4, <2>5
<1> DEFINE A == {"tr_mobile", "long_digit_run", "iban_tr"}
           B == {"email", "messaging_shortlink", "platform_name"}
           C == {"handle_token", "external_link", "platform_abbreviation"}
           D == {"platform_abbreviation", "payment_vocabulary", "circumvention_intent"}
<1>2. IsFiniteSet(D \cup {})
  BY <1>1, FS_EmptySet
<1>3. IsFiniteSet(A \cup (B \cup (C \cup (D \cup {}))))
  BY <1>1, <1>2
<1>4. DOMAIN DETECTORS = A \cup (B \cup (C \cup (D \cup {})))
  BY DEF DETECTORS
<1> QED BY <1>3, <1>4

\* The risk of a text is a number and not negative.
LEMMA RiskIsANumber == ASSUME NEW t \in Texts PROVE riskOf(t) \in Nat
<1>1. IsFiniteSet(t) /\ t \subseteq DOMAIN DETECTORS
  BY FinitelyManyDetectors, FS_Subset, ConversationAssumption
<1>2. \A d \in DOMAIN DETECTORS : severity[d] \in Nat
  BY DEF DETECTORS, severity
<1>3. severities(t) \in Nat
  BY <1>1, <1>2, SumIsNat DEF severities
<1>4. \A n \in Nat : (n * 3 + 1) \div 2 \in Nat
  OBVIOUS
<1>5. (severities(t) * 3 + 1) \div 2 \in Nat
  BY <1>3, <1>4
<1> QED BY <1>3, <1>5 DEF riskOf

\* A verdict charges the risk of the text; a text below the threshold is refused for the risk read only.
LEMMA VerdictIsFair ==
  ASSUME NEW t \in Texts, NEW prior \in Nat
  PROVE  /\ moderateMessage(t, prior).riskScore = riskOf(t)
         /\ moderateMessage(t, prior).action = "BLOCK" /\ riskOf(t) < THRESHOLDS.block
              => prior >= THRESHOLDS.flagConversation
<1>1. riskOf(t) \in Nat
  BY RiskIsANumber
<1>2. moderateMessage(t, prior).riskScore = riskOf(t) /\ moderateMessage(t, prior).action = action(t, prior)
  BY DEF moderateMessage
<1>3. action(t, prior) = "BLOCK" => escalated(t, prior) >= THRESHOLDS.block
  BY DEF action
<1> QED BY <1>1, <1>2, <1>3 DEF escalated, THRESHOLDS

\* A step that charges the conversation: the row, what was found, and the box of the call.
LEMMA Charged ==
  ASSUME ConversationInv, NEW b \in Boxes, box[b].call = "moderate",
         NEW n \in Nat, n <= found + riskOf(box[b].sending),
         NEW f \in BOOLEAN, f => conversation.flaggedAt \/ n >= THRESHOLDS.flagConversation,
         NEW r \in Nat, r <= found + riskOf(box[b].sending),
         NEW result \in {"sent", "refused"},
         result = "refused" /\ riskOf(box[b].sending) < THRESHOLDS.block
           => box[b].prior >= THRESHOLDS.flagConversation,
         conversation' = [riskScore |-> r, flaggedAt |-> f],
         found' = found + riskOf(box[b].sending), answer(b, result)
  PROVE  ConversationInv'
<1>1. /\ box[b].sending \in Texts /\ box[b].prior \in Nat /\ box[b].prior <= found /\ found \in Nat
  BY DEF ConversationInv, CallIsSound, ConversationTypeOK
<1>2. riskOf(box[b].sending) \in Nat
  BY <1>1, RiskIsANumber
<1>3. found' \in Nat /\ found <= found'
  BY <1>1, <1>2
<1>4. \A c \in Boxes : box'[c] = IF c = b THEN [box[b] EXCEPT !.call = "answered", !.answer = result, !.prior = 0] ELSE box[c]
  BY DEF answer, ConversationInv, ConversationTypeOK
<1>5. ConversationTypeOK'
  <2>1. [box[b] EXCEPT !.call = "answered", !.answer = result, !.prior = 0]
          \in [body : Texts \cup {NoText}, call : {"none", "asked", "moderate", "answered"},
               sending : Texts \cup {NoText}, prior : Nat, answer : {"none", "sent", "refused", "too fast"}]
    BY DEF ConversationInv, ConversationTypeOK
  <2> QED BY <1>3, <2>1 DEF ConversationInv, ConversationTypeOK, answer
<1>6. conversation'.riskScore <= found' /\ (conversation'.flaggedAt => found' >= THRESHOLDS.flagConversation)
  BY <1>1, <1>2, <1>3 DEF ConversationInv, THRESHOLDS
<1>7. ASSUME NEW c \in Boxes PROVE CallIsSound(c)'
  <2>1. CASE c = b
    <3>1. /\ box'[c].prior = 0 /\ box'[c].sending = box[b].sending /\ box'[c].answer = result /\ box'[c].call = "answered"
      BY <1>4, <2>1 DEF ConversationInv, ConversationTypeOK
    <3> QED BY <1>1, <1>2, <1>3, <2>1, <3>1 DEF CallIsSound, THRESHOLDS
  <2>2. CASE c # b
    <3>1. box'[c] = box[c] /\ box[c].prior \in Nat
      BY <1>4, <2>2 DEF ConversationInv, ConversationTypeOK
    <3> QED BY <1>1, <1>3, <3>1 DEF CallIsSound, ConversationInv, THRESHOLDS
  <2> QED BY <2>1, <2>2
<1> QED BY <1>5, <1>6, <1>7 DEF ConversationInv

\* A step of a page or of the first read: the risks stay, and the box moves soundly.
LEMMA BoxMoves ==
  ASSUME ConversationInv, NEW b \in Boxes,
         NEW x \in [body : Texts \cup {NoText}, call : {"none", "asked", "moderate", "answered"},
                    sending : Texts \cup {NoText}, prior : Nat, answer : {"none", "sent", "refused", "too fast"}],
         box' = [box EXCEPT ![b] = x], UNCHANGED <<conversation, found>>,
         x.prior <= found, x.call # "none" => x.sending \in Texts, x.call # "answered" => x.answer = "none",
         x.answer = "refused" => box[b].answer = "refused" /\ x.sending = box[b].sending
  PROVE  ConversationInv'
<1>1. \A c \in Boxes : box'[c] = IF c = b THEN x ELSE box[c]
  BY DEF ConversationInv, ConversationTypeOK
<1>2. ConversationTypeOK'
  BY DEF ConversationInv, ConversationTypeOK
<1>3. ASSUME NEW c \in Boxes PROVE CallIsSound(c)'
  <2>1. CallIsSound(c) /\ CallIsSound(b)
    BY DEF ConversationInv
  <2>2. CASE c = b
    <3>1. box'[c] = x
      BY <1>1, <2>2
    <3> QED BY <2>1, <2>2, <3>1 DEF CallIsSound
  <2>3. CASE c # b
    <3>1. box'[c] = box[c]
      BY <1>1, <2>3
    <3> QED BY <2>1, <3>1 DEF CallIsSound
  <2> QED BY <2>2, <2>3
<1> QED BY <1>2, <1>3 DEF ConversationInv

LEMMA ConversationInvInit == ConversationInit => ConversationInv
BY DEF ConversationInit, ConversationInv, ConversationTypeOK, CallIsSound, THRESHOLDS

LEMMA ConversationInvInductive == ConversationInv /\ [ConversationNext]_conversationVars => ConversationInv'
<1> SUFFICES ASSUME ConversationInv, [ConversationNext]_conversationVars PROVE ConversationInv'
  OBVIOUS
<1> DEFINE BoxRow == [body : Texts \cup {NoText}, call : {"none", "asked", "moderate", "answered"},
                      sending : Texts \cup {NoText}, prior : Nat, answer : {"none", "sent", "refused", "too fast"}]
<1>0. /\ \A b \in Boxes : box[b] \in BoxRow /\ CallIsSound(b)
      /\ conversation.riskScore \in Nat /\ conversation.flaggedAt \in BOOLEAN /\ found \in Nat
      /\ conversation.riskScore <= found
  BY DEF ConversationInv, ConversationTypeOK
<1>1. ASSUME NEW b \in Boxes, NEW text \in Texts, TypeMessage(b, text) PROVE ConversationInv'
  <2> DEFINE x == [box[b] EXCEPT !.body = text]
  <2>1. x \in BoxRow /\ x.prior <= found /\ (x.call # "none" => x.sending \in Texts) /\ x.answer = box[b].answer
        /\ x.sending = box[b].sending /\ (x.call # "answered" => x.answer = "none")
    BY <1>0 DEF CallIsSound
  <2>2. box' = [box EXCEPT ![b] = x] /\ UNCHANGED <<conversation, found>>
    BY <1>1 DEF TypeMessage
  <2> HIDE DEF x
  <2> QED BY <2>1, <2>2, BoxMoves
<1>2. ASSUME NEW b \in Boxes, PressGonder(b) PROVE ConversationInv'
  <2> DEFINE x == [box[b] EXCEPT !.call = "asked", !.sending = box[b].body]
  <2>1. x \in BoxRow /\ x.prior <= found /\ (x.call # "none" => x.sending \in Texts) /\ x.answer = "none"
    <3>1. box[b].body \in Texts /\ box[b] \in BoxRow /\ box[b].answer = "none" /\ box[b].prior <= found
      BY <1>0, <1>2 DEF CallIsSound, PressGonder
    <3> QED BY <3>1
  <2>2. box' = [box EXCEPT ![b] = x] /\ UNCHANGED <<conversation, found>>
    BY <1>2 DEF PressGonder
  <2> HIDE DEF x
  <2> QED BY <2>1, <2>2, BoxMoves
<1>3. ASSUME NEW b \in Boxes, MessageAnswered(b) PROVE ConversationInv'
  <2> DEFINE t == IF box[b].answer = "sent" THEN NoText ELSE box[b].body
             x == [box[b] EXCEPT !.call = "none", !.sending = NoText, !.answer = "none", !.body = t]
  <2>0. t \in Texts \cup {NoText}
    BY <1>0
  <2>1. x \in BoxRow /\ x.prior <= found /\ x.call = "none" /\ x.answer = "none"
    BY <1>0, <2>0 DEF CallIsSound
  <2>2. box' = [box EXCEPT ![b] = x] /\ UNCHANGED <<conversation, found>>
    BY <1>3 DEF MessageAnswered
  <2> HIDE DEF x
  <2> QED BY <2>1, <2>2, BoxMoves
<1>4. ASSUME NEW b \in Boxes, AnswerLost(b) PROVE ConversationInv'
  <2> DEFINE x == [box[b] EXCEPT !.call = "none", !.sending = NoText, !.answer = "none"]
  <2>1. x \in BoxRow /\ x.prior <= found /\ x.call = "none" /\ x.answer = "none"
    BY <1>0 DEF CallIsSound
  <2>2. box' = [box EXCEPT ![b] = x] /\ UNCHANGED <<conversation, found>>
    BY <1>4 DEF AnswerLost
  <2> HIDE DEF x
  <2> QED BY <2>1, <2>2, BoxMoves
<1>5. ASSUME NEW b \in Boxes, requireParty(b) PROVE ConversationInv'
  <2> DEFINE x == [box[b] EXCEPT !.call = "moderate", !.prior = conversation.riskScore]
             y == [box[b] EXCEPT !.call = "answered", !.answer = "too fast"]
  <2>1. x \in BoxRow /\ x.prior <= found /\ x.sending \in Texts /\ x.sending = box[b].sending /\ x.answer = "none"
    BY <1>0, <1>5 DEF CallIsSound, requireParty
  <2>2. y \in BoxRow /\ y.prior <= found /\ y.sending \in Texts /\ y.answer = "too fast" /\ y.call = "answered"
    BY <1>0, <1>5 DEF CallIsSound, requireParty
  <2>3. (box' = [box EXCEPT ![b] = x] \/ box' = [box EXCEPT ![b] = y]) /\ UNCHANGED <<conversation, found>>
    BY <1>5 DEF requireParty
  <2> HIDE DEF x, y
  <2> QED BY <2>1, <2>2, <2>3, BoxMoves
<1>6. ASSUME NEW b \in Boxes, RefuseMessage(b) \/ StoreMessage(b) PROVE ConversationInv'
  <2> DEFINE t == box[b].sending
             prior == box[b].prior
             v == moderateMessage(t, prior)
  <2>1. t \in Texts /\ prior \in Nat /\ prior <= found /\ box[b].call = "moderate"
    BY <1>0, <1>6 DEF CallIsSound, RefuseMessage, StoreMessage
  <2>2. riskOf(t) \in Nat /\ v.riskScore = riskOf(t)
        /\ (v.action = "BLOCK" /\ riskOf(t) < THRESHOLDS.block => prior >= THRESHOLDS.flagConversation)
    BY <2>1, RiskIsANumber, VerdictIsFair
  <2>3. /\ prior + riskOf(t) \in Nat /\ prior + riskOf(t) <= found + riskOf(t)
        /\ conversation.riskScore + riskOf(t) \in Nat
        /\ conversation.riskScore + riskOf(t) <= found + riskOf(t)
    <3>1. PICK n \in Nat, r \in Nat, f \in Nat :
            n = riskOf(t) /\ r = conversation.riskScore /\ f = found /\ r <= f /\ prior <= f
      BY <1>0, <2>1, <2>2
    <3>2. prior + n \in Nat /\ prior + n <= f + n /\ r + n \in Nat /\ r + n <= f + n
      BY <2>1, <3>1
    <3> QED BY <3>1, <3>2, Zenon
  <2>4. flagged(prior + riskOf(t)) \in BOOLEAN
        /\ (flagged(prior + riskOf(t)) => conversation.flaggedAt \/ prior + riskOf(t) >= THRESHOLDS.flagConversation)
    BY <1>0 DEF flagged
  <2>5. CASE RefuseMessage(b)
    <3>1. /\ conversation' = [riskScore |-> conversation.riskScore + riskOf(t), flaggedAt |-> flagged(prior + riskOf(t))]
          /\ found' = found + riskOf(t) /\ answer(b, "refused") /\ v.action = "BLOCK"
      BY <2>2, <2>5 DEF RefuseMessage
    <3> HIDE DEF v
    <3> QED BY <2>1, <2>2, <2>3, <2>4, <3>1, Charged
  <2>6. CASE StoreMessage(b)
    <3>1. /\ conversation' = [riskScore |-> prior + riskOf(t), flaggedAt |-> flagged(prior + riskOf(t))]
          /\ found' = found + riskOf(t) /\ answer(b, "sent")
      BY <2>2, <2>6 DEF StoreMessage
    <3> QED BY <2>1, <2>2, <2>3, <2>4, <3>1, Charged
  <2> QED BY <1>6, <2>5, <2>6
<1>7. CASE UNCHANGED conversationVars
  BY <1>7 DEF conversationVars, ConversationInv, ConversationTypeOK, CallIsSound
<1> QED BY <1>1, <1>2, <1>3, <1>4, <1>5, <1>6, <1>7 DEF ConversationNext

\* However many pages write, and however their calls overlap or are lost, nobody is refused as a repeat
\* offender and no conversation is flagged before 150 points were found (anti-circumvention.ts, negotiation.ts:107-164).
THEOREM FlagsAreEarned == ConversationSpec => []FlagIsEarned
<1>1. ConversationInv => FlagIsEarned
  BY DEF ConversationInv, CallIsSound, FlagIsEarned
<1> QED BY <1>1, ConversationInvInit, ConversationInvInductive, PTL DEF ConversationSpec

-------------------------------------------------------------------------------
(* Reviews *)

Underway == {"read", "lock", "insert", "average", "write"}
Averages == [num : Nat, den : Nat]
Submissions == [at : Underway \cup {"none", "ok", "refused", "lost"}, stars : Nat,
                label : {"none", "COMPLETE", "INCOMPLETE"}, avg : Averages, count : Nat]
ReviewRows == [rating : Ratings, programIncomplete : BOOLEAN]
Endings == [status : {"ACTIVE", "DISPUTED", "CANCELLED", "COMPLETED"}, happened : BOOLEAN]

ReviewsTypeOK ==
  /\ engagement \in [Programs -> Endings]
  /\ review \in [Programs -> ReviewRows \cup {NoReview}]
  /\ rating \in [avg : Averages, count : Nat]
  /\ panel \in [Panels -> [done : BOOLEAN, call : Submissions]]

\* What a submission knows while it is under way: the stars, from its insert on that nobody else's review
\* of the program is committed, and the average it has read.
Knows(c, e) ==
  /\ c.at \in Underway => c.stars \in Ratings
  /\ c.at \in {"average", "write"} => review[e] = NoReview
  /\ c.at = "write" => c.avg = rating.avg /\ c.count = rating.count

LockIsExclusive == \A p, q \in Panels : holdsLock(p) /\ holdsLock(q) => p = q

MeanIsRight ==
  /\ rating.count = Cardinality(Reviewed)
  /\ rating.avg.den > 0 /\ rating.avg.num * rating.count = rating.avg.den * SumFunctionOnSet(ratings, Reviewed)

ReviewsInv ==
  /\ ReviewsTypeOK /\ LockIsExclusive /\ MeanIsRight
  /\ \A p \in Panels : Knows(panel[p].call, programOf[p])

LEMMA ReviewsInvInit == ReviewsInit => ReviewsInv
<1> SUFFICES ASSUME ReviewsInit PROVE ReviewsInv
  OBVIOUS
<1>1. ReviewsTypeOK /\ LockIsExclusive
  BY DEF ReviewsInit, ReviewsTypeOK, LockIsExclusive, holdsLock, NoSubmission, Submissions, Averages, Underway, Endings
<1>2. Reviewed = {}
  BY DEF ReviewsInit, Reviewed
<1>3. MeanIsRight
  BY <1>2, SumEmpty, FS_EmptySet DEF ReviewsInit, MeanIsRight
<1> QED
  BY <1>1, <1>3 DEF ReviewsInit, ReviewsInv, Knows, NoSubmission, Underway

\* A step that moves one submission and writes no row keeps the invariant if the submission knows what
\* it has to, and takes the lock only while nobody else has it.
LEMMA SubmissionMoves ==
  ASSUME ReviewsInv, NEW p \in Panels, NEW c \in [done : BOOLEAN, call : Submissions],
         panel' = [panel EXCEPT ![p] = c], UNCHANGED <<engagement, review, rating>>,
         Knows(c.call, programOf[p]),
         holdsLock(p)' => \A q \in Panels : holdsLock(q) => q = p
  PROVE  ReviewsInv'
<1>1. ReviewsTypeOK'
  BY DEF ReviewsInv, ReviewsTypeOK
<1>2. MeanIsRight'
  BY DEF ReviewsInv, MeanIsRight, Reviewed, ratings
<1>3. \A q \in Panels : panel'[q] = IF q = p THEN c ELSE panel[q]
  BY DEF ReviewsInv, ReviewsTypeOK
<1>4. \A q \in Panels : Knows(panel[q].call, programOf[q])'
  BY <1>3 DEF ReviewsInv, Knows
<1>5. LockIsExclusive'
  BY <1>3 DEF ReviewsInv, LockIsExclusive, holdsLock
<1> QED BY <1>1, <1>2, <1>4, <1>5 DEF ReviewsInv

\* A step of the program, whatever status it leaves and takes, touches no review and no average.
LEMMA ProgramKeepsMean ==
  ASSUME ReviewsInv, NEW e \in Programs, ProgramMoves(e)
  PROVE  ReviewsInv'
<1>1. engagement' \in [Programs -> Endings]
  <2>1. engagement \in [Programs -> Endings]
    BY DEF ReviewsInv, ReviewsTypeOK
  <2>2. [engagement[e] EXCEPT !.happened = TRUE] \in Endings
    BY <2>1 DEF Endings
  <2>3. \A s \in {"ACTIVE", "DISPUTED", "CANCELLED", "COMPLETED"} : [engagement[e] EXCEPT !.status = s] \in Endings
    BY <2>1 DEF Endings
  <2>4. \E x \in Endings : engagement' = [engagement EXCEPT ![e] = x]
    BY <2>2, <2>3 DEF ProgramMoves
  <2> QED BY <2>1, <2>4
<1>2. UNCHANGED <<review, rating, panel>>
  BY DEF ProgramMoves
<1> QED
  BY <1>1, <1>2 DEF ReviewsInv, ReviewsTypeOK, LockIsExclusive, holdsLock, MeanIsRight, Reviewed, ratings, Knows

\* The mean with one more review: the fraction stays the sum over the count.
LEMMA MeanWithOneMore ==
  ASSUME NEW num \in Nat, NEW den \in Nat, NEW count \in Nat, NEW sum \in Nat, NEW n \in Nat, den > 0,
         num * count = den * sum
  PROVE  /\ den * (count + 1) \in Nat /\ den * (count + 1) > 0
         /\ num * count + n * den \in Nat
         /\ (num * count + n * den) * (count + 1) = (den * (count + 1)) * (sum + n)
<1>1. num * count \in Nat /\ n * den \in Nat /\ den * (count + 1) \in Nat /\ den * sum \in Nat
  OBVIOUS
<1>2. den * (count + 1) > 0
  OBVIOUS
<1>3. num * count + n * den = den * (sum + n)
  OBVIOUS
<1>4. (den * (sum + n)) * (count + 1) = (den * (count + 1)) * (sum + n)
  OBVIOUS
<1> QED BY <1>1, <1>2, <1>3, <1>4

LEMMA WritingKeepsMean ==
  ASSUME ReviewsInv, NEW p \in Panels, writeAverage(p)
  PROVE  ReviewsInv'
<1> DEFINE e == programOf[p]
           c == panel[p].call
           stored == [rating |-> c.stars, programIncomplete |-> c.label = "INCOMPLETE"]
<1>1. /\ e \in Programs /\ c \in Submissions /\ stored \in ReviewRows /\ stored # NoReview
      /\ c.at = "write" /\ c.stars \in Nat
  <2>1. e \in Programs /\ c \in Submissions
    BY ReviewsAssumption DEF ReviewsInv, ReviewsTypeOK
  <2>2. c.at = "write" /\ c.stars \in Ratings
    BY DEF ReviewsInv, Knows, writeAverage, CallAt, Underway
  <2>3. stored \in ReviewRows
    BY <2>2 DEF ReviewRows
  <2> QED BY <2>1, <2>2, <2>3, ReviewsAssumption DEF ReviewRows
<1>2. review[e] = NoReview /\ c.avg = rating.avg /\ c.count = rating.count
  BY <1>1 DEF ReviewsInv, Knows, Underway
<1>3. \A x \in Programs : review'[x] = IF x = e THEN stored ELSE review[x]
  BY DEF writeAverage, ReviewsInv, ReviewsTypeOK
<1>4. Reviewed' = Reviewed \cup {e} /\ e \notin Reviewed /\ IsFiniteSet(Reviewed)
  BY <1>1, <1>2, <1>3, ReviewsAssumption, FS_Subset DEF Reviewed
<1>5. /\ \A x \in Reviewed : ratings[x] \in Nat /\ ratings'[x] = ratings[x]
      /\ ratings'[e] = c.stars
  <2>1. \A x \in Reviewed : ratings[x] = review[x].rating /\ review[x].rating \in Nat
    BY ReviewsAssumption DEF ratings, Reviewed, ReviewsInv, ReviewsTypeOK, ReviewRows
  <2>2. \A x \in Reviewed' : ratings'[x] = review'[x].rating
    BY DEF ratings
  <2> QED BY <1>1, <1>3, <1>4, <2>1, <2>2 DEF Reviewed
<1>6. PICK sum \in Nat : sum = SumFunctionOnSet(ratings, Reviewed)
  BY <1>4, <1>5, SumIsNat
<1>7. SumFunctionOnSet(ratings', Reviewed') = sum + c.stars
  <2>1. SumFunctionOnSet(ratings', Reviewed) = sum
    BY <1>4, <1>5, <1>6, SumEqual
  <2>2. \A x \in Reviewed \cup {e} : ratings'[x] \in Int
    BY <1>1, <1>5
  <2>3. SumFunctionOnSet(ratings', Reviewed \cup {e}) = ratings'[e] + SumFunctionOnSet(ratings', Reviewed)
    BY <1>4, <2>2, SumWith
  <2> QED BY <1>1, <1>4, <1>5, <2>1, <2>3
<1>8. PICK num \in Nat, den \in Nat, count \in Nat :
        /\ rating = [avg |-> [num |-> num, den |-> den], count |-> count]
        /\ count = Cardinality(Reviewed) /\ den > 0 /\ num * count = den * sum
  BY <1>6 DEF ReviewsInv, ReviewsTypeOK, MeanIsRight, Averages
<1>m. /\ den * (count + 1) \in Nat /\ den * (count + 1) > 0
      /\ num * count + c.stars * den \in Nat
      /\ (num * count + c.stars * den) * (count + 1) = (den * (count + 1)) * (sum + c.stars)
  <2>1. PICK n \in Nat : n = c.stars
    BY <1>1
  <2>2. den > 0 /\ num * count = den * sum
    BY <1>8
  <2> HIDE DEF c
  <2>3. /\ den * (count + 1) \in Nat /\ den * (count + 1) > 0 /\ num * count + n * den \in Nat
        /\ (num * count + n * den) * (count + 1) = (den * (count + 1)) * (sum + n)
    BY <2>2, MeanWithOneMore
  <2> QED BY <2>1, <2>3
<1>9. rating' = [avg |-> [num |-> num * count + c.stars * den, den |-> den * (count + 1)], count |-> count + 1]
  BY <1>2, <1>8 DEF writeAverage
<1>10. MeanIsRight'
  <2>1. Cardinality(Reviewed') = count + 1
    BY <1>4, <1>8, FS_AddElement
  <2> QED BY <1>7, <1>9, <1>m, <2>1 DEF MeanIsRight
<1>11. \A q \in Panels : panel'[q] = IF q = p THEN [panel[p] EXCEPT !.call = [NoSubmission EXCEPT !.at = "ok"]] ELSE panel[q]
  BY DEF writeAverage, Go, ReviewsInv, ReviewsTypeOK
<1>12. ReviewsTypeOK'
  <2>1. PICK x \in Nat, y \in Nat : rating' = [avg |-> [num |-> x, den |-> y], count |-> count + 1]
    BY <1>9, <1>m
  <2>2. rating' \in [avg : Averages, count : Nat]
    BY <2>1 DEF Averages
  <2>3. review' \in [Programs -> ReviewRows \cup {NoReview}]
    BY <1>1 DEF ReviewsInv, ReviewsTypeOK, writeAverage
  <2>4. [NoSubmission EXCEPT !.at = "ok"] \in Submissions
    BY DEF NoSubmission, Submissions, Averages, Underway
  <2>5. panel' \in [Panels -> [done : BOOLEAN, call : Submissions]] /\ UNCHANGED engagement
    BY <2>4 DEF ReviewsInv, ReviewsTypeOK, writeAverage, Go
  <2> QED BY <2>2, <2>3, <2>5 DEF ReviewsInv, ReviewsTypeOK
<1>13. LockIsExclusive'
  BY <1>11 DEF ReviewsInv, LockIsExclusive, holdsLock, NoSubmission, ReviewsTypeOK
<1>15. ASSUME NEW q \in Panels PROVE Knows(panel[q].call, programOf[q])'
  <2>1. CASE q = p
    BY <1>11, <2>1 DEF Knows, NoSubmission, Underway, ReviewsInv, ReviewsTypeOK
  <2>2. CASE q # p
    <3>1. panel[q].call.at \notin {"average", "write"}
      BY <1>1, <2>2 DEF ReviewsInv, LockIsExclusive, holdsLock
    <3> QED BY <1>11, <2>2, <3>1 DEF ReviewsInv, Knows, writeAverage
  <2> QED BY <2>1, <2>2
<1> QED BY <1>10, <1>12, <1>13, <1>15 DEF ReviewsInv

LEMMA ReviewsInvInductive == ReviewsInv /\ [ReviewsNext]_reviewsVars => ReviewsInv'
<1> SUFFICES ASSUME ReviewsInv, [ReviewsNext]_reviewsVars PROVE ReviewsInv'
  OBVIOUS
<1> USE DEF CallAt, Go
<1>0. \A p \in Panels : /\ panel[p] \in [done : BOOLEAN, call : Submissions]
                        /\ programOf[p] \in Programs
                        /\ Knows(panel[p].call, programOf[p])
  BY ReviewsAssumption DEF ReviewsInv, ReviewsTypeOK
<1>1. \A x \in {"none", "ok", "refused", "lost"}, b \in BOOLEAN :
         [done |-> b, call |-> [NoSubmission EXCEPT !.at = x]] \in [done : BOOLEAN, call : Submissions]
  BY DEF NoSubmission, Submissions, Averages, Underway
\* A submission that is over, or answered, knows nothing and holds nothing.
<1>2. ASSUME NEW p \in Panels, NEW x \in {"none", "ok", "refused", "lost"}, NEW b \in BOOLEAN,
             panel' = [panel EXCEPT ![p] = [done |-> b, call |-> [NoSubmission EXCEPT !.at = x]]],
             UNCHANGED <<engagement, review, rating>>
      PROVE  ReviewsInv'
  <2>1. Knows([NoSubmission EXCEPT !.at = x], programOf[p])
    BY DEF Knows, NoSubmission, Underway
  <2>2. panel'[p] = [done |-> b, call |-> [NoSubmission EXCEPT !.at = x]]
    BY <1>2 DEF ReviewsInv, ReviewsTypeOK
  <2>3. panel'[p].call.at = x
    BY <2>2 DEF NoSubmission
  <2>4. ~holdsLock(p)'
    BY <2>3 DEF holdsLock
  <2> QED BY <1>1, <1>2, <2>1, <2>4, SubmissionMoves
<1>3. NoSubmission = [NoSubmission EXCEPT !.at = "none"]
  BY DEF NoSubmission
<1>4. ASSUME NEW p \in Panels, NEW x, panel' = [panel EXCEPT ![p].call = x]
      PROVE  panel' = [panel EXCEPT ![p] = [done |-> panel[p].done, call |-> x]] /\ panel[p].done \in BOOLEAN
  <2>1. [panel[p] EXCEPT !.call = x] = [done |-> panel[p].done, call |-> x] /\ panel[p].done \in BOOLEAN
    BY <1>0
  <2> QED BY <1>4, <2>1
<1>5. ASSUME NEW e \in Programs, ProgramMoves(e) PROVE ReviewsInv'
  BY <1>5, ProgramKeepsMean
<1>6. ASSUME NEW p \in Panels, NEW n \in Ratings, PressStars(p, n) PROVE ReviewsInv'
  <2> DEFINE x == [NoSubmission EXCEPT !.at = "read", !.stars = n]
  <2>1. x \in Submissions /\ Knows(x, programOf[p])
    BY ReviewsAssumption DEF NoSubmission, Submissions, Averages, Underway, Knows
  <2>2. panel' = [panel EXCEPT ![p] = [done |-> panel[p].done, call |-> x]] /\ panel[p].done \in BOOLEAN
    BY <1>4, <1>6 DEF PressStars
  <2>3. ~holdsLock(p)'
    BY <2>2 DEF holdsLock, NoSubmission, ReviewsInv, ReviewsTypeOK
  <2> QED BY <1>6, <2>1, <2>2, <2>3, SubmissionMoves DEF PressStars
<1>7. ASSUME NEW p \in Panels, readEligibility(p) PROVE ReviewsInv'
  <2> DEFINE e == programOf[p]
             x == [panel[p].call EXCEPT !.at = "lock", !.label = reviewEligibility(e)]
  <2>1. CASE reviewEligibility(e) = "none" \/ review[e] # NoReview
    <3>1. panel' = [panel EXCEPT ![p].call = [NoSubmission EXCEPT !.at = "refused"]]
      BY <1>7, <2>1, Zenon DEF readEligibility
    <3>2. panel' = [panel EXCEPT ![p] = [done |-> panel[p].done, call |-> [NoSubmission EXCEPT !.at = "refused"]]]
      BY <1>4, <3>1
    <3> QED BY <1>0, <1>2, <1>7, <3>2 DEF readEligibility
  <2>2. CASE ~(reviewEligibility(e) = "none" \/ review[e] # NoReview)
    <3>1. panel' = [panel EXCEPT ![p] = [done |-> panel[p].done, call |-> x]] /\ panel[p].done \in BOOLEAN
      BY <1>4, <1>7, <2>2 DEF readEligibility
    <3>2. reviewEligibility(e) \in {"COMPLETE", "INCOMPLETE"}
      BY <2>2 DEF reviewEligibility
    <3>3. x \in Submissions
      <4>1. panel[p].call \in Submissions
        BY <1>0
      <4> DEFINE l == reviewEligibility(e)
      <4>2. l \in {"none", "COMPLETE", "INCOMPLETE"} /\ "lock" \in Underway
        BY <3>2 DEF Underway
      <4> HIDE DEF l
      <4>3. [panel[p].call EXCEPT !.at = "lock", !.label = l] \in Submissions
        BY <4>1, <4>2 DEF Submissions
      <4> QED BY <4>3 DEF l
    <3>5. Knows(x, e)
      BY <1>0, <1>7 DEF Knows, Underway, Submissions, readEligibility
    <3>6. ~holdsLock(p)'
      BY <1>0, <3>1 DEF holdsLock, Submissions, ReviewsInv, ReviewsTypeOK
    <3> QED BY <1>7, <3>1, <3>3, <3>5, <3>6, SubmissionMoves DEF readEligibility
  <2> QED BY <2>1, <2>2
<1>8. ASSUME NEW p \in Panels, acquireLock(p) PROVE ReviewsInv'
  <2> DEFINE x == [panel[p].call EXCEPT !.at = "insert"]
  <2>1. panel' = [panel EXCEPT ![p] = [done |-> panel[p].done, call |-> x]] /\ panel[p].done \in BOOLEAN
    BY <1>4, <1>8 DEF acquireLock
  <2>2. x \in Submissions /\ Knows(x, programOf[p])
    BY <1>0, <1>8 DEF Submissions, Underway, Knows, acquireLock
  <2>3. \A q \in Panels : ~holdsLock(q)
    BY <1>8 DEF acquireLock, lockKey
  <2> QED BY <1>8, <2>1, <2>2, <2>3, SubmissionMoves DEF acquireLock
<1>9. ASSUME NEW p \in Panels, createReview(p) PROVE ReviewsInv'
  <2> DEFINE x == [panel[p].call EXCEPT !.at = "average"]
  <2>1. CASE review[programOf[p]] # NoReview
    BY <1>2, <1>4, <1>9, <2>1 DEF createReview
  <2>2. CASE review[programOf[p]] = NoReview
    <3>1. panel' = [panel EXCEPT ![p] = [done |-> panel[p].done, call |-> x]] /\ panel[p].done \in BOOLEAN
      BY <1>4, <1>9, <2>2 DEF createReview
    <3>2. x \in Submissions /\ Knows(x, programOf[p])
      BY <1>0, <1>9, <2>2 DEF Submissions, Underway, Knows, createReview
    <3>3. \A q \in Panels : holdsLock(q) => q = p
      BY <1>9 DEF createReview, ReviewsInv, LockIsExclusive, holdsLock
    <3> QED BY <1>9, <3>1, <3>2, <3>3, SubmissionMoves DEF createReview
  <2> QED BY <2>1, <2>2
<1>10. ASSUME NEW p \in Panels, readCoach(p) PROVE ReviewsInv'
  <2> DEFINE x == [panel[p].call EXCEPT !.at = "write", !.avg = rating.avg, !.count = rating.count]
  <2>1. panel' = [panel EXCEPT ![p] = [done |-> panel[p].done, call |-> x]] /\ panel[p].done \in BOOLEAN
    BY <1>4, <1>10 DEF readCoach
  <2>2. rating \in [avg : Averages, count : Nat]
    BY DEF ReviewsInv, ReviewsTypeOK
  <2>3. x \in Submissions /\ Knows(x, programOf[p])
    <3>1. panel[p].call \in Submissions /\ panel[p].call.at = "average" /\ Knows(panel[p].call, programOf[p])
      BY <1>0, <1>10 DEF readCoach, CallAt
    <3>2. PICK a \in Averages, n \in Nat : a = rating.avg /\ n = rating.count
      BY <2>2
    <3>3. x = [panel[p].call EXCEPT !.at = "write", !.avg = a, !.count = n]
      BY <3>2
    <3>4. x \in Submissions
      BY <3>1, <3>3 DEF Submissions, Underway
    <3>5. /\ x.at = "write" /\ x.stars = panel[p].call.stars /\ x.label = panel[p].call.label
          /\ x.avg = rating.avg /\ x.count = rating.count
      BY <3>1, <3>2, <3>3 DEF Submissions
    <3> QED BY <3>1, <3>4, <3>5 DEF Knows, Underway
  <2>4. \A q \in Panels : holdsLock(q) => q = p
    BY <1>10 DEF readCoach, ReviewsInv, LockIsExclusive, holdsLock
  <2> QED BY <1>10, <2>1, <2>3, <2>4, SubmissionMoves DEF readCoach
<1>11. ASSUME NEW p \in Panels, writeAverage(p) PROVE ReviewsInv'
  BY <1>11, WritingKeepsMean
<1>12. ASSUME NEW p \in Panels, ReviewAnswered(p) PROVE ReviewsInv'
  BY <1>2, <1>3, <1>12 DEF ReviewAnswered
<1>13. ASSUME NEW p \in Panels, ReloadPanel(p) PROVE ReviewsInv'
  BY <1>2, <1>3, <1>13 DEF ReloadPanel
<1>14. ASSUME NEW p \in Panels, ReviewLost(p) PROVE ReviewsInv'
  <2>1. panel' = [panel EXCEPT ![p].call = [NoSubmission EXCEPT !.at = "lost"]]
    BY <1>14 DEF ReviewLost
  <2>2. panel' = [panel EXCEPT ![p] = [done |-> panel[p].done, call |-> [NoSubmission EXCEPT !.at = "lost"]]]
    BY <1>4, <2>1
  <2> QED BY <1>0, <1>2, <1>14, <2>2 DEF ReviewLost
<1>15. CASE UNCHANGED reviewsVars
  BY <1>15 DEF reviewsVars, ReviewsInv, ReviewsTypeOK, LockIsExclusive, holdsLock, MeanIsRight, Reviewed, ratings,
               Knows
<1> QED BY <1>5, <1>6, <1>7, <1>8, <1>9, <1>10, <1>11, <1>12, <1>13, <1>14, <1>15 DEF ReviewsNext

\* Whichever submissions overlap, are refused or die, and whatever becomes of the programs meanwhile, the
\* average the coach's profile shows is the mean of the reviews committed (review-service.ts:88-125).
THEOREM TheRatingIsTheMean == ReviewsSpec => []RatingIsTheMean
<1>1. ReviewsInv => RatingIsTheMean
  BY DEF ReviewsInv, MeanIsRight, RatingIsTheMean
<1> QED BY <1>1, ReviewsInvInit, ReviewsInvInductive, PTL DEF ReviewsSpec

-------------------------------------------------------------------------------
(* Availability *)

Grid == [weekday : 0..6, hour : GRID_START_HOUR..GRID_END_HOUR - 1]

LEMMA LeastNumber ==
  ASSUME NEW S, S \subseteq Nat, S # {}
  PROVE  \E n \in S : \A k \in S : n <= k
<1>1. PICK n \in S : \A k \in S : ~(<<k, n>> \in OpToRel(<, Nat))
  BY NatLessThanWellFounded, WFMin
<1>2. \A k \in S : ~(k < n)
  BY <1>1 DEF OpToRel
<1> QED BY <1>2

\* A ticked hour is in a maximal run of ticked hours.
LEMMA HourIsInARun ==
  ASSUME NEW cells \in SUBSET Grid, NEW c \in cells
  PROVE  \E p \in runs(cells) : p[1].weekday = c.weekday /\ p[1].hour <= c.hour /\ c.hour <= p[2].hour
<1> DEFINE w == c.weekday
           h == c.hour
           ticked(x) == Cell(w, x) \in cells
<1>1. w \in 0..6 /\ h \in 7..22 /\ c = Cell(w, h)
  BY DEF Grid, GRID_START_HOUR, GRID_END_HOUR, Cell
<1>2. \A x : ticked(x) => x \in 7..22
  <2>1. \A x : Cell(w, x) \in Grid => x \in 7..22
    BY DEF Grid, Cell, GRID_START_HOUR, GRID_END_HOUR
  <2> QED BY <2>1
<1>3. ticked(h)
  BY <1>1
<1> HIDE DEF ticked
<1>4. PICK a \in 7..h : (\A x \in a..h : ticked(x)) /\ ~ticked(a - 1)
  <2> DEFINE A == {a \in Nat : a <= h /\ \A x \in a..h : ticked(x)}
  <2>1. h \in A
    <3>1. h \in Nat /\ h <= h /\ \A x \in h..h : x = h
      BY <1>1
    <3> QED BY <1>3, <3>1
  <2>2. PICK a \in A : \A k \in A : a <= k
    <3> HIDE DEF A
    <3>1. A \subseteq Nat
      BY DEF A
    <3> QED BY <2>1, <3>1, LeastNumber
  <2>3. a \in Nat /\ a <= h /\ \A x \in a..h : ticked(x)
    OBVIOUS
  <2>4. ticked(a)
    BY <1>1, <2>3
  <2>5. a \in 7..h
    BY <1>1, <1>2, <2>3, <2>4
  <2>6. ASSUME ticked(a - 1) PROVE FALSE
    <3>1. a - 1 \in Nat /\ a - 1 <= h /\ \A x \in a-1..h : x = a - 1 \/ x \in a..h
      BY <1>1, <2>5
    <3>2. a - 1 \in A
      BY <2>3, <2>6, <3>1
    <3> QED BY <2>2, <2>5, <3>2
  <2> QED BY <2>3, <2>5, <2>6
<1>5. PICK b \in h..22 : (\A x \in h..b : ticked(x)) /\ ~ticked(b + 1)
  <2> DEFINE B == {k \in Nat : h <= 22 - k /\ \A x \in h..22-k : ticked(x)}
  <2>1. 22 - h \in B
    <3>1. 22 - h \in Nat /\ h <= 22 - (22 - h) /\ \A x \in h..22-(22-h) : x = h
      BY <1>1
    <3> QED BY <1>3, <3>1
  <2>2. PICK k \in B : \A j \in B : k <= j
    <3> HIDE DEF B
    <3>1. B \subseteq Nat
      BY DEF B
    <3> QED BY <2>1, <3>1, LeastNumber
  <2>3. k \in Nat /\ h <= 22 - k /\ \A x \in h..22-k : ticked(x)
    OBVIOUS
  <2>4. 22 - k \in h..22
    BY <1>1, <2>3
  <2>5. ASSUME ticked((22 - k) + 1) PROVE FALSE
    <3>1. k >= 1
      BY <1>2, <2>3, <2>5
    <3>2. k - 1 \in Nat /\ h <= 22 - (k - 1) /\ \A x \in h..22-(k-1) : x = (22 - k) + 1 \/ x \in h..22-k
      BY <1>1, <2>3, <3>1
    <3>3. k - 1 \in B
      BY <2>3, <2>5, <3>2
    <3> QED BY <2>2, <2>3, <3>3
  <2> QED BY <2>3, <2>4, <2>5
<1>6. \A x \in a..b : ticked(x)
  <2>1. \A x \in a..b : x \in a..h \/ x \in h..b
    BY <1>1
  <2> QED BY <1>4, <1>5, <2>1
<1> DEFINE p == <<Cell(w, a), Cell(w, b)>>
<1>7. p[1].weekday = w /\ p[2].weekday = w /\ p[1].hour = a /\ p[2].hour = b
  BY DEF Cell
<1>8. p \in cells \X cells
  <2>1. a \in a..b /\ b \in a..b
    BY <1>1
  <2> QED BY <1>6, <2>1 DEF ticked
<1>9. a <= b /\ a <= h /\ h <= b
  BY <1>1
<1> HIDE DEF p, w, h
<1>10. p \in runs(cells)
  BY <1>4, <1>5, <1>6, <1>7, <1>8, <1>9 DEF runs, ticked
<1> QED BY <1>7, <1>9, <1>10 DEF w, h

\* The rows written for a grid cover its hours and no other.
LEMMA RangesCoverTheGrid ==
  ASSUME NEW cells \in SUBSET Grid, NEW w, NEW x
  PROVE  Cell(w, x) \in cells <=> \E r \in cellsToRanges(cells) : r.weekday = w /\ x \in Hours(r)
<1>1. {c \in cells : GRID_START_HOUR <= c.hour /\ c.hour < GRID_END_HOUR} = cells
  BY DEF Grid, GRID_START_HOUR, GRID_END_HOUR
<1>2. ASSUME Cell(w, x) \in cells
      PROVE  \E r \in cellsToRanges(cells) : r.weekday = w /\ x \in Hours(r)
  <2>1. PICK p \in runs(cells) : p[1].weekday = w /\ p[1].hour <= x /\ x <= p[2].hour
    BY <1>2, HourIsInARun DEF Cell
  <2> DEFINE r == [weekday |-> p[1].weekday, startHour |-> p[1].hour, endHour |-> p[2].hour + 1]
  <2>2. r \in cellsToRanges(cells)
    BY <1>1 DEF cellsToRanges
  <2>3. p[1].hour \in Int /\ p[2].hour \in Int
    BY DEF runs, Grid, GRID_START_HOUR, GRID_END_HOUR
  <2>4. x \in Int
    BY <1>2 DEF Cell, Grid, GRID_START_HOUR, GRID_END_HOUR
  <2>5. x \in Hours(r) /\ r.weekday = w
    BY <2>1, <2>3, <2>4 DEF Hours
  <2> QED BY <2>2, <2>5
<1>3. ASSUME NEW r \in cellsToRanges(cells), r.weekday = w, x \in Hours(r)
      PROVE  Cell(w, x) \in cells
  <2>1. PICK p \in runs(cells) : r = [weekday |-> p[1].weekday, startHour |-> p[1].hour, endHour |-> p[2].hour + 1]
    BY <1>1 DEF cellsToRanges
  <2>2. p[1].hour \in Int /\ p[2].hour \in Int /\ \A y \in p[1].hour..p[2].hour : Cell(p[1].weekday, y) \in cells
    BY DEF runs, Grid, GRID_START_HOUR, GRID_END_HOUR
  <2>3. x \in p[1].hour .. p[2].hour
    BY <1>3, <2>1, <2>2 DEF Hours
  <2> QED BY <1>3, <2>1, <2>2, <2>3
<1> QED BY <1>2, <1>3

\* What is written comes back as it was ticked.
LEMMA GridComesBack ==
  ASSUME NEW cells \in SUBSET Grid
  PROVE  rangesToCells(cellsToRanges(cells)) = cells
<1>1. \A w, x : Cell(w, x) \in rangesToCells(cellsToRanges(cells)) <=>
                  x \in GRID_START_HOUR..GRID_END_HOUR-1
                  /\ \E r \in cellsToRanges(cells) : r.weekday = w /\ x \in Hours(r)
  <2> DEFINE ranges == cellsToRanges(cells)
             grid(r) == {[weekday |-> r.weekday, hour |-> h] :
                            h \in Hours(r) \cap (GRID_START_HOUR .. GRID_END_HOUR - 1)}
  <2>1. rangesToCells(ranges) = UNION {grid(r) : r \in ranges}
    BY DEF rangesToCells
  <2>2. \A w, x, r : Cell(w, x) \in grid(r) <=>
                       r.weekday = w /\ x \in Hours(r) /\ x \in GRID_START_HOUR..GRID_END_HOUR-1
    BY DEF Cell
  <2> HIDE DEF ranges, grid
  <2>3. \A w, x : Cell(w, x) \in rangesToCells(ranges) <=> \E r \in ranges : Cell(w, x) \in grid(r)
    BY <2>1
  <2>4. ASSUME NEW w, NEW x
        PROVE  Cell(w, x) \in rangesToCells(ranges) <=>
                    x \in GRID_START_HOUR..GRID_END_HOUR-1 /\ \E r \in ranges : r.weekday = w /\ x \in Hours(r)
    <3>1. ASSUME NEW r
          PROVE  Cell(w, x) \in grid(r) <=>
                   r.weekday = w /\ x \in Hours(r) /\ x \in GRID_START_HOUR..GRID_END_HOUR-1
      BY <2>2
    <3>2. Cell(w, x) \in rangesToCells(ranges) <=> \E r \in ranges : Cell(w, x) \in grid(r)
      BY <2>3
    <3> QED BY <3>1, <3>2
  <2> QED BY <2>4 DEF ranges
<1>2. \A c \in rangesToCells(cellsToRanges(cells)) : c = Cell(c.weekday, c.hour)
  BY DEF rangesToCells, Cell
<1>3. \A c \in cells : c = Cell(c.weekday, c.hour) /\ c.hour \in GRID_START_HOUR..GRID_END_HOUR-1
  BY DEF Grid, Cell
<1>4. ASSUME NEW c \in rangesToCells(cellsToRanges(cells)) PROVE c \in cells
  BY <1>1, <1>2, RangesCoverTheGrid
<1>5. ASSUME NEW c \in cells PROVE c \in rangesToCells(cellsToRanges(cells))
  BY <1>1, <1>3, RangesCoverTheGrid
<1> QED BY <1>4, <1>5

\* The table is what the last save had on screen, and the screen shows cells of the grid.
AvailabilityInv ==
  /\ zone \in Offsets /\ clock \in Instants /\ standing \in Taken /\ exceptions \subseteq Dates
  /\ editor.selected \subseteq Cells /\ editor.saved \subseteq Cells
  /\ editor = [selected |-> editor.selected, baseline |-> editor.baseline, saved |-> editor.saved]
  /\ rules = cellsToRanges(editor.saved)

LEMMA AvailabilityInvInit == AvailabilityInit => AvailabilityInv
<1>1. cellsToRanges({}) = {}
  BY DEF cellsToRanges, runs
<1> QED BY <1>1 DEF AvailabilityInit, AvailabilityInv

LEMMA AvailabilityInvInductive == AvailabilityInv /\ [AvailabilityNext]_availabilityVars => AvailabilityInv'
<1> SUFFICES ASSUME AvailabilityInv, [AvailabilityNext]_availabilityVars PROVE AvailabilityInv'
  OBVIOUS
<1> USE DEF AvailabilityInv
<1>1. CASE OpenPage
  <2>1. rangesToCells(rules) = editor.saved
    BY AvailabilityAssumption, GridComesBack DEF Grid
  <2> QED BY <1>1, <2>1 DEF OpenPage
<1>2. CASE saveRecurringAvailability
  BY <1>2 DEF saveRecurringAvailability
<1>3. CASE ClockMoves
  BY <1>3 DEF ClockMoves
<1>4. ASSUME NEW c \in Cells, toggle(c) PROVE AvailabilityInv'
  <2>1. editor' = [editor EXCEPT !.selected = editor'.selected] /\ editor'.selected \subseteq Cells
    BY <1>4 DEF toggle
  <2> QED BY <1>4, <2>1 DEF toggle
<1>5. ASSUME NEW w \in 0..6, toggleColumn(w) PROVE AvailabilityInv'
  <2>1. editor' = [editor EXCEPT !.selected = editor'.selected] /\ editor'.selected \subseteq Cells
    BY <1>5 DEF toggleColumn
  <2> QED BY <1>5, <2>1 DEF toggleColumn
<1>6. ASSUME NEW d \in Dates, addBlackoutDate(d) \/ removeBlackoutDate(d) PROVE AvailabilityInv'
  BY <1>6 DEF addBlackoutDate, removeBlackoutDate
<1>7. CASE UNCHANGED availabilityVars
  BY <1>7 DEF availabilityVars
<1> QED BY <1>1, <1>2, <1>3, <1>4, <1>5, <1>6, <1>7 DEF AvailabilityNext

\* The days of the calendar are the coach's, noon falls on the day it is the noon of, and the closed days
\* the query returns are all that the calendar shows.
LEMMA DaysAreTheCoachs ==
  ASSUME AvailabilityInv, NEW offset \in 0..dayCount-1
  PROVE  LET day == localDate(clock) + offset
         IN  /\ day \in Int /\ dayShown(clock, offset) = day /\ weekdayOf(day) = day % 7
             /\ day \in exceptionsByDate(clock) <=> day \in exceptions
<1> DEFINE day == localDate(clock) + offset
<1>1. zone \in 0..12 /\ clock \in Nat /\ dayCount \in Nat /\ offset \in 0..dayCount-1 /\ exceptions \subseteq Nat
  BY AvailabilityAssumption DEF AvailabilityInv
<1>2. PICK z \in 0..12, t \in Nat : z = zone /\ t = clock
  BY <1>1
<1>3. PICK q \in Nat, r \in 0..23 : t + z = 24 * q + r /\ q = (t + z) \div 24
  BY <1>2
<1>4. day = q + offset /\ day \in Int
  BY <1>1, <1>2, <1>3 DEF localDate
<1>5. dayShown(clock, offset) = day
  <2>1. ((t + 24 * offset) + z) \div 24 = q + offset
    BY <1>1, <1>3
  <2> QED BY <1>2, <1>4, <2>1 DEF dayShown, localDate
<1>6. weekdayOf(day) = day % 7
  <2>1. ((24 * (q + offset) + 12) - z) \div 24 = q + offset
    BY <1>1, <1>3
  <2> QED BY <1>2, <1>4, <2>1 DEF weekdayOf, zonedToUtc
<1>7. q + offset >= t \div 24 /\ 24 * (q + offset) <= t + 24 * dayCount
  BY <1>1, <1>2, <1>3
<1>8. day \in exceptionsByDate(clock) <=> day \in exceptions
  BY <1>2, <1>4, <1>7 DEF exceptionsByDate, startOfDay
<1> QED BY <1>4, <1>5, <1>6, <1>8

\* A slot can be picked when nothing stands in it but what has lapsed or is the student's own.
LEMMA PickableIsFree ==
  ASSUME AvailabilityInv, NEW t \in Int
  PROVE  stateAt(clock, t) \in {"AVAILABLE", "MINE"} <=>
           \A s \in standing : t \in s.startsAt..s.endsAt-1 => s.state # "BOOKED" /\ (s.expiresAt <= clock \/ s.state = "MINE")
<1> DEFINE over == {s \in standing : overlaps(s, t)}
           holds == {s \in over : s.state # "BOOKED" /\ s.expiresAt > clock}
           h == CHOOSE s \in holds : TRUE
<1>0. /\ \A s \in standing : {s.startsAt, s.endsAt, s.expiresAt} \subseteq Int /\ s.state \in {"BOOKED", "HELD", "MINE"}
      /\ \A s, u \in standing :
           s.state # "BOOKED" /\ u.state # "BOOKED" /\ s.startsAt < u.endsAt /\ u.startsAt < s.endsAt => s = u
      /\ clock \in Int
  BY AvailabilityAssumption DEF AvailabilityInv
<1>o. \A s \in standing : overlaps(s, t) <=> t \in s.startsAt..s.endsAt-1
  BY <1>0 DEF overlaps
<1>1. /\ \A s \in standing : s.expiresAt \in Int /\ s.state \in {"BOOKED", "HELD", "MINE"}
      /\ \A s, u \in holds : s = u
      /\ clock \in Int
  <2>1. ASSUME NEW s \in holds, NEW u \in holds PROVE s = u
    <3>1. s.startsAt < u.endsAt /\ u.startsAt < s.endsAt
      BY <1>0 DEF overlaps
    <3> QED BY <1>0, <3>1
  <2> QED BY <1>0, <2>1
<1>2. stateAt(clock, t) = IF \E s \in over : s.state = "BOOKED" THEN "BOOKED"
                          ELSE IF holds # {} THEN h.state ELSE "AVAILABLE"
  BY DEF stateAt
<1>3. CASE \E s \in over : s.state = "BOOKED"
  BY <1>2, <1>3, <1>o
<1>4. CASE (\A s \in over : s.state # "BOOKED") /\ holds = {}
  BY <1>1, <1>2, <1>4, <1>o
<1>5. CASE (\A s \in over : s.state # "BOOKED") /\ holds # {}
  <2>1. h \in holds
    BY <1>5
  <2>2. \A s \in holds : s = h
    BY <1>1, <2>1
  <2>3. stateAt(clock, t) = h.state /\ h.state \in {"HELD", "MINE"}
    BY <1>1, <1>2, <1>5, <2>1
  <2> HIDE DEF h
  <2>4. ASSUME h.state = "MINE", NEW s \in standing, t \in s.startsAt..s.endsAt-1
        PROVE  s.state # "BOOKED" /\ (s.expiresAt <= clock \/ s.state = "MINE")
    BY <1>1, <1>5, <1>o, <2>2, <2>4
  <2>5. h.state = "HELD" => ~(h.expiresAt <= clock \/ h.state = "MINE") /\ h \in standing /\ t \in h.startsAt..h.endsAt-1
    BY <1>1, <1>o, <2>1
  <2> QED BY <2>3, <2>4, <2>5
<1> QED BY <1>3, <1>4, <1>5

\* For every zone from Greenwich to twelve hours east, every calendar and whatever was ticked, closed and
\* saved when: the calendar offers the saved hours that are free, and no other (booking/availability.ts, grid.ts).
THEOREM TheCalendarIsTheGrid == AvailabilitySpec => []CalendarIsTheGrid
<1>1. ASSUME AvailabilityInv PROVE CalendarIsTheGrid
  <2> SUFFICES ASSUME NEW offset \in 0..dayCount-1
               PROVE  LET day == localDate(clock) + offset
                          free(t) == \A s \in standing : t \in s.startsAt..s.endsAt-1 =>
                                       s.state # "BOOKED" /\ (s.expiresAt <= clock \/ s.state = "MINE")
                      IN  {s.startsAt : s \in {x \in getCoachCalendar(clock)[offset] : selectable(x)}} =
                          {t \in {24 * day + c.hour - zone : c \in {x \in editor.saved : x.weekday = day % 7}} :
                             t > clock /\ day \notin exceptions /\ free(t)}
    BY DEF CalendarIsTheGrid
  <2> DEFINE day == localDate(clock) + offset
             free(t) == \A s \in standing : t \in s.startsAt..s.endsAt-1 =>
                          s.state # "BOOKED" /\ (s.expiresAt <= clock \/ s.state = "MINE")
             starts == UNION {{zonedToUtc(day, h) : h \in Hours(r)} : r \in {x \in rules : x.weekday = weekdayOf(day)}}
             gridHours == {24 * day + c.hour - zone : c \in {x \in editor.saved : x.weekday = day % 7}}
  <2>1. /\ day \in Int /\ dayShown(clock, offset) = day /\ weekdayOf(day) = day % 7
        /\ day \in exceptionsByDate(clock) <=> day \in exceptions
    BY <1>1, DaysAreTheCoachs
  <2>2. editor.saved \in SUBSET Grid /\ rules = cellsToRanges(editor.saved)
    BY <1>1, AvailabilityAssumption DEF AvailabilityInv, Grid
  <2>3. \A c \in editor.saved : c = Cell(c.weekday, c.hour)
    BY <2>2 DEF Grid, Cell
  <2>4. starts = gridHours
    <3>1. ASSUME NEW t \in gridHours PROVE t \in starts
      <4>1. PICK c \in editor.saved : c.weekday = day % 7 /\ t = zonedToUtc(day, c.hour)
        BY DEF zonedToUtc
      <4>2. PICK r \in rules : r.weekday = c.weekday /\ c.hour \in Hours(r)
        BY <2>2, <2>3, RangesCoverTheGrid
      <4> QED BY <2>1, <4>1, <4>2
    <3>2. ASSUME NEW t \in starts PROVE t \in gridHours
      <4>0. PICK r \in rules : r.weekday = day % 7 /\ \E h \in Hours(r) : t = zonedToUtc(day, h)
        BY <2>1
      <4>1. PICK h \in Hours(r) : t = zonedToUtc(day, h)
        BY <4>0
      <4>2. Cell(r.weekday, h) \in editor.saved
        BY <2>2, <4>0, RangesCoverTheGrid
      <4>3. Cell(r.weekday, h).weekday = day % 7 /\ Cell(r.weekday, h).hour = h
        BY <4>0 DEF Cell
      <4> QED BY <4>1, <4>2, <4>3 DEF zonedToUtc
    <3> QED BY <3>1, <3>2
  <2>5. getCoachCalendar(clock)[offset] = IF day \in exceptions THEN {}
          ELSE {[startsAt |-> t, state |-> stateAt(clock, t)] : t \in {x \in starts : x > clock}}
    <3>1. getCoachCalendar(clock)[offset] = slots(clock, offset)
      BY DEF getCoachCalendar
    <3>2. slots(clock, offset) =
            IF dayShown(clock, offset) \in exceptionsByDate(clock) THEN {}
            ELSE {[startsAt |-> t, state |-> stateAt(clock, t)] :
                    t \in {x \in UNION {{zonedToUtc(dayShown(clock, offset), h) : h \in Hours(r)} :
                             r \in {x \in rules : x.weekday = weekdayOf(dayShown(clock, offset))}} : x > clock}}
      BY Zenon DEF slots
    <3>3. dayShown(clock, offset) = day /\ weekdayOf(dayShown(clock, offset)) = day % 7 /\ weekdayOf(day) = day % 7
      BY <2>1, Zenon
    <3> HIDE DEF day
    <3>4. slots(clock, offset) =
            IF day \in exceptionsByDate(clock) THEN {}
            ELSE {[startsAt |-> t, state |-> stateAt(clock, t)] : t \in {x \in starts : x > clock}}
      BY <3>2, <3>3
    <3> HIDE DEF starts
    <3> QED BY <2>1, <3>1, <3>4
  <2>g. gridHours \subseteq Int
    <3>1. zone \in Int /\ \A c \in editor.saved : c.hour \in Int
      BY <1>1, AvailabilityAssumption DEF AvailabilityInv
    <3> QED BY <2>1, <3>1
  <2> HIDE DEF starts, gridHours, day
  <2>6. \A t \in Int : free(t) <=> stateAt(clock, t) \in {"AVAILABLE", "MINE"}
    BY <1>1, PickableIsFree
  <2> HIDE DEF free
  <2>7. {s.startsAt : s \in {x \in getCoachCalendar(clock)[offset] : selectable(x)}} =
        {t \in gridHours : t > clock /\ day \notin exceptions /\ free(t)}
    <3> DEFINE C == getCoachCalendar(clock)[offset]
    <3>1. CASE day \in exceptions
      BY <2>5, <3>1
    <3>2. CASE day \notin exceptions
      <4>1. C = {[startsAt |-> t, state |-> stateAt(clock, t)] : t \in {x \in gridHours : x > clock}}
        BY <2>4, <2>5, <3>2
      <4> HIDE DEF C
      <4>2. ASSUME NEW t PROVE t \in {s.startsAt : s \in {x \in C : selectable(x)}} <=>
                               t \in gridHours /\ t > clock /\ stateAt(clock, t) \in {"AVAILABLE", "MINE"}
        <5>1. ASSUME NEW s \in C, selectable(s), t = s.startsAt
              PROVE  t \in gridHours /\ t > clock /\ stateAt(clock, t) \in {"AVAILABLE", "MINE"}
          <6>1. PICK u \in gridHours : u > clock /\ s = [startsAt |-> u, state |-> stateAt(clock, u)]
            BY <4>1
          <6>2. u = t /\ s.state = stateAt(clock, t)
            BY <5>1, <6>1
          <6> QED BY <5>1, <6>1, <6>2 DEF selectable
        <5>2. ASSUME t \in gridHours, t > clock, stateAt(clock, t) \in {"AVAILABLE", "MINE"}
              PROVE  \E s \in C : selectable(s) /\ t = s.startsAt
          <6> DEFINE s == [startsAt |-> t, state |-> stateAt(clock, t)]
          <6>1. s \in C
            BY <4>1, <5>2
          <6>2. selectable(s) /\ t = s.startsAt
            BY <5>2 DEF selectable
          <6> QED BY <6>1, <6>2
        <5> QED BY <5>1, <5>2
      <4> QED BY <2>6, <2>g, <3>2, <4>2 DEF C
    <3> QED BY <3>1, <3>2
  <2> QED BY <2>7 DEF gridHours, day, free
<1> QED BY <1>1, AvailabilityInvInit, AvailabilityInvInductive, PTL DEF AvailabilitySpec

-------------------------------------------------------------------------------
(* The study planner *)

Tasks == [week : Weeks \cup {0}, content : Contents \cup {0}, by : {"none", "COACH", "STUDENT"}, done : BOOLEAN]
Copying == CoachPages \ LivePages
Calls(p) ==
  {Call("add", c, w) : c \in Contents, w \in Weeks}
    \cup {Call("edit", x, w) : x \in TaskIds \X Contents, w \in Weeks}
    \cup {Call(op, t, w) : op \in {"mark", "remove"}, t \in TaskIds, w \in Weeks}
    \cup {Call("load", 0, w) : w \in Weeks}
    \cup {Call("copy", 0, w) : w \in IF p \in Copying THEN Weeks ELSE {}}
Copy == {NoCopy} \cup [step : {"write"}, rows : SUBSET (TaskIds \X (Contents \cup {0}))]

PageRows(p) == [monday : Weeks, tasks : SUBSET TaskIds, calls : Seq(Calls(p)), copy : Copy]

PlannerTypeOK ==
  /\ task \in [TaskIds -> Tasks]
  /\ wanted \in [Weeks -> [Contents -> Nat]]
  /\ page = [p \in Pages |-> page[p]] /\ \A p \in Pages : page[p] \in PageRows(p)

\* How often a content stands in a week, and how often it was written into that week or one before it.
Standing(w, c) == {t \in listWeek(w) : task[t].content = c}
Wanted(w, c) == SumFunctionOnSet([v \in Weeks |-> wanted[v][c]], 1..w)

Copies(p, c) == {r \in page[p].copy.rows : r[2] = c}

\* A copy that was read and not yet written: what it is going to add was wanted, too.
CopyIsWanted(p) ==
  page[p].copy # NoCopy =>
    /\ At(p, "copy") /\ IsFiniteSet(page[p].copy.rows)
    /\ LET w == Head(page[p].calls).week
       IN  IF w + 1 \in Weeks
           THEN \A c \in Contents : Cardinality(Standing(w + 1, c)) + Cardinality(Copies(p, c)) <= Wanted(w + 1, c)
           ELSE page[p].copy.rows = {}

PlannerInv ==
  /\ PlannerTypeOK
  /\ \A w \in Weeks, c \in Contents : Cardinality(Standing(w, c)) <= Wanted(w, c)
  /\ \A p \in Pages : CopyIsWanted(p)

-------------------------------------------------------------------------------
(* Counting *)

\* A sum of which one summand grows by one grows by one.
LEMMA SumGrows ==
  ASSUME NEW f, NEW g, NEW S, IsFiniteSet(S), \A y \in S : f[y] \in Int, NEW x \in S,
         g[x] = f[x] + 1, \A y \in S \ {x} : g[y] = f[y]
  PROVE  SumFunctionOnSet(g, S) = SumFunctionOnSet(f, S) + 1
<1>1. SumFunctionOnSet(f, S) = f[x] + SumFunctionOnSet(f, S \ {x})
  BY SumWithout
<1>2. \A y \in S : g[y] \in Int
  <2> TAKE y \in S
  <2> QED BY f[y] \in Int, f[x] \in Int
<1>3. SumFunctionOnSet(g, S) = g[x] + SumFunctionOnSet(g, S \ {x})
  BY <1>2, SumWithout
<1>4. IsFiniteSet(S \ {x})
  BY FS_Subset
<1>5. SumFunctionOnSet(g, S \ {x}) = SumFunctionOnSet(f, S \ {x})
  BY <1>4, SumEqual
<1>6. PICK n \in Int : n = SumFunctionOnSet(f, S \ {x})
  BY <1>4, SumIsInt
<1>7. PICK k \in Int : k = f[x]
  OBVIOUS
<1>8. (k + 1) + n = (k + n) + 1
  OBVIOUS
<1> QED BY <1>1, <1>3, <1>5, <1>6, <1>7, <1>8

LEMMA WeeksAreNumbers == \A w \in Weeks : w \in Nat /\ w >= 1 /\ 1..w \subseteq Weeks /\ IsFiniteSet(1..w)
<1>1. Cardinality(Weeks) \in Nat
  BY PlannerAssumption, FS_CardinalityType
<1>2. PICK n \in Nat : Weeks = 1..n
  BY <1>1, PlannerAssumption
<1>3. \A w \in 1..n : w \in Nat /\ w >= 1 /\ 1..w \subseteq 1..n
  OBVIOUS
<1>4. \A w \in Nat : IsFiniteSet(1..w)
  BY FS_Interval
<1> QED BY <1>2, <1>3, <1>4

LEMMA StandingIsFinite ==
  \A w, c : IsFiniteSet(Standing(w, c)) /\ Cardinality(Standing(w, c)) \in Nat
BY PlannerAssumption, FS_Subset, FS_CardinalityType DEF Standing, listWeek

LEMMA WantedIsNat ==
  ASSUME wanted \in [Weeks -> [Contents -> Nat]], NEW w \in Weeks, NEW c \in Contents
  PROVE  Wanted(w, c) \in Nat
<1> DEFINE f == [v \in Weeks |-> wanted[v][c]]
<1>1. \A v \in 1..w : f[v] \in Nat
  BY WeeksAreNumbers
<1> HIDE DEF f
<1>2. SumFunctionOnSet(f, 1..w) \in Nat
  BY <1>1, WeeksAreNumbers, SumIsNat
<1> QED BY <1>2 DEF Wanted, f

\* What was wanted in a week is wanted in the next.
LEMMA WantedGrows ==
  ASSUME wanted \in [Weeks -> [Contents -> Nat]], NEW w \in Weeks, w + 1 \in Weeks, NEW c \in Contents
  PROVE  Wanted(w, c) <= Wanted(w + 1, c)
<1> DEFINE f == [v \in Weeks |-> wanted[v][c]]
<1>1. \A v \in 1..w+1 : f[v] \in Nat
  BY WeeksAreNumbers
<1>2. 1..w+1 = 1..w \cup {w + 1} /\ w + 1 \notin 1..w /\ IsFiniteSet(1..w)
  BY WeeksAreNumbers
<1> HIDE DEF f
<1>3. \A v \in 1..w \cup {w + 1} : f[v] \in Int
  <2> TAKE v \in 1..w \cup {w + 1}
  <2>1. f[v] \in Nat
    BY <1>1, <1>2, Zenon
  <2> QED BY <2>1
<1>4. SumFunctionOnSet(f, 1..w+1) = f[w + 1] + SumFunctionOnSet(f, 1..w)
  BY <1>2, <1>3, SumWith
<1>5. \A v \in 1..w : f[v] \in Nat
  BY <1>1, <1>2
<1>6. SumFunctionOnSet(f, 1..w) \in Nat /\ f[w + 1] \in Nat
  BY <1>1, <1>2, <1>5, SumIsNat
<1>7. \A a, b \in Nat : a <= b + a
  OBVIOUS
<1> QED BY <1>4, <1>6, <1>7 DEF Wanted, f

\* A content written into a week is wanted once more there and in every later week.
LEMMA WantedOnceMore ==
  ASSUME wanted \in [Weeks -> [Contents -> Nat]], NEW v \in Weeks, NEW d \in Contents,
         wanted' = [wanted EXCEPT ![v][d] = @ + 1], NEW w \in Weeks, NEW c \in Contents
  PROVE  Wanted(w, c)' = IF c = d /\ v <= w THEN Wanted(w, c) + 1 ELSE Wanted(w, c)
<1> DEFINE f == [u \in Weeks |-> wanted[u][c]]
           g == [u \in Weeks |-> wanted'[u][c]]
<1>1. \A u \in Weeks : f[u] \in Nat /\ g[u] = IF c = d /\ u = v THEN f[u] + 1 ELSE f[u]
  OBVIOUS
<1>2. 1..w \subseteq Weeks /\ IsFiniteSet(1..w) /\ (v <= w => v \in 1..w) /\ (v \in 1..w => v <= w)
  BY WeeksAreNumbers
<1> HIDE DEF f, g
<1>3. CASE c = d /\ v <= w
  <2>1. SumFunctionOnSet(g, 1..w) = SumFunctionOnSet(f, 1..w) + 1
    <3>1. \A u \in 1..w : f[u] \in Int
      BY <1>1, <1>2
    <3>2. v \in 1..w /\ g[v] = f[v] + 1 /\ \A u \in (1..w) \ {v} : g[u] = f[u]
      BY <1>1, <1>2, <1>3
    <3> QED BY <1>2, <3>1, <3>2, SumGrows
  <2> QED BY <1>3, <2>1 DEF Wanted, f, g
<1>4. CASE ~(c = d /\ v <= w)
  <2>1. ASSUME NEW u \in 1..w PROVE f[u] \in Int /\ f[u] = g[u]
    <3>1. u \in Weeks
      BY <1>2
    <3>2. ~(c = d /\ u = v)
      BY <1>2, <1>4
    <3>3. f[u] \in Nat /\ g[u] = f[u]
      BY <1>1, <3>1, <3>2
    <3> QED BY <3>3
  <2>2. SumFunctionOnSet(f, 1..w) = SumFunctionOnSet(g, 1..w)
    BY <1>2, <2>1, SumEqual
  <2> QED BY <1>4, <2>2 DEF Wanted, f, g
<1> QED BY <1>3, <1>4

-------------------------------------------------------------------------------
(* Steps *)

\* A step that writes no copy keeps the invariant, if what stands in a week grows only by what is wanted
\* once more there, and if a page that has read a copy stays at its call.
LEMMA WritingByHand ==
  ASSUME PlannerInv, PlannerTypeOK',
         \A w \in Weeks, c \in Contents :
            /\ Cardinality(Standing(w, c)') + Wanted(w, c) <= Cardinality(Standing(w, c)) + Wanted(w, c)'
            /\ Cardinality(Standing(w, c)') \in Nat,
         \A p \in Pages : page[p].copy # NoCopy =>
            /\ page'[p].copy = page[p].copy
            /\ page'[p].calls # <<>> /\ Head(page'[p].calls) = Head(page[p].calls),
         \A p \in Pages : page'[p].copy # NoCopy => page[p].copy # NoCopy
  PROVE  PlannerInv'
<1>1. \A w \in Weeks, c \in Contents :
        /\ Wanted(w, c) \in Nat /\ Wanted(w, c)' \in Nat /\ Cardinality(Standing(w, c)) \in Nat
        /\ Cardinality(Standing(w, c)) <= Wanted(w, c)
  <2> TAKE w \in Weeks, c \in Contents
  <2>1. Wanted(w, c) \in Nat
    BY WantedIsNat DEF PlannerInv, PlannerTypeOK
  <2>2. wanted' \in [Weeks -> [Contents -> Nat]]
    BY DEF PlannerTypeOK
  <2>3. Wanted(w, c)' \in Nat
    <3> DEFINE f == [v \in Weeks |-> wanted'[v][c]]
    <3>1. \A v \in 1..w : f[v] \in Nat
      BY <2>2, WeeksAreNumbers
    <3> HIDE DEF f
    <3>2. SumFunctionOnSet(f, 1..w) \in Nat
      BY <3>1, WeeksAreNumbers, SumIsNat
    <3> QED BY <3>2 DEF Wanted, f
  <2> QED BY <2>1, <2>3, StandingIsFinite DEF PlannerInv
<1>2. ASSUME NEW w \in Weeks, NEW c \in Contents PROVE Cardinality(Standing(w, c)') <= Wanted(w, c)'
  BY <1>1
<1>3. ASSUME NEW p \in Pages, page'[p].copy # NoCopy PROVE CopyIsWanted(p)'
  <2>1. page[p].copy # NoCopy /\ CopyIsWanted(p)
    BY <1>3 DEF PlannerInv
  <2>2. /\ page'[p].copy = page[p].copy /\ Head(page'[p].calls) = Head(page[p].calls) /\ page'[p].calls # <<>>
    BY <2>1
  <2>3. At(p, "copy") /\ At(p, "copy")'
    BY <2>1, <2>2 DEF CopyIsWanted, At, pending
  <2>w. PICK w : w = Head(page[p].calls).week /\ w = Head(page'[p].calls).week
    BY <2>2
  <2>4. CASE w + 1 \notin Weeks
    BY <2>1, <2>2, <2>3, <2>4, <2>w DEF CopyIsWanted
  <2>5. CASE w + 1 \in Weeks
    <3>1. ASSUME NEW c \in Contents
          PROVE  Cardinality(Standing(w + 1, c)') + Cardinality(Copies(p, c)') <= Wanted(w + 1, c)'
      <4>1. Cardinality(Standing(w + 1, c)) + Cardinality(Copies(p, c)) <= Wanted(w + 1, c)
        BY <2>1, <2>5, <2>w DEF CopyIsWanted
      <4>2. Copies(p, c)' = Copies(p, c)
        BY <2>2 DEF Copies
      <4>3. Cardinality(Copies(p, c)) \in Nat
        <5>1. IsFiniteSet(page[p].copy.rows)
          BY <2>1 DEF CopyIsWanted
        <5> QED BY <5>1, FS_Subset, FS_CardinalityType DEF Copies
      <4>4. PICK a \in Nat, b \in Nat, k \in Nat, x \in Nat, y \in Nat :
              /\ a = Cardinality(Standing(w + 1, c)) /\ b = Cardinality(Standing(w + 1, c)')
              /\ k = Cardinality(Copies(p, c)) /\ x = Wanted(w + 1, c) /\ y = Wanted(w + 1, c)'
              /\ b + x <= a + y
        <5>1. /\ Wanted(w + 1, c) \in Nat /\ Wanted(w + 1, c)' \in Nat /\ Cardinality(Standing(w + 1, c)) \in Nat
              /\ Cardinality(Standing(w + 1, c)') \in Nat
              /\ Cardinality(Standing(w + 1, c)') + Wanted(w + 1, c)
                   <= Cardinality(Standing(w + 1, c)) + Wanted(w + 1, c)'
          BY <1>1, <2>5
        <5> QED BY <4>3, <5>1
      <4>a. a + k <= x
        BY <4>1, <4>4
      <4>b. \A i, j, l, m, n \in Nat : i + l <= m /\ j + m <= i + n => j + l <= n
        OBVIOUS
      <4>5. b + k <= y
        BY <4>4, <4>a, <4>b
      <4>6. Cardinality(Standing(w + 1, c)') + Cardinality(Copies(p, c)) <= Wanted(w + 1, c)'
        BY <4>4, <4>5
      <4> QED BY <4>2, <4>6
    <3> QED BY <2>1, <2>2, <2>3, <2>5, <2>w, <3>1 DEF CopyIsWanted
  <2> QED BY <2>4, <2>5
<1>4. ASSUME NEW p \in Pages, page'[p].copy = NoCopy PROVE CopyIsWanted(p)'
  BY <1>4 DEF CopyIsWanted
<1> QED BY <1>2, <1>3, <1>4 DEF PlannerInv

\* The page of such a step: a call is appended, or one that is no copy is done.
LEMMA QuietStep ==
  ASSUME PlannerInv, NEW p \in Pages, NEW x \in PageRows(p), page' = [page EXCEPT ![p] = x],
         x.copy = page[p].copy,
         page[p].copy # NoCopy => x.calls # <<>> /\ Head(x.calls) = Head(page[p].calls),
         task' \in [TaskIds -> Tasks], wanted' \in [Weeks -> [Contents -> Nat]],
         \A w \in Weeks, c \in Contents :
            Cardinality(Standing(w, c)') + Wanted(w, c) <= Cardinality(Standing(w, c)) + Wanted(w, c)'
  PROVE  PlannerInv'
<1>1. \A q \in Pages : page'[q] = IF q = p THEN x ELSE page[q]
  BY DEF PlannerInv, PlannerTypeOK
<1>2. \A q \in Pages : page'[q] \in PageRows(q)
  BY <1>1 DEF PlannerInv, PlannerTypeOK
<1>3. page' = [q \in Pages |-> page'[q]]
  BY DEF PlannerInv, PlannerTypeOK
<1>4. PlannerTypeOK'
  BY <1>2, <1>3 DEF PlannerTypeOK
<1>5. \A w \in Weeks, c \in Contents : Cardinality(Standing(w, c)') \in Nat
  BY PlannerAssumption, FS_Subset, FS_CardinalityType DEF Standing, listWeek
<1>6. \A q \in Pages : page[q].copy # NoCopy =>
            /\ page'[q].copy = page[q].copy
            /\ page'[q].calls # <<>> /\ Head(page'[q].calls) = Head(page[q].calls)
  <2> TAKE q \in Pages
  <2> HAVE page[q].copy # NoCopy
  <2>1. CopyIsWanted(q) /\ page[q].calls # <<>>
    BY DEF PlannerInv, CopyIsWanted, At, pending
  <2> QED BY <1>1, <2>1
<1>7. \A q \in Pages : page'[q].copy # NoCopy => page[q].copy # NoCopy
  BY <1>1
<1> QED BY <1>4, <1>5, <1>6, <1>7, WritingByHand

\* Nothing is written: what stands in a week is what stood there, or less.
LEMMA NoMoreStands ==
  ASSUME PlannerInv, UNCHANGED wanted, \A w \in Weeks, c \in Contents : Standing(w, c)' \subseteq Standing(w, c),
         NEW w \in Weeks, NEW c \in Contents
  PROVE  Cardinality(Standing(w, c)') + Wanted(w, c) <= Cardinality(Standing(w, c)) + Wanted(w, c)'
<1>1. Wanted(w, c)' = Wanted(w, c)
  BY DEF Wanted
<1>2. PICK n \in Nat : n = Wanted(w, c)
  BY WantedIsNat DEF PlannerInv, PlannerTypeOK
<1>3. PICK a \in Nat, b \in Nat : a = Cardinality(Standing(w, c)) /\ b = Cardinality(Standing(w, c)') /\ b <= a
  BY StandingIsFinite, FS_Subset, FS_CardinalityType
<1>4. b + n <= a + n
  BY <1>3
<1> QED BY <1>1, <1>2, <1>3, <1>4

\* A row is written by hand: one more may stand in its week, and one more is wanted there.
LEMMA OneMoreStands ==
  ASSUME PlannerInv, NEW v \in Weeks, NEW d \in Contents, NEW t,
         wanted' = [wanted EXCEPT ![v][d] = @ + 1],
         \A w \in Weeks, c \in Contents :
            Standing(w, c)' \subseteq IF w = v /\ c = d THEN Standing(w, c) \cup {t} ELSE Standing(w, c),
         NEW w \in Weeks, NEW c \in Contents
  PROVE  Cardinality(Standing(w, c)') + Wanted(w, c) <= Cardinality(Standing(w, c)) + Wanted(w, c)'
<1>1. Wanted(w, c)' = IF c = d /\ v <= w THEN Wanted(w, c) + 1 ELSE Wanted(w, c)
  <2>1. wanted \in [Weeks -> [Contents -> Nat]]
    BY DEF PlannerInv, PlannerTypeOK
  <2> QED BY <2>1, WantedOnceMore
<1>2. PICK n \in Nat : n = Wanted(w, c)
  BY WantedIsNat DEF PlannerInv, PlannerTypeOK
<1>3. IsFiniteSet(Standing(w, c)) /\ IsFiniteSet(Standing(w, c) \cup {t})
      /\ Cardinality(Standing(w, c)) \in Nat
      /\ Cardinality(Standing(w, c) \cup {t}) \in Nat
      /\ Cardinality(Standing(w, c) \cup {t}) <= Cardinality(Standing(w, c)) + 1
  <2>1. PICK a \in Nat : a = Cardinality(Standing(w, c))
    BY StandingIsFinite
  <2>2. /\ IsFiniteSet(Standing(w, c)) /\ IsFiniteSet(Standing(w, c) \cup {t})
        /\ Cardinality(Standing(w, c) \cup {t}) = IF t \in Standing(w, c) THEN a ELSE a + 1
    BY <2>1, StandingIsFinite, FS_AddElement
  <2>3. PICK b \in Nat : b = Cardinality(Standing(w, c) \cup {t})
    BY <2>2, FS_CardinalityType
  <2> QED BY <2>1, <2>2, <2>3
<1>4. PICK a \in Nat : a = Cardinality(Standing(w, c))
  BY <1>3
<1>5. CASE w = v /\ c = d
  <2>1. Standing(w, c)' \subseteq Standing(w, c) \cup {t}
    BY <1>5
  <2>2. PICK b \in Nat : b = Cardinality(Standing(w, c)') /\ b <= a + 1
    <3>1. Cardinality(Standing(w, c)') \in Nat /\ Cardinality(Standing(w, c)') <= Cardinality(Standing(w, c) \cup {t})
      BY <1>3, <2>1, FS_Subset, FS_CardinalityType
    <3> QED BY <1>3, <1>4, <3>1
  <2>3. Wanted(w, c)' = n + 1
    BY <1>1, <1>2, <1>5, WeeksAreNumbers
  <2>4. b + n <= a + (n + 1)
    BY <2>2
  <2> QED BY <1>2, <1>4, <2>2, <2>3, <2>4
<1>6. CASE ~(w = v /\ c = d)
  <2>1. Standing(w, c)' \subseteq Standing(w, c)
    BY <1>6
  <2>2. PICK b \in Nat : b = Cardinality(Standing(w, c)') /\ b <= a
    BY <1>3, <1>4, <2>1, FS_Subset, FS_CardinalityType
  <2>3. PICK k \in Nat : k = Wanted(w, c)' /\ n <= k
    BY <1>1, <1>2
  <2>4. b + n <= a + k
    BY <2>2, <2>3
  <2> QED BY <1>2, <1>4, <2>2, <2>3, <2>4
<1> QED BY <1>5, <1>6

\* The call that has its turn is one of its page's, and copies are asked for on one page.
LEMMA CallAtTurn ==
  ASSUME PlannerInv, NEW p \in Pages, NEW op, At(p, op)
  PROVE  /\ page[p].calls \in Seq(Calls(p)) /\ page[p].calls # <<>>
         /\ Head(page[p].calls) \in Calls(p) /\ Head(page[p].calls).week \in Weeks
         /\ Tail(page[p].calls) \in Seq(Calls(p))
         /\ op = "copy" => p \in Copying
         /\ op = "add" => arg(p) \in Contents
         /\ op = "edit" => arg(p) \in TaskIds \X Contents
         /\ op \in {"mark", "remove"} => arg(p) \in TaskIds
<1>1. page[p].calls \in Seq(Calls(p)) /\ page[p].calls # <<>>
  BY DEF PlannerInv, PlannerTypeOK, PageRows, At, pending
<1>2. Head(page[p].calls) \in Calls(p) /\ Tail(page[p].calls) \in Seq(Calls(p))
  BY <1>1
<1>3. \A c \in Calls(p) : /\ c.week \in Weeks /\ (c.op = "copy" => p \in Copying)
                          /\ (c.op = "add" => c.arg \in Contents)
                          /\ (c.op = "edit" => c.arg \in TaskIds \X Contents)
                          /\ (c.op \in {"mark", "remove"} => c.arg \in TaskIds)
  <2> TAKE c \in Calls(p)
  <2>1. CASE \E x \in Contents, w \in Weeks : c = Call("add", x, w)
    BY <2>1 DEF Call
  <2>2. CASE \E x \in TaskIds \X Contents, w \in Weeks : c = Call("edit", x, w)
    BY <2>2 DEF Call
  <2>3. CASE \E o \in {"mark", "remove"}, t \in TaskIds, w \in Weeks : c = Call(o, t, w)
    BY <2>3 DEF Call
  <2>4. CASE \E w \in Weeks : c = Call("load", 0, w)
    BY <2>4 DEF Call
  <2>5. CASE \E w \in Weeks : c = Call("copy", 0, w) /\ p \in Copying
    BY <2>5 DEF Call
  <2> QED BY <2>1, <2>2, <2>3, <2>4, <2>5 DEF Calls
<1> QED BY <1>1, <1>2, <1>3 DEF At, arg

\* Two pages never copy at once.
LEMMA OnePageCopies ==
  ASSUME PlannerInv, NEW p \in Pages, At(p, "copy"), NEW q \in Pages, q # p
  PROVE  page[q].copy = NoCopy
<1>1. page[q].copy # NoCopy => At(q, "copy")
  BY DEF PlannerInv, CopyIsWanted
<1>2. p \in Copying /\ (page[q].copy # NoCopy => q \in Copying)
  BY <1>1, CallAtTurn
<1> QED BY <1>2, PlannerAssumption DEF Copying

\* A week that is read for copying: each content that is going to be added is not in the next week, and
\* stands in this one as often as it was wanted.
LEMMA ReadIsWanted ==
  ASSUME PlannerInv, NEW p \in Pages, ReadWeek(p)
  PROVE  PlannerInv'
<1> DEFINE w == Head(page[p].calls).week
           R == IF w + 1 \in Weeks THEN {<<t, task[t].content>> : t \in toCopy(w)} ELSE {}
<1>0. At(p, "copy") /\ UNCHANGED <<task, wanted>> /\ page' = [page EXCEPT ![p].copy = [step |-> "write", rows |-> R]]
  BY DEF ReadWeek
<1>1. w \in Weeks /\ page[p].calls # <<>>
  BY <1>0, CallAtTurn
<1>2. toCopy(w) \subseteq TaskIds /\ toCopy(w) \subseteq listWeek(w)
      /\ \A t \in toCopy(w) : \A k \in listWeek(w + 1) : task[k].content # task[t].content
  BY DEF toCopy, listWeek
<1>3. \A t \in TaskIds : task[t].content \in Contents \cup {0}
  BY DEF PlannerInv, PlannerTypeOK, Tasks
<1>4. R \subseteq TaskIds \X (Contents \cup {0}) /\ \A r \in R : w + 1 \in Weeks /\ \E t \in toCopy(w) : r = <<t, task[t].content>>
  BY <1>2, <1>3
<1>5. ASSUME NEW D \in SUBSET toCopy(w), NEW Q, Q = {<<t, task[t].content>> : t \in D}
      PROVE  IsFiniteSet(Q) /\ Cardinality(Q) <= Cardinality(D)
  <2> DEFINE f == [t \in D |-> <<t, task[t].content>>]
  <2>1. f \in Surjection(D, Q)
    BY <1>5 DEF Surjection
  <2>2. IsFiniteSet(D)
    BY <1>2, PlannerAssumption, FS_Subset
  <2> HIDE DEF f
  <2> QED BY <2>1, <2>2, FS_Surjection
<1>6. IsFiniteSet(R)
  <2>1. CASE w + 1 \in Weeks
    BY <1>5, <2>1
  <2>2. CASE w + 1 \notin Weeks
    BY <2>2, FS_EmptySet
  <2> QED BY <2>1, <2>2
<1>7. ASSUME NEW c \in Contents, w + 1 \in Weeks
      PROVE  Cardinality(Standing(w + 1, c)) + Cardinality({r \in R : r[2] = c}) <= Wanted(w + 1, c)
  <2> DEFINE Q == {r \in R : r[2] = c}
             D == {t \in toCopy(w) : task[t].content = c}
  <2>1. PICK n \in Nat, k \in Nat : n = Wanted(w + 1, c) /\ k = Wanted(w, c) /\ k <= n
    <3>1. wanted \in [Weeks -> [Contents -> Nat]]
      BY DEF PlannerInv, PlannerTypeOK
    <3> HIDE DEF w
    <3> QED BY <1>1, <1>7, <3>1, WantedIsNat, WantedGrows
  <2>2. PICK a \in Nat : a = Cardinality(Standing(w + 1, c)) /\ a <= n
    BY <1>7, <2>1, StandingIsFinite DEF PlannerInv
  <2>3. Q = {<<t, task[t].content>> : t \in D}
    BY <1>7
  <2>4. CASE Q = {}
    <3>1. Cardinality(Q) = 0 /\ a + 0 <= n
      BY <2>2, <2>4, FS_EmptySet
    <3> QED BY <2>1, <2>2, <3>1
  <2>5. CASE Q # {}
    <3>1. D # {}
      BY <2>3, <2>5
    <3>2. Standing(w + 1, c) = {}
      BY <1>2, <3>1 DEF Standing
    <3>3. D \subseteq Standing(w, c)
      BY <1>2 DEF Standing
    <3>4. Cardinality(Standing(w, c)) <= k /\ Cardinality(Standing(w, c)) \in Nat
      BY <1>1, <2>1, StandingIsFinite DEF PlannerInv
    <3>5. Cardinality(D) <= Cardinality(Standing(w, c)) /\ Cardinality(D) \in Nat
      BY <3>3, StandingIsFinite, FS_Subset, FS_CardinalityType
    <3> HIDE DEF Q, D
    <3>6. D \in SUBSET toCopy(w)
      BY DEF D
    <3>7. Cardinality(Q) <= Cardinality(D) /\ Cardinality(Q) \in Nat
      BY <1>5, <2>3, <3>6, FS_CardinalityType
    <3>8. Cardinality(Standing(w + 1, c)) = 0
      BY <3>2, FS_EmptySet
    <3>9. 0 + Cardinality(Q) <= n
      BY <2>1, <3>4, <3>5, <3>7
    <3> QED BY <2>1, <3>8, <3>9 DEF Q
  <2> QED BY <2>4, <2>5
<1>8. \A q \in Pages : page'[q] = IF q = p THEN [page[p] EXCEPT !.copy = [step |-> "write", rows |-> R]] ELSE page[q]
  BY <1>0 DEF PlannerInv, PlannerTypeOK
<1>9. PlannerTypeOK'
  <2>1. [step |-> "write", rows |-> R] \in Copy
    BY <1>4 DEF Copy
  <2> HIDE DEF R
  <2>2. \A q \in Pages : page'[q] \in PageRows(q)
    BY <1>8, <2>1 DEF PlannerInv, PlannerTypeOK, PageRows
  <2>3. page' = [q \in Pages |-> page'[q]]
    BY <1>0 DEF PlannerInv, PlannerTypeOK
  <2> QED BY <1>0, <2>2, <2>3 DEF PlannerInv, PlannerTypeOK
<1>10. \A v \in Weeks, c \in Contents : Cardinality(Standing(v, c)') <= Wanted(v, c)'
  BY <1>0 DEF PlannerInv, Standing, listWeek, Wanted
<1>11. CopyIsWanted(p)'
  <2>1. page'[p].copy = [step |-> "write", rows |-> R] /\ page'[p].calls = page[p].calls
    BY <1>8 DEF PlannerInv, PlannerTypeOK, PageRows
  <2>2. At(p, "copy")' /\ IsFiniteSet(page'[p].copy.rows)
    <3>1. At(p, "copy")'
      BY <1>0, <2>1 DEF At, pending
    <3>2. page'[p].copy.rows = R
      BY <2>1
    <3> HIDE DEF R
    <3> QED BY <1>6, <3>1, <3>2
  <2>w. PICK x : x = w /\ x = Head(page'[p].calls).week
    BY <2>1
  <2>3. ASSUME x + 1 \in Weeks, NEW c \in Contents
        PROVE  Cardinality(Standing(x + 1, c)') + Cardinality(Copies(p, c)') <= Wanted(x + 1, c)'
    <3>1. Standing(x + 1, c)' = Standing(x + 1, c) /\ Wanted(x + 1, c)' = Wanted(x + 1, c)
      BY <1>0 DEF Standing, listWeek, Wanted
    <3>2. Copies(p, c)' = {r \in R : r[2] = c}
      BY <2>1 DEF Copies
    <3> HIDE DEF R, w
    <3> QED BY <1>7, <2>3, <2>w, <3>1, <3>2
  <2>4. x + 1 \notin Weeks => page'[p].copy.rows = {}
    BY <2>1, <2>w
  <2> HIDE DEF R, w
  <2> QED BY <2>2, <2>3, <2>4, <2>w DEF CopyIsWanted
<1>12. ASSUME NEW q \in Pages, q # p PROVE CopyIsWanted(q)'
  <2>1. page'[q].copy = NoCopy
    BY <1>0, <1>8, <1>12, OnePageCopies
  <2> QED BY <2>1 DEF CopyIsWanted
<1> QED BY <1>9, <1>10, <1>11, <1>12 DEF PlannerInv

\* The copies are written: each gets a row of its own, and what stands in the next week was wanted.
LEMMA CopyAddsWhatWasWanted ==
  ASSUME PlannerInv, NEW p \in Pages, copyWeekForward(p)
  PROVE  PlannerInv'
<1> DEFINE w == Head(page[p].calls).week
           rows == page[p].copy.rows
           id == CHOOSE f \in Injection(rows, fresh) : TRUE
           next == IF w + 1 \in Weeks THEN w + 1 ELSE w
           copyOf(t) == [week |-> w + 1, content |-> (CHOOSE r \in rows : id[r] = t)[2], by |-> "COACH", done |-> FALSE]
<1>0. /\ At(p, "copy") /\ page[p].copy # NoCopy /\ UNCHANGED wanted /\ Injection(rows, fresh) # {}
      /\ task' = [t \in TaskIds |-> IF \E r \in rows : id[r] = t THEN copyOf(t) ELSE task[t]]
      /\ page' = [page EXCEPT ![p].copy = NoCopy, ![p].monday = next,
                                 ![p].calls = Tail(@) \o <<Call("load", 0, next), Call("load", 0, w)>>]
  BY DEF copyWeekForward
<1>1. w \in Weeks /\ Tail(page[p].calls) \in Seq(Calls(p)) /\ next \in Weeks
  BY <1>0, CallAtTurn
<1>2. IsFiniteSet(rows) /\ rows \subseteq TaskIds \X (Contents \cup {0})
      /\ (w + 1 \notin Weeks => rows = {})
      /\ (w + 1 \in Weeks => \A c \in Contents :
            Cardinality(Standing(w + 1, c)) + Cardinality(Copies(p, c)) <= Wanted(w + 1, c))
  BY <1>0 DEF PlannerInv, PlannerTypeOK, PageRows, Copy, CopyIsWanted
<1>3. /\ \A r \in rows : id[r] \in fresh
      /\ \A r, s \in rows : id[r] = id[s] => r = s
  <2>1. id \in Injection(rows, fresh)
    BY <1>0
  <2> HIDE DEF id
  <2> QED BY <2>1 DEF Injection, IsInjective
<1> HIDE DEF id
<1>4. fresh \subseteq TaskIds /\ \A t \in fresh : task[t].week = 0
  BY DEF fresh
<1>5. \A r \in rows : copyOf(id[r]).content = r[2]
  BY <1>3
<1>6. \A t \in TaskIds : task'[t] = IF \E r \in rows : id[r] = t THEN copyOf(t) ELSE task[t]
  BY <1>0
<1>7. ASSUME NEW v \in Weeks, NEW c \in Contents
      PROVE  Cardinality(Standing(v, c)') <= Wanted(v, c)'
  <2>1. Wanted(v, c)' = Wanted(v, c)
    BY <1>0 DEF Wanted
  <2>2. CASE v # w + 1 \/ w + 1 \notin Weeks
    <3>1. Standing(v, c)' \subseteq Standing(v, c)
      <4>1. ASSUME NEW t \in TaskIds, task'[t].week = v PROVE task'[t] = task[t]
        <5>1. CASE \E r \in rows : id[r] = t
          <6>1. copyOf(t).week = w + 1 /\ w + 1 \in Weeks
            BY <1>2, <5>1
          <6> QED BY <1>6, <2>2, <4>1, <5>1, <6>1
        <5>2. CASE ~ \E r \in rows : id[r] = t
          BY <1>6, <5>2
        <5> QED BY <5>1, <5>2
      <4> QED BY <4>1 DEF Standing, listWeek
    <3>2. PICK a \in Nat, b \in Nat : a = Cardinality(Standing(v, c)) /\ b = Cardinality(Standing(v, c)') /\ b <= a
      BY <3>1, StandingIsFinite, FS_Subset, FS_CardinalityType
    <3>3. PICK n \in Nat : n = Wanted(v, c) /\ a <= n
      BY <3>2, WantedIsNat DEF PlannerInv, PlannerTypeOK
    <3> QED BY <2>1, <3>2, <3>3
  <2>3. CASE v = w + 1 /\ w + 1 \in Weeks
    <3> DEFINE Q == Copies(p, c)
               T == {id[r] : r \in Q}
               f == [r \in Q |-> id[r]]
    <3>1. Q \subseteq rows /\ IsFiniteSet(Q) /\ Cardinality(Q) \in Nat
      BY <1>2, FS_Subset, FS_CardinalityType DEF Copies
    <3>2. f \in Surjection(Q, T)
      BY DEF Surjection
    <3>3. IsFiniteSet(T) /\ Cardinality(T) <= Cardinality(Q) /\ Cardinality(T) \in Nat
      <4> HIDE DEF f, Q, T
      <4> QED BY <3>1, <3>2, FS_Surjection, FS_CardinalityType
    <3>4. Standing(v, c)' \subseteq Standing(v, c) \cup T
      <4>1. ASSUME NEW t \in TaskIds, task'[t].week = v, task'[t].content = c
            PROVE  t \in Standing(v, c) \cup T
        <5>1. CASE \E r \in rows : id[r] = t
          <6>1. PICK r \in rows : id[r] = t
            BY <5>1
          <6>2. r[2] = c
            BY <1>5, <1>6, <4>1, <5>1, <6>1
          <6> QED BY <6>1, <6>2 DEF Copies
        <5>2. CASE ~ \E r \in rows : id[r] = t
          BY <1>6, <4>1, <5>2 DEF Standing, listWeek
        <5> QED BY <5>1, <5>2
      <4> HIDE DEF T
      <4> QED BY <4>1 DEF Standing, listWeek
    <3>5. IsFiniteSet(Standing(v, c)) /\ Cardinality(Standing(v, c)) \in Nat
      BY StandingIsFinite
    <3>6. /\ IsFiniteSet(Standing(v, c) \cup T)
          /\ Cardinality(Standing(v, c) \cup T) = Cardinality(Standing(v, c)) + Cardinality(T)
                                                    - Cardinality(Standing(v, c) \cap T)
      <4> HIDE DEF T
      <4> QED BY <3>3, <3>5, FS_Union
    <3>7. Cardinality(Standing(v, c) \cap T) \in Nat
      <4> HIDE DEF T
      <4>1. IsFiniteSet(Standing(v, c) \cap T)
        BY <3>3, FS_Subset
      <4> QED BY <4>1, FS_CardinalityType
    <3>8. Cardinality(Standing(v, c)') <= Cardinality(Standing(v, c) \cup T) /\ Cardinality(Standing(v, c)') \in Nat
      <4> HIDE DEF T
      <4> QED BY <3>4, <3>6, FS_Subset, FS_CardinalityType
    <3>9. Cardinality(Standing(v, c)) + Cardinality(Q) <= Wanted(v, c) /\ Wanted(v, c) \in Nat
      <4>1. wanted \in [Weeks -> [Contents -> Nat]]
        BY DEF PlannerInv, PlannerTypeOK
      <4> QED BY <1>2, <2>3, <4>1, WantedIsNat
    <3> HIDE DEF Q, T
    <3>10. \A a, b, d, e, g, n, u \in Nat :
             d <= u /\ u = a + b - e /\ b <= g /\ a + g <= n => d <= n
      OBVIOUS
    <3>11. Cardinality(Standing(v, c) \cup T) \in Nat
      BY <3>6, FS_CardinalityType
    <3>12. Cardinality(Standing(v, c)') <= Wanted(v, c)
      BY <3>1, <3>3, <3>5, <3>6, <3>7, <3>8, <3>9, <3>10, <3>11
    <3> QED BY <2>1, <3>12
  <2> QED BY <2>2, <2>3
<1>8. ASSUME NEW t \in TaskIds PROVE task'[t] \in Tasks
  <2>1. CASE \E r \in rows : id[r] = t
    <3>1. PICK r \in rows : id[r] = t
      BY <2>1
    <3>2. task'[t] = copyOf(t) /\ copyOf(t).content = r[2]
      BY <1>5, <1>6, <3>1
    <3>3. r[2] \in Contents \cup {0} /\ w + 1 \in Weeks
      BY <1>2, <3>1
    <3> QED BY <3>2, <3>3 DEF Tasks
  <2>2. CASE ~ \E r \in rows : id[r] = t
    BY <1>6, <2>2 DEF PlannerInv, PlannerTypeOK
  <2> QED BY <2>1, <2>2
<1>9. \A v \in Weeks : Call("load", 0, v) \in Calls(p)
  BY DEF Calls
<1> DEFINE x == [page[p] EXCEPT !.copy = NoCopy, !.monday = next,
                                !.calls = Tail(page[p].calls) \o <<Call("load", 0, next), Call("load", 0, w)>>]
<1>10. \A q \in Pages : page'[q] = IF q = p THEN x ELSE page[q]
  BY <1>0 DEF PlannerInv, PlannerTypeOK
<1>11. x \in PageRows(p)
  <2>1. Tail(page[p].calls) \o <<Call("load", 0, next), Call("load", 0, w)>> \in Seq(Calls(p))
    <3> HIDE DEF next, w
    <3>1. <<Call("load", 0, next), Call("load", 0, w)>> \in Seq(Calls(p))
      BY <1>1, <1>9
    <3> QED BY <1>1, <3>1
  <2> HIDE DEF next, w
  <2> QED BY <1>1, <2>1 DEF PlannerInv, PlannerTypeOK, PageRows, Copy
<1>12. x.copy = NoCopy
  BY DEF PlannerInv, PlannerTypeOK, PageRows
<1> HIDE DEF x, next, w, rows, copyOf
<1>13. PlannerTypeOK'
  <2>1. \A q \in Pages : page'[q] \in PageRows(q)
    BY <1>10, <1>11 DEF PlannerInv, PlannerTypeOK
  <2>2. page' = [q \in Pages |-> page'[q]]
    BY <1>0 DEF PlannerInv, PlannerTypeOK
  <2>3. task' \in [TaskIds -> Tasks]
    BY <1>0, <1>8
  <2> QED BY <1>0, <2>1, <2>2, <2>3 DEF PlannerInv, PlannerTypeOK
<1>14. ASSUME NEW q \in Pages PROVE CopyIsWanted(q)'
  <2>1. page'[q].copy = NoCopy
    BY <1>0, <1>10, <1>12, OnePageCopies
  <2> QED BY <2>1 DEF CopyIsWanted
<1> QED BY <1>7, <1>13, <1>14 DEF PlannerInv

LEMMA NothingWritten ==
  ASSUME PlannerInv, UNCHANGED <<task, wanted>>, NEW w \in Weeks, NEW c \in Contents
  PROVE  Cardinality(Standing(w, c)') + Wanted(w, c) <= Cardinality(Standing(w, c)) + Wanted(w, c)'
<1>1. \A v \in Weeks, d \in Contents : Standing(v, d)' \subseteq Standing(v, d)
  BY DEF Standing, listWeek
<1> QED BY <1>1, NoMoreStands

LEMMA ButtonIsPressed ==
  ASSUME PlannerInv, NEW p \in Pages, NEW call \in Calls(p), NEW w \in Weeks,
         page' = [page EXCEPT ![p].monday = w, ![p].calls = Append(@, call)], UNCHANGED <<task, wanted>>
  PROVE  PlannerInv'
<1> DEFINE x == [page[p] EXCEPT !.monday = w, !.calls = Append(page[p].calls, call)]
<1>1. page[p] \in PageRows(p) /\ page[p].calls \in Seq(Calls(p))
  BY DEF PlannerInv, PlannerTypeOK, PageRows
<1>2. Append(page[p].calls, call) \in Seq(Calls(p)) /\ Append(page[p].calls, call) # <<>>
      /\ (page[p].calls # <<>> => Head(Append(page[p].calls, call)) = Head(page[p].calls))
  <2>1. ASSUME NEW S, NEW s \in Seq(S), NEW e \in S
        PROVE  Append(s, e) \in Seq(S) /\ Append(s, e) # <<>> /\ (s # <<>> => Head(Append(s, e)) = Head(s))
    <3>1. Append(s, e) \in Seq(S) /\ Len(Append(s, e)) = Len(s) + 1
      OBVIOUS
    <3>2. Append(s, e) # <<>>
      BY <3>1
    <3>3. ASSUME s # <<>> PROVE Append(s, e)[1] = s[1]
      <4>1. 1 \in 1..Len(s)
        BY <3>3
      <4> QED BY <4>1
    <3>4. \A q \in Seq(S) : q # <<>> => Head(q) = q[1]
      OBVIOUS
    <3> QED BY <3>1, <3>2, <3>3, <3>4
  <2> QED BY <1>1, <2>1
<1>3. x \in PageRows(p) /\ x.copy = page[p].copy /\ x.calls = Append(page[p].calls, call)
  BY <1>1, <1>2 DEF PageRows
<1>4. page[p].copy # NoCopy => page[p].calls # <<>>
  BY DEF PlannerInv, CopyIsWanted, At, pending
<1>5. page' = [page EXCEPT ![p] = x]
  OBVIOUS
<1>6. task' \in [TaskIds -> Tasks] /\ wanted' \in [Weeks -> [Contents -> Nat]]
  BY DEF PlannerInv, PlannerTypeOK
<1> HIDE DEF x
<1> QED BY <1>2, <1>3, <1>4, <1>5, <1>6, QuietStep, NothingWritten

\* A call that is no copy comes to its end: it leaves the queue, with or without a load behind it.
LEMMA CallIsDone ==
  ASSUME PlannerInv, NEW p \in Pages, NEW op, op # "copy", At(p, op),
         \/ Then(p) \/ Fail(p)
         \/ page' = [page EXCEPT ![p].tasks = listWeek(Head(page[p].calls).week), ![p].calls = Tail(@)],
         task' \in [TaskIds -> Tasks], wanted' \in [Weeks -> [Contents -> Nat]],
         \A w \in Weeks, c \in Contents :
            Cardinality(Standing(w, c)') + Wanted(w, c) <= Cardinality(Standing(w, c)) + Wanted(w, c)'
  PROVE  PlannerInv'
<1> DEFINE w == Head(page[p].calls).week
           x == [page[p] EXCEPT !.calls = Tail(page[p].calls) \o <<Call("load", 0, w)>>]
           y == [page[p] EXCEPT !.calls = Tail(page[p].calls)]
           z == [page[p] EXCEPT !.tasks = listWeek(w), !.calls = Tail(page[p].calls)]
<1>1. page[p] \in PageRows(p) /\ Tail(page[p].calls) \in Seq(Calls(p)) /\ w \in Weeks
  BY CallAtTurn DEF PlannerInv, PlannerTypeOK
<1>2. page[p].copy = NoCopy
  BY DEF PlannerInv, CopyIsWanted, At
<1>3. listWeek(w) \subseteq TaskIds
  BY DEF listWeek
<1>4. Call("load", 0, w) \in Calls(p)
  BY <1>1 DEF Calls
<1>5. Tail(page[p].calls) \o <<Call("load", 0, w)>> \in Seq(Calls(p))
  BY <1>1, <1>4
<1> HIDE DEF w
<1>6. x \in PageRows(p) /\ y \in PageRows(p) /\ z \in PageRows(p)
  BY <1>1, <1>3, <1>5 DEF PageRows
<1>7. x.copy = page[p].copy /\ y.copy = page[p].copy /\ z.copy = page[p].copy
  BY <1>1 DEF PageRows
<1>8. page' = [page EXCEPT ![p] = x] \/ page' = [page EXCEPT ![p] = y] \/ page' = [page EXCEPT ![p] = z]
  BY DEF Then, Fail, w
<1> HIDE DEF x, y, z
<1> QED BY <1>2, <1>6, <1>7, <1>8, QuietStep

LEMMA PlannerInvInit == PlannerInit => PlannerInv
<1> SUFFICES ASSUME PlannerInit PROVE PlannerInv
  OBVIOUS
<1>1. 1 \in Weeks
  BY PlannerAssumption, WeeksAreNumbers
<1>2. PlannerTypeOK
  <2>1. NoTask \in Tasks
    BY DEF NoTask, Tasks
  <2>2. \A p \in Pages : [monday |-> 1, tasks |-> {}, calls |-> <<>>, copy |-> NoCopy] \in PageRows(p)
    BY <1>1 DEF PageRows, Copy
  <2> QED BY <2>1, <2>2 DEF PlannerInit, PlannerTypeOK
<1>3. ASSUME NEW w \in Weeks, NEW c \in Contents PROVE Cardinality(Standing(w, c)) <= Wanted(w, c)
  <2>1. Standing(w, c) = {}
    BY <1>3, WeeksAreNumbers DEF PlannerInit, Standing, listWeek, NoTask
  <2>2. Wanted(w, c) \in Nat
    BY <1>2, WantedIsNat DEF PlannerTypeOK
  <2> QED BY <2>1, <2>2, FS_EmptySet
<1>4. \A p \in Pages : CopyIsWanted(p)
  BY DEF PlannerInit, CopyIsWanted
<1> QED BY <1>2, <1>3, <1>4 DEF PlannerInv

LEMMA PlannerInvInductive == PlannerInv /\ [PlannerNext]_plannerVars => PlannerInv'
<1> SUFFICES ASSUME PlannerInv, [PlannerNext]_plannerVars PROVE PlannerInv'
  OBVIOUS
<1>0. /\ task \in [TaskIds -> Tasks] /\ wanted \in [Weeks -> [Contents -> Nat]]
      /\ \A p \in Pages : page[p] \in PageRows(p) /\ page[p].monday \in Weeks /\ page[p].tasks \subseteq TaskIds
      /\ page = [p \in Pages |-> page[p]]
  BY DEF PlannerInv, PlannerTypeOK, PageRows
\* The buttons.
<1>1. ASSUME NEW p \in Pages, NEW call \in Calls(p), Press(p, call) PROVE PlannerInv'
  <2>1. page' = [page EXCEPT ![p].monday = page[p].monday, ![p].calls = Append(@, call)]
    <3>1. [page[p] EXCEPT !.calls = Append(@, call)] = [page[p] EXCEPT !.monday = page[p].monday, !.calls = Append(@, call)]
      BY <1>0 DEF PageRows
    <3> QED BY <1>0, <1>1, <3>1 DEF Press
  <2> QED BY <1>0, <1>1, <2>1, ButtonIsPressed DEF Press
<1>2. ASSUME NEW p \in Pages, PressAdd(p) PROVE PlannerInv'
  <2>1. PICK c \in Contents : Press(p, Call("add", c, page[p].monday))
    BY <1>2 DEF PressAdd
  <2>2. Call("add", c, page[p].monday) \in Calls(p)
    BY <1>0 DEF Calls
  <2> QED BY <1>1, <2>1, <2>2
<1>3. ASSUME NEW p \in Pages, PressCard(p) PROVE PlannerInv'
  <2>1. PICK t \in page[p].tasks :
          \/ Press(p, Call("mark", t, page[p].monday)) \/ Press(p, Call("remove", t, page[p].monday))
          \/ \E c \in Contents : Press(p, Call("edit", <<t, c>>, page[p].monday))
    BY <1>3 DEF PressCard
  <2>2. t \in TaskIds
    BY <1>0
  <2>3. /\ Call("mark", t, page[p].monday) \in Calls(p) /\ Call("remove", t, page[p].monday) \in Calls(p)
        /\ \A c \in Contents : Call("edit", <<t, c>>, page[p].monday) \in Calls(p)
    BY <1>0, <2>2 DEF Calls
  <2> QED BY <1>1, <2>1, <2>3
<1>4. ASSUME NEW p \in Pages, PressCopy(p) PROVE PlannerInv'
  <2>1. Call("copy", 0, page[p].monday) \in Calls(p) /\ Press(p, Call("copy", 0, page[p].monday))
    BY <1>0, <1>4 DEF Calls, PressCopy, Copying
  <2> QED BY <1>1, <2>1
<1>5. ASSUME NEW p \in Pages, Poll(p) PROVE PlannerInv'
  <2>1. Call("load", 0, page[p].monday) \in Calls(p) /\ Press(p, Call("load", 0, page[p].monday))
    BY <1>0, <1>5 DEF Calls, Poll
  <2> QED BY <1>1, <2>1
<1>6. ASSUME NEW p \in Pages, NEW w \in Weeks, TurnTo(p, w) PROVE PlannerInv'
  <2>1. Call("load", 0, w) \in Calls(p)
    BY DEF Calls
  <2> QED BY <1>6, <2>1, ButtonIsPressed DEF TurnTo
\* The calls.
<1>7. ASSUME NEW p \in Pages, Load(p) PROVE PlannerInv'
  <2>1. /\ At(p, "load") /\ UNCHANGED <<task, wanted>>
        /\ page' = [page EXCEPT ![p].tasks = listWeek(Head(page[p].calls).week), ![p].calls = Tail(@)]
    BY <1>7 DEF Load
  <2> QED BY <1>0, <2>1, CallIsDone, NothingWritten
<1>8. ASSUME NEW p \in Pages, addTask(p) PROVE PlannerInv'
  <2> DEFINE w == Head(page[p].calls).week
             c == arg(p)
             t == CHOOSE t \in fresh : TRUE
             added == [week |-> w, content |-> c, by |-> role(p), done |-> FALSE]
  <2>1. /\ At(p, "add") /\ Then(p) /\ fresh # {}
        /\ task' = [task EXCEPT ![t] = added] /\ wanted' = [wanted EXCEPT ![w][c] = @ + 1]
    BY <1>8 DEF addTask
  <2>2. w \in Weeks /\ c \in Contents
    BY <2>1, CallAtTurn
  <2>3. t \in TaskIds /\ added \in Tasks
    BY <2>1, <2>2 DEF fresh, Tasks, role
  <2>4. task' \in [TaskIds -> Tasks] /\ wanted' \in [Weeks -> [Contents -> Nat]]
    <3> HIDE DEF w, c, t, added
    <3> QED BY <1>0, <2>1, <2>2, <2>3
  <2> HIDE DEF t
  <2>5. \A v \in Weeks, d \in Contents :
          Standing(v, d)' \subseteq IF v = w /\ d = c THEN Standing(v, d) \cup {t} ELSE Standing(v, d)
    BY <1>0, <2>1, <2>2, <2>3 DEF Standing, listWeek
  <2>6. \A v \in Weeks, d \in Contents :
          Cardinality(Standing(v, d)') + Wanted(v, d) <= Cardinality(Standing(v, d)) + Wanted(v, d)'
    <3> HIDE DEF w, c, added
    <3>1. wanted' = [wanted EXCEPT ![w][c] = @ + 1]
      BY <2>1
    <3> QED BY <2>2, <2>5, <3>1, OneMoreStands
  <2> QED BY <2>1, <2>4, <2>6, CallIsDone
<1>9. ASSUME NEW p \in Pages, updateTask(p) PROVE PlannerInv'
  <2> DEFINE t == arg(p)[1]
             c == arg(p)[2]
             w == task[t].week
  <2>0. At(p, "edit")
    BY <1>9 DEF updateTask
  <2>1. t \in TaskIds /\ c \in Contents /\ w \in Weeks \cup {0}
    BY <1>0, <2>0, CallAtTurn DEF Tasks
  <2>2. CASE w = 0
    <3>1. UNCHANGED <<task, wanted>> /\ Fail(p)
      BY <1>9, <2>2 DEF updateTask
    <3> QED BY <1>0, <2>0, <3>1, CallIsDone, NothingWritten
  <2>3. CASE w # 0
    <3>1. /\ task' = [task EXCEPT ![t].content = c] /\ wanted' = [wanted EXCEPT ![w][c] = @ + 1] /\ Then(p)
      BY <1>9, <2>3 DEF updateTask
    <3>2. task' \in [TaskIds -> Tasks] /\ wanted' \in [Weeks -> [Contents -> Nat]]
      <4>1. [task[t] EXCEPT !.content = c] \in Tasks
        <5>1. PICK r \in Tasks : r = task[t]
          BY <1>0, <2>1
        <5>2. c \in Contents
          BY <2>1
        <5> HIDE DEF c, t
        <5>3. [r EXCEPT !.content = c] \in Tasks
          BY <5>2 DEF Tasks
        <5> QED BY <5>1, <5>3
      <4> HIDE DEF t, c, w
      <4> QED BY <1>0, <2>1, <2>3, <3>1, <4>1
    <3>3. \A v \in Weeks, d \in Contents :
            Standing(v, d)' \subseteq IF v = w /\ d = c THEN Standing(v, d) \cup {t} ELSE Standing(v, d)
      <4> HIDE DEF t, c
      <4>1. \A u \in TaskIds : /\ task'[u].week = task[u].week
                               /\ task'[u].content = IF u = t THEN c ELSE task[u].content
        BY <1>0, <2>1, <3>1 DEF Tasks
      <4> QED BY <4>1 DEF Standing, listWeek
    <3>4. \A v \in Weeks, d \in Contents :
            Cardinality(Standing(v, d)') + Wanted(v, d) <= Cardinality(Standing(v, d)) + Wanted(v, d)'
      <4> HIDE DEF w, c, t
      <4> QED BY <2>1, <2>3, <3>1, <3>3, OneMoreStands
    <3> QED BY <2>0, <3>1, <3>2, <3>4, CallIsDone
  <2> QED BY <2>2, <2>3
<1>10. ASSUME NEW p \in Pages, deleteTask(p) \/ setTaskDone(p) PROVE PlannerInv'
  <2> DEFINE t == arg(p)
  <2>0. PICK op \in {"mark", "remove"} : At(p, op)
    BY <1>10 DEF deleteTask, setTaskDone
  <2>1. t \in TaskIds
    BY <2>0, CallAtTurn
  <2>2. (Then(p) \/ Fail(p)) /\ UNCHANGED wanted
    BY <1>10 DEF deleteTask, setTaskDone
  <2>3. \/ UNCHANGED task \/ task' = [task EXCEPT ![t] = NoTask] \/ task' = [task EXCEPT ![t].done = ~@]
    BY <1>10 DEF deleteTask, setTaskDone
  <2> HIDE DEF t
  <2>4. task' \in [TaskIds -> Tasks]
    <3>1. NoTask \in Tasks /\ [task[t] EXCEPT !.done = ~@] \in Tasks
      BY <1>0, <2>1 DEF Tasks, NoTask
    <3> QED BY <1>0, <2>1, <2>3, <3>1
  <2>5. \A u \in TaskIds : task'[u].week # 0 => task'[u].week = task[u].week /\ task'[u].content = task[u].content
    BY <1>0, <2>1, <2>3 DEF Tasks, NoTask
  <2>6. \A v \in Weeks, d \in Contents : Standing(v, d)' \subseteq Standing(v, d)
    BY <2>5, WeeksAreNumbers DEF Standing, listWeek
  <2>7. \A v \in Weeks, d \in Contents :
          Cardinality(Standing(v, d)') + Wanted(v, d) <= Cardinality(Standing(v, d)) + Wanted(v, d)'
    BY <2>2, <2>6, NoMoreStands
  <2> QED BY <1>0, <2>0, <2>2, <2>4, <2>7, CallIsDone
<1>11. ASSUME NEW p \in Pages, ReadWeek(p) PROVE PlannerInv'
  BY <1>11, ReadIsWanted
<1>12. ASSUME NEW p \in Pages, copyWeekForward(p) PROVE PlannerInv'
  BY <1>12, CopyAddsWhatWasWanted
<1>13. CASE UNCHANGED plannerVars
  <2>1. PlannerTypeOK'
    BY <1>13 DEF plannerVars, PlannerInv, PlannerTypeOK
  <2> QED BY <1>13, <2>1 DEF plannerVars, PlannerInv, Standing, listWeek, Wanted, CopyIsWanted, At, pending, Copies
<1> QED BY <1>2, <1>3, <1>4, <1>5, <1>6, <1>7, <1>8, <1>9, <1>10, <1>11, <1>12, <1>13 DEF PlannerNext

\* For any number of pages, weeks, tasks and calls under way: a task stands in a week at most as often as
\* it was written into it or one before it, if one page at a time copies (planner-service.ts:157-214).
THEOREM CopiesNeverDouble == PlannerSpec => []CopyNeverDoubles
<1>1. PlannerInv => CopyNeverDoubles
  BY DEF PlannerInv, CopyNeverDoubles, Standing, Wanted
<1> QED BY <1>1, PlannerInvInit, PlannerInvInductive, PTL DEF PlannerSpec
===============================================================================
