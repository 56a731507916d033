---------------------------- MODULE OfferComposer ----------------------------
(***************************************************************************)
(* A student's way from a coach's profile to a sent offer: the picker and  *)
(* the composer, the draft parked in a cookie while a guest signs in, the  *)
(* automatic submission on return, and the server action behind both.      *)
(*                                                                         *)
(* One browser: its page moves between profiles, its cookie holds one      *)
(* draft, and a call it has sent runs on when the page is left.  An offer  *)
(* is the coach, package, hours and price it names.  Slots are numbered in *)
(* the order of time; prices stand for below and at or above the floor.    *)
(***************************************************************************)
EXTENDS Integers, Sequences, FiniteSets, SequencesExt

CONSTANTS
  Profiles,     \* coaches, by slug
  Hours24,      \* the hours of their calendars
  MaxTaken,     \* bound: hours that are taken or past
  PackageTypes, \* EXPLORATORY, MONTHLY_4W
  DefaultType,  \* EXPLORATORY
  sessions,     \* how many hours each takes
  suggested,    \* the suggested price of each
  floor,        \* the least a student may offer for each
  TypedPrices,  \* what a student may type
  SubmitCalls,  \* submissions under way at once
  MaxPresses,   \* bound: different offers the student presses send on
  NoDraft

VARIABLES
  profilePage,  \* the profile page on screen
  cookie,       \* the parked draft
  account,      \* the browser's session, and the user's name and profile
  submission,   \* calls of submitOffer
  hour,         \* what each coach's hours are doing
  sent,         \* the offers created
  pressed       \* ghost: what was on screen whenever the student pressed send

composerVars == <<profilePage, cookie, account, submission, hour, sent, pressed>>

NoCall == [draft |-> NoDraft, result |-> "none"]

buildDraft == [coach |-> profilePage.coach, packageType |-> profilePage.packageType, slots |-> profilePage.slots,
               price |-> profilePage.price, studentName |-> profilePage.studentName]

\* Wrong: whatever draft the cookie holds is resumed.
anyDraft(c) == cookie # NoDraft

\* Only a draft that belongs to this coach is resumed.
resumes(c) == cookie # NoDraft /\ cookie.coach = c

\* The profile as the server renders it: composer filled from the draft when there is one to resume.
rendered(c, teklif, signedIn) ==
  LET resumed == teklif /\ resumes(c)
  IN  [coach |-> c, open |-> teklif, authenticated |-> signedIn,
       askName |-> ~signedIn \/ ~account.named, gate |-> FALSE, call |-> "none",
       packageType |-> IF resumed THEN cookie.packageType ELSE DefaultType,
       slots |-> IF resumed THEN cookie.slots ELSE <<>>,
       price |-> IF resumed THEN cookie.price ELSE suggested[DefaultType],
       studentName |-> resumed /\ cookie.studentName]

ComposerInit ==
  /\ cookie = NoDraft
  /\ account \in [signedIn : {FALSE}, named : BOOLEAN, profile : BOOLEAN]
  /\ submission = [k \in SubmitCalls |-> NoCall]
  /\ hour = [c \in Profiles |-> [h \in Hours24 |-> "AVAILABLE"]]
  /\ sent = {} /\ pressed = {}
  /\ \E c \in Profiles : profilePage = rendered(c, FALSE, FALSE)

-------------------------------------------------------------------------------
(* The picker and the composer *)

Edit(p) == profilePage' = p /\ UNCHANGED <<cookie, account, submission, hour, sent, pressed>>

needed == sessions[profilePage.packageType]
without(seq, h) == SelectSeq(seq, LAMBDA x : x # h)

\* The calendar on the profile keeps the last picks.
PickOnProfile(h) ==
  /\ hour[profilePage.coach][h] = "AVAILABLE" /\ ~profilePage.open
  /\ LET picked == Append(profilePage.slots, h)
         kept == IF Len(picked) > needed THEN Tail(picked) ELSE picked
     IN  Edit([profilePage EXCEPT !.open = TRUE,
                           !.slots = IF h \in Range(@) THEN without(@, h) ELSE kept])

\* The one in the composer sorts them, and at capacity drops the first.
toggleSlot(h) ==
  /\ hour[profilePage.coach][h] = "AVAILABLE" /\ profilePage.open
  /\ LET full == Len(profilePage.slots) >= needed
         kept == IF full THEN Tail(profilePage.slots) ELSE profilePage.slots
     IN  Edit([profilePage EXCEPT !.slots = IF h \in Range(@) THEN without(@, h)
                                     ELSE SortSeq(Append(kept, h), <)])

changePackage(t) ==
  /\ profilePage.open
  /\ Edit([profilePage EXCEPT !.packageType = t, !.price = suggested[t],
                       !.slots = SubSeq(@, 1, IF Len(@) < sessions[t] THEN Len(@) ELSE sessions[t])])

\* The two buttons under the calendar: a price that is there is kept.
startOffer(t) ==
  /\ ~profilePage.open
  /\ Edit([profilePage EXCEPT !.packageType = t, !.open = TRUE, !.price = IF @ > 0 THEN @ ELSE suggested[t],
                       !.slots = SubSeq(@, 1, IF Len(@) < sessions[t] THEN Len(@) ELSE sessions[t])])

TypePrice(x) == profilePage.open /\ Edit([profilePage EXCEPT !.price = x])
TypeName == profilePage.open /\ profilePage.askName /\ Edit([profilePage EXCEPT !.studentName = TRUE])
CloseComposer == profilePage.open /\ Edit([profilePage EXCEPT !.open = FALSE])

-------------------------------------------------------------------------------
(* Sending *)

ready == /\ Len(profilePage.slots) = needed /\ profilePage.price >= floor[profilePage.packageType]
         /\ profilePage.askName => profilePage.studentName

callSubmitOffer(k, d) ==
  /\ submission[k].result = "none"
  /\ submission' = [submission EXCEPT ![k] = [draft |-> d, result |-> "asked"]]

\* A guest's draft is parked before the gate opens; a signed-in student's is submitted.
PressSend(k) ==
  /\ profilePage.open /\ ready /\ profilePage.call = "none" /\ ~profilePage.gate
  /\ pressed' = pressed \cup {buildDraft} /\ Cardinality(pressed') <= MaxPresses
  /\ IF profilePage.authenticated
     THEN callSubmitOffer(k, buildDraft) /\ profilePage' = [profilePage EXCEPT !.call = k] /\ UNCHANGED cookie
     ELSE cookie' = buildDraft /\ profilePage' = [profilePage EXCEPT !.gate = TRUE] /\ UNCHANGED submission
  /\ UNCHANGED <<account, hour, sent>>

\* On mount a resumed draft is submitted, once, without a press and without a look at what is ready.
ShowProfile(c, teklif, signedIn, k) ==
  LET p == rendered(c, teklif, signedIn)
  IN  IF teklif /\ resumes(c) /\ signedIn
      THEN callSubmitOffer(k, [cookie EXCEPT !.coach = c]) /\ profilePage' = [p EXCEPT !.call = k]
      ELSE profilePage' = p /\ UNCHANGED submission

\* A link to a profile, from the list of coaches or, with ?teklif=1, from a match card.
OpenProfile(c, teklif, k) ==
  /\ ShowProfile(c, teklif, account.signedIn, k)
  /\ UNCHANGED <<cookie, account, hour, sent, pressed>>

CloseGate == profilePage.gate /\ Edit([profilePage EXCEPT !.gate = FALSE])

\* The gate's way through leads back to the profile with ?teklif=1; the header's, to the panel.
SignInAtGate(throughGate, k) ==
  /\ ~account.signedIn /\ (throughGate => profilePage.gate)
  /\ account' = [account EXCEPT !.signedIn = TRUE]
  /\ IF throughGate THEN ShowProfile(profilePage.coach, TRUE, TRUE, k) ELSE UNCHANGED <<profilePage, submission>>
  /\ UNCHANGED <<cookie, hour, sent, pressed>>

verdict(d) ==
  IF ~account.signedIn THEN "UNAUTHENTICATED"
  ELSE IF ~account.profile THEN "NO_PROFILE"
  ELSE IF ~account.named /\ ~d.studentName THEN "NEEDS_NAME"
  ELSE IF \/ d.price < floor[d.packageType]
          \/ Len(SelectSeq(d.slots, LAMBDA h : hour[d.coach][h] # "PAST")) # sessions[d.packageType]
       THEN "INVALID"
  ELSE IF \E h \in Range(d.slots) : hour[d.coach][h] = "HELD" THEN "SLOT_TAKEN"
  ELSE "OK"

\* A name that was asked for is stored before the rest is looked at.
submitOffer(k) ==
  /\ submission[k].result = "asked"
  /\ LET d == submission[k].draft
         v == verdict(d)
     IN  /\ submission' = [submission EXCEPT ![k].result = v]
         /\ account' = [account EXCEPT !.named = @ \/ (v \in {"INVALID", "SLOT_TAKEN", "OK"})]
         /\ IF v = "OK"
            THEN /\ sent' = sent \cup {d} /\ cookie' = NoDraft
                 /\ hour' = [hour EXCEPT ![d.coach] = [h \in Hours24 |-> IF h \in Range(d.slots) THEN "HELD" ELSE @[h]]]
            ELSE UNCHANGED <<sent, cookie, hour>>
  /\ UNCHANGED <<profilePage, pressed>>

\* The answer reaches the page that asked, if it is still there.
SubmissionAnswered(k) ==
  /\ submission[k].result \notin {"none", "asked"}
  /\ submission' = [submission EXCEPT ![k] = NoCall]
  /\ profilePage' = IF profilePage.call # k THEN profilePage
             ELSE CASE submission[k].result = "OK" -> [profilePage EXCEPT !.call = "none", !.open = FALSE, !.slots = <<>>]
                    [] submission[k].result = "NEEDS_NAME" -> [profilePage EXCEPT !.call = "none", !.askName = TRUE]
                    [] submission[k].result = "SLOT_TAKEN" -> [profilePage EXCEPT !.call = "none", !.slots = <<>>]
                    [] OTHER -> [profilePage EXCEPT !.call = "none"]
  /\ UNCHANGED <<cookie, account, hour, sent, pressed>>

\* Someone else takes the hour, an open offer lapses, or the hour passes.
HourChanges(c, h) ==
  /\ \E change \in {<<"AVAILABLE", "HELD">>, <<"HELD", "AVAILABLE">>, <<"AVAILABLE", "PAST">>} :
       hour[c][h] = change[1] /\ hour' = [hour EXCEPT ![c][h] = change[2]]
  /\ Cardinality({p \in Profiles \X Hours24 : hour'[p[1]][p[2]] # "AVAILABLE"}) <= MaxTaken
  /\ UNCHANGED <<profilePage, cookie, account, submission, sent, pressed>>

CookieExpires ==
  /\ cookie # NoDraft /\ cookie' = NoDraft
  /\ UNCHANGED <<profilePage, account, submission, hour, sent, pressed>>

ComposerNext ==
  \/ \E c \in Profiles : \E h \in Hours24 : HourChanges(c, h)
  \/ \E h \in Hours24 : PickOnProfile(h) \/ toggleSlot(h)
  \/ \E t \in PackageTypes : changePackage(t) \/ startOffer(t)
  \/ \E x \in TypedPrices : TypePrice(x)
  \/ TypeName \/ CloseComposer \/ CloseGate \/ CookieExpires
  \/ \E k \in SubmitCalls : PressSend(k) \/ submitOffer(k) \/ SubmissionAnswered(k)
  \/ \E k \in SubmitCalls, b \in BOOLEAN : SignInAtGate(b, k) \/ \E c \in Profiles : OpenProfile(c, b, k)

ComposerSpec == ComposerInit /\ [][ComposerNext]_composerVars

-------------------------------------------------------------------------------
(* Properties *)

\* Whatever is sent to a coach is an offer that was complete on that coach's page, as it stood, when the
\* student pressed send there: through the cookie and the sign-in nothing is mixed up or made up.
NothingSentUnasked == sent \subseteq pressed
===============================================================================
