------------------------------ MODULE Onboarding ------------------------------
(***************************************************************************)
(* A guest's answers from the first tap to the student profile: the page's *)
(* three copies of them (React state, sessionStorage, the server's row),   *)
(* the saves in the background, and the claim at sign-in.                  *)
(*                                                                         *)
(* A browser has one onboarding tab and one cookie jar.  Requests may be   *)
(* lost on the way there or on the way back.  A claim is a process of two  *)
(* steps, its reads and its writes, which lock nothing in between.         *)
(* "styles" is the one answer the row keeps as a list: a row that was      *)
(* never told has the empty list there, which is not nothing.              *)
(***************************************************************************)
EXTENDS Naturals

CONSTANTS
  Browsers, People,   \* People are the users who sign in on them
  Answers,            \* the values of an answer
  Tokens,             \* bound: onboarding rows ever created
  Claims,             \* concurrent claims
  Nobody, Unanswered, EmptyList

ASSUME OnboardingAssumption == Nobody \notin People

Fields == {"track", "styles"}

VARIABLES
  tab,      \* per browser: what the page holds
  jar,      \* per browser: the kk_onb cookie
  signedIn, \* per browser: whose session
  row,      \* the OnboardingSession rows
  profile,  \* the StudentProfile of each person
  link,     \* the sign-in links mailed and not yet used
  claim,    \* the claims' transactions: what each has read
  raced     \* history: the rows that two people have been claiming at the same time

claims == <<claim, raced>>
onboardingVars == <<tab, jar, signedIn, row, profile, link, claims>>

Blank == [f \in Fields |-> Unanswered]
NoRow == [is |-> "unused", answers |-> Blank, claimedBy |-> Nobody]
NoProfile == [exists |-> FALSE, answers |-> Blank, source |-> Nobody]
NoClaim == [user |-> Nobody, source |-> Nobody, answers |-> Blank, had |-> FALSE]
ClosedTab == [open |-> FALSE, draft |-> Blank, stored |-> Blank, pending |-> Blank, saving |-> FALSE, sending |-> Blank]

\* { ...under, ...over }
spread(under, over) == [f \in Fields |-> IF over[f] = Unanswered THEN under[f] ELSE over[f]]

OnboardingInit ==
  /\ tab = [b \in Browsers |-> ClosedTab]
  /\ jar = [b \in Browsers |-> Nobody] /\ signedIn = [b \in Browsers |-> Nobody]
  /\ row = [t \in Tokens |-> NoRow]
  /\ profile = [u \in People |-> NoProfile] /\ link = {}
  /\ claim = [k \in Claims |-> NoClaim] /\ raced = {}

-------------------------------------------------------------------------------
(* The funnel *)

loadOnboardingDraft(b) ==
  IF jar[b] = Nobody \/ row[jar[b]].is # "kept" THEN Blank
  ELSE [row[jar[b]].answers EXCEPT !["styles"] = IF @ = Unanswered THEN EmptyList ELSE @]

\* The page is opened or reloaded: what the server says wins, the local copy fills what it leaves out.
Mount(b) ==
  LET merged == spread(tab[b].stored, loadOnboardingDraft(b))
  IN  tab' = [tab EXCEPT ![b] = [ClosedTab EXCEPT !.open = TRUE, !.draft = merged, !.stored = merged]]
      /\ UNCHANGED <<jar, signedIn, row, profile, link, claims>>

CloseTab(b) == tab[b].open /\ tab' = [tab EXCEPT ![b] = ClosedTab] /\ UNCHANGED <<jar, signedIn, row, profile, link, claims>>

update(b, f, v) ==
  /\ tab[b].open
  /\ tab' = [tab EXCEPT ![b].draft[f] = v, ![b].stored[f] = v, ![b].pending[f] = v]
  /\ UNCHANGED <<jar, signedIn, row, profile, link, claims>>

\* The patch is what is pending when the button is pressed; the answers stay editable meanwhile.
advance(b) ==
  /\ tab[b].open /\ ~tab[b].saving /\ tab[b].draft["track"] # Unanswered
  /\ tab' = [tab EXCEPT ![b].saving = TRUE, ![b].sending = tab[b].pending]
  /\ UNCHANGED <<jar, signedIn, row, profile, link, claims>>

\* The cookie's row if it is still there, its term renewed, else a new one and its cookie.
upsertOnboardingSession(b) ==
  IF jar[b] # Nobody /\ row[jar[b]].is \in {"kept", "expired"}
  THEN row' = [row EXCEPT ![jar[b]].is = "kept", ![jar[b]].answers = spread(@, tab[b].sending)] /\ UNCHANGED jar
  ELSE \E t \in Tokens :
         /\ row[t].is = "unused"
         /\ row' = [row EXCEPT ![t] = [is |-> "kept", answers |-> tab[b].sending, claimedBy |-> Nobody]]
         /\ jar' = [jar EXCEPT ![b] = t]

\* Once answered nothing is pending; when it fails, the page keeps what is and moves on all the same.
saveOnboardingStep(b, arrives, answered) ==
  /\ tab[b].saving
  /\ IF arrives THEN upsertOnboardingSession(b) ELSE UNCHANGED <<row, jar>>
  /\ tab' = [tab EXCEPT ![b].saving = FALSE, ![b].sending = Blank,
                        ![b].pending = IF arrives /\ answered THEN Blank ELSE @]
  /\ UNCHANGED <<signedIn, profile, link, claims>>

-------------------------------------------------------------------------------
(* Signing in *)

requestSignInLink(u) == u \notin link /\ link' = link \cup {u} /\ UNCHANGED <<tab, jar, signedIn, row, profile, claims>>

\* Wrong: whose answers they are is not looked at.
anyRow(t, u) == row[t].is = "kept" /\ row[t].answers["track"] # Unanswered

claimable(t, u) ==
  /\ row[t].is = "kept" /\ row[t].answers["track"] # Unanswered
  /\ row[t].claimedBy \in {Nobody, u}

\* Two people whose claims have read the same row.
race(t, u) == \E k \in Claims : claim[k].source = t /\ claim[k].user # u

\* The reads of claimOnboardingSession: the cookie's row, and whether there is a profile.
Read(k, b, u) ==
  /\ claim' = [claim EXCEPT ![k] = [user |-> u, source |-> jar[b], answers |-> row[jar[b]].answers,
                                    had |-> profile[u].exists]]
  /\ raced' = IF race(jar[b], u) THEN raced \cup {jar[b]} ELSE raced

\* The link may be opened in any browser; the claim looks at that browser's cookie.
OpenLink(k, b, u) ==
  /\ u \in link /\ link' = link \ {u} /\ claim[k] = NoClaim
  /\ signedIn' = [signedIn EXCEPT ![b] = u]
  /\ IF jar[b] # Nobody /\ claimable(jar[b], u) THEN Read(k, b, u) ELSE UNCHANGED claims
  /\ UNCHANGED <<tab, jar, row, profile>>

\* submitOffer tries again for a user without a profile.
claimOnboardingSessionFromCookie(k, b) ==
  /\ signedIn[b] # Nobody /\ ~profile[signedIn[b]].exists /\ claim[k] = NoClaim
  /\ jar[b] # Nobody /\ claimable(jar[b], signedIn[b])
  /\ Read(k, b, signedIn[b])
  /\ UNCHANGED <<tab, jar, signedIn, row, profile, link>>

\* The row is gone, or another claim has made the one profile a user may have: the writes fail.
writesFail(c) == row[c.source].is = "purged" \/ (~c.had /\ profile[c.user].exists)

\* The writes look at nothing.  A profile that was there is left as it is; the row is marked either way.
claimOnboardingSession(k) ==
  LET c == claim[k] IN
  /\ c # NoClaim
  /\ IF writesFail(c) THEN UNCHANGED <<row, profile>>
     ELSE /\ row' = [row EXCEPT ![c.source].claimedBy = c.user]
          /\ profile' = IF c.had THEN profile
               ELSE [profile EXCEPT ![c.user] = [exists |-> TRUE, answers |-> c.answers, source |-> c.source]]
  /\ claim' = [claim EXCEPT ![k] = NoClaim]
  /\ UNCHANGED <<tab, jar, signedIn, link, raced>>

signOut(b) == signedIn[b] # Nobody /\ signedIn' = [signedIn EXCEPT ![b] = Nobody]
              /\ UNCHANGED <<tab, jar, row, profile, link, claims>>

\* Thirty days after the last save the row is read no more.
Expire(t) ==
  /\ row[t].is = "kept" /\ row' = [row EXCEPT ![t].is = "expired"]
  /\ UNCHANGED <<tab, jar, signedIn, profile, link, claims>>

purgeExpiredOnboardingSessions(t) ==
  /\ row[t].is = "expired" /\ row' = [row EXCEPT ![t] = [NoRow EXCEPT !.is = "purged"]]
  /\ UNCHANGED <<tab, jar, signedIn, profile, link, claims>>

OnboardingNext ==
  \/ \E b \in Browsers :
       \/ Mount(b) \/ CloseTab(b) \/ advance(b) \/ signOut(b)
       \/ \E f \in Fields : \E v \in Answers : update(b, f, v)
       \/ \E arrives, answered \in BOOLEAN : saveOnboardingStep(b, arrives, answered)
       \/ \E k \in Claims : claimOnboardingSessionFromCookie(k, b) \/ \E u \in People : OpenLink(k, b, u)
  \/ \E k \in Claims : claimOnboardingSession(k)
  \/ \E u \in People : requestSignInLink(u)
  \/ \E t \in Tokens : Expire(t) \/ purgeExpiredOnboardingSessions(t)

OnboardingSpec == OnboardingInit /\ [][OnboardingNext]_onboardingVars

-------------------------------------------------------------------------------
(* Properties *)

\* On a browser that people share, one guest's answers make the profile of one person at most, unless
\* two of them claimed the row at the same time: whose claim reads the row after the first has
\* committed is not given the answers, whatever else happened to row, cookie and sessions in between.
OneOwner == \A u, w \in People :
  u # w /\ profile[u].exists /\ profile[w].exists /\ profile[u].source = profile[w].source
    => profile[u].source \in raced

\* What is not kept: the reads and the writes of two claims interleave, and both get the answers
\* (session.ts:158-193: no lock, no condition on the write, no unique source).
NeverSharedAtAll == \A u, w \in People :
  u # w /\ profile[u].exists /\ profile[w].exists => profile[u].source # profile[w].source

\* A sparse row erases no answer the page has: reloading keeps what was answered.
SparseRowErasesNothing ==
  [][\A b \in Browsers : \A f \in Fields :
       (tab[b].open /\ tab'[b].open /\ tab[b].draft[f] # Unanswered) => tab'[b].draft[f] \in Answers]_onboardingVars
===============================================================================
