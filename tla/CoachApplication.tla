--------------------------- MODULE CoachApplication ---------------------------
(***************************************************************************)
(* From the application form to a coach who can be paid: the form and its  *)
(* draft in the browser, the uploaded documents, the submission, the       *)
(* admins' decisions, and the registration of the bank details with the    *)
(* payment provider.                                                       *)
(*                                                                         *)
(* One applicant, who may have the form open in several tabs, and several  *)
(* admins, whose queue page may be as old as they like.  The server reads  *)
(* and writes in separate statements where the code does; a process may    *)
(* die between any two of them.  The form's answers are the set of steps   *)
(* that are complete; the last step is the bank details.                   *)
(***************************************************************************)
EXTENDS Naturals

CONSTANTS Tabs, Reviewers,
  LastStep     \* the steps of the form are 1 .. LastStep (5 in the code)

VARIABLES
  coach,       \* CoachProfile: [status, acceptingStudents, document, registered], status "NONE" before it exists
  bankDetails,   \* CoachPayoutProfile: [secrets, purgedAt]
  stored,      \* the draft in localStorage, which the tabs share
  applyForm,   \* per tab: the form on screen
  applyCall,   \* per tab: the server action under way
  card,        \* per admin: the applicant's card on their queue page
  registration \* per admin: how far registerSubmerchant has come

applicationVars == <<coach, bankDetails, stored, applyForm, applyCall, card, registration>>

Steps == 1..LastStep
withoutPayout(filled) == filled \ {LastStep}

NoForm == [open |-> FALSE, step |-> 1, filled |-> {}]
Idle == [at |-> "none", existing |-> FALSE]

ApplicationInit ==
  /\ coach = [status |-> "NONE", acceptingStudents |-> FALSE, document |-> "none", registered |-> FALSE]
  /\ bankDetails = [secrets |-> FALSE, purgedAt |-> FALSE]
  /\ stored = [step |-> 1, filled |-> {}]
  /\ applyForm = [t \in Tabs |-> NoForm]
  /\ applyCall = [t \in Tabs |-> Idle]
  /\ card = [a \in Reviewers |-> "none"]
  /\ registration = [a \in Reviewers |-> "none"]

-------------------------------------------------------------------------------
(* The form *)

\* An applicant is shown where the application stands; one who was rejected may ask to edit it.
CoachApplyPage(t, duzenle) ==
  /\ coach.status \in {"NONE", "DRAFT"} \/ (duzenle /\ coach.status = "REJECTED")
  /\ applyForm' = [applyForm EXCEPT ![t] = [open |-> TRUE, step |-> stored.step, filled |-> stored.filled]]
  /\ UNCHANGED <<coach, bankDetails, stored, applyCall, card, registration>>

\* Every change is written to the browser, the bank details left out.
ShowForm(t, f) ==
  /\ applyForm' = [applyForm EXCEPT ![t] = f]
  /\ stored' = [step |-> f.step, filled |-> withoutPayout(f.filled)]
  /\ UNCHANGED <<coach, bankDetails, applyCall, card, registration>>

FillStep(t) ==
  /\ applyForm[t].open /\ applyForm[t].step \notin applyForm[t].filled
  /\ ShowForm(t, [applyForm[t] EXCEPT !.filled = @ \cup {applyForm[t].step}])

validateStep(t) == applyForm[t].step \in applyForm[t].filled

\* Forward only past a complete step; backward always.
NextStep(t) ==
  /\ applyForm[t].open /\ applyForm[t].step < LastStep /\ validateStep(t)
  /\ ShowForm(t, [applyForm[t] EXCEPT !.step = @ + 1])

PreviousStep(t) ==
  /\ applyForm[t].open /\ applyForm[t].step > 1
  /\ ShowForm(t, [applyForm[t] EXCEPT !.step = @ - 1])

Ask(t, what) ==
  /\ applyForm[t].open /\ applyCall[t].at = "none"
  /\ applyCall' = [applyCall EXCEPT ![t] = [Idle EXCEPT !.at = what]]
  /\ UNCHANGED <<coach, bankDetails, stored, applyForm, card, registration>>

PressApply(t) == applyForm[t].step = LastStep /\ validateStep(t) /\ Ask(t, "read")
PressUpload(t) == applyForm[t].step = 1 /\ Ask(t, "ensureDraft")

\* Once the submission is in, the draft is cleared and the page moves on.
ApplyAnswered(t) ==
  /\ applyCall[t].at \in {"done", "uploaded", "failed", "ALREADY_APPLIED"}
  /\ applyCall' = [applyCall EXCEPT ![t] = Idle]
  /\ IF applyCall[t].at = "done"
     THEN stored' = [step |-> 1, filled |-> {}] /\ applyForm' = [applyForm EXCEPT ![t] = NoForm]
     ELSE UNCHANGED <<stored, applyForm>>
  /\ UNCHANGED <<coach, bankDetails, card, registration>>

-------------------------------------------------------------------------------
(* The server *)

ServerStep(t, at) == applyCall' = [applyCall EXCEPT ![t].at = at]

\* The document needs a row to hang on: one in DRAFT is found or made.
ensureCoachDraft(t) ==
  /\ applyCall[t].at = "ensureDraft"
  /\ IF coach.status \in {"NONE", "DRAFT"}
     THEN coach' = [coach EXCEPT !.status = "DRAFT"] /\ ServerStep(t, "store")
     ELSE ServerStep(t, "ALREADY_APPLIED") /\ UNCHANGED coach
  /\ UNCHANGED <<bankDetails, stored, applyForm, card, registration>>

\* Once the file is in the bucket its row is made; the application is not looked at again.
uploadVerificationDocument(t) ==
  /\ applyCall[t].at = "store"
  /\ coach' = [coach EXCEPT !.document = "PENDING"] /\ ServerStep(t, "uploaded")
  /\ UNCHANGED <<bankDetails, stored, applyForm, card, registration>>

\* The whole form is validated again, and the application looked up.
readExisting(t) ==
  /\ applyCall[t].at = "read"
  /\ applyCall' = [applyCall EXCEPT ![t] =
       [at |-> IF applyForm[t].filled # Steps THEN "failed"
               ELSE IF coach.status \notin {"NONE", "DRAFT"} THEN "ALREADY_APPLIED" ELSE "write",
        existing |-> coach.status # "NONE"]]
  /\ UNCHANGED <<coach, bankDetails, stored, applyForm, card, registration>>

\* One transaction, by what was read: an update asks for no status, a second insert is refused.
submitCoachApplication(t) ==
  /\ applyCall[t].at = "write"
  /\ IF ~applyCall[t].existing /\ coach.status # "NONE"
     THEN ServerStep(t, "failed") /\ UNCHANGED <<coach, bankDetails>>
     ELSE /\ ServerStep(t, "done")
          /\ coach' = [coach EXCEPT !.status = "PENDING", !.acceptingStudents = FALSE]
          /\ bankDetails' = [bankDetails EXCEPT !.secrets = TRUE]
  /\ UNCHANGED <<stored, applyForm, card, registration>>

-------------------------------------------------------------------------------
(* The admins *)

\* The verification queue; a card is acted upon however old it is.
AdminPage(a) ==
  /\ registration[a] = "none"
  /\ card' = [card EXCEPT ![a] = IF coach.status # "PENDING" THEN "none"
                                 ELSE IF coach.document = "none" THEN "shown" ELSE "with document"]
  /\ UNCHANGED <<coach, bankDetails, stored, applyForm, applyCall, registration>>

decided(verdict) == IF coach.document = "PENDING" THEN verdict ELSE coach.document

\* The decision stands whatever becomes of the registration that follows it.
approveCoach(a) ==
  /\ card[a] = "with document" /\ registration[a] = "none"
  /\ coach' = [coach EXCEPT !.status = "APPROVED", !.acceptingStudents = TRUE, !.document = decided("APPROVED")]
  /\ registration' = [registration EXCEPT ![a] = "check"]
  /\ UNCHANGED <<bankDetails, stored, applyForm, applyCall, card>>

rejectCoach(a) ==
  /\ card[a] # "none" /\ registration[a] = "none"
  /\ coach' = [coach EXCEPT !.status = "REJECTED", !.document = decided("REJECTED")]
  /\ card' = [card EXCEPT ![a] = "none"]
  /\ UNCHANGED <<bankDetails, stored, applyForm, applyCall, registration>>

\* The call is over, or its process has died; the page is loaded anew.
EndRegistration(a) ==
  registration' = [registration EXCEPT ![a] = "none"] /\ card' = [card EXCEPT ![a] = "none"]

Undisturbed == UNCHANGED <<stored, applyForm, applyCall>>

\* Nothing is done for a coach who has a key, nor for one whose details are gone.
registerSubmerchant(a) ==
  /\ registration[a] = "check"
  /\ IF coach.registered \/ ~bankDetails.secrets \/ bankDetails.purgedAt THEN EndRegistration(a)
     ELSE registration' = [registration EXCEPT ![a] = "provider"] /\ UNCHANGED card
  /\ UNCHANGED <<coach, bankDetails>> /\ Undisturbed

\* Wrong: the details are cleared as soon as they have been sent.
sentIsPurged(a, ok) ==
  /\ registration[a] = "provider"
  /\ IF ok THEN registration' = [registration EXCEPT ![a] = "store"] /\ UNCHANGED card ELSE EndRegistration(a)
  /\ bankDetails' = [secrets |-> FALSE, purgedAt |-> TRUE] /\ UNCHANGED coach /\ Undisturbed

createSubmerchant(a, ok) ==
  /\ registration[a] = "provider"
  /\ IF ok THEN registration' = [registration EXCEPT ![a] = "store"] /\ UNCHANGED card ELSE EndRegistration(a)
  /\ UNCHANGED <<coach, bankDetails>> /\ Undisturbed

\* The key is stored and the details cleared, together.
StoreKey(a) ==
  /\ registration[a] = "store"
  /\ coach' = [coach EXCEPT !.registered = TRUE]
  /\ bankDetails' = [secrets |-> FALSE, purgedAt |-> TRUE]
  /\ EndRegistration(a) /\ Undisturbed

ProcessDies ==
  /\ \/ \E a \in Reviewers : registration[a] # "none" /\ EndRegistration(a) /\ UNCHANGED applyCall
     \/ \E t \in Tabs : applyCall[t].at # "none" /\ applyCall' = [applyCall EXCEPT ![t] = Idle]
                        /\ UNCHANGED <<card, registration>>
  /\ UNCHANGED <<coach, bankDetails, stored, applyForm>>

ApplicationNext ==
  \/ \E t \in Tabs :
       \/ CoachApplyPage(t, FALSE) \/ CoachApplyPage(t, TRUE)
       \/ FillStep(t) \/ NextStep(t) \/ PreviousStep(t) \/ PressApply(t) \/ PressUpload(t) \/ ApplyAnswered(t)
       \/ ensureCoachDraft(t) \/ uploadVerificationDocument(t) \/ readExisting(t) \/ submitCoachApplication(t)
  \/ \E a \in Reviewers :
       \/ AdminPage(a) \/ approveCoach(a) \/ rejectCoach(a) \/ registerSubmerchant(a) \/ StoreKey(a)
       \/ createSubmerchant(a, TRUE) \/ createSubmerchant(a, FALSE)
  \/ ProcessDies

ApplicationSpec == ApplicationInit /\ [][ApplicationNext]_applicationVars

-------------------------------------------------------------------------------
(* Properties *)

\* The bank details of everyone who applied stay on file until the provider's key does: whatever fails,
\* dies or is decided twice on the way, the coach can still be made payable.
DetailsKeptUntilRegistered ==
  (coach.status \notin {"NONE", "DRAFT"} /\ ~coach.registered) => bankDetails.secrets /\ ~bankDetails.purgedAt

-------------------------------------------------------------------------------
(* What is promised and not kept *)

\* A rejected applicant who has edited the application can send it again.
RejectedCanReapply ==
  [][\A t \in Tabs : applyCall[t].at # "ALREADY_APPLIED" /\ applyCall'[t].at = "ALREADY_APPLIED"
       => coach.status # "REJECTED"]_applicationVars
===============================================================================
