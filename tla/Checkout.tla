------------------------------- MODULE Checkout -------------------------------
(***************************************************************************)
(* One accepted offer from "pay" to the escrow: the checkout sessions at   *)
(* the payment provider, the payment row, and the handlers that race for   *)
(* them: the student's requests, the provider's callback and webhook, the  *)
(* sweep over stale checkouts, the expiry of offers and of slot holds, and *)
(* a cancellation by either party.                                         *)
(*                                                                         *)
(* A handler is a process: pc[p] is the next database or provider call it  *)
(* makes and arg[p] what it remembers from the calls before.  The provider *)
(* is external: it opens a session for every initialize call, a student    *)
(* pays an open session or has the card declined, and retrieve tells.      *)
(*                                                                         *)
(* Left out: the buyer's data, amounts, signatures, and what becomes of the*)
(* program once it is paid (EscrowLifecycle).                              *)
(***************************************************************************)
EXTENDS OfferFSM, Integers, FiniteSets

CONSTANTS
  Tokens,        \* bound: checkout sessions the provider may open
  Students,      \* concurrent checkout requests of the student
  Callers,       \* concurrent callbacks and webhook deliveries
  Workers,       \* concurrent invocations of the cron job
  Cancellers,    \* concurrent cancellations by a party
  HOLD_TTL,      \* EXTEND_SLOT_HOLDS on ACCEPT: two hours, the unit of the clock being an hour
  TOKEN_TTL,     \* how long a session can be paid
  SWEEP_WINDOW,  \* age at which the sweep gives a payment up
  Deadline,      \* Offer.expiresAt
  Horizon,       \* bound: last value of the clock
  MaxCrashes,    \* bound: how many handlers may die between two steps
  Hiccups,       \* TRUE: the provider may answer a call with an error
  CronKeepsUp,   \* TRUE: the clock waits for the jobs that are due
  NoToken

Procs == Students \cup Callers \cup Workers \cup Cancellers
Time == 0..Horizon
SlotsHeldUntil == HOLD_TTL

ASSUME TimeAssumption == {HOLD_TTL, TOKEN_TTL, SWEEP_WINDOW, Deadline, Horizon, MaxCrashes} \subseteq Nat
ASSUME TokenAssumption == NoToken \notin Tokens

VARIABLES
  now,
  offer, engagement,  \* Offer.status; Engagement.status, NONE when there is no row
  activeEngagements,  \* CoachProfile.activeEngagements, this engagement's share of it
  payment,            \* the row of this offer's idempotency key
  funded,             \* number of PLATFORM_ESCROW credits posted
  holds,              \* SlotHold.status of the offer's slots
  booked,             \* the slots have become bookings
  webhookEvents,      \* sessions whose webhook is recorded in WebhookEvent
  session, openedAt,  \* the provider's sessions
  pc, arg, crashes

db == <<offer, engagement, activeEngagements, payment, funded, holds, booked, webhookEvents>>
provider == <<session, openedAt>>
vars == <<now, db, provider, pc, arg, crashes>>

PaymentStatus == {"NONE", "REQUIRES_ACTION", "CAPTURED", "FAILED"}
EngagementStatus == {"NONE", "PENDING_PAYMENT", "ACTIVE"}
HoldStatus == {"HELD", "CONVERTED", "RELEASED", "EXPIRED"}
SessionStatus == {"none", "created", "open", "paid", "declined"}
Step == {"idle", "reinit", "prepare", "init", "reject", "save",
         "lookup", "retrieve", "fail", "capture", "plan", "fund", "withdraw"}

buildContext ==
  [hasCapturedPayment |-> payment.status = "CAPTURED", hasOpenDispute |-> FALSE,
   allMilestonesSettled |-> FALSE, startDateReached |-> FALSE,
   withinDisputeWindow |-> TRUE, isInitiatorOfCurrentOffer |-> FALSE]

NoArgs == [t |-> NoToken, from |-> "none", to |-> "none"]

Init ==
  /\ now = 0
  /\ offer = "ACCEPTED" /\ engagement = "NONE" /\ activeEngagements = 0
  /\ payment = [status |-> "NONE", token |-> NoToken, createdAt |-> 0]
  /\ funded = 0 /\ holds = "HELD" /\ booked = FALSE /\ webhookEvents = {}
  /\ session = [t \in Tokens |-> "none"] /\ openedAt = [t \in Tokens |-> 0]
  /\ pc = [p \in Procs |-> "idle"] /\ arg = [p \in Procs |-> NoArgs] /\ crashes = 0

Goto(p, step, a) == pc' = [pc EXCEPT ![p] = step] /\ arg' = [arg EXCEPT ![p] = a]
Return(p) == Goto(p, "idle", NoArgs)

\* The snapshot read and plan of transitionOffer: `from` is what the later CAS expects.
Plan(p, event, actor, step) ==
  \E to \in OfferStatus :
    /\ Transition(offer, event, actor, buildContext, to)
    /\ Goto(p, step, [arg[p] EXCEPT !.from = offer, !.to = to])

\* casStatus found another status: the call throws.
TransitionLost(p) ==
  /\ pc[p] \in {"fund", "withdraw"} /\ offer # arg[p].from
  /\ Return(p)
  /\ UNCHANGED <<now, db, provider, crashes>>

-------------------------------------------------------------------------------
(* startCheckout *)

unusedTokens == {t \in Tokens : session[t] = "none"}
initializing == {p \in Procs : pc[p] \in {"reinit", "prepare", "init"}}

\* A payment row that still waits for the student is reused.
StartCheckout(s) ==
  /\ pc[s] = "idle" /\ offer = "ACCEPTED" /\ payment.status # "CAPTURED"
  /\ Cardinality(unusedTokens) > Cardinality(initializing)
  /\ Goto(s, IF payment.status = "REQUIRES_ACTION" THEN "reinit" ELSE "prepare", NoArgs)
  /\ UNCHANGED <<now, db, provider, crashes>>

Initialized(t) ==
  /\ session' = [session EXCEPT ![t] = "created"]
  /\ openedAt' = [openedAt EXCEPT ![t] = now]

\* The session of the reuse goes to the student; the row keeps the token of the first.
Reinitialize(s) ==
  /\ pc[s] = "reinit"
  /\ \/ /\ \E t \in unusedTokens : /\ session' = [session EXCEPT ![t] = "open"]
                                   /\ openedAt' = [openedAt EXCEPT ![t] = now]
        /\ Return(s)
     \/ Hiccups /\ Goto(s, "prepare", NoArgs) /\ UNCHANGED provider
  /\ UNCHANGED <<now, db, crashes>>

EnsureMilestones(s) ==
  /\ pc[s] = "prepare"
  /\ engagement' = IF engagement = "NONE" THEN "PENDING_PAYMENT" ELSE engagement
  /\ Goto(s, "init", NoArgs)
  /\ UNCHANGED <<now, offer, activeEngagements, payment, funded, holds, booked, webhookEvents,
                 provider, crashes>>

InitializeCheckout(s) ==
  /\ pc[s] = "init"
  /\ \/ \E t \in unusedTokens : Initialized(t) /\ Goto(s, "save", [NoArgs EXCEPT !.t = t])
     \/ Hiccups /\ Goto(s, "reject", NoArgs) /\ UNCHANGED provider
  /\ UNCHANGED <<now, db, crashes>>

RejectCheckout(s) ==
  /\ pc[s] = "reject"
  /\ payment' = [payment EXCEPT !.status = "FAILED",
                                !.createdAt = IF payment.status = "NONE" THEN now ELSE @]
  /\ Return(s)
  /\ UNCHANGED <<now, offer, engagement, activeEngagements, funded, holds, booked, webhookEvents,
                 provider, crashes>>

\* The upsert, and the checkout page that reaches the student with the answer.
SaveCheckout(s) ==
  /\ pc[s] = "save"
  /\ payment' = [status |-> "REQUIRES_ACTION", token |-> arg[s].t,
                 createdAt |-> IF payment.status = "NONE" THEN now ELSE payment.createdAt]
  /\ session' = [session EXCEPT ![arg[s].t] = "open"]
  /\ Return(s)
  /\ UNCHANGED <<now, offer, engagement, activeEngagements, funded, holds, booked, webhookEvents,
                 openedAt, crashes>>

-------------------------------------------------------------------------------
(* The provider *)

PaySession(t) ==
  /\ session[t] = "open" /\ now <= openedAt[t] + TOKEN_TTL
  /\ \E outcome \in {"paid", "declined"} : session' = [session EXCEPT ![t] = outcome]
  /\ UNCHANGED <<now, db, openedAt, pc, arg, crashes>>

-------------------------------------------------------------------------------
(* reconcileCheckout and its callers *)

\* The provider sends the browser back when the student is done with the page.
Callback(c) ==
  /\ pc[c] = "idle"
  /\ \E t \in Tokens : /\ session[t] \in {"paid", "declined"}
                       /\ Goto(c, "lookup", [NoArgs EXCEPT !.t = t])
  /\ UNCHANGED <<now, db, provider, crashes>>

\* A webhook is acted on only by the delivery that recorded it.
Webhook(c) ==
  /\ pc[c] = "idle"
  /\ \E t \in Tokens \ webhookEvents :
       /\ session[t] = "paid"
       /\ webhookEvents' = webhookEvents \cup {t}
       /\ Goto(c, "lookup", [NoArgs EXCEPT !.t = t])
  /\ UNCHANGED <<now, offer, engagement, activeEngagements, payment, funded, holds, booked,
                 provider, crashes>>

\* Wrong: the comparison with the age is turned round.
staleReversed == payment.status = "REQUIRES_ACTION" /\ payment.createdAt + SWEEP_WINDOW < now

\* Its lower bound, two minutes, is less than a unit of the clock.
stale == payment.status = "REQUIRES_ACTION" /\ now < payment.createdAt + SWEEP_WINDOW

ReconcileStaleCheckout(w) ==
  /\ pc[w] = "idle" /\ stale
  /\ Goto(w, "lookup", [NoArgs EXCEPT !.t = payment.token])
  /\ UNCHANGED <<now, db, provider, crashes>>

\* Unknown token: the call throws.  Captured already: there is nothing to do.
FindPayment(p) ==
  /\ pc[p] = "lookup"
  /\ IF payment.token = arg[p].t /\ payment.status # "CAPTURED"
     THEN Goto(p, "retrieve", arg[p]) ELSE Return(p)
  /\ UNCHANGED <<now, db, provider, crashes>>

\* Wrong: a session that is not paid yet counts as captured.
answersTrusting(t) ==
  IF session[t] = "declined" THEN {"fail"} ELSE {"capture"}

\* What retrieveCheckout may answer, as the step that follows it.
trueAnswer(t) == CASE session[t] = "paid" -> "capture"
                   [] session[t] = "declined" -> "fail"
                   [] OTHER -> "idle"
answers(t) == {trueAnswer(t)} \cup (IF Hiccups THEN {"fail", "idle"} ELSE {})

RetrieveCheckout(p) ==
  /\ pc[p] = "retrieve"
  /\ \E step \in answers(arg[p].t) :
       IF step = "idle" THEN Return(p) ELSE Goto(p, step, arg[p])
  /\ UNCHANGED <<now, db, provider, crashes>>

PaymentFailed(p) ==
  /\ pc[p] = "fail"
  /\ payment' = [payment EXCEPT !.status = "FAILED"]
  /\ Return(p)
  /\ UNCHANGED <<now, offer, engagement, activeEngagements, funded, holds, booked, webhookEvents,
                 provider, crashes>>

\* Wrong: the handler stops once the payment is recorded.
CaptureOnly(p) ==
  /\ pc[p] = "capture"
  /\ payment' = [payment EXCEPT !.status = "CAPTURED"]
  /\ Return(p)
  /\ UNCHANGED <<now, offer, engagement, activeEngagements, funded, holds, booked, webhookEvents,
                 provider, crashes>>

PaymentCaptured(p) ==
  /\ pc[p] = "capture"
  /\ payment' = [payment EXCEPT !.status = "CAPTURED"]
  /\ Goto(p, "plan", NoArgs)
  /\ UNCHANGED <<now, offer, engagement, activeEngagements, funded, holds, booked, webhookEvents,
                 provider, crashes>>

PlanCaptured(p) ==
  /\ pc[p] = "plan"
  /\ \/ Plan(p, "PAYMENT_CAPTURED", "SYSTEM", "fund")
     \/ /\ ~canTransition(offer, "PAYMENT_CAPTURED", "SYSTEM", buildContext)
        /\ Return(p)
  /\ UNCHANGED <<now, db, provider, crashes>>

\* PAYMENT_CAPTURED: CREATE_ENGAGEMENT, POST_ESCROW_FUNDING, CREATE_MILESTONES and
\* CONVERT_HOLDS_TO_BOOKINGS, each idempotent by itself.
FundEscrow(p) ==
  /\ pc[p] = "fund" /\ offer = arg[p].from
  /\ offer' = arg[p].to
  /\ engagement' = "ACTIVE"
  /\ activeEngagements' = activeEngagements + (IF engagement = "ACTIVE" THEN 0 ELSE 1)
  /\ funded' = IF funded = 0 THEN 1 ELSE funded
  /\ holds' = IF holds = "HELD" THEN "CONVERTED" ELSE holds
  /\ booked' = (holds = "HELD" \/ booked)
  /\ Return(p)
  /\ UNCHANGED <<now, payment, webhookEvents, provider, crashes>>

-------------------------------------------------------------------------------
(* Expiry and cancellation *)

ExpireOffer(w) ==
  /\ pc[w] = "idle" /\ Deadline <= now
  /\ Plan(w, "EXPIRE", "SYSTEM", "withdraw")
  /\ UNCHANGED <<now, db, provider, crashes>>

CancelOffer(c) ==
  /\ pc[c] = "idle"
  /\ \E role \in {"STUDENT", "COACH"} : Plan(c, "CANCEL", role, "withdraw")
  /\ UNCHANGED <<now, db, provider, crashes>>

\* Wrong: the status is written without the comparison.
WithdrawUnchecked(p) ==
  /\ pc[p] = "withdraw"
  /\ offer' = arg[p].to
  /\ holds' = IF holds = "HELD" THEN "RELEASED" ELSE holds
  /\ Return(p)
  /\ UNCHANGED <<now, engagement, activeEngagements, payment, funded, booked, webhookEvents,
                 provider, crashes>>

\* The CAS of CANCEL or EXPIRE and its RELEASE_SLOT_HOLDS.
WithdrawOffer(p) ==
  /\ pc[p] = "withdraw" /\ offer = arg[p].from
  /\ offer' = arg[p].to
  /\ holds' = IF holds = "HELD" THEN "RELEASED" ELSE holds
  /\ Return(p)
  /\ UNCHANGED <<now, engagement, activeEngagements, payment, funded, booked, webhookEvents,
                 provider, crashes>>

\* Wrong: the slots of a student on the payment page are spared.
holdsDueSparing ==
  holds = "HELD" /\ SlotsHeldUntil <= now /\ payment.status # "REQUIRES_ACTION"

holdsDue == holds = "HELD" /\ SlotsHeldUntil <= now

ExpireStaleHolds(w) ==
  /\ pc[w] = "idle" /\ holdsDue
  /\ holds' = "EXPIRED"
  /\ UNCHANGED <<now, offer, engagement, activeEngagements, payment, funded, booked, webhookEvents,
                 provider, pc, arg, crashes>>

-------------------------------------------------------------------------------
(* Environment *)

jobsDue == \/ stale /\ session[payment.token] \in {"paid", "declined"}
           \/ offer = "ACCEPTED" /\ Deadline <= now /\ payment.status # "CAPTURED"
           \/ holdsDue
           \/ \E p \in Procs : pc[p] # "idle"

Tick ==
  /\ now < Horizon
  /\ CronKeepsUp => ~jobsDue
  /\ now' = now + 1
  /\ UNCHANGED <<db, provider, pc, arg, crashes>>

\* The handler dies between two steps.
Crash(p) ==
  /\ pc[p] # "idle" /\ crashes < MaxCrashes
  /\ crashes' = crashes + 1
  /\ Return(p)
  /\ UNCHANGED <<now, db, provider>>

CheckoutStep(s) == Reinitialize(s) \/ EnsureMilestones(s) \/ InitializeCheckout(s)
                   \/ RejectCheckout(s) \/ SaveCheckout(s)

ReconcileStep(p) == FindPayment(p) \/ RetrieveCheckout(p) \/ PaymentFailed(p)
                    \/ PaymentCaptured(p) \/ PlanCaptured(p) \/ FundEscrow(p)

Handler(p) == \/ p \in Students /\ CheckoutStep(p)
              \/ p \in Callers \cup Workers /\ ReconcileStep(p)
              \/ p \in Workers \cup Cancellers /\ WithdrawOffer(p)
              \/ TransitionLost(p)

Next == \/ Tick
        \/ \E s \in Students : StartCheckout(s)
        \/ \E t \in Tokens : PaySession(t)
        \/ \E c \in Callers : Callback(c) \/ Webhook(c)
        \/ \E w \in Workers : ReconcileStaleCheckout(w) \/ ExpireOffer(w) \/ ExpireStaleHolds(w)
        \/ \E c \in Cancellers : CancelOffer(c)
        \/ \E p \in Procs : Handler(p) \/ Crash(p)

Spec == Init /\ [][Next]_vars

\* A handler that has begun runs on unless it crashes; the cron job calls each of its jobs for
\* ever; time passes.  Nothing makes a student pay, a callback come back or a webhook arrive.
\* The provider may answer with errors, but not for ever.
ToldTheTruth(p) == RetrieveCheckout(p) /\ pc'[p] = trueAnswer(arg[p].t)

Fairness ==
  /\ SF_vars(Tick)
  /\ \A p \in Procs : WF_vars(Handler(p))
  /\ \A p \in Callers \cup Workers : SF_vars(ToldTheTruth(p))
  /\ \A w \in Workers : /\ SF_vars(ReconcileStaleCheckout(w))
                        /\ SF_vars(ExpireOffer(w))
                        /\ SF_vars(ExpireStaleHolds(w))

FairSpec == Spec /\ Fairness

-------------------------------------------------------------------------------
(* Properties *)

\* The type of every variable; the offer starts ACCEPTED and the counters are natural numbers.
TypeOK ==
  /\ now \in Time
  /\ offer \in OfferStatus
  /\ engagement \in EngagementStatus
  /\ activeEngagements \in Nat
  /\ payment \in [status : PaymentStatus, token : Tokens \cup {NoToken}, createdAt : Time]
  /\ funded \in Nat
  /\ holds \in HoldStatus
  /\ booked \in BOOLEAN
  /\ webhookEvents \subseteq Tokens
  /\ session \in [Tokens -> SessionStatus]
  /\ openedAt \in [Tokens -> Time]
  /\ pc \in [Procs -> Step]
  /\ arg \in [Procs -> [t : Tokens \cup {NoToken}, from : OfferStatus \cup {"none"},
                        to : OfferStatus \cup {"none"}]]
  /\ crashes \in Nat

somePaid == \E t \in Tokens : session[t] = "paid"

\* The program starts, the escrow is credited and the coach's calendar is booked only for money
\* that the provider has taken (reconcileCheckout asks the provider before it believes anyone).
NothingWithoutMoney ==
  \/ offer = "PAID_IN_ESCROW" \/ engagement = "ACTIVE" \/ funded > 0 \/ booked
  \/ payment.status = "CAPTURED"
  => somePaid

\* However many callbacks, webhooks and sweeps report the same payment, and whatever withdraws
\* the offer meanwhile, the offer, the engagement, the coach's count and the escrow agree.
FundedOnceOrNotAtAll ==
  /\ offer = "PAID_IN_ESCROW" <=> funded = 1
  /\ engagement = "ACTIVE" <=> funded = 1
  /\ activeEngagements = funded

\* An offer that expired or was cancelled stays so, and keeps none of the coach's time: neither
\* a hold nor a booking.
DeadOfferKeepsNoSlots ==
  offer \in {"EXPIRED", "CANCELLED"} => holds # "HELD" /\ ~booked

\* A dead offer stays dead, whoever still holds a plan made before it died: the compare-and-set
\* of transitionOffer (tx.ts:44) refuses the plan.
WithdrawnForGood == [][(offer \in TERMINAL_STATES) => offer' = offer]_vars

(* The inductive invariant: what a handler remembers is still good for what it does next. *)

OwnSession == \A p \in Procs : pc[p] = "save" =>
  /\ session[arg[p].t] = "created"
  /\ \A q \in Procs : pc[q] = "save" /\ arg[q].t = arg[p].t => q = p

HandlersRemember == \A p \in Procs :
  /\ pc[p] \in {"save", "lookup", "retrieve"} => arg[p].t \in Tokens
  /\ pc[p] \in {"fund", "withdraw"} => arg[p].from = "ACCEPTED"
  /\ pc[p] = "fund" => arg[p].to = "PAID_IN_ESCROW"
  /\ pc[p] = "withdraw" => arg[p].to \in {"EXPIRED", "CANCELLED"}

PaymentIsBacked ==
  /\ payment.status = "REQUIRES_ACTION" => payment.token \in Tokens
  /\ \/ payment.status = "CAPTURED" \/ offer = "PAID_IN_ESCROW"
     \/ \E p \in Procs : pc[p] \in {"capture", "plan", "fund"}
     => somePaid

OfferIsSettled ==
  /\ offer \in {"ACCEPTED", "PAID_IN_ESCROW", "EXPIRED", "CANCELLED"}
  /\ funded <= 1
  /\ booked => offer = "PAID_IN_ESCROW"
  /\ FundedOnceOrNotAtAll
  /\ DeadOfferKeepsNoSlots

\* Everything above at once: whatever a callback, a webhook, the sweep, an expiry and a
\* cancellation each remember from their reads, no step of one of them breaks the others.
CheckoutInv == TypeOK /\ OwnSession /\ HandlersRemember /\ PaymentIsBacked /\ OfferIsSettled

\* A session that the student has paid, and whose token the payment row carries, is recorded as
\* captured although neither callback nor webhook ever arrives: the sweep finds it
\* (provider-sync.ts:88-92), if the row is younger than its window, 24 hours.  Two things that
\* come of a provider's error may come first: the error is taken for a decline, and a FAILED row
\* is not swept; or the student presses again, and the row gets the token of another session.
SweepRecordsPayment ==
  \A t \in Tokens :
    (/\ session[t] = "paid" /\ payment.token = t
     /\ payment.status = "REQUIRES_ACTION" /\ now < payment.createdAt + SWEEP_WINDOW)
      ~> payment.status \in {"CAPTURED", "FAILED"} \/ payment.token # t

\* Captured money does not sit "in escrow against an offer still marked ACCEPTED"
\* (provider-sync.ts:90): it is credited, unless the offer expired or was cancelled under the
\* payment, or a student who pressed "pay" once more while the sweep was asking has the row of
\* the captured payment overwritten (the upsert of startCheckout looks at no status).
CapturedIsEscrowed ==
  payment.status = "CAPTURED"
    ~> funded = 1 \/ offer \in {"EXPIRED", "CANCELLED"} \/ payment.status # "CAPTURED"

\* Slots whose hold has run out come free by the hold's own clock, paid for or not: they are
\* not withheld until the offer's deadline, days later, which would free them too.
SlotsComeFree ==
  holds = "HELD" /\ SlotsHeldUntil <= now /\ now < Deadline
    ~> holds # "HELD" /\ now < Deadline

-------------------------------------------------------------------------------
(* What is promised and not kept *)

\* A paid program has its sessions: "a student never pays for a half-booked calendar"
\* (offer-service.ts:300).
PaidProgramHasItsSessions == offer = "PAID_IN_ESCROW" => booked
===============================================================================
