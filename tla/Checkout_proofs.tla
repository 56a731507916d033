---------------------------- MODULE Checkout_proofs ----------------------------
(***************************************************************************)
(* Proofs about Checkout, for any number of sessions, requests, callbacks, *)
(* cron jobs, cancellations and crashes, and for every deadline.           *)
(***************************************************************************)
EXTENDS Checkout, TLAPS

-------------------------------------------------------------------------------
(* What the transition table lets a handler plan *)

\* A capture is planned only for an offer that is accepted.
LEMMA CapturePlan ==
  ASSUME OfferIsSettled, NEW p \in Procs, Plan(p, "PAYMENT_CAPTURED", "SYSTEM", "fund")
  PROVE  /\ offer = "ACCEPTED"
         /\ Goto(p, "fund", [arg[p] EXCEPT !.from = "ACCEPTED", !.to = "PAID_IN_ESCROW"])
<1>1. PICK to \in OfferStatus :
        /\ <<offer, "PAYMENT_CAPTURED", to>> \in TRANSITIONS
        /\ Goto(p, "fund", [arg[p] EXCEPT !.from = offer, !.to = to])
  BY DEF Plan, Transition
<1>2. offer = "ACCEPTED" /\ to = "PAID_IN_ESCROW"
  BY <1>1 DEF TRANSITIONS
<1> QED BY <1>1, <1>2

\* An expiry or a cancellation likewise, and it ends the offer.
LEMMA WithdrawPlan ==
  ASSUME OfferIsSettled, NEW p \in Procs, NEW event \in {"EXPIRE", "CANCEL"}, NEW actor,
         Plan(p, event, actor, "withdraw")
  PROVE  \E to \in {"EXPIRED", "CANCELLED"} :
            Goto(p, "withdraw", [arg[p] EXCEPT !.from = "ACCEPTED", !.to = to])
<1>1. PICK to \in OfferStatus :
        /\ <<offer, event, to>> \in TRANSITIONS
        /\ Goto(p, "withdraw", [arg[p] EXCEPT !.from = offer, !.to = to])
  BY DEF Plan, Transition
<1>2. offer = "ACCEPTED" /\ to \in {"EXPIRED", "CANCELLED"}
  BY <1>1 DEF TRANSITIONS, OfferIsSettled
<1> QED BY <1>1, <1>2
-------------------------------------------------------------------------------
(* Types *)

Memory == [t : Tokens \cup {NoToken}, from : OfferStatus \cup {"none"},
           to : OfferStatus \cup {"none"}]

LEMMA InitType == Init => TypeOK
<1> SUFFICES ASSUME Init PROVE TypeOK
  OBVIOUS
<1>1. 0 \in Time
  BY TimeAssumption DEF Time
<1>2. /\ offer \in OfferStatus /\ engagement \in EngagementStatus /\ holds \in HoldStatus
      /\ booked \in BOOLEAN /\ webhookEvents \subseteq Tokens
      /\ activeEngagements \in Nat /\ funded \in Nat /\ crashes \in Nat
  BY DEF Init, OfferStatus, EngagementStatus, HoldStatus
<1>3. payment \in [status : PaymentStatus, token : Tokens \cup {NoToken}, createdAt : Time]
  BY <1>1 DEF Init, PaymentStatus
<1>4. session \in [Tokens -> SessionStatus] /\ openedAt \in [Tokens -> Time]
  BY <1>1 DEF Init, SessionStatus
<1>5. pc \in [Procs -> Step]
  BY DEF Init, Step
<1>6. NoArgs \in [t : Tokens \cup {NoToken}, from : OfferStatus \cup {"none"},
                  to : OfferStatus \cup {"none"}]
  BY DEF NoArgs
<1>7. arg \in [Procs -> [t : Tokens \cup {NoToken}, from : OfferStatus \cup {"none"},
                         to : OfferStatus \cup {"none"}]]
  BY <1>6 DEF Init
<1>8. now \in Time
  BY <1>1 DEF Init
<1> QED BY <1>2, <1>3, <1>4, <1>5, <1>7, <1>8 DEF TypeOK

\* A handler's next step and memory keep their types.
LEMMA GotoType ==
  ASSUME TypeOK, NEW p \in Procs, NEW step \in Step, NEW a \in Memory, Goto(p, step, a)
  PROVE  pc' \in [Procs -> Step] /\ arg' \in [Procs -> Memory]
  BY DEF TypeOK, Goto, Memory

LEMMA ReturnType ==
  ASSUME TypeOK, NEW p \in Procs, Return(p)
  PROVE  pc' \in [Procs -> Step] /\ arg' \in [Procs -> Memory]
<1>1. NoArgs \in Memory /\ "idle" \in Step
  BY DEF NoArgs, Memory, Step
<1> QED BY <1>1, GotoType DEF Return

LEMMA PlanType ==
  ASSUME TypeOK, NEW p \in Procs, NEW event, NEW actor, NEW step \in Step,
         Plan(p, event, actor, step)
  PROVE  pc' \in [Procs -> Step] /\ arg' \in [Procs -> Memory]
<1>1. PICK to \in OfferStatus : Goto(p, step, [arg[p] EXCEPT !.from = offer, !.to = to])
  BY DEF Plan
<1>2. [arg[p] EXCEPT !.from = offer, !.to = to] \in Memory
  BY DEF TypeOK, Memory
<1> QED BY <1>1, <1>2, GotoType

\* Everything but the handlers.
DbType ==
  /\ now \in Time
  /\ offer \in OfferStatus
  /\ engagement \in EngagementStatus
  /\ activeEngagements \in Nat
  /\ payment \in [status : PaymentStatus, token : Tokens \cup {NoToken}, createdAt : Time]
  /\ funded \in Nat
  /\ holds \in HoldStatus
  /\ booked \in BOOLEAN
  /\ webhookEvents \subseteq Tokens
  /\ session \in [Tokens -> SessionStatus]
  /\ openedAt \in [Tokens -> Time]
  /\ crashes \in Nat

LEMMA TypeParts ==
  ASSUME DbType', pc' \in [Procs -> Step], arg' \in [Procs -> Memory]
  PROVE  TypeOK'
  BY DEF TypeOK, DbType, Memory

LEMMA DbUnchanged == TypeOK /\ UNCHANGED <<now, db, provider, crashes>> => DbType'
  BY DEF TypeOK, DbType, db, provider

LEMMA StudentType ==
  ASSUME TypeOK, NEW s \in Procs, StartCheckout(s) \/ CheckoutStep(s)
  PROVE  TypeOK'
<1> USE DEF Step
<1>0. NoArgs \in Memory
  BY DEF NoArgs, Memory
<1>1. ASSUME StartCheckout(s) PROVE TypeOK'
  BY <1>1, <1>0, GotoType, DbUnchanged, TypeParts DEF StartCheckout
<1>2. ASSUME Reinitialize(s) PROVE TypeOK'
  <2>1. pc' \in [Procs -> Step] /\ arg' \in [Procs -> Memory]
    BY <1>2, <1>0, GotoType, ReturnType DEF Reinitialize
  <2>2. DbType'
    BY <1>2 DEF Reinitialize, TypeOK, DbType, db, provider, SessionStatus
  <2> QED BY <2>1, <2>2, TypeParts
<1>3. ASSUME EnsureMilestones(s) PROVE TypeOK'
  <2>1. pc' \in [Procs -> Step] /\ arg' \in [Procs -> Memory]
    BY <1>3, <1>0, GotoType DEF EnsureMilestones
  <2>2. DbType'
    BY <1>3 DEF EnsureMilestones, TypeOK, DbType, provider, EngagementStatus
  <2> QED BY <2>1, <2>2, TypeParts
<1>4. ASSUME InitializeCheckout(s) PROVE TypeOK'
  <2>1. \A t \in Tokens : [NoArgs EXCEPT !.t = t] \in Memory
    BY DEF NoArgs, Memory
  <2>2. pc' \in [Procs -> Step] /\ arg' \in [Procs -> Memory]
    BY <1>4, <1>0, <2>1, GotoType DEF InitializeCheckout, unusedTokens
  <2>3. session' \in [Tokens -> SessionStatus] /\ openedAt' \in [Tokens -> Time]
    <3>1. ASSUME NEW t \in unusedTokens, Initialized(t)
          PROVE  session' \in [Tokens -> SessionStatus] /\ openedAt' \in [Tokens -> Time]
      BY <3>1 DEF Initialized, unusedTokens, TypeOK, SessionStatus
    <3>2. ASSUME UNCHANGED provider
          PROVE  session' \in [Tokens -> SessionStatus] /\ openedAt' \in [Tokens -> Time]
      BY <3>2 DEF TypeOK, provider
    <3> QED BY <1>4, <3>1, <3>2 DEF InitializeCheckout
  <2>4. DbType'
    BY <1>4, <2>3 DEF InitializeCheckout, TypeOK, DbType, db
  <2> QED BY <2>2, <2>4, TypeParts
<1>5. ASSUME RejectCheckout(s) PROVE TypeOK'
  <2>1. pc' \in [Procs -> Step] /\ arg' \in [Procs -> Memory]
    BY <1>5, ReturnType DEF RejectCheckout
  <2>2. payment' \in [status : PaymentStatus, token : Tokens \cup {NoToken}, createdAt : Time]
    BY <1>5 DEF RejectCheckout, TypeOK, PaymentStatus
  <2>3. DbType'
    BY <1>5, <2>2 DEF RejectCheckout, TypeOK, DbType, provider
  <2> QED BY <2>1, <2>3, TypeParts
<1>6. ASSUME SaveCheckout(s) PROVE TypeOK'
  <2>1. pc' \in [Procs -> Step] /\ arg' \in [Procs -> Memory]
    BY <1>6, ReturnType DEF SaveCheckout
  <2>2. payment' \in [status : PaymentStatus, token : Tokens \cup {NoToken}, createdAt : Time]
    BY <1>6 DEF SaveCheckout, TypeOK, PaymentStatus
  <2>3. session' \in [Tokens -> SessionStatus]
    BY <1>6 DEF SaveCheckout, TypeOK, SessionStatus
  <2>4. DbType'
    BY <1>6, <2>2, <2>3 DEF SaveCheckout, TypeOK, DbType
  <2> QED BY <2>1, <2>4, TypeParts
<1> QED BY <1>1, <1>2, <1>3, <1>4, <1>5, <1>6 DEF CheckoutStep

LEMMA ReconcileType ==
  ASSUME TypeOK, HandlersRemember, NEW p \in Procs,
         Callback(p) \/ Webhook(p) \/ ReconcileStaleCheckout(p) \/ ReconcileStep(p)
  PROVE  TypeOK'
<1> USE DEF Step
<1>0. NoArgs \in Memory /\ arg[p] \in Memory
      /\ \A t \in Tokens \cup {NoToken} : [NoArgs EXCEPT !.t = t] \in Memory
  BY DEF NoArgs, Memory, TypeOK
<1>1. ASSUME Callback(p) PROVE TypeOK'
  BY <1>1, <1>0, GotoType, DbUnchanged, TypeParts DEF Callback
<1>2. ASSUME Webhook(p) PROVE TypeOK'
  <2>1. pc' \in [Procs -> Step] /\ arg' \in [Procs -> Memory]
    BY <1>2, <1>0, GotoType DEF Webhook
  <2>2. DbType'
    BY <1>2 DEF Webhook, TypeOK, DbType, provider
  <2> QED BY <2>1, <2>2, TypeParts
<1>3. ASSUME ReconcileStaleCheckout(p) PROVE TypeOK'
  <2>1. payment.token \in Tokens \cup {NoToken}
    BY DEF TypeOK
  <2> QED BY <1>3, <1>0, <2>1, GotoType, DbUnchanged, TypeParts DEF ReconcileStaleCheckout
<1>4. ASSUME FindPayment(p) PROVE TypeOK'
  BY <1>4, <1>0, GotoType, ReturnType, DbUnchanged, TypeParts DEF FindPayment
<1>5. ASSUME RetrieveCheckout(p) PROVE TypeOK'
  <2>1. answers(arg[p].t) \subseteq Step
    BY DEF answers, trueAnswer
  <2>2. pc' \in [Procs -> Step] /\ arg' \in [Procs -> Memory]
    BY <1>5, <1>0, <2>1, GotoType, ReturnType DEF RetrieveCheckout
  <2> QED BY <1>5, <2>2, DbUnchanged, TypeParts DEF RetrieveCheckout
<1>6. ASSUME PaymentFailed(p) PROVE TypeOK'
  <2>1. pc' \in [Procs -> Step] /\ arg' \in [Procs -> Memory]
    BY <1>6, ReturnType DEF PaymentFailed
  <2>2. DbType'
    BY <1>6 DEF PaymentFailed, TypeOK, DbType, provider, PaymentStatus
  <2> QED BY <2>1, <2>2, TypeParts
<1>7. ASSUME PaymentCaptured(p) PROVE TypeOK'
  <2>1. pc' \in [Procs -> Step] /\ arg' \in [Procs -> Memory]
    BY <1>7, <1>0, GotoType DEF PaymentCaptured
  <2>2. DbType'
    BY <1>7 DEF PaymentCaptured, TypeOK, DbType, provider, PaymentStatus
  <2> QED BY <2>1, <2>2, TypeParts
<1>8. ASSUME PlanCaptured(p) PROVE TypeOK'
  <2>1. pc' \in [Procs -> Step] /\ arg' \in [Procs -> Memory]
    BY <1>8, PlanType, ReturnType DEF PlanCaptured
  <2> QED BY <1>8, <2>1, DbUnchanged, TypeParts DEF PlanCaptured
<1>9. ASSUME FundEscrow(p) PROVE TypeOK'
  <2>1. pc' \in [Procs -> Step] /\ arg' \in [Procs -> Memory]
    BY <1>9, ReturnType DEF FundEscrow
  <2>2. offer' \in OfferStatus
    BY <1>9 DEF FundEscrow, HandlersRemember, OfferStatus
  <2>3. activeEngagements' \in Nat /\ funded' \in Nat
    BY <1>9 DEF FundEscrow, TypeOK
  <2>4. DbType'
    BY <1>9, <2>2, <2>3 DEF FundEscrow, TypeOK, DbType, provider, EngagementStatus, HoldStatus
  <2> QED BY <2>1, <2>4, TypeParts
<1> QED BY <1>1, <1>2, <1>3, <1>4, <1>5, <1>6, <1>7, <1>8, <1>9 DEF ReconcileStep

LEMMA WithdrawalType ==
  ASSUME TypeOK, HandlersRemember, NEW p \in Procs,
         ExpireOffer(p) \/ CancelOffer(p) \/ WithdrawOffer(p) \/ ExpireStaleHolds(p)
         \/ TransitionLost(p)
  PROVE  TypeOK'
<1> USE DEF Step
<1>1. ASSUME ExpireOffer(p) \/ CancelOffer(p) PROVE TypeOK'
  <2>1. pc' \in [Procs -> Step] /\ arg' \in [Procs -> Memory]
    BY <1>1, PlanType DEF ExpireOffer, CancelOffer
  <2> QED BY <1>1, <2>1, DbUnchanged, TypeParts DEF ExpireOffer, CancelOffer
<1>2. ASSUME WithdrawOffer(p) PROVE TypeOK'
  <2>1. pc' \in [Procs -> Step] /\ arg' \in [Procs -> Memory]
    BY <1>2, ReturnType DEF WithdrawOffer
  <2>2. offer' \in OfferStatus
    BY <1>2 DEF WithdrawOffer, HandlersRemember, OfferStatus
  <2>3. DbType'
    BY <1>2, <2>2 DEF WithdrawOffer, TypeOK, DbType, provider, HoldStatus
  <2> QED BY <2>1, <2>3, TypeParts
<1>3. ASSUME ExpireStaleHolds(p) PROVE TypeOK'
  BY <1>3 DEF ExpireStaleHolds, TypeOK, provider, HoldStatus
<1>4. ASSUME TransitionLost(p) PROVE TypeOK'
  BY <1>4, ReturnType, DbUnchanged, TypeParts DEF TransitionLost
<1> QED BY <1>1, <1>2, <1>3, <1>4

LEMMA NextType ==
  ASSUME TypeOK, HandlersRemember, [Next]_vars
  PROVE  TypeOK'
<1>1. ASSUME Tick PROVE TypeOK'
  <2>1. now' \in Time
    BY <1>1, TimeAssumption DEF Tick, TypeOK, Time
  <2> QED BY <1>1, <2>1 DEF Tick, TypeOK, db, provider
<1>2. ASSUME NEW t \in Tokens, PaySession(t) PROVE TypeOK'
  <2>1. session' \in [Tokens -> SessionStatus]
    BY <1>2 DEF PaySession, TypeOK, SessionStatus
  <2> QED BY <1>2, <2>1 DEF PaySession, TypeOK, db
<1>3. ASSUME NEW p \in Procs, Crash(p) PROVE TypeOK'
  <2>1. pc' \in [Procs -> Step] /\ arg' \in [Procs -> Memory]
    BY <1>3, ReturnType DEF Crash
  <2>2. DbType'
    BY <1>3 DEF Crash, TypeOK, DbType, db, provider
  <2> QED BY <2>1, <2>2, TypeParts
<1>4. ASSUME NEW p \in Procs, Handler(p) PROVE TypeOK'
  BY <1>4, StudentType, ReconcileType, WithdrawalType DEF Handler
<1>5. ASSUME UNCHANGED vars PROVE TypeOK'
  BY <1>5 DEF TypeOK, vars, db, provider
<1> QED BY <1>1, <1>2, <1>3, <1>4, <1>5, StudentType, ReconcileType, WithdrawalType
        DEF Next, Procs

-------------------------------------------------------------------------------
(* What a handler remembers *)

\* A step that moves one handler keeps what the others remember.
LEMMA GotoRemembers ==
  ASSUME TypeOK, HandlersRemember, NEW p \in Procs, NEW step, NEW a, Goto(p, step, a),
         step \in {"save", "lookup", "retrieve"} => a.t \in Tokens,
         step \in {"fund", "withdraw"} => a.from = "ACCEPTED",
         step = "fund" => a.to = "PAID_IN_ESCROW",
         step = "withdraw" => a.to \in {"EXPIRED", "CANCELLED"}
  PROVE  HandlersRemember'
<1> SUFFICES ASSUME NEW q \in Procs
             PROVE  /\ pc'[q] \in {"save", "lookup", "retrieve"} => arg'[q].t \in Tokens
                    /\ pc'[q] \in {"fund", "withdraw"} => arg'[q].from = "ACCEPTED"
                    /\ pc'[q] = "fund" => arg'[q].to = "PAID_IN_ESCROW"
                    /\ pc'[q] = "withdraw" => arg'[q].to \in {"EXPIRED", "CANCELLED"}
  BY DEF HandlersRemember
<1>1. pc'[q] = (IF q = p THEN step ELSE pc[q]) /\ arg'[q] = (IF q = p THEN a ELSE arg[q])
  BY DEF Goto, TypeOK
<1>2. CASE q = p
  BY <1>1, <1>2
<1>3. CASE q # p
  BY <1>1, <1>3 DEF HandlersRemember
<1> QED BY <1>2, <1>3

LEMMA ReturnRemembers ==
  ASSUME TypeOK, HandlersRemember, NEW p \in Procs, Return(p)
  PROVE  HandlersRemember'
  BY GotoRemembers DEF Return

LEMMA StepRemembers ==
  ASSUME CheckoutInv, [Next]_vars
  PROVE  HandlersRemember'
<1> USE DEF CheckoutInv
<1>1. ASSUME NEW p \in Procs,
             StartCheckout(p) \/ Reinitialize(p) \/ EnsureMilestones(p) \/ RejectCheckout(p)
             \/ SaveCheckout(p) \/ PaymentFailed(p) \/ PaymentCaptured(p) \/ FundEscrow(p)
             \/ WithdrawOffer(p) \/ TransitionLost(p) \/ Crash(p)
      PROVE  HandlersRemember'
  <2>1. \E step \in {"idle", "reinit", "prepare", "init", "plan"} : Goto(p, step, NoArgs)
    BY <1>1 DEF StartCheckout, Reinitialize, EnsureMilestones, RejectCheckout, SaveCheckout,
       PaymentFailed, PaymentCaptured, FundEscrow, WithdrawOffer, TransitionLost, Crash, Return
  <2> QED BY <2>1, GotoRemembers
<1>2. ASSUME NEW p \in Procs, InitializeCheckout(p) PROVE HandlersRemember'
  <2>1. \/ \E t \in Tokens : Goto(p, "save", [NoArgs EXCEPT !.t = t])
        \/ Goto(p, "reject", NoArgs)
    BY <1>2 DEF InitializeCheckout, unusedTokens
  <2>2. \A t \in Tokens : [NoArgs EXCEPT !.t = t].t = t
    BY DEF NoArgs
  <2> QED BY <2>1, <2>2, GotoRemembers
<1>3. ASSUME NEW p \in Procs, Callback(p) \/ Webhook(p) \/ ReconcileStaleCheckout(p)
      PROVE  HandlersRemember'
  <2>1. \E t \in Tokens : Goto(p, "lookup", [NoArgs EXCEPT !.t = t])
    BY <1>3 DEF Callback, Webhook, ReconcileStaleCheckout, stale, PaymentIsBacked
  <2>2. \A t \in Tokens : [NoArgs EXCEPT !.t = t].t = t
    BY DEF NoArgs
  <2> QED BY <2>1, <2>2, GotoRemembers
<1>4. ASSUME NEW p \in Procs, FindPayment(p) \/ RetrieveCheckout(p) PROVE HandlersRemember'
  <2>1. \/ Return(p)
        \/ arg[p].t \in Tokens /\ \E step \in {"retrieve", "fail", "capture"} : Goto(p, step, arg[p])
    BY <1>4 DEF FindPayment, RetrieveCheckout, answers, trueAnswer, HandlersRemember
  <2> QED BY <2>1, GotoRemembers, ReturnRemembers
<1>5. ASSUME NEW p \in Procs, PlanCaptured(p) PROVE HandlersRemember'
  <2>1. CASE Return(p)
    BY <2>1, ReturnRemembers
  <2>2. CASE Plan(p, "PAYMENT_CAPTURED", "SYSTEM", "fund")
    <3>1. Goto(p, "fund", [arg[p] EXCEPT !.from = "ACCEPTED", !.to = "PAID_IN_ESCROW"])
      BY <2>2, CapturePlan
    <3> DEFINE a == [arg[p] EXCEPT !.from = "ACCEPTED", !.to = "PAID_IN_ESCROW"]
    <3>2. a.from = "ACCEPTED" /\ a.to = "PAID_IN_ESCROW"
      BY DEF TypeOK
    <3> QED BY <3>1, <3>2, GotoRemembers
  <2> QED BY <1>5, <2>1, <2>2 DEF PlanCaptured
<1>6. ASSUME NEW p \in Procs, ExpireOffer(p) \/ CancelOffer(p) PROVE HandlersRemember'
  <2>1. PICK to \in {"EXPIRED", "CANCELLED"} :
          Goto(p, "withdraw", [arg[p] EXCEPT !.from = "ACCEPTED", !.to = to])
    BY <1>6, WithdrawPlan DEF ExpireOffer, CancelOffer
  <2> DEFINE a == [arg[p] EXCEPT !.from = "ACCEPTED", !.to = to]
  <2>2. a.from = "ACCEPTED" /\ a.to = to
    BY DEF TypeOK
  <2> QED BY <2>1, <2>2, GotoRemembers
<1>7. ASSUME UNCHANGED <<pc, arg>> PROVE HandlersRemember'
  BY <1>7 DEF HandlersRemember
<1>8. ASSUME Tick \/ (\E t \in Tokens : PaySession(t)) \/ (\E w \in Workers : ExpireStaleHolds(w))
             \/ UNCHANGED vars
      PROVE  UNCHANGED <<pc, arg>>
  BY <1>8 DEF Tick, PaySession, ExpireStaleHolds, vars
<1> QED BY <1>1, <1>2, <1>3, <1>4, <1>5, <1>6, <1>7, <1>8
        DEF Next, Handler, CheckoutStep, ReconcileStep, Procs

-------------------------------------------------------------------------------
(* Sessions *)

\* A session belongs to the request that opened it until the payment row carries its token.
LEMMA OthersKeepTheirSession ==
  ASSUME TypeOK, OwnSession, HandlersRemember,
         NEW p \in Procs, NEW step, NEW a, Goto(p, step, a), step # "save",
         \A t \in Tokens : session[t] = "created" =>
           session'[t] = "created" \/ (pc[p] = "save" /\ t = arg[p].t)
  PROVE  OwnSession'
<1> SUFFICES ASSUME NEW q \in Procs, pc'[q] = "save"
             PROVE  /\ session'[arg'[q].t] = "created"
                    /\ \A r \in Procs : pc'[r] = "save" /\ arg'[r].t = arg'[q].t => r = q
  BY DEF OwnSession
<1>1. \A r \in Procs : pc'[r] = "save" => r # p /\ pc[r] = "save" /\ arg'[r] = arg[r]
  BY DEF Goto, TypeOK
<1>2. arg[q].t \in Tokens /\ session[arg[q].t] = "created"
  BY <1>1 DEF HandlersRemember, OwnSession
<1>3. session'[arg[q].t] = "created"
  BY <1>1, <1>2 DEF OwnSession
<1> QED BY <1>1, <1>3 DEF OwnSession

LEMMA StepKeepsSessions ==
  ASSUME CheckoutInv, [Next]_vars
  PROVE  OwnSession'
<1> USE DEF CheckoutInv
<1>1. ASSUME NEW p \in Procs,
             StartCheckout(p) \/ EnsureMilestones(p) \/ RejectCheckout(p) \/ PaymentFailed(p)
             \/ PaymentCaptured(p) \/ FundEscrow(p) \/ WithdrawOffer(p) \/ TransitionLost(p)
             \/ Crash(p) \/ Callback(p) \/ Webhook(p) \/ ReconcileStaleCheckout(p)
             \/ FindPayment(p) \/ RetrieveCheckout(p) \/ PlanCaptured(p) \/ ExpireOffer(p)
             \/ CancelOffer(p)
      PROVE  OwnSession'
  <2>1. session' = session
    BY <1>1 DEF StartCheckout, EnsureMilestones, RejectCheckout, PaymentFailed, PaymentCaptured,
       FundEscrow, WithdrawOffer, TransitionLost, Crash, Callback, Webhook,
       ReconcileStaleCheckout, FindPayment, RetrieveCheckout, PlanCaptured, ExpireOffer,
       CancelOffer, provider
  <2>2. \E step \in Step : step # "save" /\ \E a : Goto(p, step, a)
    BY <1>1 DEF StartCheckout, EnsureMilestones, RejectCheckout, PaymentFailed, PaymentCaptured,
       FundEscrow, WithdrawOffer, TransitionLost, Crash, Callback, Webhook,
       ReconcileStaleCheckout, FindPayment, RetrieveCheckout, PlanCaptured, ExpireOffer,
       CancelOffer, Plan, Return, answers, trueAnswer, Step
  <2> QED BY <2>1, <2>2, OthersKeepTheirSession
<1>2. ASSUME NEW p \in Procs, Reinitialize(p) PROVE OwnSession'
  <2>1. \A t \in Tokens : session[t] = "created" => session'[t] = "created"
    BY <1>2 DEF Reinitialize, unusedTokens, provider, TypeOK
  <2>2. \E step \in {"idle", "prepare"} : \E a : Goto(p, step, a)
    BY <1>2 DEF Reinitialize, Return
  <2> QED BY <2>1, <2>2, OthersKeepTheirSession
<1>3. ASSUME NEW p \in Procs, InitializeCheckout(p) PROVE OwnSession'
  <2>1. ASSUME NEW t \in unusedTokens, Initialized(t), Goto(p, "save", [NoArgs EXCEPT !.t = t])
        PROVE  OwnSession'
    <3>1. t \in Tokens /\ session[t] = "none"
      BY DEF unusedTokens
    <3>2. session'[t] = "created" /\ \A u \in Tokens \ {t} : session'[u] = session[u]
      BY <2>1, <3>1 DEF Initialized, TypeOK
    <3>3. pc'[p] = "save" /\ arg'[p].t = t
      BY <2>1 DEF Goto, TypeOK, NoArgs
    <3>4. \A q \in Procs \ {p} : pc'[q] = pc[q] /\ arg'[q] = arg[q]
      BY <2>1 DEF Goto, TypeOK
    <3>5. \A q \in Procs \ {p} : pc[q] = "save" => arg[q].t \in Tokens \ {t}
      BY <3>1 DEF OwnSession, HandlersRemember
    <3> SUFFICES ASSUME NEW q \in Procs, pc'[q] = "save"
                 PROVE  /\ session'[arg'[q].t] = "created"
                        /\ \A r \in Procs : pc'[r] = "save" /\ arg'[r].t = arg'[q].t => r = q
      BY DEF OwnSession
    <3>6. CASE q = p
      BY <3>2, <3>3, <3>4, <3>5, <3>6
    <3>7. CASE q # p
      BY <3>2, <3>3, <3>4, <3>5, <3>7 DEF OwnSession
    <3> QED BY <3>6, <3>7
  <2>2. ASSUME Goto(p, "reject", NoArgs), UNCHANGED provider
        PROVE  OwnSession'
    BY <2>2, OthersKeepTheirSession DEF provider
  <2> QED BY <1>3, <2>1, <2>2 DEF InitializeCheckout
<1>4. ASSUME NEW p \in Procs, SaveCheckout(p) PROVE OwnSession'
  <2>1. \A t \in Tokens : session[t] = "created" => session'[t] = "created" \/ t = arg[p].t
    BY <1>4 DEF SaveCheckout, TypeOK
  <2>2. pc[p] = "save" /\ Goto(p, "idle", NoArgs)
    BY <1>4 DEF SaveCheckout, Return
  <2> QED BY <2>1, <2>2, OthersKeepTheirSession
<1>5. ASSUME NEW t \in Tokens, PaySession(t) PROVE OwnSession'
  <2>1. \A u \in Tokens : session[u] = "created" => session'[u] = "created"
    BY <1>5 DEF PaySession, TypeOK
  <2>2. UNCHANGED <<pc, arg>>
    BY <1>5 DEF PaySession
  <2> QED BY <2>1, <2>2 DEF OwnSession, HandlersRemember
<1>6. ASSUME Tick \/ (\E w \in Workers : ExpireStaleHolds(w)) \/ UNCHANGED vars PROVE OwnSession'
  <2>1. UNCHANGED <<session, pc, arg>>
    BY <1>6 DEF Tick, ExpireStaleHolds, vars, provider
  <2> QED BY <2>1 DEF OwnSession
<1> QED BY <1>1, <1>2, <1>3, <1>4, <1>5, <1>6
        DEF Next, Handler, CheckoutStep, ReconcileStep, Procs

\* Money that the provider has taken stays taken.
LEMMA PaidStays ==
  ASSUME CheckoutInv, [Next]_vars, somePaid
  PROVE  somePaid'
<1> USE DEF CheckoutInv
<1>1. PICK u \in Tokens : session[u] = "paid"
  BY DEF somePaid
<1>2. ASSUME session'[u] = "paid" PROVE somePaid'
  BY <1>2 DEF somePaid
<1>3. ASSUME NEW p \in Procs, Reinitialize(p) PROVE session'[u] = "paid"
  BY <1>1, <1>3 DEF Reinitialize, unusedTokens, provider, TypeOK
<1>4. ASSUME NEW p \in Procs, InitializeCheckout(p) PROVE session'[u] = "paid"
  BY <1>1, <1>4 DEF InitializeCheckout, Initialized, unusedTokens, provider, TypeOK
<1>5. ASSUME NEW p \in Procs, SaveCheckout(p) PROVE session'[u] = "paid"
  BY <1>1, <1>5 DEF SaveCheckout, OwnSession, TypeOK
<1>6. ASSUME NEW t \in Tokens, PaySession(t) PROVE session'[u] = "paid"
  BY <1>1, <1>6 DEF PaySession, TypeOK
<1>7. ASSUME session' = session PROVE session'[u] = "paid"
  BY <1>1, <1>7
<1>8. ASSUME NEW p \in Procs,
             StartCheckout(p) \/ EnsureMilestones(p) \/ RejectCheckout(p) \/ PaymentFailed(p)
             \/ PaymentCaptured(p) \/ FundEscrow(p) \/ WithdrawOffer(p) \/ TransitionLost(p)
             \/ Crash(p) \/ Callback(p) \/ Webhook(p) \/ ReconcileStaleCheckout(p)
             \/ FindPayment(p) \/ RetrieveCheckout(p) \/ PlanCaptured(p) \/ ExpireOffer(p)
             \/ CancelOffer(p) \/ ExpireStaleHolds(p) \/ Tick \/ UNCHANGED vars
      PROVE  session' = session
  BY <1>8 DEF StartCheckout, EnsureMilestones, RejectCheckout, PaymentFailed, PaymentCaptured,
     FundEscrow, WithdrawOffer, TransitionLost, Crash, Callback, Webhook,
     ReconcileStaleCheckout, FindPayment, RetrieveCheckout, PlanCaptured, ExpireOffer,
     CancelOffer, ExpireStaleHolds, Tick, provider, vars
<1>9. ASSUME Tick \/ UNCHANGED vars PROVE session' = session
  BY <1>9 DEF Tick, provider, vars
<1> QED BY <1>2, <1>3, <1>4, <1>5, <1>6, <1>7, <1>8, <1>9
        DEF Next, Handler, CheckoutStep, ReconcileStep, Procs

-------------------------------------------------------------------------------
(* Money and status *)

\* A handler is on its way to the escrow only behind a paid session.
Capturing == \E p \in Procs : pc[p] \in {"capture", "plan", "fund"}

LEMMA CapturingComesFromPaid ==
  ASSUME CheckoutInv, [Next]_vars, Capturing'
  PROVE  Capturing \/ somePaid
<1> USE DEF CheckoutInv
<1>1. PICK q \in Procs : pc'[q] \in {"capture", "plan", "fund"}
  BY DEF Capturing
<1>2. CASE pc[q] \in {"capture", "plan", "fund"}
  BY <1>2 DEF Capturing
<1>3. CASE pc[q] \notin {"capture", "plan", "fund"}
  <2>1. ASSUME NEW p \in Procs, NEW step, NEW a, Goto(p, step, a)
        PROVE  p = q /\ step \in {"capture", "plan", "fund"}
    <3>1. pc'[q] = IF q = p THEN step ELSE pc[q]
      BY <2>1 DEF Goto, TypeOK
    <3> QED BY <1>1, <1>3, <3>1
  <2>2. ASSUME NEW p \in Procs,
               StartCheckout(p) \/ Reinitialize(p) \/ EnsureMilestones(p) \/ InitializeCheckout(p)
               \/ RejectCheckout(p) \/ SaveCheckout(p) \/ PaymentFailed(p) \/ FundEscrow(p)
               \/ WithdrawOffer(p) \/ TransitionLost(p) \/ Crash(p) \/ Callback(p) \/ Webhook(p)
               \/ ReconcileStaleCheckout(p) \/ FindPayment(p) \/ ExpireOffer(p) \/ CancelOffer(p)
        PROVE  FALSE
    <3>1. \E step \in Step \ {"capture", "plan", "fund"} : \E a : Goto(p, step, a)
      BY <2>2 DEF StartCheckout, Reinitialize, EnsureMilestones, InitializeCheckout,
         RejectCheckout, SaveCheckout, PaymentFailed, FundEscrow, WithdrawOffer, TransitionLost,
         Crash, Callback, Webhook, ReconcileStaleCheckout, FindPayment, ExpireOffer, CancelOffer,
         Plan, Return, Step
    <3> QED BY <3>1, <2>1
  <2>3. ASSUME NEW p \in Procs, PaymentCaptured(p) \/ PlanCaptured(p) PROVE Capturing
    BY <2>3 DEF PaymentCaptured, PlanCaptured, Capturing
  <2>4. ASSUME NEW p \in Procs, RetrieveCheckout(p) PROVE somePaid
    <3>1. arg[p].t \in Tokens
      BY <2>4 DEF RetrieveCheckout, HandlersRemember
    <3>2. "capture" \in answers(arg[p].t)
      BY <2>1, <2>4 DEF RetrieveCheckout, Return, answers, trueAnswer
    <3> QED BY <3>1, <3>2 DEF answers, trueAnswer, somePaid
  <2>5. pc' # pc
    BY <1>1, <1>3
  <2>6. ~ Tick /\ ~ (\E t \in Tokens : PaySession(t)) /\ ~ (\E w \in Workers : ExpireStaleHolds(w))
        /\ ~ UNCHANGED vars
    BY <2>5 DEF Tick, PaySession, ExpireStaleHolds, vars
  <2> QED BY <2>2, <2>3, <2>4, <2>6 DEF Next, Handler, CheckoutStep, ReconcileStep, Procs
<1> QED BY <1>2, <1>3

\* The same for the payment row and for the offer.
LEMMA StatusComesFromCapturing ==
  ASSUME CheckoutInv, [Next]_vars
  PROVE  /\ payment'.status = "CAPTURED" => payment.status = "CAPTURED" \/ Capturing
         /\ offer' = "PAID_IN_ESCROW" => offer = "PAID_IN_ESCROW" \/ Capturing
         /\ payment'.status = "REQUIRES_ACTION" => payment'.token \in Tokens
<1> USE DEF CheckoutInv
<1>1. ASSUME NEW p \in Procs, RejectCheckout(p) \/ PaymentFailed(p)
      PROVE  payment'.status = "FAILED" /\ offer' = offer
  BY <1>1 DEF RejectCheckout, PaymentFailed, TypeOK
<1>2. ASSUME NEW p \in Procs, SaveCheckout(p)
      PROVE  payment'.status = "REQUIRES_ACTION" /\ payment'.token \in Tokens /\ offer' = offer
  BY <1>2 DEF SaveCheckout, HandlersRemember
<1>3. ASSUME NEW p \in Procs, PaymentCaptured(p)
      PROVE  Capturing /\ payment'.status = "CAPTURED" /\ offer' = offer
  BY <1>3 DEF PaymentCaptured, Capturing, TypeOK
<1>4. ASSUME NEW p \in Procs, FundEscrow(p) PROVE Capturing /\ payment' = payment
  BY <1>4 DEF FundEscrow, Capturing
<1>5. ASSUME NEW p \in Procs, WithdrawOffer(p)
      PROVE  offer' \in {"EXPIRED", "CANCELLED"} /\ payment' = payment
  BY <1>5 DEF WithdrawOffer, HandlersRemember
<1>6. ASSUME NEW p \in Procs,
             StartCheckout(p) \/ Reinitialize(p) \/ EnsureMilestones(p) \/ InitializeCheckout(p)
             \/ TransitionLost(p) \/ Crash(p) \/ Callback(p) \/ Webhook(p)
             \/ ReconcileStaleCheckout(p) \/ FindPayment(p) \/ RetrieveCheckout(p)
             \/ PlanCaptured(p) \/ ExpireOffer(p) \/ CancelOffer(p) \/ ExpireStaleHolds(p)
      PROVE  UNCHANGED <<offer, payment>>
  BY <1>6 DEF StartCheckout, Reinitialize, EnsureMilestones, InitializeCheckout, TransitionLost,
     Crash, Callback, Webhook, ReconcileStaleCheckout, FindPayment, RetrieveCheckout,
     PlanCaptured, ExpireOffer, CancelOffer, ExpireStaleHolds, db
<1>7. ASSUME Tick \/ (\E t \in Tokens : PaySession(t)) \/ UNCHANGED vars
      PROVE  UNCHANGED <<offer, payment>>
  BY <1>7 DEF Tick, PaySession, db, vars
<1> QED BY <1>1, <1>2, <1>3, <1>4, <1>5, <1>6, <1>7
        DEF Next, Handler, CheckoutStep, ReconcileStep, Procs, PaymentIsBacked

LEMMA StepKeepsBacking ==
  ASSUME CheckoutInv, [Next]_vars
  PROVE  PaymentIsBacked'
<1>1. payment.status = "CAPTURED" \/ offer = "PAID_IN_ESCROW" \/ Capturing => somePaid
  BY DEF CheckoutInv, PaymentIsBacked, Capturing
<1>2. payment'.status = "CAPTURED" \/ offer' = "PAID_IN_ESCROW" \/ Capturing' => somePaid
  BY <1>1, CapturingComesFromPaid, StatusComesFromCapturing
<1>3. payment'.status = "CAPTURED" \/ offer' = "PAID_IN_ESCROW" \/ Capturing' => somePaid'
  BY <1>2, PaidStays
<1> QED BY <1>3, StatusComesFromCapturing DEF PaymentIsBacked, Capturing

\* Only the two transactions with a compare-and-set move the offer, and neither finds it moved.
LEMMA StepKeepsSettlement ==
  ASSUME CheckoutInv, [Next]_vars
  PROVE  OfferIsSettled'
<1> USE DEF CheckoutInv, OfferIsSettled, FundedOnceOrNotAtAll, DeadOfferKeepsNoSlots
<1>1. ASSUME NEW p \in Procs, FundEscrow(p) PROVE OfferIsSettled'
  <2>1. offer = "ACCEPTED" /\ offer' = "PAID_IN_ESCROW"
    BY <1>1 DEF FundEscrow, HandlersRemember
  <2>2. funded = 0 /\ engagement # "ACTIVE" /\ activeEngagements = 0
    BY <2>1 DEF TypeOK
  <2>3. funded' = 1 /\ engagement' = "ACTIVE" /\ activeEngagements' = 1
    BY <1>1, <2>2 DEF FundEscrow
  <2> QED BY <2>1, <2>3
<1>2. ASSUME NEW p \in Procs, WithdrawOffer(p) PROVE OfferIsSettled'
  <2>1. offer = "ACCEPTED" /\ offer' \in {"EXPIRED", "CANCELLED"}
    BY <1>2 DEF WithdrawOffer, HandlersRemember
  <2>2. holds' # "HELD" /\ UNCHANGED <<engagement, activeEngagements, funded, booked>>
    BY <1>2 DEF WithdrawOffer
  <2> QED BY <2>1, <2>2
<1>3. ASSUME NEW p \in Procs, EnsureMilestones(p) PROVE OfferIsSettled'
  BY <1>3 DEF EnsureMilestones
<1>4. ASSUME NEW p \in Procs, ExpireStaleHolds(p) PROVE OfferIsSettled'
  BY <1>4 DEF ExpireStaleHolds
<1>5. ASSUME UNCHANGED <<offer, engagement, activeEngagements, funded, holds, booked>>
      PROVE  OfferIsSettled'
  BY <1>5
<1>6. ASSUME NEW p \in Procs,
             StartCheckout(p) \/ Reinitialize(p) \/ InitializeCheckout(p) \/ RejectCheckout(p)
             \/ SaveCheckout(p) \/ PaymentFailed(p) \/ PaymentCaptured(p) \/ TransitionLost(p)
             \/ Crash(p) \/ Callback(p) \/ Webhook(p) \/ ReconcileStaleCheckout(p)
             \/ FindPayment(p) \/ RetrieveCheckout(p) \/ PlanCaptured(p) \/ ExpireOffer(p)
             \/ CancelOffer(p)
      PROVE  UNCHANGED <<offer, engagement, activeEngagements, funded, holds, booked>>
  BY <1>6 DEF StartCheckout, Reinitialize, InitializeCheckout, RejectCheckout, SaveCheckout,
     PaymentFailed, PaymentCaptured, TransitionLost, Crash, Callback, Webhook,
     ReconcileStaleCheckout, FindPayment, RetrieveCheckout, PlanCaptured, ExpireOffer,
     CancelOffer, db
<1>7. ASSUME Tick \/ (\E t \in Tokens : PaySession(t)) \/ UNCHANGED vars
      PROVE  UNCHANGED <<offer, engagement, activeEngagements, funded, holds, booked>>
  BY <1>7 DEF Tick, PaySession, db, vars
<1> QED BY <1>1, <1>2, <1>3, <1>4, <1>5, <1>6, <1>7
        DEF Next, Handler, CheckoutStep, ReconcileStep, Procs

-------------------------------------------------------------------------------
(* Theorems *)

LEMMA InitInv == Init => CheckoutInv
<1> SUFFICES ASSUME Init PROVE CheckoutInv
  OBVIOUS
<1>1. TypeOK
  BY InitType
<1>2. OwnSession /\ HandlersRemember
  BY DEF Init, OwnSession, HandlersRemember
<1>3. PaymentIsBacked
  BY DEF Init, PaymentIsBacked
<1>4. OfferIsSettled
  BY DEF Init, OfferIsSettled, FundedOnceOrNotAtAll, DeadOfferKeepsNoSlots
<1> QED BY <1>1, <1>2, <1>3, <1>4 DEF CheckoutInv

\* Whatever the handlers of one payment remember, in whatever order they run and wherever they
\* die, the session, the payment row, the offer and the escrow stay consistent.
THEOREM CheckoutInvariant == Spec => []CheckoutInv
<1>1. CheckoutInv /\ [Next]_vars => CheckoutInv'
  BY NextType, StepRemembers, StepKeepsSessions, StepKeepsBacking, StepKeepsSettlement
  DEF CheckoutInv
<1> QED BY InitInv, <1>1, PTL DEF Spec

\* Every variable keeps its type; the coach's count never goes below zero.
THEOREM CheckoutTypes == Spec => []TypeOK
<1>1. CheckoutInv => TypeOK
  BY DEF CheckoutInv
<1> QED BY <1>1, CheckoutInvariant, PTL

\* No program starts, and no escrow is credited, without a session that the provider was paid for.
THEOREM NoProgramWithoutMoney == Spec => []NothingWithoutMoney
<1>1. CheckoutInv => NothingWithoutMoney
  BY DEF CheckoutInv, NothingWithoutMoney, PaymentIsBacked, OfferIsSettled, FundedOnceOrNotAtAll,
     TypeOK
<1> QED BY <1>1, CheckoutInvariant, PTL

\* Any number of callbacks, webhooks and sweeps fund the escrow at most once, and always together
\* with the offer, the engagement and the coach's count.
THEOREM EscrowIsFundedOnce == Spec => []FundedOnceOrNotAtAll
<1>1. CheckoutInv => FundedOnceOrNotAtAll
  BY DEF CheckoutInv, OfferIsSettled
<1> QED BY <1>1, CheckoutInvariant, PTL

\* An offer that expired or was cancelled keeps neither holds nor bookings.
THEOREM DeadOfferFreesTheCalendar == Spec => []DeadOfferKeepsNoSlots
<1>1. CheckoutInv => DeadOfferKeepsNoSlots
  BY DEF CheckoutInv, OfferIsSettled
<1> QED BY <1>1, CheckoutInvariant, PTL

\* A capture that comes too late never revives an offer that expired or was cancelled.
THEOREM DeadOfferStaysDead == Spec => WithdrawnForGood
<1>1. CheckoutInv /\ [Next]_vars => (offer \in TERMINAL_STATES => offer' = offer)
  <2> SUFFICES ASSUME CheckoutInv, [Next]_vars, offer # "ACCEPTED"
               PROVE  offer' = offer
    BY DEF TERMINAL_STATES
  <2> USE DEF CheckoutInv
  <2>1. ASSUME NEW p \in Procs PROVE ~ FundEscrow(p) /\ ~ WithdrawOffer(p)
    BY DEF FundEscrow, WithdrawOffer, HandlersRemember
  <2>2. ASSUME NEW p \in Procs,
               CheckoutStep(p) \/ FindPayment(p) \/ RetrieveCheckout(p) \/ PaymentFailed(p)
               \/ PaymentCaptured(p) \/ PlanCaptured(p) \/ TransitionLost(p) \/ Crash(p)
        PROVE  offer' = offer
    BY <2>2 DEF CheckoutStep, Reinitialize, EnsureMilestones, InitializeCheckout, RejectCheckout,
       SaveCheckout, FindPayment, RetrieveCheckout, PaymentFailed, PaymentCaptured, PlanCaptured,
       TransitionLost, Crash, db
  <2>3. ASSUME NEW p \in Procs,
               StartCheckout(p) \/ Callback(p) \/ Webhook(p) \/ ReconcileStaleCheckout(p)
               \/ ExpireOffer(p) \/ CancelOffer(p) \/ ExpireStaleHolds(p)
        PROVE  offer' = offer
    BY <2>3 DEF StartCheckout, Callback, Webhook, ReconcileStaleCheckout, ExpireOffer, CancelOffer,
       ExpireStaleHolds, db
  <2>4. ASSUME Tick \/ (\E t \in Tokens : PaySession(t)) \/ UNCHANGED vars PROVE offer' = offer
    BY <2>4 DEF Tick, PaySession, vars, db
  <2> QED BY <2>1, <2>2, <2>3, <2>4 DEF Next, Handler, ReconcileStep, Procs
<1> QED BY <1>1, CheckoutInvariant, PTL DEF Spec, WithdrawnForGood
===============================================================================
