-------------------------------- MODULE SignIn --------------------------------
(***************************************************************************)
(* Asking for a sign-in link: the form, the two rate limits, the check of  *)
(* the address and the delivery.                                           *)
(*                                                                         *)
(* The limiter is the shared one: three Redis commands in one pipeline,    *)
(* which is not a transaction, so any of them may fail by itself and the   *)
(* answers may be lost.  Only the count is looked at: without it the call  *)
(* goes through.  PTTL changes nothing but the wait an error names, and is *)
(* left out.  Every form here sits behind one address of the network, as a *)
(* school's do.  The clock ticks in minutes.                               *)
(***************************************************************************)
EXTENDS Naturals

CONSTANTS
  Forms, Emails,
  IP_LIMIT, EMAIL_LIMIT, \* 10 and 3
  WINDOW,                \* TEN_MINUTES
  COOLDOWN,              \* RESEND_COOLDOWN_S
  MaxHits,               \* bound: hits counted beyond a limit
  NoEmail

ASSUME SignInAssumption == WINDOW \in Nat \ {0} /\ {COOLDOWN, IP_LIMIT, EMAIL_LIMIT, MaxHits} \subseteq Nat

Keys == {"ip"} \cup Emails
limitOf(k) == IF k = "ip" THEN IP_LIMIT ELSE EMAIL_LIMIT

VARIABLES
  form,     \* what each form shows
  linkRequest,  \* how far its call of requestSignInLink has come
  counter,  \* the keys in Redis: hits, and ticks to live (0: it does not expire)
  accepts,  \* the server's cache of what DNS said of each domain
  age       \* history: per key, the minutes begun since a PEXPIRE first took effect on it (0: none has)

signInVars == <<form, linkRequest, counter, accepts, age>>

EmptyForm == [email |-> NoEmail, confirmedAsIs |-> NoEmail, sentTo |-> NoEmail, cooldown |-> 0, failed |-> FALSE]

SignInInit ==
  /\ form = [f \in Forms |-> EmptyForm]
  /\ linkRequest = [f \in Forms |-> [at |-> "none", email |-> NoEmail]]
  /\ counter = [k \in Keys |-> [hits |-> 0, ttl |-> 0]]
  /\ accepts = [e \in Emails |-> "unknown"]
  /\ age = [k \in Keys |-> 0]

sending(f) == linkRequest[f].at # "none"

-------------------------------------------------------------------------------
(* The form *)

Fill(f, g) == form' = [form EXCEPT ![f] = g] /\ UNCHANGED <<linkRequest, counter, accepts, age>>

TypeEmail(f, e) ==
  /\ form[f].sentTo = NoEmail /\ form[f].email # e
  /\ Fill(f, [form[f] EXCEPT !.email = e, !.failed = FALSE])

requestLink(f, e, g) ==
  /\ ~sending(f)
  /\ linkRequest' = [linkRequest EXCEPT ![f] = [at |-> "ip", email |-> e]]
  /\ form' = [form EXCEPT ![f] = [g EXCEPT !.failed = FALSE]]
  /\ UNCHANGED <<counter, accepts, age>>

\* An address that looks mistyped is asked about first, and sent to only as confirmed.
submitEmail(f, looksMistyped) ==
  /\ form[f].sentTo = NoEmail /\ form[f].email # NoEmail
  /\ looksMistyped => form[f].confirmedAsIs = form[f].email
  /\ requestLink(f, form[f].email, form[f])

ConfirmAsIs(f) ==
  /\ form[f].sentTo = NoEmail /\ form[f].email # NoEmail
  /\ requestLink(f, form[f].email, [form[f] EXCEPT !.confirmedAsIs = form[f].email])

Resend(f) == form[f].sentTo # NoEmail /\ form[f].cooldown = 0 /\ requestLink(f, form[f].sentTo, form[f])

UseOtherAddress(f) == form[f].sentTo # NoEmail /\ Fill(f, [form[f] EXCEPT !.sentTo = NoEmail, !.failed = FALSE])

-------------------------------------------------------------------------------
(* requestSignInLink *)

Answered(f, ok) ==
  /\ linkRequest' = [linkRequest EXCEPT ![f] = [at |-> "none", email |-> NoEmail]]
  /\ form' = [form EXCEPT ![f] = IF ok THEN [@ EXCEPT !.sentTo = linkRequest[f].email, !.cooldown = COOLDOWN]
                                 ELSE [@ EXCEPT !.failed = TRUE]]

\* Wrong: only the hit that opens a window sets its end.
expireOnFirst(c) == IF c.hits = 1 THEN [c EXCEPT !.ttl = WINDOW] ELSE c

\* PEXPIRE ... NX: a key that has no end yet gets one.
expireNX(c) == IF c.ttl = 0 THEN [c EXCEPT !.ttl = WINDOW] ELSE c

\* The key after those of INCR and PEXPIRE that took effect; PEXPIRE makes no key.
afterCommands(k, ran) ==
  LET c == IF "INCR" \in ran THEN [counter[k] EXCEPT !.hits = @ + 1] ELSE counter[k]
  IN  IF "PEXPIRE" \in ran /\ c.hits > 0 THEN expireNX(c) ELSE c

\* It fails open: the call is refused when the count came back and is too high, else goes on.
enforceRateLimit(f, k, ran, replied, onwards) ==
  LET c == afterCommands(k, ran)
      refused == replied /\ c.hits > limitOf(k)
  IN  /\ replied => "INCR" \in ran
      /\ c.hits <= limitOf(k) + MaxHits
      /\ counter' = [counter EXCEPT ![k] = c]
      /\ age' = IF "PEXPIRE" \in ran /\ c.hits > 0 /\ age[k] = 0 THEN [age EXCEPT ![k] = 1] ELSE age
      /\ IF refused THEN Answered(f, FALSE)
         ELSE linkRequest' = [linkRequest EXCEPT ![f].at = onwards] /\ UNCHANGED form
      /\ UNCHANGED accepts

LimitByIp(f, ran, replied) == linkRequest[f].at = "ip" /\ enforceRateLimit(f, "ip", ran, replied, "check")

\* checkSignInEmail: resolver trouble neither blocks nor is remembered.
checkSignInEmail(f, dns) ==
  LET e == linkRequest[f].email
      known == IF accepts[e] = "unknown" THEN dns ELSE accepts[e]
  IN  /\ linkRequest[f].at = "check"
      /\ accepts' = [accepts EXCEPT ![e] = IF known = "unsure" THEN @ ELSE known]
      /\ IF known = "no" THEN Answered(f, FALSE)
         ELSE linkRequest' = [linkRequest EXCEPT ![f].at = "email"] /\ UNCHANGED form
      /\ UNCHANGED <<counter, age>>

LimitByEmail(f, ran, replied) ==
  linkRequest[f].at = "email" /\ enforceRateLimit(f, linkRequest[f].email, ran, replied, "deliver")

\* A failed delivery is an error on the form, not a "check your inbox".
Deliver(f, ok) ==
  /\ linkRequest[f].at = "deliver"
  /\ Answered(f, ok)
  /\ UNCHANGED <<counter, accepts, age>>

\* A key whose time is up is gone; the cache of DNS answers lasts an hour.
Minute ==
  /\ counter' = [k \in Keys |-> IF counter[k].ttl = 1 THEN [hits |-> 0, ttl |-> 0]
                                ELSE [counter[k] EXCEPT !.ttl = IF @ = 0 THEN 0 ELSE @ - 1]]
  /\ form' = [f \in Forms |-> [form[f] EXCEPT !.cooldown = IF @ = 0 THEN 0 ELSE @ - 1]]
  /\ \/ UNCHANGED accepts
     \/ accepts' = [e \in Emails |-> "unknown"]
  /\ age' = [k \in Keys |-> IF counter[k].ttl = 1 \/ age[k] = 0 THEN 0 ELSE age[k] + 1]
  /\ UNCHANGED linkRequest

SignInNext ==
  \/ \E f \in Forms :
       \/ \E e \in Emails : TypeEmail(f, e)
       \/ \E b \in BOOLEAN : submitEmail(f, b) \/ Deliver(f, b)
       \/ ConfirmAsIs(f) \/ Resend(f) \/ UseOtherAddress(f)
       \/ \E ran \in SUBSET {"INCR", "PEXPIRE"}, replied \in BOOLEAN :
            LimitByIp(f, ran, replied) \/ LimitByEmail(f, ran, replied)
       \/ \E dns \in {"yes", "no", "unsure"} : checkSignInEmail(f, dns)
  \/ Minute

SignInSpec == SignInInit /\ [][SignInNext]_signInVars

-------------------------------------------------------------------------------
(* Properties *)

\* A key over its limit, which refuses whoever it counts, is gone one window after the first PEXPIRE that
\* took effect on it: a PEXPIRE that failed is made up for by the next, and none after that puts the end off.
RefusalEnds == \A k \in Keys :
  counter[k].hits > limitOf(k) /\ age[k] > 0 => counter[k].ttl > 0 /\ counter[k].ttl + age[k] = WINDOW + 1

\* What is not kept: while each PEXPIRE on it fails, a key has no end and refuses all the same
\* (rate-limit.ts:119-127: the refusal looks at the count alone).
EveryRefusalEnds == \A k \in Keys : counter[k].hits > limitOf(k) => counter[k].ttl > 0
===============================================================================
