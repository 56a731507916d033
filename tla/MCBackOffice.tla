------------------------------ MODULE MCBackOffice ------------------------------
(***************************************************************************)
(* Four components that share no state, checked side by side: `scenario`   *)
(* says which of them takes its steps while the others rest in their       *)
(* initial states, so the state space is the disjoint union of theirs.     *)
(***************************************************************************)
EXTENDS Money, Refunds, Payouts, CoachApplication

VARIABLE scenario

\* Amounts around the edges of rounding: a remainder of one, a price just above the least, a prime.
AgreementsDef ==
  [total : {10000, 10001, 10006, 10008, 12345, 399999, 400055}, count : 1..4, bps : {0, 1, 1500, 1800, 5000}]
CalendarsDef ==
  {c \in [starts : (SUBSET (0..6)) \ {{}}, count : 1..4, last : {3, 7, 9}] : c.last > Max(c.starts)}
PriceListsDef ==
  [single : {0, 10000, 15050, 100000}, monthly : {50000, 51999, 123450, 500000}, sessionsPerCycle : {1, 4, 30}]

MilestonePriceDef == <<3, 2>>

\* The invocation that works alone in the scenarios about liveness.
OneRun == CHOOSE w \in CronRuns : TRUE

Scenarios == {"money", "overlapping refunds", "one worker", "payouts", "application"}

BackOfficeInit ==
  /\ scenario \in Scenarios
  /\ IF scenario = "money" THEN TermsInit ELSE terms = CHOOSE a \in Agreements : TRUE
  /\ RefundsInit /\ PayoutsInit /\ ApplicationInit

OneWorker == Decide \/ Sync(OneRun) \/ \E r \in Rows : BackoffEnds(r)

others == <<scenario, terms, payoutVars, applicationVars>>

BackOfficeNext ==
  /\ UNCHANGED <<scenario, terms>>
  /\ \/ scenario = "overlapping refunds" /\ RefundsNext /\ UNCHANGED <<payoutVars, applicationVars>>
     \/ scenario = "one worker" /\ OneWorker /\ UNCHANGED <<payoutVars, applicationVars>>
     \/ scenario = "payouts" /\ PayoutsNext /\ UNCHANGED <<refundVars, applicationVars>>
     \/ scenario = "application" /\ ApplicationNext /\ UNCHANGED <<refundVars, payoutVars>>

mcvars == <<others, refundVars>>

\* The cron job is started again and again, and an attempt that is put off falls due.
CronGoesOn ==
  /\ WF_mcvars(scenario = "one worker" /\ Sync(OneRun) /\ UNCHANGED others)
  /\ \A r \in Rows : WF_mcvars(scenario = "one worker" /\ BackoffEnds(r) /\ UNCHANGED others)

BackOfficeSpec == BackOfficeInit /\ [][BackOfficeNext]_mcvars /\ CronGoesOn

\* Every refund comes to an end as long as the invocations of the cron job neither overlap nor die
\* (submitPendingRefunds).
RefundsEndUndisturbed == scenario = "one worker" => RefundsEnd

\* One worker, which may die between two steps; the cron job goes on.
StrandedSpec ==
  /\ BackOfficeInit /\ scenario = "one worker"
  /\ [][(OneWorker \/ WorkerDies(OneRun)) /\ UNCHANGED others]_mcvars
  /\ CronGoesOn
==============================================================================
