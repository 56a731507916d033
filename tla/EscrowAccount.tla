---------------------------- MODULE EscrowAccount ----------------------------
(***************************************************************************)
(* What the escrow promises about money, and nothing else: every milestone *)
(* is paid out of escrow exactly once, in full, to the coach, to the       *)
(* student, or shared between the two, and a payout is never taken back.   *)
(* Several milestones may be settled in one step (a dispute resolution).   *)
(***************************************************************************)
EXTENDS Integers

CONSTANTS
  Milestone,
  Price      \* what each milestone is worth, a positive number

VARIABLES toCoach, toStudent

vars == <<toCoach, toStudent>>

Held(m) == toCoach[m] = 0 /\ toStudent[m] = 0

PaidOut(m) == /\ toCoach'[m] \in 0..Price[m]
              /\ toStudent'[m] = Price[m] - toCoach'[m]

Init == /\ toCoach = [m \in Milestone |-> 0]
        /\ toStudent = [m \in Milestone |-> 0]

Settle(S) ==
  /\ \A m \in S : Held(m) /\ PaidOut(m)
  /\ \A m \in Milestone \ S : toCoach'[m] = toCoach[m] /\ toStudent'[m] = toStudent[m]

Next == \E S \in SUBSET Milestone : Settle(S)

Spec == Init /\ [][Next]_vars
===============================================================================
