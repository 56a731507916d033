-------------------------- MODULE MCEscrowLifecycle --------------------------
(* Instances of EscrowLifecycle for TLC. *)
EXTENDS ProgramPage, FiniteSetsExt, TLC

CONSTANTS p1, p2, w1, a1, a2, d1, d2

\* Two milestones of different amounts, each session at the end of its period.
AmountDef == [m \in Milestones |-> IF m = 1 THEN 2 ELSE 1]
InPeriod == [m \in Milestones |-> m + 1]

\* Leaves out a split beside another decision: EscrowNeverNegative shows what comes of that.
OneKindOfDecision ==
  \A a, b \in Admins : arg[a].r = "SPLIT" => arg[b].r \in {"SPLIT", "none"}

\* Two admins are at work at once only before a crash or a moved session, and before the last
\* unit of time.
OneAdminAtWork ==
  moves > 0 \/ crashes > 0 \/ now = Horizon => \A a, b \in Admins : a = b \/ "idle" \in {pc[a], pc[b]}

\* A crash and a moved session do not meet, a moved session meets one dispute at most, and a
\* program with a crash ends before the last unit of time.
CrashOrMove ==
  /\ moves > 0 => crashes = 0 /\ Cardinality(Disputes \ unusedDisputes) + Cardinality(inFlight) <= 1
  /\ crashes > 0 => now < Horizon

\* Admins are interchangeable, and so are the ids of tickets.
Symmetry == Permutations(Admins) \cup Permutations(Disputes)

\* The escrow account of the engagement is never overdrawn ("escrow never goes negative",
\* TESTING.md:45).
EscrowNeverNegative ==
  MapThenSumSet(LAMBDA m : Amount[m] - released[m] - refunded[m], Milestones) >= 0
===============================================================================
