-------------------------------- MODULE Ledger --------------------------------
(***************************************************************************)
(* The escrow accounting of lib/payments/escrow.ts: the commission on an   *)
(* amount and the entry groups.  A group is a function that gives every    *)
(* account its signed amount, credits positive; the books are the sum of   *)
(* the groups posted, which is how the code derives every balance.         *)
(***************************************************************************)
EXTENDS Integers, FiniteSetsExt, Functions

Total(f) == SumFunction(f)
SumOver(S, f) == SumFunctionOnSet(f, S)

\* Wrong: the commission is rounded up.
splitRoundingUp(gross, bps) ==
  LET commission == (gross * bps + 9999) \div 10000
  IN  [gross |-> gross, commission |-> commission, netToCoach |-> gross - commission]

splitAmount(gross, bps) ==
  LET commission == (gross * bps) \div 10000
  IN  [gross |-> gross, commission |-> commission, netToCoach |-> gross - commission]

Account == {"PSP_RECEIVABLE", "PLATFORM_ESCROW", "COACH_PAYABLE", "PLATFORM_REVENUE", "STUDENT_REFUND"}

Group(entries) == [a \in Account |-> IF a \in DOMAIN entries THEN entries[a] ELSE 0]

EscrowFunding(amount) == Group([PSP_RECEIVABLE |-> -amount, PLATFORM_ESCROW |-> amount])

MilestoneRelease(amount, bps) ==
  LET split == splitAmount(amount, bps)
  IN  Group([PLATFORM_ESCROW |-> -split.gross, COACH_PAYABLE |-> split.netToCoach,
             PLATFORM_REVENUE |-> split.commission])

RefundFromEscrow(amount) == Group([PLATFORM_ESCROW |-> -amount, STUDENT_REFUND |-> amount])

PayoutGroup(amount) == Group([COACH_PAYABLE |-> -amount, PSP_RECEIVABLE |-> amount])

\* What postGroup and the trigger ledger_balanced ask of every group.
Balanced(g) ==
  g["PSP_RECEIVABLE"] + g["PLATFORM_ESCROW"] + g["COACH_PAYABLE"] + g["PLATFORM_REVENUE"]
    + g["STUDENT_REFUND"] = 0

EmptyBooks == [a \in Account |-> 0]
PostGroup(books, g) == [a \in Account |-> books[a] + g[a]]
===============================================================================
