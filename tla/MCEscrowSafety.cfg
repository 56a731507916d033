SPECIFICATION Spec
CONSTANTS
  MilestoneCount = 2
  Amount <- AmountDef
  SessionEnd <- InPeriod
  Horizon = 4
  Disputes = {d1, d2}
  Resolutions = {"RELEASE", "REFUND", "SPLIT"}
  Parties = {p1}
  Workers = {w1}
  Admins = {a1, a2}
  MaxCrashes = 1
  MaxMoves = 1
  MoveTo = {4}
  CronKeepsUp = FALSE
  NoProc = NoProc
  NoDispute = NoDispute
  DetailLengths = {0, 9, 10, 2000}
  p1 = p1
  p2 = p2
  w1 = w1
  a1 = a1
  a2 = a2
  d1 = d1
  d2 = d2
INVARIANTS IInv NeitherTwiceNorForgotten MilestoneButtonsWork
PROPERTIES NoMoneyMovesWhileDisputed NoPayoutBeforeSession ImplementsEscrowAccount
CONSTRAINTS OneKindOfDecision OneAdminAtWork CrashOrMove
SYMMETRY Symmetry
CHECK_DEADLOCK FALSE
