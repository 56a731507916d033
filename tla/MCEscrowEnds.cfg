SPECIFICATION FairSpec
CONSTANTS
  MilestoneCount = 2
  Amount <- AmountDef
  SessionEnd <- InPeriod
  Horizon = 5
  Disputes = {d1}
  Resolutions = {"RELEASE"}
  Parties = {p1}
  Workers = {w1}
  Admins = {a1}
  MaxCrashes = 0
  MaxMoves = 0
  MoveTo = {}
  CronKeepsUp = TRUE
  NoProc = NoProc
  NoDispute = NoDispute
  DetailLengths = {0, 9, 10, 2000}
  p1 = p1
  p2 = p2
  w1 = w1
  a1 = a1
  a2 = a2
  d1 = d1
  d2 = d2
PROPERTIES SettledEngagementEnds
CHECK_DEADLOCK FALSE
