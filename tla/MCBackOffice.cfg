SPECIFICATION BackOfficeSpec
CONSTANTS
  Agreements <- AgreementsDef
  Calendars <- CalendarsDef
  PriceLists <- PriceListsDef
  MilestonePrice <- MilestonePriceDef
  CommissionBps = 3400
  Admins = {r1}
  Resolutions = {"RELEASE", "REFUND", "SPLIT"}
  CronRuns = {w1, w2}
  MAX_ATTEMPTS = 2
  MaxDeaths = 1
  NoRow = NoRow
  BatchRuns = {b1, b2}
  Weeks = {1, 2}
  NetAmounts = {1, 2}
  MIN_PAYOUT = 2
  MaxEarned = 5
  MaxAborts = 1
  NoRun = NoRun
  Tabs = {t1, t2}
  Reviewers = {a1, a2}
  LastStep = 2
INVARIANTS
  LedgerAgreesWithProvider
  CoachGetsWhatWasShown
  BooksTellTheTruth
  NeverPaidTwice
  DetailsKeptUntilRegistered
PROPERTIES
  RefundsEndUndisturbed
CHECK_DEADLOCK FALSE
