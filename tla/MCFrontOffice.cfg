SPECIFICATION FrontOfficeSpec
CONSTANTS
  Lessons = {l1}
  Extras = {x1}
  Invites = {i1, i2}
  Requests = {r1, r2}
  Horizon = 2
  None = None
  Joins = {j1, j2}
  PRESENCE_LAG = 2
  Pages = {cp, sp}
  CoachPages = {cp}
  LivePages = {sp}
  Weeks = {1, 2}
  Contents = {1}
  TaskIds = {1, 2, 3}
  MaxCalls = 1
  MaxWritten = 2
  Cells <- CellsDef
  Dates = {1, 2}
  Offsets = {0, 3}
  Taken <- TakenDef
  Instants = {21, 30, 36, 48}
  dayCount = 3
  Profiles = {"ca", "cb"}
  Hours24 = {1, 2}
  PackageTypes = {"EXPLORATORY", "MONTHLY_4W"}
  DefaultType = "EXPLORATORY"
  sessions <- PerPackage
  suggested <- PerPackage
  floor <- PerPackage
  TypedPrices = {2}
  SubmitCalls = {"k1"}
  MaxPresses = 1
  MaxTaken = 1
  NoDraft = NoDraft
  Browsers = {"b1"}
  People = {"u1", "u2"}
  Answers = {"v1"}
  Tokens = {"t1", "t2"}
  Claims = {k1, k2}
  Nobody = "nobody"
  Unanswered = "-"
  EmptyList = "[]"
  Forms = {"f1", "f2"}
  Emails = {"e1"}
  IP_LIMIT = 1
  EMAIL_LIMIT = 1
  WINDOW = 2
  COOLDOWN = 1
  MaxHits = 1
  NoEmail = "-"
  WindowPairs <- WindowPairsDef
  Inquiries <- InquiriesDef
  ln <- LnDef
  decayed <- DecayedDef
  volume <- VolumeDef
  Unset = Unset
  Boxes = {b1, b2}
  Texts <- TextsDef
  MaxMessages = 2
  MaxRisk = 320
  NoText = NoText
  Programs = {"e1", "e2"}
  Panels = {"p1", "p2", "p3"}
  programOf <- ProgramOfDef
  Ratings = {1, 5}
  NoReview = NoReview
SYMMETRY ClaimSymmetry
CONSTRAINTS
  ClaimsApart
  OneIsQuiet
  OneCoachIsFree
INVARIANTS
  CopyNeverDoubles
  NoStaleWelcome
  CalendarIsTheGrid
  NothingSentUnasked
  OneOwner
  RefusalEnds
  MinutesAreCounted
  MatchIsHonest
  FlagIsEarned
  RatingIsTheMean
PROPERTIES
  ClosedLessonStaysPut
CHECK_DEADLOCK FALSE
