SPECIFICATION FairSpec
CONSTANTS
  Tokens = {t1, t2}
  Students = {s1}
  Callers = {}
  Workers = {w1}
  Cancellers = {}
  HOLD_TTL = 2
  TOKEN_TTL = 1
  SWEEP_WINDOW = 3
  Deadline = 5
  Horizon = 6
  MaxCrashes = 0
  Hiccups = TRUE
  CronKeepsUp = TRUE
  NoToken = NoToken
  t1 = t1
  t2 = t2
  s1 = s1
  s2 = s2
  c1 = c1
  c2 = c2
  w1 = w1
  x1 = x1
PROPERTIES SweepRecordsPayment CapturedIsEscrowed SlotsComeFree
CHECK_DEADLOCK FALSE
