SPECIFICATION FairSpec
CONSTANTS
  Tokens = {t1}
  Students = {s1}
  Callers = {c1}
  Workers = {w1}
  Cancellers = {}
  HOLD_TTL = 2
  TOKEN_TTL = 1
  SWEEP_WINDOW = 6
  Deadline = 6
  Horizon = 3
  MaxCrashes = 1
  Hiccups = FALSE
  CronKeepsUp = TRUE
  NoToken = NoToken
  t1 = t1
  t2 = t2
  s1 = s1
  s2 = s2
  c1 = c1
  c2 = c2
  w1 = w1
  x1 = x1
PROPERTIES CapturedIsEscrowed
CHECK_DEADLOCK FALSE
