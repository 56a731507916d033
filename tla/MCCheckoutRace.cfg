SPECIFICATION Spec
CONSTANTS
  Tokens = {t1, t2}
  Students = {s1}
  Callers = {c1}
  Workers = {w1}
  Cancellers = {x1}
  HOLD_TTL = 1
  TOKEN_TTL = 1
  SWEEP_WINDOW = 2
  Deadline = 1
  Horizon = 1
  MaxCrashes = 1
  Hiccups = TRUE
  CronKeepsUp = FALSE
  NoToken = NoToken
  t1 = t1
  t2 = t2
  s1 = s1
  s2 = s2
  c1 = c1
  c2 = c2
  w1 = w1
  x1 = x1
INVARIANTS CheckoutInv NothingWithoutMoney FundedOnceOrNotAtAll
CHECK_DEADLOCK FALSE
