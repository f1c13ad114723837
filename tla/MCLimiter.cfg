SPECIFICATION MCSpec
CONSTANTS
  Callers = {c1, c2, c3}
  Accounts = {a1}
  NoAccount = NoAccount
  Limits <- LimitsA
  Window = 3
  MinRetry = 1
  MaxTime = 4
SYMMETRY Symmetry
INVARIANTS LimiterTypeOK CountsAreExact WithinConcurrency RateHolds WaitingMakesRoom
CHECK_DEADLOCK FALSE
