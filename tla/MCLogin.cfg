SPECIFICATION LoginSpec
CONSTANTS
  Logins = {l1, l2}
  Polls = {p1, p2}
  NoLogin = NoLogin
  Lifetime = 1
  Interval = 1
  MaxFaults = 1
SYMMETRY Symmetry
INVARIANTS LoginTypeOK TokenIsOnItsWay FormHasItsOwnToken OneLoginIsPolled
