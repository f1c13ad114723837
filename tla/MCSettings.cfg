SPECIFICATION MCSpec
CONSTANTS
  Handlers = {h1, h2}
  Names = {g1, g2}
  Default = g1
  Accounts = {a1}
  NoAccount = NoAccount
  NoGroup = NoGroup
  Unclear = Unclear
  NoFile = NoFile
  Torn = Torn
  Mixed = Mixed
  MaxHashes = 1
  MaxKeys = 2
  MaxFaults = 1
SYMMETRY Symmetry
INVARIANTS SettingsTypeOK SettingsStick SessionsFollowPassword AccountsHaveGroups
CHECK_DEADLOCK FALSE
