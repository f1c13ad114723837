SPECIFICATION FilesFairSpec
CONSTANTS
  Accounts = {a1, a2}
  Handlers = {h1}
  HandlerOps = {"delete"}
  Scheduler = Scheduler
  NoAccount = NoAccount
  NoFile = NoFile
  Torn = Torn
  Mixed = Mixed
  MaxIssued = 2
  MaxFaults = 1
PROPERTIES DueTokensAreRefreshed
