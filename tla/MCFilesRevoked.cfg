SPECIFICATION FilesFairSpec
CONSTANTS
  Accounts = {a1}
  Handlers = {h1}
  HandlerOps = {"credits"}
  Scheduler = Scheduler
  NoAccount = NoAccount
  NoFile = NoFile
  Torn = Torn
  Mixed = Mixed
  MaxIssued = 3
  MaxFaults = 0
PROPERTIES EveryDueTokenIsRefreshed
