SPECIFICATION FilesSpec
CONSTANTS
  Accounts = {a1}
  Handlers = {h1}
  HandlerOps = {"delete"}
  Scheduler = Scheduler
  NoAccount = NoAccount
  NoFile = NoFile
  Torn = Torn
  Mixed = Mixed
  MaxIssued = 2
  MaxFaults = 0
PROPERTIES NoOrphanedRefresh
