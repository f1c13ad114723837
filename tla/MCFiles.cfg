SPECIFICATION FilesSpec
CONSTANTS
  Accounts = {a1}
  Handlers = {h1, h2}
  HandlerOps = {"save", "delete", "toggle", "check", "refresh"}
  Scheduler = Scheduler
  NoAccount = NoAccount
  NoFile = NoFile
  Torn = Torn
  Mixed = Mixed
  MaxIssued = 2
  MaxFaults = 1
SYMMETRY Symmetry
INVARIANTS FilesTypeOK DecisionsStick SessionsSurvive TokensBelongTogether
