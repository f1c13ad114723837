SPECIFICATION MCSpec
CONSTANTS
  Accounts = {1, 2}
  Members = {1, 2}
  Concurrency <- Slots
  MaxCredits = 2
  MaxRequests = 3
  MaxHistory = 2
  Torn = Torn
  MaxFaults = 1
INVARIANTS ProxyTypeOK SlotsAreHeld HistoryIsSaved 
PROPERTIES HistoryIsNewest 
CHECK_DEADLOCK FALSE
