SPECIFICATION Spec
CONSTANTS
  OrderIDs = {o1, o2}
  PaymentIDs = {p1, p2}
  TradeNos = {t1}
  NoOrder = NoOrder
  NoPayment = NoPayment
  NoTrade = NoTrade
  Handlers = {h1, h2}
  Reconciler = rec
  MaxRequests = 3
  MaxCrashes = 1
  MaxBadSaves = 1
  MaxBadCalls = 1
SYMMETRY Symmetry
INVARIANTS TypeOK CreditsArePaidFor ReceiptsAreGenuine SucceededOrdersHaveReceipts FileIsCurrent ReceiptsSettleOrders SequentialSyncsCreditOnce NothingStoredIsFalse
PROPERTIES UpdatesLoseNothing ImplementsLedger
CHECK_DEADLOCK FALSE
