SPECIFICATION FairSpec
CONSTANTS
  OrderIDs = {o1}
  PaymentIDs = {p1}
  TradeNos = {t1}
  NoOrder = NoOrder
  NoPayment = NoPayment
  NoTrade = NoTrade
  Handlers = {h1, h2}
  Reconciler = rec
  MaxRequests = 3
  MaxCrashes = 0
  MaxBadSaves = 0
  MaxBadCalls = 2
PROPERTIES PaidOrdersAreCredited ExpiredOrdersAreCanceled
