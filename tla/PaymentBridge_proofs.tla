------------------------ MODULE PaymentBridge_proofs ------------------------
(***************************************************************************)
(* Proofs about PaymentBridge, for any sets of orders, payments, trades    *)
(* and handlers and any bounds.                                            *)
(*                                                                         *)
(* The invariant IInv says that nothing a goroutine holds in its local     *)
(* variables and nothing stored of an order is false.  It is inductive     *)
(* because the two outside parties only ever add to what is true (Grows):  *)
(* payments keep their order, success is final, credits are not taken      *)
(* back.                                                                   *)
(***************************************************************************)
EXTENDS PaymentBridge, TLAPS

USE StoreAssumption, BridgeAssumption DEF StoreAssumption, BridgeAssumption

IInv == TypeOK /\ NothingStoredIsFalse /\ CreditsArePaidFor

-----------------------------------------------------------------------------
(* Types. *)

LEMMA IdleType == IdleFrame \in Frame
BY DEF IdleFrame, Frame, Steps, NoCode

LEMMA BecomeType ==
  ASSUME frame \in [Goroutines -> Frame], NEW g, NEW f \in Frame, Become(g, f)
  PROVE  frame' \in [Goroutines -> Frame]
BY DEF Become

LEMMA SaveType ==
  ASSUME StoreTypeOK, orders' \in [OrderIDs -> Order \cup {NoOrder}],
         Saved(orders') \/ SaveFailed
  PROVE  StoreTypeOK'
<1>1. CASE Saved(orders')
  BY <1>1 DEF StoreTypeOK, Saved
<1>2. CASE SaveFailed
  <2>1. dataFile' \in [OrderIDs -> Order \cup {NoOrder}]
    BY <1>2 DEF StoreTypeOK, SaveFailed, Torn, NoOrders
  <2>2. readable' \in BOOLEAN
    BY <1>2 DEF StoreTypeOK, SaveFailed, Torn
  <2>3. badSaves' \in 0..MaxBadSaves
    BY <1>2 DEF StoreTypeOK, SaveFailed
  <2>4. QED
    BY <2>1, <2>2, <2>3 DEF StoreTypeOK
<1>3. QED
  BY <1>1, <1>2

\* The two ways to change the store, with either outcome of the save.
Write(o, r) ==
  /\ orders' = [orders EXCEPT ![o] = r]
  /\ Saved(orders') \/ SaveFailed

LEMMA WriteType ==
  ASSUME StoreTypeOK, NEW o \in OrderIDs, NEW r \in Order, Write(o, r)
  PROVE  StoreTypeOK'
<1>1. orders' \in [OrderIDs -> Order \cup {NoOrder}]
  BY DEF StoreTypeOK, Write
<1>2. QED
  BY <1>1, SaveType DEF Write

LEMMA UpdateWrites ==
  ASSUME NEW o \in OrderIDs, NEW r \in Order, Update(o, r)
  PROVE  Exists(o) /\ Write(o, r)
BY DEF Update, UpdateSaved, UpdateUnsaved, Write

-----------------------------------------------------------------------------
(* What others do never falsifies what a goroutine relies on. *)

Grows ==
  /\ \A p \in PaymentIDs : payments[p] # NoPayment =>
       /\ payments'[p] # NoPayment
       /\ payments'[p].order = payments[p].order
       /\ payments[p].status = "succeeded" => payments'[p].status = "succeeded"
  /\ \A i \in DOMAIN ledger : i \in DOMAIN ledger' /\ ledger'[i] = ledger[i]

OrdersStay == \A o \in OrderIDs : Exists(o) => orders'[o] # NoOrder

\* The predicates of NothingStoredIsFalse, of a value, in the next state.
PaymentNext(p) == p \in PaymentIDs /\ payments'[p] # NoPayment
OrderNext(o) == o \in OrderIDs /\ orders'[o] # NoOrder
SucceededNext(p) == PaymentNext(p) /\ payments'[p].status = "succeeded"
CreditsNext(o) == {i \in DOMAIN ledger' : ledger'[i] = o}

LocalsNext(f) ==
  /\ f.pc \in {"creating", "created", "createFailed"} =>
       OrderNext(f.order) /\ f.answer = "none"
  /\ f.pc = "created" =>
       PaymentNext(f.payment) /\ payments'[f.payment].order = f.order
  /\ f.pc \in {"fetching", "fetched", "crediting", "credited", "creditFailed"} =>
       PaymentNext(f.payment)
  /\ f.answer = "succeeded" => SucceededNext(f.payment)
  /\ f.pc \in {"crediting", "credited", "creditFailed"} =>
       /\ OrderNext(f.order)
       /\ SucceededNext(f.payment)
       /\ payments'[f.payment].order = f.order
  /\ f.pc = "credited" => f.code \in CreditsNext(f.order)

RecordNext(o, r) ==
  /\ r.payment # NoPayment =>
       PaymentNext(r.payment) /\ payments'[r.payment].order = o
  /\ r.code # NoCode => r.code \in CreditsNext(o) /\ ~IsEpay(r)
  /\ r.notified => CreditsNext(o) # {} /\ IsEpay(r)
  /\ r.status = "succeeded" =>
       IF IsEpay(r) THEN r.notified ELSE r.code # NoCode

RecordsNext ==
  \A o \in OrderIDs :
    /\ orders'[o] # NoOrder => RecordNext(o, orders'[o])
    /\ dataFile'[o] # NoOrder => RecordNext(o, dataFile'[o])

LEMMA LocalsStable ==
  ASSUME Grows, OrdersStay, NEW f \in Frame, LocalsOK(f)
  PROVE  LocalsNext(f)
BY DEF Grows, OrdersStay, LocalsOK, LocalsNext, KnownOrder, KnownPayment, Exists,
       Succeeded, Credits, PaymentNext, OrderNext, SucceededNext, CreditsNext

LEMMA RecordStable ==
  ASSUME Grows, NEW o \in OrderIDs, NEW r \in Order, RecordOK(o, r)
  PROVE  RecordNext(o, r)
BY DEF Grows, RecordOK, RecordNext, Genuine, KnownPayment, Credits, PaymentNext,
       CreditsNext

LEMMA RecordsKept ==
  ASSUME IInv, Grows,
         \A o \in OrderIDs : orders'[o] \in {NoOrder, orders[o], dataFile[o]},
         \A o \in OrderIDs : dataFile'[o] \in {NoOrder, dataFile[o]}
  PROVE  RecordsNext
BY RecordStable DEF IInv, TypeOK, StoreTypeOK, NothingStoredIsFalse, RecordsNext

LEMMA RecordsWritten ==
  ASSUME IInv, Grows, NEW o \in OrderIDs, NEW r \in Order, RecordNext(o, r),
         Write(o, r)
  PROVE  RecordsNext
<1>1. \A x \in OrderIDs : orders'[x] = IF x = o THEN r ELSE orders[x]
  BY DEF Write, IInv, TypeOK, StoreTypeOK
<1>2. \A x \in OrderIDs : dataFile'[x] \in {NoOrder, dataFile[x], orders'[x]}
  BY DEF Write, Saved, SaveFailed, Torn, NoOrders
<1>3. \A x \in OrderIDs : orders[x] # NoOrder => RecordNext(x, orders[x])
  BY RecordStable DEF IInv, TypeOK, StoreTypeOK, NothingStoredIsFalse
<1>4. \A x \in OrderIDs : dataFile[x] # NoOrder => RecordNext(x, dataFile[x])
  BY RecordStable DEF IInv, TypeOK, StoreTypeOK, NothingStoredIsFalse
<1>5. QED
  BY <1>1, <1>2, <1>3, <1>4 DEF RecordsNext

\* Credits already given stay paid for.
LEMMA CreditsStable ==
  ASSUME IInv, Grows, ledger' = ledger, payments' \in [PaymentIDs -> Payment \cup {NoPayment}]
  PROVE  CreditsArePaidFor'
BY DEF IInv, Grows, CreditsArePaidFor, Payment, TypeOK

\* IInv in the next state, from what holds of the values in it.
LEMMA Conclude ==
  ASSUME TypeOK', RecordsNext, CreditsArePaidFor',
         \A x \in Goroutines : LocalsNext(frame'[x]),
         ~up' => \A x \in Goroutines : frame'[x].pc = "idle",
         \A p \in queue' : PaymentNext(p)
  PROVE  IInv'
<1>1. ASSUME NEW x \in Goroutines PROVE LocalsOK(frame[x])'
  <2>1. LocalsNext(frame'[x])
    OBVIOUS
  <2>2. QED
    BY <2>1
       DEF LocalsNext, LocalsOK, PaymentNext, OrderNext, SucceededNext, CreditsNext,
           KnownPayment, KnownOrder, Succeeded, Credits, Exists
<1>2. ASSUME NEW o \in OrderIDs
      PROVE  /\ (orders[o] # NoOrder => RecordOK(o, orders[o]))'
             /\ (dataFile[o] # NoOrder => RecordOK(o, dataFile[o]))'
  <2>1. /\ orders'[o] # NoOrder => RecordNext(o, orders'[o])
        /\ dataFile'[o] # NoOrder => RecordNext(o, dataFile'[o])
    BY DEF RecordsNext
  <2>2. RecordNext(o, orders'[o]) => RecordOK(o, orders[o])'
    BY DEF RecordNext, RecordOK, Genuine, PaymentNext, CreditsNext, KnownPayment,
           Credits, IsEpay
  <2>3. RecordNext(o, dataFile'[o]) => RecordOK(o, dataFile[o])'
    BY DEF RecordNext, RecordOK, Genuine, PaymentNext, CreditsNext, KnownPayment,
           Credits, IsEpay
  <2>4. QED
    BY <2>1, <2>2, <2>3
<1>3. QED
  BY <1>1, <1>2 DEF IInv, NothingStoredIsFalse, PaymentNext, KnownPayment

\* What every step may use of a goroutine, and what it leaves true of those
\* that do not move.
LEMMA Running ==
  ASSUME IInv, NEW g \in Goroutines
  PROVE  /\ frame[g] \in Frame
         /\ LocalsOK(frame[g])
         /\ Grows /\ OrdersStay => LocalsNext(frame[g])
BY LocalsStable DEF IInv, TypeOK, NothingStoredIsFalse

\* A step of goroutine g that changes the outside world as Grows says keeps
\* IInv if it leaves g's own locals and the records it writes true.
LEMMA StepOfOne ==
  ASSUME IInv, TypeOK', Grows, OrdersStay, RecordsNext, CreditsArePaidFor',
         NEW g \in Goroutines, NEW f \in Frame, Become(g, f), LocalsNext(f),
         up', \A p \in queue' : PaymentNext(p)
  PROVE  IInv'
<1>1. ASSUME NEW x \in Goroutines PROVE LocalsNext(frame'[x])
  <2>1. LocalsNext(frame[x])
    BY Running
  <2>2. frame'[x] = frame[x] \/ frame'[x] = f
    BY DEF Become, IInv, TypeOK
  <2>3. QED
    BY <2>1, <2>2
<1>2. QED
  BY <1>1, Conclude

\* Steps that change neither the store nor anything outside the bridge.
LEMMA QuietStep ==
  ASSUME IInv, up, UNCHANGED <<storeVars, up, usedIDs, payments, ledger, crashes>>,
         NEW g \in Goroutines, NEW f \in Frame, Become(g, f), LocalsNext(f),
         \A p \in queue' : PaymentNext(p), overlapped' \subseteq PaymentIDs,
         requests' \in 0..MaxRequests, badCalls' \in 0..MaxBadCalls
  PROVE  IInv'
<1>1. TypeOK'
  BY BecomeType DEF IInv, TypeOK, StoreTypeOK, storeVars, PaymentNext
<1>2. Grows /\ OrdersStay
  BY DEF Grows, OrdersStay, storeVars, Exists
<1>3. RecordsNext
  BY <1>2, RecordsKept DEF storeVars
<1>4. CreditsArePaidFor'
  BY DEF IInv, CreditsArePaidFor
<1>5. QED
  BY <1>1, <1>2, <1>3, <1>4, StepOfOne

\* Steps that write order r under o and may open the payment page.
LEMMA WriteStep ==
  ASSUME IInv, up, UNCHANGED <<up, queue, ledger, crashes, overlapped, badCalls>>,
         NEW g \in Goroutines, NEW f \in Frame, Become(g, f), LocalsNext(f),
         NEW o \in OrderIDs, NEW r \in Order, Write(o, r), RecordNext(o, r),
         Grows, payments' \in [PaymentIDs -> Payment \cup {NoPayment}],
         usedIDs' \subseteq OrderIDs, requests' \in 0..MaxRequests
  PROVE  IInv'
<1>1. TypeOK'
  BY BecomeType, WriteType DEF IInv, TypeOK
<1>2. OrdersStay
  BY DEF OrdersStay, Exists, Write, IInv, TypeOK, StoreTypeOK
<1>3. RecordsNext
  BY RecordsWritten
<1>4. CreditsArePaidFor'
  BY CreditsStable
<1>5. \A p \in queue' : PaymentNext(p)
  BY DEF Grows, PaymentNext, IInv, NothingStoredIsFalse, KnownPayment
<1>6. QED
  BY <1>1, <1>2, <1>3, <1>4, <1>5, StepOfOne

-----------------------------------------------------------------------------
(* createPayment and epaySubmit. *)

LEMMA CreateOrderKeeps ==
  ASSUME IInv, NEW h \in Handlers, NEW t \in TradeNos \cup {NoTrade}, CreateOrder(h, t)
  PROVE  IInv'
<1>1. PICK o \in OrderIDs \ usedIDs :
        /\ usedIDs' = usedIDs \cup {o}
        /\ \/ /\ CreateSaved(o, NewOrder(t))
              /\ Become(h, [IdleFrame EXCEPT !.pc = "creating", !.order = o])
           \/ /\ CreateUnsaved(o, NewOrder(t))
              /\ Return(h)
  BY DEF CreateOrder
<1>2. h \in Goroutines /\ up /\ frame[h] \in Frame /\ LocalsOK(frame[h])
  BY DEF Goroutines, CreateOrder, Served, At, IInv, TypeOK, NothingStoredIsFalse
<1>3. NewOrder(t) \in Order /\ RecordNext(o, NewOrder(t))
  BY DEF NewOrder, Order, Statuses, NoCode, RecordNext, IsEpay
<1>4. Write(o, NewOrder(t))
  BY <1>1 DEF CreateSaved, CreateUnsaved, Write
<1>5. PICK f \in Frame : Become(h, f) /\ LocalsNext(f)
  <2>1. CASE Return(h)
    <3>1. LocalsNext(IdleFrame)
      BY DEF LocalsNext, IdleFrame
    <3>2. QED
      BY <2>1, <3>1, IdleType DEF Return
  <2>2. CASE Become(h, [IdleFrame EXCEPT !.pc = "creating", !.order = o])
    <3>1. [IdleFrame EXCEPT !.pc = "creating", !.order = o] \in Frame
      BY IdleType DEF Frame, Steps
    <3>2. LocalsNext([IdleFrame EXCEPT !.pc = "creating", !.order = o])
      BY <1>1, <1>3, <1>4
         DEF LocalsNext, IdleFrame, Order, OrderNext, Write, IInv, TypeOK, StoreTypeOK
    <3>3. QED
      BY <2>2, <3>1, <3>2
  <2>3. QED
    BY <1>1, <2>1, <2>2
<1>6. Grows
  BY DEF CreateOrder, callVars, Grows
<1>7. QED
  BY <1>1, <1>2, <1>3, <1>4, <1>5, <1>6, WriteStep
     DEF CreateOrder, callVars, Served, IInv, TypeOK

LEMMA HandlersRun == Handlers \subseteq Goroutines
BY DEF Goroutines

LEMMA YooCreatesPaymentKeeps ==
  ASSUME IInv, NEW h \in Handlers, YooCreatesPayment(h)
  PROVE  IInv'
<1>1. PICK p \in PaymentIDs :
        /\ payments[p] = NoPayment
        /\ payments' = [payments EXCEPT
                          ![p] = [order |-> frame[h].order, status |-> "unseen"]]
        /\ \/ /\ Become(h, [frame[h] EXCEPT !.pc = "created", !.payment = p])
              /\ UNCHANGED badCalls
           \/ /\ Become(h, [frame[h] EXCEPT !.pc = "createFailed"])
              /\ CallFails
  BY DEF YooCreatesPayment
<1>2. h \in Goroutines /\ frame[h] \in Frame /\ LocalsOK(frame[h]) /\ up
        /\ frame[h].pc = "creating"
  BY HandlersRun, Running DEF YooCreatesPayment, At
<1>3. frame[h].order \in OrderIDs /\ Exists(frame[h].order)
  BY <1>2 DEF LocalsOK, KnownOrder
<1>4. payments' \in [PaymentIDs -> Payment \cup {NoPayment}]
  BY <1>1, <1>3 DEF IInv, TypeOK, Payment
<1>5. Grows /\ OrdersStay
  BY <1>1 DEF Grows, OrdersStay, Exists, storeVars, YooCreatesPayment, IInv, TypeOK
<1>6. LocalsNext(frame[h])
  BY <1>2, <1>5, Running
<1>7. payments'[p] # NoPayment /\ payments'[p].order = frame[h].order
  BY <1>1, <1>3 DEF IInv, TypeOK
<1>8. PICK f \in Frame : Become(h, f) /\ LocalsNext(f)
  <2>1. CASE Become(h, [frame[h] EXCEPT !.pc = "created", !.payment = p])
    <3>1. [frame[h] EXCEPT !.pc = "created", !.payment = p] \in Frame
      BY <1>2 DEF Frame, Steps
    <3>2. LocalsNext([frame[h] EXCEPT !.pc = "created", !.payment = p])
      BY <1>2, <1>6, <1>7 DEF LocalsNext, Frame, PaymentNext, SucceededNext
    <3>3. QED
      BY <2>1, <3>1, <3>2
  <2>2. CASE Become(h, [frame[h] EXCEPT !.pc = "createFailed"])
    <3>1. [frame[h] EXCEPT !.pc = "createFailed"] \in Frame
      BY <1>2 DEF Frame, Steps
    <3>2. LocalsNext([frame[h] EXCEPT !.pc = "createFailed"])
      BY <1>2, <1>6 DEF LocalsNext, Frame
    <3>3. QED
      BY <2>2, <3>1, <3>2
  <2>3. QED
    BY <1>1, <2>1, <2>2
<1>9. TypeOK'
  <2>1. badCalls' \in 0..MaxBadCalls
    BY <1>1 DEF CallFails, IInv, TypeOK
  <2>2. QED
    BY <1>4, <1>8, <2>1, BecomeType
       DEF YooCreatesPayment, IInv, TypeOK, StoreTypeOK, storeVars
<1>10. RecordsNext
  BY <1>5, RecordsKept DEF YooCreatesPayment, storeVars
<1>11. CreditsArePaidFor'
  BY <1>4, <1>5, CreditsStable DEF YooCreatesPayment
<1>12. \A q \in queue' : PaymentNext(q)
  BY <1>5 DEF YooCreatesPayment, Grows, PaymentNext, IInv, NothingStoredIsFalse, KnownPayment
<1>13. QED
  BY <1>2, <1>5, <1>8, <1>9, <1>10, <1>11, <1>12, StepOfOne DEF YooCreatesPayment

LEMMA YooRefusesPaymentKeeps ==
  ASSUME IInv, NEW h \in Handlers, YooRefusesPayment(h)
  PROVE  IInv'
<1> DEFINE f == [frame[h] EXCEPT !.pc = "createFailed"]
<1>1. h \in Goroutines /\ frame[h] \in Frame /\ LocalsOK(frame[h]) /\ up
        /\ frame[h].pc = "creating"
  BY HandlersRun, Running DEF YooRefusesPayment, At
<1>2. Grows /\ OrdersStay
  BY DEF YooRefusesPayment, Grows, OrdersStay, Exists, storeVars
<1>3. f \in Frame /\ LocalsNext(f)
  BY <1>1, <1>2, Running DEF Frame, Steps, LocalsNext
<1>4. badCalls' \in 0..MaxBadCalls
  BY DEF YooRefusesPayment, CallFails, IInv, TypeOK
<1>5. \A q \in queue' : PaymentNext(q)
  BY <1>2 DEF YooRefusesPayment, Grows, PaymentNext, IInv, NothingStoredIsFalse, KnownPayment
<1>6. QED
  BY <1>1, <1>3, <1>4, <1>5, QuietStep DEF YooRefusesPayment, IInv, TypeOK

LEMMA StorePaymentKeeps ==
  ASSUME IInv, NEW h \in Handlers, StorePayment(h)
  PROVE  IInv'
<1> DEFINE o == frame[h].order
           p == frame[h].payment
           r == WithPayment(orders[o], p)
<1>1. h \in Goroutines /\ up
        /\ o \in OrderIDs /\ Exists(o) /\ p \in PaymentIDs /\ payments[p] # NoPayment
        /\ payments[p].order = o
  BY HandlersRun, Running
     DEF StorePayment, At, LocalsOK, KnownOrder, KnownPayment
<1>2. orders[o] \in Order /\ RecordOK(o, orders[o]) /\ payments[p] \in Payment
  BY <1>1 DEF IInv, TypeOK, StoreTypeOK, NothingStoredIsFalse, Exists
<1>3. r \in Order /\ Write(o, r)
  <2>1. r \in Order
    BY <1>1, <1>2 DEF WithPayment, Order
  <2>2. QED
    BY <2>1 DEF StorePayment, UpdateSaved, UpdateUnsaved, Write
<1>4. payments' \in [PaymentIDs -> Payment \cup {NoPayment}] /\ Grows
  <2> DEFINE status == IF payments[p].status = "unseen" THEN "pending" ELSE payments[p].status
  <2>1. \/ payments' = payments
        \/ payments' = [payments EXCEPT ![p] = [payments[p] EXCEPT !.status = status]]
    BY DEF StorePayment
  <2>2. [payments[p] EXCEPT !.status = status] \in Payment
    BY <1>2 DEF Payment
  <2>3. payments' \in [PaymentIDs -> Payment \cup {NoPayment}]
    BY <1>1, <2>1, <2>2 DEF IInv, TypeOK
  <2>4. Grows
    BY <1>1, <1>2, <2>1 DEF Grows, IInv, TypeOK, StorePayment, Payment
  <2>5. QED
    BY <2>3, <2>4
<1>5. RecordNext(o, r)
  BY <1>1, <1>2, <1>4, RecordStable
     DEF RecordNext, WithPayment, Grows, PaymentNext, Order, IsEpay
<1>6. Return(h) /\ IdleFrame \in Frame /\ LocalsNext(IdleFrame)
  BY IdleType DEF StorePayment, LocalsNext, IdleFrame
<1>7. QED
  BY <1>1, <1>3, <1>4, <1>5, <1>6, WriteStep DEF StorePayment, Return, IInv, TypeOK

\* An Update by a goroutine that then returns, with YooKassa left alone.
LEMMA UpdateStep ==
  ASSUME IInv, up, UNCHANGED <<up, queue, usedIDs, callVars, overlapped, requests, crashes>>,
         NEW g \in Goroutines, Return(g),
         NEW o \in OrderIDs, NEW r \in Order, Update(o, r), RecordNext(o, r)
  PROVE  IInv'
<1>1. Write(o, r)
  BY UpdateWrites
<1>2. Grows
  BY DEF Grows, callVars
<1>3. Become(g, IdleFrame) /\ LocalsNext(IdleFrame)
  BY DEF Return, LocalsNext, IdleFrame
<1>4. QED
  BY <1>1, <1>2, <1>3, IdleType, WriteStep DEF callVars, IInv, TypeOK

\* Steps after which the goroutine is idle and nothing else has changed.
LEMMA ReturnStep ==
  ASSUME IInv, up, UNCHANGED <<storeVars, up, queue, usedIDs, payments, ledger,
                               overlapped, requests, crashes>>,
         NEW g \in Goroutines, Return(g), badCalls' \in 0..MaxBadCalls
  PROVE  IInv'
<1>1. Become(g, IdleFrame) /\ LocalsNext(IdleFrame)
  BY DEF Return, LocalsNext, IdleFrame
<1>2. \A q \in queue' : PaymentNext(q)
  BY DEF PaymentNext, IInv, NothingStoredIsFalse, KnownPayment
<1>3. QED
  BY <1>1, <1>2, IdleType, QuietStep DEF IInv, TypeOK

LEMMA StoreCreateErrorKeeps ==
  ASSUME IInv, NEW h \in Handlers, StoreCreateError(h)
  PROVE  IInv'
<1> DEFINE o == frame[h].order
           r == AsFailed(orders[o])
<1>1. h \in Goroutines /\ up /\ o \in OrderIDs /\ Exists(o)
  BY HandlersRun, Running DEF StoreCreateError, At, LocalsOK, KnownOrder
<1>2. orders[o] \in Order /\ RecordOK(o, orders[o])
  BY <1>1 DEF IInv, TypeOK, StoreTypeOK, NothingStoredIsFalse, Exists
<1>3. r \in Order
  BY <1>2 DEF AsFailed, Order, Statuses
<1>4. RecordNext(o, orders[o])
  BY <1>1, <1>2, RecordStable DEF StoreCreateError, callVars, Grows
<1>5. RecordNext(o, r)
  BY <1>2, <1>4 DEF RecordNext, AsFailed, Order, IsEpay
<1>6. QED
  BY <1>1, <1>3, <1>5, UpdateStep DEF StoreCreateError

-----------------------------------------------------------------------------
(* syncPayment. *)

\* A sync may start with any payment YooKassa knows.
LEMMA SyncStarts ==
  ASSUME IInv, NEW g \in Goroutines, NEW p \in PaymentIDs, payments[p] # NoPayment,
         syncPayment(g, p), queue' \subseteq queue, requests' \in 0..MaxRequests,
         UNCHANGED <<storeVars, up, usedIDs, callVars, crashes>>
  PROVE  IInv'
<1> DEFINE f == [IdleFrame EXCEPT !.pc = "fetching", !.payment = p]
<1>1. up /\ Become(g, f) /\ overlapped' \subseteq PaymentIDs
  BY DEF syncPayment, At, IInv, TypeOK
<1>2. f \in Frame
  BY IdleType DEF Frame, Steps
<1>3. LocalsNext(f)
  BY DEF LocalsNext, IdleFrame, PaymentNext, callVars
<1>4. \A q \in queue' : PaymentNext(q)
  BY DEF PaymentNext, IInv, NothingStoredIsFalse, KnownPayment, callVars
<1>5. QED
  BY <1>1, <1>2, <1>3, <1>4, QuietStep DEF callVars, IInv, TypeOK

LEMMA StoredPayment ==
  ASSUME IInv, NEW o \in OrderIDs, Exists(o), orders[o].payment # NoPayment
  PROVE  /\ orders[o].payment \in PaymentIDs
         /\ payments[orders[o].payment] # NoPayment
         /\ payments[orders[o].payment].order = o
BY DEF IInv, NothingStoredIsFalse, Exists, RecordOK, KnownPayment

LEMMA RequestKeeps ==
  ASSUME IInv, NEW h \in Handlers, yooWebhook(h) \/ getOrder(h) \/ epayReturn(h)
  PROVE  IInv'
<1>1. requests' \in 0..MaxRequests
  BY DEF yooWebhook, getOrder, epayReturn, Served, IInv, TypeOK
<1>2. PICK p \in PaymentIDs : payments[p] # NoPayment /\ syncPayment(h, p)
  BY StoredPayment DEF yooWebhook, getOrder, epayReturn, FindByTradeNo
<1>3. UNCHANGED <<storeVars, up, queue, usedIDs, callVars, crashes>>
  BY DEF yooWebhook, getOrder, epayReturn
<1>4. QED
  BY <1>1, <1>2, <1>3, HandlersRun, SyncStarts

LEMMA ReconcileKeeps ==
  ASSUME IInv, reconcilePending \/ ReconcileNext
  PROVE  IInv'
<1>1. CASE ReconcileNext
  <2>1. PICK p \in queue : syncPayment(Reconciler, p) /\ queue' = queue \ {p}
    BY <1>1 DEF ReconcileNext
  <2>2. p \in PaymentIDs /\ payments[p] # NoPayment
    BY DEF IInv, NothingStoredIsFalse, KnownPayment
  <2>3. QED
    BY <1>1, <2>1, <2>2, SyncStarts DEF ReconcileNext, Goroutines, IInv, TypeOK
<1>2. CASE reconcilePending
  <2> DEFINE f == frame[Reconciler]
  <2>1. up /\ f \in Frame /\ Reconciler \in Goroutines
    BY <1>2, Running DEF reconcilePending, At, Goroutines
  <2>2. Grows /\ OrdersStay
    BY <1>2 DEF reconcilePending, callVars, storeVars, Grows, OrdersStay, Exists
  <2>3. Become(Reconciler, f) /\ LocalsNext(f)
    BY <1>2, <2>1, <2>2, Running DEF reconcilePending, Become, IInv, TypeOK
  <2>4. \A p \in queue' : PaymentNext(p)
    BY <1>2, StoredPayment
       DEF reconcilePending, callVars, PendingPaymentIDs, FindByPaymentID, PaymentNext
  <2>5. QED
    BY <1>2, <2>1, <2>3, <2>4, QuietStep DEF reconcilePending, callVars, IInv, TypeOK
<1>3. QED
  BY <1>1, <1>2

LEMMA YooAnswersPaymentKeeps ==
  ASSUME IInv, NEW g \in Goroutines, YooAnswersPayment(g)
  PROVE  IInv'
<1> DEFINE p == frame[g].payment
           status == payments[p].status
           f == [frame[g] EXCEPT
                  !.pc = "fetched",
                  !.answer = IF status = "unseen" THEN "pending" ELSE status]
<1>1. up /\ frame[g] \in Frame /\ p \in PaymentIDs /\ payments[p] # NoPayment
  BY Running DEF YooAnswersPayment, At, LocalsOK, KnownPayment
<1>2. payments[p] \in Payment
  BY <1>1 DEF IInv, TypeOK
<1>3. f \in Frame
  BY <1>1, <1>2 DEF Frame, Steps, Payment
<1>4. LocalsNext(f)
  BY <1>1, <1>2
     DEF LocalsNext, Frame, PaymentNext, SucceededNext, YooAnswersPayment, callVars
<1>5. \A q \in queue' : PaymentNext(q)
  BY DEF YooAnswersPayment, callVars, PaymentNext, IInv, NothingStoredIsFalse, KnownPayment
<1>6. Become(g, f)
  BY DEF YooAnswersPayment
<1>7. QED
  BY <1>1, <1>3, <1>4, <1>5, <1>6, QuietStep DEF YooAnswersPayment, callVars, IInv, TypeOK

LEMMA ReturnsKeep ==
  ASSUME IInv, NEW g \in Goroutines,
         YooDoesNotAnswer(g) \/ OrderNotFound(g) \/ AlreadyCredited(g)
  PROVE  IInv'
<1>1. badCalls' \in 0..MaxBadCalls
  BY DEF YooDoesNotAnswer, OrderNotFound, AlreadyCredited, CallFails, callVars, IInv, TypeOK
<1>2. QED
  BY <1>1, ReturnStep DEF YooDoesNotAnswer, OrderNotFound, AlreadyCredited, At, callVars

\* syncPayment finds the order the payment was made for, and no other.
LEMMA OrdersOfOne ==
  ASSUME IInv, NEW g \in Goroutines, At(g, "fetched"),
         NEW o \in OrdersOf(frame[g].payment)
  PROVE  /\ o \in OrderIDs /\ Exists(o)
         /\ frame[g].payment \in PaymentIDs
         /\ payments[frame[g].payment] # NoPayment
         /\ payments[frame[g].payment].order = o
         /\ orders[o] \in Order
         /\ RecordOK(o, orders[o])
<1> DEFINE p == frame[g].payment
<1>1. p \in PaymentIDs /\ payments[p] # NoPayment /\ payments[p] \in Payment
  BY Running DEF At, LocalsOK, KnownPayment, IInv, TypeOK
<1>2. o \in OrderIDs /\ Exists(o)
  BY <1>1 DEF OrdersOf, FindByPaymentID, Payment
<1>3. payments[p].order = o
  BY <1>1, <1>2, StoredPayment DEF OrdersOf, FindByPaymentID
<1>4. QED
  BY <1>1, <1>2, <1>3 DEF IInv, TypeOK, StoreTypeOK, NothingStoredIsFalse, Exists

LEMMA StoreUnpaidKeeps ==
  ASSUME IInv, NEW g \in Goroutines, StoreUnpaid(g)
  PROVE  IInv'
<1>1. PICK o \in OrdersOf(frame[g].payment) :
        Update(o, Unpaid(orders[o], frame[g].answer))
  BY DEF StoreUnpaid
<1> DEFINE r == Unpaid(orders[o], frame[g].answer)
<1>2. o \in OrderIDs /\ orders[o] \in Order /\ RecordOK(o, orders[o])
  BY OrdersOfOne DEF StoreUnpaid
<1>3. r \in Order
  BY <1>2 DEF Unpaid, Order, Statuses
<1>4. RecordNext(o, orders[o])
  BY <1>2, RecordStable DEF StoreUnpaid, callVars, Grows
<1>5. RecordNext(o, r)
  BY <1>2, <1>4 DEF RecordNext, Unpaid, Order, IsEpay
<1>6. QED
  BY <1>1, <1>2, <1>3, <1>5, UpdateStep DEF StoreUnpaid, At

LEMMA StartCreditKeeps ==
  ASSUME IInv, NEW g \in Goroutines, StartCredit(g)
  PROVE  IInv'
<1>1. PICK o \in OrdersOf(frame[g].payment) :
        Become(g, [frame[g] EXCEPT !.pc = "crediting", !.order = o])
  BY DEF StartCredit
<1> DEFINE f == [frame[g] EXCEPT !.pc = "crediting", !.order = o]
<1>2. /\ o \in OrderIDs /\ Exists(o) /\ up /\ frame[g] \in Frame
      /\ payments[frame[g].payment].order = o
  BY OrdersOfOne, Running DEF StartCredit, At
<1>3. Grows /\ OrdersStay
  BY DEF StartCredit, callVars, storeVars, Grows, OrdersStay, Exists
<1>4. LocalsNext(frame[g])
  BY <1>3, Running
<1>5. f \in Frame
  BY <1>2 DEF Frame, Steps
<1>6. LocalsNext(f)
  BY <1>2, <1>4
     DEF LocalsNext, Frame, PaymentNext, SucceededNext, OrderNext, Exists,
         StartCredit, At, callVars, storeVars
<1>7. \A q \in queue' : PaymentNext(q)
  BY DEF StartCredit, callVars, PaymentNext, IInv, NothingStoredIsFalse, KnownPayment
<1>8. QED
  BY <1>1, <1>2, <1>5, <1>6, <1>7, QuietStep DEF StartCredit, callVars, IInv, TypeOK

\* A credit is added to the ledger for an order whose payment succeeded.
LEMMA NewAPICreditsKeeps ==
  ASSUME IInv, NEW g \in Goroutines, NewAPICredits(g)
  PROVE  IInv'
<1> DEFINE o == frame[g].order
           p == frame[g].payment
           n == Len(ledger')
<1>1. /\ o \in OrderIDs /\ up /\ frame[g] \in Frame /\ frame[g].pc = "crediting"
      /\ p \in PaymentIDs /\ payments[p] # NoPayment
      /\ payments[p].order = o /\ payments[p].status = "succeeded"
  BY Running DEF NewAPICredits, At, LocalsOK, KnownOrder, Succeeded, KnownPayment
<1>2. /\ ledger' = Append(ledger, o) /\ ledger' \in Seq(OrderIDs)
      /\ n = Len(ledger) + 1 /\ n \in Nat /\ n \in DOMAIN ledger' /\ ledger'[n] = o
      /\ \A i \in DOMAIN ledger : i \in DOMAIN ledger' /\ ledger'[i] = ledger[i]
      /\ \A i \in DOMAIN ledger' : i = n \/ i \in DOMAIN ledger
  BY <1>1 DEF NewAPICredits, IInv, TypeOK
<1>3. Grows /\ OrdersStay
  BY <1>2 DEF NewAPICredits, storeVars, Grows, OrdersStay, Exists
<1>4. LocalsNext(frame[g])
  BY <1>3, Running
<1>5. PICK f \in Frame : Become(g, f) /\ LocalsNext(f)
  <2>1. CASE Become(g, [frame[g] EXCEPT !.pc = "credited", !.code = n])
    <3>1. [frame[g] EXCEPT !.pc = "credited", !.code = n] \in Frame
      BY <1>1, <1>2 DEF Frame, Steps
    <3>2. LocalsNext([frame[g] EXCEPT !.pc = "credited", !.code = n])
      BY <1>1, <1>2, <1>4 DEF LocalsNext, Frame, CreditsNext
    <3>3. QED
      BY <2>1, <3>1, <3>2
  <2>2. CASE Become(g, [frame[g] EXCEPT !.pc = "creditFailed"])
    <3>1. [frame[g] EXCEPT !.pc = "creditFailed"] \in Frame
      BY <1>1 DEF Frame, Steps
    <3>2. LocalsNext([frame[g] EXCEPT !.pc = "creditFailed"])
      BY <1>1, <1>4 DEF LocalsNext, Frame
    <3>3. QED
      BY <2>2, <3>1, <3>2
  <2>3. QED
    BY <2>1, <2>2 DEF NewAPICredits
<1>6. TypeOK'
  <2>1. badCalls' \in 0..MaxBadCalls
    BY DEF NewAPICredits, CallFails, IInv, TypeOK
  <2>2. QED
    BY <1>2, <1>5, <2>1, BecomeType
       DEF NewAPICredits, IInv, TypeOK, StoreTypeOK, storeVars
<1>7. RecordsNext
  BY <1>3, RecordsKept DEF NewAPICredits, storeVars
<1>8. CreditsArePaidFor'
  <2>1. payments' = payments /\ CreditsArePaidFor
    BY DEF NewAPICredits, IInv
  <2>2. payments[p] = [order |-> o, status |-> "succeeded"]
    BY <1>1 DEF IInv, TypeOK, Payment
  <2>3. QED
    BY <1>1, <1>2, <2>1, <2>2 DEF CreditsArePaidFor
<1>9. \A q \in queue' : PaymentNext(q)
  BY DEF NewAPICredits, PaymentNext, IInv, NothingStoredIsFalse, KnownPayment
<1>10. QED
  BY <1>1, <1>3, <1>5, <1>6, <1>7, <1>8, <1>9, StepOfOne DEF NewAPICredits

LEMMA NewAPIRefusesKeeps ==
  ASSUME IInv, NEW g \in Goroutines, NewAPIRefuses(g)
  PROVE  IInv'
<1> DEFINE f == [frame[g] EXCEPT !.pc = "creditFailed"]
<1>1. frame[g] \in Frame /\ LocalsOK(frame[g]) /\ up /\ frame[g].pc = "crediting"
  BY Running DEF NewAPIRefuses, At
<1>2. Grows /\ OrdersStay
  BY DEF NewAPIRefuses, Grows, OrdersStay, Exists, storeVars
<1>3. f \in Frame /\ LocalsNext(f)
  BY <1>1, <1>2, Running DEF Frame, Steps, LocalsNext
<1>4. badCalls' \in 0..MaxBadCalls
  BY DEF NewAPIRefuses, CallFails, IInv, TypeOK
<1>5. \A q \in queue' : PaymentNext(q)
  BY DEF NewAPIRefuses, PaymentNext, IInv, NothingStoredIsFalse, KnownPayment
<1>6. QED
  BY <1>1, <1>3, <1>4, <1>5, QuietStep DEF NewAPIRefuses, IInv, TypeOK

LEMMA StoreCreditKeeps ==
  ASSUME IInv, NEW g \in Goroutines, StoreCredit(g) \/ StoreCreditError(g)
  PROVE  IInv'
<1> DEFINE o == frame[g].order
<1>1. o \in OrderIDs /\ Exists(o) /\ frame[g] \in Frame /\ up
  BY Running DEF StoreCredit, StoreCreditError, At, LocalsOK, KnownOrder
<1>2. orders[o] \in Order /\ RecordOK(o, orders[o])
  BY <1>1 DEF IInv, TypeOK, StoreTypeOK, NothingStoredIsFalse, Exists
<1>3. RecordNext(o, orders[o])
  BY <1>1, <1>2, RecordStable DEF StoreCredit, StoreCreditError, callVars, Grows
<1>4. CASE StoreCredit(g)
  <2> DEFINE r == Credited(orders[o], frame[g].code)
  <2>1. frame[g].code \in CreditsNext(o) /\ frame[g].code # NoCode
    BY <1>4, Running
       DEF StoreCredit, At, LocalsOK, Credits, CreditsNext, callVars, NoCode, IInv, TypeOK
  <2>2. r \in Order
    BY <1>1, <1>2 DEF Credited, Order, Statuses, Frame
  <2>3. RecordNext(o, r)
    BY <1>2, <1>3, <2>1 DEF RecordNext, Credited, Order, IsEpay
  <2>4. QED
    BY <1>1, <1>4, <2>2, <2>3, UpdateStep DEF StoreCredit
<1>5. CASE StoreCreditError(g)
  <2> DEFINE r == [orders[o] EXCEPT !.error = TRUE]
  <2>1. r \in Order
    BY <1>2 DEF Order
  <2>2. RecordNext(o, r)
    BY <1>2, <1>3 DEF RecordNext, Order, IsEpay
  <2>3. QED
    BY <1>1, <1>5, <2>1, <2>2, UpdateStep DEF StoreCreditError
<1>6. QED
  BY <1>4, <1>5

-----------------------------------------------------------------------------
(* The customer, and the process. *)

LEMMA PaymentMoves ==
  ASSUME IInv, NEW p \in PaymentIDs, CustomerPays(p) \/ PaymentExpires(p)
  PROVE  IInv'
<1>1. PICK status \in {"succeeded", "canceled"} :
        payments' = [payments EXCEPT ![p] = [payments[p] EXCEPT !.status = status]]
  BY DEF CustomerPays, PaymentExpires
<1>2. /\ payments[p] \in Payment /\ payments[p] # NoPayment
      /\ payments[p].status # "succeeded"
  BY DEF CustomerPays, PaymentExpires, IInv, TypeOK
<1>3. [payments[p] EXCEPT !.status = status] \in Payment
  BY <1>2 DEF Payment
<1>4. payments' \in [PaymentIDs -> Payment \cup {NoPayment}]
  BY <1>1, <1>3 DEF IInv, TypeOK
<1>5. UNCHANGED <<storeVars, up, frame, queue, usedIDs, ledger, badCalls, overlapped,
                  requests, crashes>>
  BY DEF CustomerPays, PaymentExpires
<1>6. Grows /\ OrdersStay
  BY <1>1, <1>2, <1>3, <1>5 DEF Grows, OrdersStay, Exists, storeVars, IInv, TypeOK, Payment
<1>7. TypeOK'
  BY <1>4, <1>5 DEF IInv, TypeOK, StoreTypeOK, storeVars
<1>8. RecordsNext
  BY <1>5, <1>6, RecordsKept DEF storeVars
<1>9. CreditsArePaidFor'
  BY <1>4, <1>5, <1>6, CreditsStable
<1>10. \A q \in queue' : PaymentNext(q)
  BY <1>5, <1>6 DEF Grows, PaymentNext, IInv, NothingStoredIsFalse, KnownPayment
<1>11. \A x \in Goroutines : LocalsNext(frame'[x])
  BY <1>5, <1>6, Running
<1>12. QED
  BY <1>5, <1>7, <1>8, <1>9, <1>10, <1>11, Conclude DEF IInv, NothingStoredIsFalse

LEMMA CrashKeeps ==
  ASSUME IInv, Crash
  PROVE  IInv'
<1>1. Grows
  BY DEF Crash, callVars, Grows
<1>2. /\ orders' = NoOrders
      /\ \A o \in OrderIDs : dataFile'[o] \in {NoOrder, dataFile[o]}
      /\ dataFile' \in {NoOrders, dataFile} /\ UNCHANGED badSaves
  BY DEF Crash, LoseMemory, Torn, NoOrders
<1>3. readable' \in BOOLEAN
  BY DEF Crash, LoseMemory, Torn, IInv, TypeOK, StoreTypeOK
<1>4. TypeOK'
  <2>1. StoreTypeOK'
    BY <1>2, <1>3 DEF NoOrders, IInv, TypeOK, StoreTypeOK
  <2>2. crashes' \in 0..MaxCrashes
    BY DEF Crash, IInv, TypeOK
  <2>3. frame' \in [Goroutines -> Frame]
    BY IdleType DEF Crash
  <2>4. QED
    BY <2>1, <2>2, <2>3 DEF Crash, callVars, IInv, TypeOK
<1>5. RecordsNext
  BY <1>1, <1>2, RecordsKept DEF NoOrders
<1>6. CreditsArePaidFor'
  BY DEF Crash, callVars, IInv, CreditsArePaidFor
<1>7. \A g \in Goroutines : frame'[g] = IdleFrame
  BY DEF Crash
<1>8. \A g \in Goroutines : LocalsNext(frame'[g]) /\ frame'[g].pc = "idle"
  BY <1>7 DEF LocalsNext, IdleFrame
<1>9. QED
  BY <1>4, <1>5, <1>6, <1>8, Conclude DEF Crash

LEMMA RestartKeeps ==
  ASSUME IInv, Restart
  PROVE  IInv'
<1>1. Grows
  BY DEF Restart, callVars, Grows
<1>2. orders' = dataFile /\ UNCHANGED <<dataFile, readable, badSaves>>
  BY DEF Restart, Load
<1>3. RecordsNext
  BY <1>1, <1>2, RecordsKept
<1>4. TypeOK'
  BY <1>2 DEF Restart, callVars, IInv, TypeOK, StoreTypeOK
<1>5. CreditsArePaidFor'
  BY DEF Restart, callVars, IInv, CreditsArePaidFor
<1>6. \A p \in queue' : PaymentNext(p)
  BY DEF Restart, callVars, PaymentNext, IInv, NothingStoredIsFalse, KnownPayment
<1>7. ASSUME NEW g \in Goroutines PROVE LocalsNext(frame'[g])
  <2>1. frame'[g] = frame[g] /\ frame[g].pc = "idle" /\ LocalsOK(frame[g])
    BY DEF Restart, IInv, NothingStoredIsFalse
  <2>2. QED
    BY <2>1, <1>1
       DEF LocalsNext, LocalsOK, Succeeded, SucceededNext, KnownPayment, PaymentNext, Grows
<1>8. QED
  BY <1>3, <1>4, <1>5, <1>6, <1>7, Conclude DEF Restart

-----------------------------------------------------------------------------
(* The theorems. *)

LEMMA Initially == Init => IInv
<1> SUFFICES ASSUME Init PROVE IInv
  OBVIOUS
<1>1. TypeOK
  BY IdleType DEF Init, StoreInit, TypeOK, StoreTypeOK, NoOrders
<1>2. CreditsArePaidFor
  BY DEF Init, CreditsArePaidFor
<1>3. \A g \in Goroutines : LocalsOK(frame[g]) /\ frame[g].pc = "idle"
  BY DEF Init, LocalsOK, IdleFrame
<1>4. QED
  BY <1>1, <1>2, <1>3 DEF Init, StoreInit, NoOrders, IInv, NothingStoredIsFalse

LEMMA Inductive == IInv /\ [Next]_vars => IInv'
<1> SUFFICES ASSUME IInv, [Next]_vars PROVE IInv'
  OBVIOUS
<1>1. ASSUME NEW h \in Handlers, HandlerStep(h) PROVE IInv'
  BY <1>1, CreateOrderKeeps, YooCreatesPaymentKeeps, YooRefusesPaymentKeeps,
     StorePaymentKeeps, StoreCreateErrorKeeps, RequestKeeps
     DEF HandlerStep, createPayment, epaySubmit
<1>2. ASSUME NEW g \in Goroutines, SyncStep(g) PROVE IInv'
  BY <1>2, YooAnswersPaymentKeeps, ReturnsKeep, StoreUnpaidKeeps, StartCreditKeeps,
     NewAPICreditsKeeps, NewAPIRefusesKeeps, StoreCreditKeeps
     DEF SyncStep
<1>3. CASE UNCHANGED vars
  <2>1. Grows /\ OrdersStay
    BY <1>3 DEF vars, storeVars, callVars, Grows, OrdersStay, Exists
  <2>2. TypeOK' /\ CreditsArePaidFor'
    BY <1>3
       DEF vars, storeVars, callVars, IInv, TypeOK, StoreTypeOK, CreditsArePaidFor
  <2>3. RecordsNext
    BY <1>3, <2>1, RecordsKept DEF vars, storeVars
  <2>4. \A x \in Goroutines : LocalsNext(frame'[x])
    BY <1>3, <2>1, Running DEF vars
  <2>5. \A p \in queue' : PaymentNext(p)
    BY <1>3 DEF vars, callVars, PaymentNext, IInv, NothingStoredIsFalse, KnownPayment
  <2>6. QED
    BY <1>3, <2>2, <2>3, <2>4, <2>5, Conclude DEF vars, IInv, NothingStoredIsFalse
<1>4. QED
  BY <1>1, <1>2, <1>3, ReconcileKeeps, PaymentMoves, CrashKeeps, RestartKeeps DEF Next

LEMMA Invariance == Spec => []IInv
<1>1. QED
  BY Initially, Inductive, PTL DEF Spec

\* The bridge's variables always have their types.
THEOREM TypeCorrect == Spec => []TypeOK
<1>1. IInv => TypeOK
  BY DEF IInv
<1>2. QED
  BY <1>1, Invariance, PTL

\* Whatever the schedule, the failures and the crashes, a credit was given only
\* for an order whose payment YooKassa reported as succeeded.
THEOREM OnlyPaidOrdersAreCredited == Spec => []CreditsArePaidFor
<1>1. IInv => CreditsArePaidFor
  BY DEF IInv
<1>2. QED
  BY <1>1, Invariance, PTL

\* What goroutines hold in their local variables and what the store and the
\* file say of an order is true in every reachable state.
THEOREM StoreIsTruthful == Spec => []NothingStoredIsFalse
<1>1. IInv => NothingStoredIsFalse
  BY DEF IInv
<1>2. QED
  BY <1>1, Invariance, PTL

\* A code shown for an order was issued for it, in memory and on disk.
THEOREM NoForeignCode == Spec => []ReceiptsAreGenuine
<1>1. IInv => ReceiptsAreGenuine
  BY DEF IInv, NothingStoredIsFalse, ReceiptsAreGenuine, RecordOK, Exists
<1>2. QED
  BY <1>1, Invariance, PTL

\* An order reported as succeeded has its receipt.
THEOREM SucceededMeansReceipt == Spec => []SucceededOrdersHaveReceipts
<1>1. IInv => SucceededOrdersHaveReceipts
  BY DEF IInv, NothingStoredIsFalse, SucceededOrdersHaveReceipts, RecordOK, Exists
<1>2. QED
  BY <1>1, Invariance, PTL
=============================================================================
