---------------------- MODULE PaymentSettlement_proofs ----------------------
(***************************************************************************)
(* More about PaymentBridge, on top of PaymentBridge_proofs: that updates  *)
(* lose nothing, that orders with a receipt are settled, that an order is  *)
(* credited once unless something went wrong, and that the bridge          *)
(* implements CreditLedger.                                                *)
(*                                                                         *)
(* All but the last rest on who works on an order: one handler creates its *)
(* only payment (Creators, OnePayment), and as long as no two goroutines   *)
(* have synced a payment at a time, one is between the answer of YooKassa  *)
(* and the update of the order (SyncedAlone), so that what it credits is   *)
(* the first code of the order (CreditsAreFirst).                          *)
(***************************************************************************)
EXTENDS PaymentBridge_proofs

USE StoreAssumption, BridgeAssumption DEF StoreAssumption, BridgeAssumption

\* The handler that draws an order's id creates its payment, and is the only one.
Creating(g) == frame[g].pc \in {"creating", "created", "createFailed"}

Creators ==
  /\ \A g \in Goroutines : Creating(g) => frame[g].order \in usedIDs
  /\ \A g, h \in Goroutines :
       Creating(g) /\ Creating(h) /\ frame[g].order = frame[h].order => g = h

PaymentsOf(o) == {p \in PaymentIDs : payments[p] # NoPayment /\ payments[p].order = o}

\* An order has at most one payment, which nobody can pay before the handler that
\* created it has answered.
OnePayment ==
  /\ \A o \in OrderIDs : \A p, q \in PaymentsOf(o) : p = q
  /\ \A o \in OrderIDs \ usedIDs : PaymentsOf(o) = {}
  /\ \A g \in Goroutines : frame[g].pc = "creating" => PaymentsOf(frame[g].order) = {}
  /\ \A g \in Goroutines : Creating(g) =>
       \A p \in PaymentsOf(frame[g].order) : payments[p].status \in {"unseen", "canceled"}

\* Payments that were never synced twice at a time are synced by one goroutine.
SyncedAlone ==
  /\ \A p \in overlapped : payments[p] # NoPayment
  /\ \A p \in PaymentIDs \ overlapped : \A g, h \in Goroutines :
       InSync(g, p) /\ InSync(h, p) => g = h

HasReceipt(order) == order.code # NoCode \/ order.notified

Overlapped(o) == \E p \in overlapped : payments[p].order = o

\* An order with its receipt is settled, in memory and on disk, and a goroutine that
\* syncs it alone has not been told anything older.
Settles ==
  /\ \A o \in OrderIDs :
       /\ Exists(o) /\ HasReceipt(orders[o]) => orders[o].status = "succeeded" \/ Overlapped(o)
       /\ dataFile[o] # NoOrder /\ HasReceipt(dataFile[o]) =>
            dataFile[o].status = "succeeded" \/ Overlapped(o)
  /\ \A g \in Goroutines :
       LET o == payments[frame[g].payment].order
       IN  /\ frame[g].pc = "fetched"
           /\ frame[g].payment \notin overlapped
           /\ Exists(o) /\ HasReceipt(orders[o])
           => frame[g].answer = "succeeded"

\* While no call has failed and the process has not died, an order that was credited
\* has its receipt or is about to get it, and none is credited again.
CreditedOnce ==
  badCalls = 0 /\ crashes = 0 =>
    /\ up
    /\ \A p \in PaymentIDs \ overlapped : payments[p] # NoPayment =>
         LET o == payments[p].order
         IN  /\ \A i, j \in Credits(o) : i = j
             /\ \/ Credits(o) = {}
                \/ Exists(o) /\ HasReceipt(orders[o])
                \/ \E g \in Goroutines : frame[g].pc = "credited" /\ frame[g].payment = p
             /\ \A g \in Goroutines :
                  frame[g].pc = "crediting" /\ frame[g].payment = p => Credits(o) = {}

Settlement == IInv /\ Creators /\ OnePayment /\ SyncedAlone /\ Settles

-----------------------------------------------------------------------------
(* How a step changes the store.                                           *)

\* The updates of an order, and who makes them.
Alters(g, o, r) ==
  /\ r.trade = orders[o].trade
  /\ \/ /\ StorePayment(g)
        /\ frame[g].order = o
        /\ r.payment = frame[g].payment /\ r.payment # NoPayment
        /\ r.status = orders[o].status
        /\ r.code = orders[o].code /\ r.notified = orders[o].notified
     \/ /\ r.payment = orders[o].payment
        /\ r.code = orders[o].code /\ r.notified = orders[o].notified
        /\ \/ StoreCreateError(g) /\ frame[g].order = o
           \/ StoreUnpaid(g) /\ payments[frame[g].payment].order = o
           \/ StoreCreditError(g) /\ r.status = orders[o].status
     \/ /\ r.payment = orders[o].payment
        /\ StoreCredit(g)
        /\ frame[g].order = o
        /\ r.status = "succeeded" /\ HasReceipt(r)
        /\ orders[o].code # NoCode => r.code # NoCode
        /\ orders[o].notified => r.notified

Updates(g) ==
  \/ StorePayment(g) \/ StoreCreateError(g)
  \/ StoreUnpaid(g) \/ StoreCredit(g) \/ StoreCreditError(g)

LEMMA FieldsOf ==
  ASSUME NEW r \in Order
  PROVE  /\ r.code \in Nat /\ r.notified \in BOOLEAN /\ r.status \in Statuses
         /\ \A p \in PaymentIDs : /\ WithPayment(r, p) \in Order
                                  /\ WithPayment(r, p).payment = p
                                  /\ WithPayment(r, p).trade = r.trade
                                  /\ WithPayment(r, p).status = r.status
                                  /\ WithPayment(r, p).code = r.code
                                  /\ WithPayment(r, p).notified = r.notified
BY DEF Order, WithPayment

LEMMA PaymentAlters ==
  ASSUME IInv, NEW g \in Handlers, StorePayment(g)
  PROVE  \E o \in OrderIDs, r \in Order :
           Exists(o) /\ Write(o, r) /\ Return(g) /\ Alters(g, o, r)
<1>. DEFINE o == frame[g].order
            p == frame[g].payment
            r == WithPayment(orders[o], p)
<1>1. /\ o \in OrderIDs /\ Exists(o) /\ p \in PaymentIDs /\ p # NoPayment
  BY HandlersRun, Running DEF StorePayment, At, LocalsOK, KnownOrder, KnownPayment
<1>2. orders[o] \in Order
  BY <1>1 DEF IInv, TypeOK, StoreTypeOK, Exists
<1>3. /\ r \in Order /\ r.payment = p /\ r.trade = orders[o].trade
      /\ r.status = orders[o].status
      /\ r.code = orders[o].code /\ r.notified = orders[o].notified
  BY <1>1, <1>2, FieldsOf
<1>4. Write(o, r) /\ Return(g)
  BY DEF StorePayment, UpdateSaved, UpdateUnsaved, Write
<1>5. HIDE DEF r
<1>6. Alters(g, o, r)
  BY <1>1, <1>3 DEF Alters
<1>7. QED
  BY <1>1, <1>3, <1>4, <1>6

LEMMA CreateErrorAlters ==
  ASSUME IInv, NEW g \in Handlers, StoreCreateError(g)
  PROVE  \E o \in OrderIDs, r \in Order :
           Exists(o) /\ Write(o, r) /\ Return(g) /\ Alters(g, o, r)
<1>. DEFINE o == frame[g].order
            r == AsFailed(orders[o])
<1>1. o \in OrderIDs /\ Exists(o)
  BY HandlersRun, Running DEF StoreCreateError, At, LocalsOK, KnownOrder
<1>2. orders[o] \in Order
  BY <1>1 DEF IInv, TypeOK, StoreTypeOK, Exists
<1>3. /\ r \in Order /\ r.payment = orders[o].payment /\ r.trade = orders[o].trade
      /\ r.code = orders[o].code /\ r.notified = orders[o].notified
  BY <1>2 DEF AsFailed, Order, Statuses
<1>4. Update(o, r) /\ Return(g)
  BY DEF StoreCreateError
<1>5. HIDE DEF r
<1>6. Write(o, r)
  BY <1>1, <1>3, <1>4, UpdateWrites
<1>7. Alters(g, o, r)
  BY <1>3 DEF Alters
<1>8. QED
  BY <1>1, <1>3, <1>4, <1>6, <1>7

LEMMA UnpaidAlters ==
  ASSUME IInv, NEW g \in Goroutines, StoreUnpaid(g)
  PROVE  \E o \in OrderIDs, r \in Order :
           Exists(o) /\ Write(o, r) /\ Return(g) /\ Alters(g, o, r)
<1>1. PICK o \in OrdersOf(frame[g].payment) :
        Update(o, Unpaid(orders[o], frame[g].answer))
  BY DEF StoreUnpaid
<1>2. /\ o \in OrderIDs /\ Exists(o) /\ orders[o] \in Order
      /\ payments[frame[g].payment].order = o
  BY OrdersOfOne DEF StoreUnpaid
<1>. DEFINE r == Unpaid(orders[o], frame[g].answer)
<1>3. /\ r \in Order /\ r.payment = orders[o].payment /\ r.trade = orders[o].trade
      /\ r.code = orders[o].code /\ r.notified = orders[o].notified
  BY <1>2 DEF Unpaid, Order, Statuses
<1>4. Update(o, r) /\ Return(g)
  BY <1>1 DEF StoreUnpaid
<1>5. HIDE DEF r
<1>6. Write(o, r)
  BY <1>2, <1>3, <1>4, UpdateWrites
<1>7. Alters(g, o, r)
  BY <1>2, <1>3 DEF Alters
<1>8. QED
  BY <1>2, <1>3, <1>4, <1>6, <1>7

LEMMA CreditErrorAlters ==
  ASSUME IInv, NEW g \in Goroutines, StoreCreditError(g)
  PROVE  \E o \in OrderIDs, r \in Order :
           Exists(o) /\ Write(o, r) /\ Return(g) /\ Alters(g, o, r)
<1>. DEFINE o == frame[g].order
            r == [orders[o] EXCEPT !.error = TRUE]
<1>1. o \in OrderIDs /\ Exists(o)
  BY Running DEF StoreCreditError, At, LocalsOK, KnownOrder
<1>2. orders[o] \in Order
  BY <1>1 DEF IInv, TypeOK, StoreTypeOK, Exists
<1>3. /\ r \in Order /\ r.payment = orders[o].payment /\ r.trade = orders[o].trade
      /\ r.code = orders[o].code /\ r.notified = orders[o].notified
      /\ r.status = orders[o].status
  BY <1>2 DEF Order
<1>4. Update(o, r) /\ Return(g)
  BY DEF StoreCreditError
<1>5. HIDE DEF r
<1>6. Write(o, r)
  BY <1>1, <1>3, <1>4, UpdateWrites
<1>7. Alters(g, o, r)
  BY <1>3 DEF Alters
<1>8. QED
  BY <1>1, <1>3, <1>4, <1>6, <1>7

LEMMA CreditAlters ==
  ASSUME IInv, NEW g \in Goroutines, StoreCredit(g)
  PROVE  \E o \in OrderIDs, r \in Order :
           Exists(o) /\ Write(o, r) /\ Return(g) /\ Alters(g, o, r)
<1>. DEFINE o == frame[g].order
            code == frame[g].code
            r == Credited(orders[o], code)
<1>1. o \in OrderIDs /\ Exists(o) /\ code \in Nat /\ code # NoCode
  BY Running
     DEF StoreCredit, At, LocalsOK, KnownOrder, Credits, NoCode, Frame, IInv, TypeOK
<1>2. orders[o] \in Order
  BY <1>1 DEF IInv, TypeOK, StoreTypeOK, Exists
<1>3. /\ r \in Order /\ r.payment = orders[o].payment /\ r.trade = orders[o].trade
      /\ r.status = "succeeded" /\ (r.code # NoCode \/ r.notified)
      /\ orders[o].code # NoCode => r.code # NoCode
      /\ orders[o].notified => r.notified
  BY <1>1, <1>2 DEF Credited, Order, Statuses
<1>4. Update(o, r) /\ Return(g)
  BY DEF StoreCredit
<1>5. HIDE DEF r
<1>6. Write(o, r)
  BY <1>1, <1>3, <1>4, UpdateWrites
<1>7. Alters(g, o, r)
  BY <1>3 DEF Alters, HasReceipt
<1>8. QED
  BY <1>1, <1>3, <1>4, <1>6, <1>7

LEMMA UpdateAlters ==
  ASSUME IInv, NEW g \in Goroutines, Updates(g),
         StorePayment(g) \/ StoreCreateError(g) => g \in Handlers
  PROVE  \E o \in OrderIDs, r \in Order :
           Exists(o) /\ Write(o, r) /\ Return(g) /\ Alters(g, o, r)
BY PaymentAlters, CreateErrorAlters, UnpaidAlters, CreditAlters, CreditErrorAlters
   DEF Updates

\* A handler's order is created under an id that was not used.
LEMMA CreateShape ==
  ASSUME IInv, NEW h \in Handlers, NEW t \in TradeNos \cup {NoTrade}, CreateOrder(h, t)
  PROVE  \E o \in OrderIDs \ usedIDs, f \in Frame :
           /\ usedIDs' = usedIDs \cup {o}
           /\ ~Exists(o) /\ NewOrder(t) \in Order /\ Write(o, NewOrder(t))
           /\ Become(h, f)
           /\ f = IdleFrame \/ (f.pc = "creating" /\ f.order = o)
           /\ UNCHANGED <<up, queue, callVars, overlapped, crashes>>
<1>1. PICK o \in OrderIDs \ usedIDs :
        /\ usedIDs' = usedIDs \cup {o}
        /\ \/ /\ CreateSaved(o, NewOrder(t))
              /\ Become(h, [IdleFrame EXCEPT !.pc = "creating", !.order = o])
           \/ /\ CreateUnsaved(o, NewOrder(t))
              /\ Return(h)
  BY DEF CreateOrder
<1>2. ~Exists(o) /\ Write(o, NewOrder(t))
  BY <1>1 DEF CreateSaved, CreateUnsaved, Write
<1>3. NewOrder(t) \in Order
  BY DEF NewOrder, Order, Statuses, NoCode
<1>4. PICK f \in Frame : Become(h, f) /\ (f = IdleFrame \/ (f.pc = "creating" /\ f.order = o))
  <2>1. /\ [IdleFrame EXCEPT !.pc = "creating", !.order = o] \in Frame
        /\ [IdleFrame EXCEPT !.pc = "creating", !.order = o].pc = "creating"
        /\ [IdleFrame EXCEPT !.pc = "creating", !.order = o].order = o
    BY IdleType DEF Frame, Steps
  <2>2. QED
    BY <1>1, <2>1, IdleType DEF Return
<1>5. UNCHANGED <<up, queue, callVars, overlapped, crashes>>
  BY DEF CreateOrder
<1>6. QED
  BY <1>1, <1>2, <1>3, <1>4, <1>5

Fetched == {"fetched", "crediting", "credited", "creditFailed"}

\* A goroutine that syncs a payment goes on with it, or is done.
LEMMA SyncShape ==
  ASSUME IInv, NEW g \in Goroutines, SyncStep(g)
  PROVE  /\ \E f \in Frame :
              /\ Become(g, f)
              /\ \/ f = IdleFrame
                 \/ /\ f.pc \in Fetched
                    /\ f.payment = frame[g].payment
                    /\ frame[g].pc \in Fetched \cup {"fetching"}
              /\ f.pc = "fetched" =>
                   /\ frame[g].pc = "fetching"
                   /\ payments[f.payment].status = "succeeded" => f.answer = "succeeded"
         /\ UNCHANGED <<up, queue, usedIDs, payments, overlapped, requests, crashes>>
<1>1. frame[g] \in Frame
  BY Running
<1>2. \A pc \in Fetched :
        /\ [frame[g] EXCEPT !.pc = pc] \in Frame
        /\ [frame[g] EXCEPT !.pc = pc].pc = pc
        /\ [frame[g] EXCEPT !.pc = pc].payment = frame[g].payment
  BY <1>1 DEF Frame, Steps, Fetched
<1>. IdleFrame.pc # "fetched"
  BY DEF IdleFrame
<1>3. CASE YooAnswersPayment(g)
  <2>. DEFINE status == payments[frame[g].payment].status
              said == IF status = "unseen" THEN "pending" ELSE status
              f == [frame[g] EXCEPT !.pc = "fetched", !.answer = said]
  <2>1. frame[g].pc = "fetching" /\ Become(g, f)
    BY <1>3 DEF YooAnswersPayment, At
  <2>2. said \in {"pending", "succeeded", "canceled"}
    BY <2>1, Running DEF LocalsOK, KnownPayment, IInv, TypeOK, Payment
  <2>. payments[frame[g].payment].status = "succeeded" => said = "succeeded"
    OBVIOUS
  <2>3. HIDE DEF said
  <2>4. /\ f \in Frame /\ f.pc = "fetched" /\ f.payment = frame[g].payment
        /\ f.answer = said
    BY <1>1, <2>2 DEF Frame, Steps
  <2>5. QED
    BY <1>3, <2>1, <2>4 DEF YooAnswersPayment, callVars, Fetched
<1>4. CASE YooDoesNotAnswer(g) \/ OrderNotFound(g) \/ AlreadyCredited(g)
  BY <1>4, IdleType DEF YooDoesNotAnswer, OrderNotFound, AlreadyCredited, Return, callVars
<1>5. CASE StoreUnpaid(g) \/ StoreCredit(g) \/ StoreCreditError(g)
  BY <1>5, IdleType DEF StoreUnpaid, StoreCredit, StoreCreditError, Return, callVars
<1>6. CASE StartCredit(g)
  <2>1. PICK o \in OrdersOf(frame[g].payment) :
          Become(g, [frame[g] EXCEPT !.pc = "crediting", !.order = o])
    BY <1>6 DEF StartCredit
  <2>2. o \in OrderIDs /\ frame[g].pc = "fetched"
    BY <1>6, OrdersOfOne DEF StartCredit, At
  <2>. DEFINE f == [frame[g] EXCEPT !.pc = "crediting", !.order = o]
  <2>3. f \in Frame /\ f.pc = "crediting" /\ f.payment = frame[g].payment
    BY <1>1, <2>2 DEF Frame, Steps
  <2>4. QED
    BY <1>6, <2>1, <2>2, <2>3 DEF StartCredit, callVars, Fetched
<1>7. CASE NewAPICredits(g)
  <2>1. frame[g].pc = "crediting"
    BY <1>7 DEF NewAPICredits, At
  <2>2. CASE Become(g, [frame[g] EXCEPT !.pc = "creditFailed"])
    BY <1>2, <1>7, <2>1, <2>2 DEF NewAPICredits, Fetched
  <2>3. CASE Become(g, [frame[g] EXCEPT !.pc = "credited", !.code = Len(ledger')])
    <3>. DEFINE n == Len(ledger')
                f == [frame[g] EXCEPT !.pc = "credited", !.code = n]
    <3>1. frame[g].order \in OrderIDs
      BY <2>1, Running DEF LocalsOK, KnownOrder
    <3>2. n \in Nat
      BY <1>7, <3>1 DEF NewAPICredits, IInv, TypeOK
    <3>3. HIDE DEF n
    <3>4. f \in Frame /\ f.pc = "credited" /\ f.payment = frame[g].payment
      BY <1>1, <3>2 DEF Frame, Steps
    <3>5. QED
      BY <1>7, <2>1, <2>3, <3>4 DEF NewAPICredits, Fetched, n
  <2>4. QED
    BY <1>7, <2>2, <2>3 DEF NewAPICredits
<1>8. CASE NewAPIRefuses(g)
  BY <1>2, <1>8 DEF NewAPIRefuses, At, Fetched
<1>9. QED
  BY <1>3, <1>4, <1>5, <1>6, <1>7, <1>8 DEF SyncStep

\* A sync starts in a goroutine that had nothing to do.
LEMMA StartShape ==
  ASSUME IInv,
         \/ \E h \in Handlers : yooWebhook(h) \/ getOrder(h) \/ epayReturn(h)
         \/ ReconcileNext
  PROVE  /\ \E g \in Goroutines, p \in PaymentIDs, f \in Frame :
              /\ payments[p] # NoPayment
              /\ Become(g, f) /\ f.pc = "fetching" /\ f.payment = p
              /\ frame[g].pc = "idle"
              /\ overlapped' = IF \E other \in Goroutines : InSync(other, p)
                                 THEN overlapped \cup {p} ELSE overlapped
         /\ UNCHANGED <<storeVars, up, usedIDs, callVars, crashes>>
<1>1. PICK g \in Goroutines, p \in PaymentIDs : payments[p] # NoPayment /\ syncPayment(g, p)
  <2>1. CASE ReconcileNext
    BY <2>1 DEF ReconcileNext, Goroutines, IInv, NothingStoredIsFalse, KnownPayment
  <2>2. ASSUME NEW h \in Handlers, yooWebhook(h) \/ getOrder(h) \/ epayReturn(h)
        PROVE  \E p \in PaymentIDs : payments[p] # NoPayment /\ syncPayment(h, p)
    BY <2>2, StoredPayment DEF yooWebhook, getOrder, epayReturn, FindByTradeNo
  <2>3. QED
    BY <2>1, <2>2, HandlersRun
<1>. DEFINE f == [IdleFrame EXCEPT !.pc = "fetching", !.payment = p]
<1>2. f \in Frame /\ f.pc = "fetching" /\ f.payment = p
  BY IdleType DEF Frame, Steps
<1>3. UNCHANGED <<storeVars, up, usedIDs, callVars, crashes>>
  BY DEF yooWebhook, getOrder, epayReturn, ReconcileNext
<1>4. QED
  BY <1>1, <1>2, <1>3 DEF syncPayment, At

-----------------------------------------------------------------------------
(* The file.                                                               *)

Starts ==
  \/ \E h \in Handlers : yooWebhook(h) \/ getOrder(h) \/ epayReturn(h)
  \/ ReconcileNext

\* The steps, by what they do to the store and to the goroutines.
LEMMA StepKinds ==
  ASSUME [Next]_vars
  PROVE  \/ \E h \in Handlers, t \in TradeNos \cup {NoTrade} : CreateOrder(h, t)
         \/ \E h \in Handlers : YooCreatesPayment(h) \/ YooRefusesPayment(h)
         \/ \E g \in Goroutines :
              Updates(g) /\ (StorePayment(g) \/ StoreCreateError(g) => g \in Handlers)
         \/ Starts
         \/ \E g \in Goroutines : SyncStep(g) /\ ~Updates(g)
         \/ reconcilePending
         \/ \E p \in PaymentIDs : CustomerPays(p) \/ PaymentExpires(p)
         \/ Crash \/ Restart
         \/ UNCHANGED vars
<1>1. ASSUME NEW h \in Handlers, HandlerStep(h)
      PROVE  \/ \E t \in TradeNos \cup {NoTrade} : CreateOrder(h, t)
             \/ YooCreatesPayment(h) \/ YooRefusesPayment(h)
             \/ StorePayment(h) \/ StoreCreateError(h)
             \/ yooWebhook(h) \/ getOrder(h) \/ epayReturn(h)
  BY <1>1, Zenon DEF HandlerStep, createPayment, epaySubmit
<1>2. ASSUME NEW g \in Goroutines, SyncStep(g)
      PROVE  \/ StoreUnpaid(g) \/ StoreCredit(g) \/ StoreCreditError(g)
             \/ SyncStep(g) /\ ~Updates(g)
             \/ StorePayment(g) \/ StoreCreateError(g)
  BY <1>2, Zenon DEF Updates
<1>3. ASSUME NEW g \in Goroutines, SyncStep(g)
      PROVE  ~StorePayment(g) /\ ~StoreCreateError(g)
  BY <1>3
     DEF SyncStep, StorePayment, StoreCreateError, At, YooAnswersPayment, YooDoesNotAnswer,
         OrderNotFound, StoreUnpaid, AlreadyCredited, StartCredit, NewAPICredits,
         NewAPIRefuses, StoreCredit, StoreCreditError
<1>4. QED
  BY <1>1, <1>2, <1>3, HandlersRun, Zenon DEF Next, Starts, Updates

\* A step writes one order, or leaves the store alone, or is a crash or a restart.
LEMMA StoreSteps ==
  ASSUME IInv, [Next]_vars
  PROVE  \/ UNCHANGED <<storeVars, up>>
         \/ UNCHANGED up /\ \E o \in OrderIDs, r \in Order : Write(o, r)
         \/ Crash
         \/ Restart
<1>1. ASSUME NEW h \in Handlers, NEW t \in TradeNos \cup {NoTrade}, CreateOrder(h, t)
      PROVE  UNCHANGED up /\ \E o \in OrderIDs, r \in Order : Write(o, r)
  BY <1>1, CreateShape
<1>2. ASSUME NEW g \in Goroutines, Updates(g),
             StorePayment(g) \/ StoreCreateError(g) => g \in Handlers
      PROVE  UNCHANGED up /\ \E o \in OrderIDs, r \in Order : Write(o, r)
  <2>1. UNCHANGED up
    BY <1>2 DEF Updates, StorePayment, StoreCreateError, StoreUnpaid, StoreCredit,
                StoreCreditError
  <2>2. QED
    BY <1>2, <2>1, UpdateAlters
<1>3. ASSUME NEW g \in Goroutines, SyncStep(g), ~Updates(g)
      PROVE  UNCHANGED <<storeVars, up>>
  BY <1>3 DEF SyncStep, Updates, YooAnswersPayment, YooDoesNotAnswer, OrderNotFound,
              AlreadyCredited, StartCredit, NewAPICredits, NewAPIRefuses
<1>4. ASSUME \/ \E h \in Handlers : YooCreatesPayment(h) \/ YooRefusesPayment(h)
             \/ Starts \/ reconcilePending
             \/ \E p \in PaymentIDs : CustomerPays(p) \/ PaymentExpires(p)
             \/ UNCHANGED vars
      PROVE  UNCHANGED <<storeVars, up>>
  BY <1>4 DEF YooCreatesPayment, YooRefusesPayment, Starts, yooWebhook, getOrder, epayReturn,
              ReconcileNext, reconcilePending, CustomerPays, PaymentExpires, vars
<1>5. QED
  BY <1>1, <1>2, <1>3, <1>4, StepKinds

LEMMA FileIsCurrentKept == IInv /\ FileIsCurrent /\ [Next]_vars => FileIsCurrent'
<1> SUFFICES ASSUME IInv, FileIsCurrent, [Next]_vars PROVE FileIsCurrent'
  OBVIOUS
<1>1. badSaves \in 0..MaxBadSaves
  BY DEF IInv, TypeOK, StoreTypeOK
<1>2. CASE UNCHANGED <<storeVars, up>>
  BY <1>2 DEF FileIsCurrent, storeVars
<1>3. ASSUME UNCHANGED up, NEW o \in OrderIDs, NEW r \in Order, Write(o, r)
      PROVE  FileIsCurrent'
  <2>1. CASE Saved(orders')
    BY <2>1 DEF FileIsCurrent, Saved
  <2>2. CASE SaveFailed
    <3>1. badSaves' # 0
      BY <1>1, <2>2 DEF SaveFailed
    <3>2. QED
      BY <3>1 DEF FileIsCurrent
  <2>3. QED
    BY <1>3, <2>1, <2>2 DEF Write
<1>4. CASE Crash
  BY <1>4 DEF Crash, FileIsCurrent
<1>5. CASE Restart
  BY <1>5 DEF Restart, Load, FileIsCurrent
<1>6. QED
  BY <1>2, <1>3, <1>4, <1>5, StoreSteps

\* DATA_FILE and memory agree as long as no save has failed: every operation that
\* changes the map saves it, and a restart reads what was saved.
THEOREM FileFollowsMemory == Spec => []FileIsCurrent
<1>1. Init => FileIsCurrent
  BY DEF Init, StoreInit, FileIsCurrent
<1>2. QED
  BY <1>1, Invariance, FileIsCurrentKept, PTL DEF Spec

-----------------------------------------------------------------------------
(* One handler creates the payment of an order.                            *)

CreatingSteps == {"creating", "created", "createFailed"}

\* Payments are never forgotten and stay with their order.
PaymentsStay ==
  \A p \in PaymentIDs : payments[p] # NoPayment =>
    payments'[p] # NoPayment /\ payments'[p].order = payments[p].order

PaymentsNext(o) == {p \in PaymentIDs : payments'[p] # NoPayment /\ payments'[p].order = o}

\* Nobody draws an order's id or creates a payment, and those who create one go on.
NothingCreated ==
  /\ UNCHANGED usedIDs
  /\ PaymentsStay
  /\ \A p \in PaymentIDs : payments[p] = NoPayment => payments'[p] = NoPayment
  /\ \A g \in Goroutines : frame'[g].pc \in CreatingSteps =>
       /\ frame[g].pc \in CreatingSteps
       /\ frame'[g].order = frame[g].order
       /\ frame'[g].pc = "creating" => frame[g].pc = "creating"
       /\ \A p \in PaymentsOf(frame[g].order) : payments[p].status \in {"unseen", "canceled"} =>
            payments'[p].status \in {"unseen", "canceled"}

\* OnePayment in the next state, from what holds of the values in it.
LEMMA OnePaymentNext ==
  ASSUME \A o \in OrderIDs : \A p, q \in PaymentsNext(o) : p = q,
         \A o \in OrderIDs \ usedIDs' : PaymentsNext(o) = {},
         \A g \in Goroutines : frame'[g].pc = "creating" => PaymentsNext(frame'[g].order) = {},
         \A g \in Goroutines : frame'[g].pc \in CreatingSteps =>
           \A p \in PaymentsNext(frame'[g].order) : payments'[p].status \in {"unseen", "canceled"}
  PROVE  OnePayment'
BY DEF OnePayment, PaymentsOf, PaymentsNext, Creating, CreatingSteps

LEMMA CreationsKept ==
  ASSUME Creators, OnePayment, NothingCreated
  PROVE  Creators' /\ OnePayment'
<1>1. \A o \in OrderIDs : PaymentsNext(o) = PaymentsOf(o)
  BY DEF NothingCreated, PaymentsStay, PaymentsOf, PaymentsNext
<1>2. \A g \in Goroutines : Creating(g)' =>
        /\ Creating(g)
        /\ frame'[g].order = frame[g].order
        /\ frame'[g].pc = "creating" => frame[g].pc = "creating"
        /\ PaymentsNext(frame[g].order) = PaymentsOf(frame[g].order)
        /\ \A p \in PaymentsOf(frame[g].order) : payments'[p].status \in {"unseen", "canceled"}
  BY DEF NothingCreated, PaymentsStay, PaymentsOf, PaymentsNext, Creating, CreatingSteps, OnePayment
<1>3. Creators'
  BY <1>2 DEF Creators, NothingCreated
<1>4. OnePayment'
  <2>1. \A o \in OrderIDs : \A p, q \in PaymentsNext(o) : p = q
    BY <1>1 DEF OnePayment
  <2>2. \A o \in OrderIDs \ usedIDs' : PaymentsNext(o) = {}
    BY <1>1 DEF OnePayment, NothingCreated
  <2>3. \A g \in Goroutines : frame'[g].pc = "creating" => PaymentsNext(frame[g].order) = {}
    BY <1>2 DEF OnePayment, Creating
  <2>4. QED
    BY <1>2, <2>1, <2>2, <2>3, OnePaymentNext DEF Creating, CreatingSteps, NothingCreated
<1>5. QED
  BY <1>3, <1>4

\* Become moves one goroutine.
LEMMA BecomeMoves ==
  ASSUME IInv, NEW g \in Goroutines, NEW f, Become(g, f)
  PROVE  \A x \in Goroutines : frame'[x] = IF x = g THEN f ELSE frame[x]
BY DEF IInv, TypeOK, Become

\* So a goroutine that has not started to create anything does not disturb it.
LEMMA OthersKeepCreations ==
  ASSUME IInv, Creators, OnePayment, NEW g \in Goroutines, NEW f, Become(g, f),
         f.pc \notin CreatingSteps, UNCHANGED <<usedIDs, payments>>
  PROVE  Creators' /\ OnePayment'
<1>1. NothingCreated
  BY BecomeMoves DEF NothingCreated, PaymentsStay
<1>2. QED
  BY <1>1, CreationsKept

LEMMA CreateOrderKeepsCreations ==
  ASSUME IInv, Creators, OnePayment, NEW h \in Handlers,
         NEW t \in TradeNos \cup {NoTrade}, CreateOrder(h, t)
  PROVE  Creators' /\ OnePayment'
<1>1. PICK o \in OrderIDs \ usedIDs, f \in Frame :
        /\ usedIDs' = usedIDs \cup {o}
        /\ Become(h, f)
        /\ f = IdleFrame \/ (f.pc = "creating" /\ f.order = o)
        /\ UNCHANGED callVars
  BY CreateShape
<1>2. \A x \in Goroutines : frame'[x] = IF x = h THEN f ELSE frame[x]
  BY <1>1, HandlersRun, BecomeMoves
<1>3. \A x \in OrderIDs : PaymentsNext(x) = PaymentsOf(x)
  BY <1>1 DEF PaymentsOf, PaymentsNext, callVars
<1>4. PaymentsOf(o) = {}
  BY DEF OnePayment
<1>5. Creating(h)' => frame'[h].order = o
  BY <1>1, <1>2, HandlersRun DEF Creating, IdleFrame
<1>6. \A x \in Goroutines \ {h} : frame'[x] = frame[x] /\ (Creating(x)' <=> Creating(x))
  BY <1>2 DEF Creating
<1>7. Creators'
  <2>1. \A x \in Goroutines : Creating(x)' => frame'[x].order \in usedIDs'
    BY <1>1, <1>5, <1>6 DEF Creators
  <2>2. \A x, y \in Goroutines :
          Creating(x)' /\ Creating(y)' /\ frame'[x].order = frame'[y].order => x = y
    BY <1>5, <1>6 DEF Creators
  <2>3. QED
    BY <2>1, <2>2 DEF Creators
<1>8. OnePayment'
  <2>1. \A x \in OrderIDs : \A p, q \in PaymentsNext(x) : p = q
    BY <1>3 DEF OnePayment
  <2>2. \A x \in OrderIDs \ usedIDs' : PaymentsNext(x) = {}
    BY <1>1, <1>3 DEF OnePayment
  <2>3. \A x \in Goroutines : Creating(x)' =>
          PaymentsNext(frame'[x].order) = PaymentsOf(frame'[x].order)
    BY <1>1 DEF PaymentsOf, PaymentsNext, callVars
  <2>4. \A x \in Goroutines : frame'[x].pc = "creating" => PaymentsNext(frame'[x].order) = {}
    BY <1>4, <1>5, <1>6, <2>3 DEF OnePayment, Creating
  <2>5. \A x \in Goroutines : Creating(x)' =>
          \A p \in PaymentsNext(frame'[x].order) : payments'[p].status \in {"unseen", "canceled"}
    BY <1>1, <1>4, <1>5, <1>6, <2>3 DEF OnePayment, callVars
  <2>6. QED
    BY <2>1, <2>2, <2>4, <2>5, OnePaymentNext DEF Creating, CreatingSteps
<1>9. QED
  BY <1>7, <1>8

\* YooKassa creates a payment for a handler, whose order had none.
LEMMA PaymentShape ==
  ASSUME IInv, NEW h \in Handlers, YooCreatesPayment(h)
  PROVE  \E p \in PaymentIDs, f \in Frame :
           /\ payments[p] = NoPayment
           /\ payments'[p] = [order |-> frame[h].order, status |-> "unseen"]
           /\ payments'[p] # NoPayment
           /\ \A q \in PaymentIDs \ {p} : payments'[q] = payments[q]
           /\ Become(h, f)
           /\ f.pc \in {"created", "createFailed"} /\ f.order = frame[h].order
           /\ frame[h].order \in OrderIDs
<1>1. PICK p \in PaymentIDs :
        /\ payments[p] = NoPayment
        /\ payments' = [payments EXCEPT
                          ![p] = [order |-> frame[h].order, status |-> "unseen"]]
        /\ \/ Become(h, [frame[h] EXCEPT !.pc = "created", !.payment = p])
           \/ Become(h, [frame[h] EXCEPT !.pc = "createFailed"])
  BY DEF YooCreatesPayment
<1>2. frame[h] \in Frame /\ frame[h].order \in OrderIDs
  BY HandlersRun, Running DEF YooCreatesPayment, At, LocalsOK, KnownOrder
<1>3. /\ payments'[p] = [order |-> frame[h].order, status |-> "unseen"]
      /\ payments'[p] # NoPayment
      /\ \A q \in PaymentIDs \ {p} : payments'[q] = payments[q]
  BY <1>1, <1>2 DEF IInv, TypeOK
<1>4. PICK f \in Frame :
        Become(h, f) /\ f.pc \in {"created", "createFailed"} /\ f.order = frame[h].order
  <2>1. /\ [frame[h] EXCEPT !.pc = "created", !.payment = p] \in Frame
        /\ [frame[h] EXCEPT !.pc = "created", !.payment = p].pc = "created"
        /\ [frame[h] EXCEPT !.pc = "created", !.payment = p].order = frame[h].order
    BY <1>2 DEF Frame, Steps
  <2>2. /\ [frame[h] EXCEPT !.pc = "createFailed"] \in Frame
        /\ [frame[h] EXCEPT !.pc = "createFailed"].pc = "createFailed"
        /\ [frame[h] EXCEPT !.pc = "createFailed"].order = frame[h].order
    BY <1>2 DEF Frame, Steps
  <2>3. QED
    BY <1>1, <2>1, <2>2
<1>5. QED
  BY <1>1, <1>2, <1>3, <1>4

LEMMA YooCreatesKeepsCreations ==
  ASSUME IInv, Creators, OnePayment, NEW h \in Handlers, YooCreatesPayment(h)
  PROVE  Creators' /\ OnePayment'
<1>. DEFINE o == frame[h].order
<1>1. PICK p \in PaymentIDs, f \in Frame :
        /\ payments[p] = NoPayment
        /\ payments'[p] = [order |-> o, status |-> "unseen"]
        /\ payments'[p] # NoPayment
        /\ \A q \in PaymentIDs \ {p} : payments'[q] = payments[q]
        /\ Become(h, f)
        /\ f.pc \in {"created", "createFailed"} /\ f.order = o
        /\ o \in OrderIDs
  BY PaymentShape
<1>2. \A x \in Goroutines : frame'[x] = IF x = h THEN f ELSE frame[x]
  BY <1>1, HandlersRun, BecomeMoves
<1>3. /\ usedIDs' = usedIDs /\ Creating(h) /\ PaymentsOf(o) = {} /\ o \in usedIDs
      /\ h \in Goroutines
  BY HandlersRun DEF YooCreatesPayment, At, Creating, Creators, OnePayment
<1>4. PaymentsNext(o) = {p} /\ \A x \in OrderIDs \ {o} : PaymentsNext(x) = PaymentsOf(x)
  BY <1>1, <1>3 DEF PaymentsOf, PaymentsNext
<1>5. \A x \in Goroutines : Creating(x)' => Creating(x) /\ frame'[x].order = frame[x].order
  BY <1>1, <1>2, <1>3 DEF Creating
<1>6. Creators'
  BY <1>3, <1>5 DEF Creators
<1>7. \A x \in Goroutines \ {h} : Creating(x) => frame[x].order \in OrderIDs \ {o}
  BY <1>3, Running DEF Creators, Creating, LocalsOK, KnownOrder
<1>8. OnePayment'
  <2>1. \A x \in OrderIDs : \A q, r \in PaymentsNext(x) : q = r
    BY <1>4 DEF OnePayment
  <2>2. \A x \in OrderIDs \ usedIDs' : PaymentsNext(x) = {}
    BY <1>3, <1>4 DEF OnePayment
  <2>3. \A x \in Goroutines \ {h} : Creating(x) =>
          /\ PaymentsNext(frame[x].order) = PaymentsOf(frame[x].order)
          /\ \A q \in PaymentsOf(frame[x].order) : payments'[q] = payments[q]
    BY <1>1, <1>4, <1>7 DEF PaymentsOf, PaymentsNext
  <2>4. \A x \in Goroutines : frame'[x].pc = "creating" => PaymentsNext(frame'[x].order) = {}
    BY <1>1, <1>2, <2>3 DEF OnePayment, Creating
  <2>5. \A x \in Goroutines \ {h} : Creating(x)' =>
          \A q \in PaymentsNext(frame'[x].order) : payments'[q].status \in {"unseen", "canceled"}
    BY <1>2, <1>5, <2>3 DEF OnePayment
  <2>6. \A q \in PaymentsNext(frame'[h].order) : payments'[q].status \in {"unseen", "canceled"}
    BY <1>1, <1>2, <1>3, <1>4
  <2>7. QED
    BY <2>1, <2>2, <2>4, <2>5, <2>6, OnePaymentNext DEF Creating, CreatingSteps
<1>9. QED
  BY <1>6, <1>8

\* A payment changes its status: opened to the customer, paid, expired.
PaymentTurns(p, status) ==
  payments' = [payments EXCEPT ![p] = [payments[p] EXCEPT !.status = status]]

LEMMA TurnsOne ==
  ASSUME IInv, NEW p \in PaymentIDs, payments[p] # NoPayment,
         NEW status \in {"pending", "succeeded", "canceled"},
         payments' = payments \/ PaymentTurns(p, status)
  PROVE  /\ PaymentsStay
         /\ \A q \in PaymentIDs : payments[q] = NoPayment => payments'[q] = NoPayment
         /\ \A q \in PaymentIDs \ {p} : payments'[q] = payments[q]
         /\ payments'[p].status \in {payments[p].status, status}
<1>. DEFINE y == [payments[p] EXCEPT !.status = status]
<1>1. payments[p] \in Payment
  BY DEF IInv, TypeOK
<1>2. y \in Payment /\ y.order = payments[p].order /\ y.status = status
  BY <1>1 DEF Payment
<1>3. y # NoPayment
  BY <1>2 DEF Payment
<1>4. CASE PaymentTurns(p, status)
  <2>1. payments' = [payments EXCEPT ![p] = y]
    BY <1>4 DEF PaymentTurns
  <2>2. HIDE DEF y
  <2>3. \A q \in PaymentIDs : payments'[q] = IF q = p THEN y ELSE payments[q]
    BY <2>1 DEF IInv, TypeOK
  <2>4. QED
    BY <1>2, <1>3, <2>3 DEF PaymentsStay
<1>5. CASE payments' = payments
  BY <1>5 DEF PaymentsStay
<1>6. QED
  BY <1>4, <1>5

\* The handler that stores a payment's id gives the customer its own payment.
LEMMA StorePaymentTurns ==
  ASSUME IInv, NEW h \in Handlers, StorePayment(h)
  PROVE  \E status \in {"pending", "succeeded", "canceled"} :
           /\ frame[h].payment \in PaymentIDs
           /\ payments[frame[h].payment] # NoPayment
           /\ payments[frame[h].payment].order = frame[h].order
           /\ payments' = payments \/ PaymentTurns(frame[h].payment, status)
<1>. DEFINE p == frame[h].payment
            status == IF payments[p].status = "unseen" THEN "pending" ELSE payments[p].status
<1>1. p \in PaymentIDs /\ payments[p] # NoPayment /\ payments[p].order = frame[h].order
  BY HandlersRun, Running DEF StorePayment, At, LocalsOK, KnownPayment
<1>2. status \in {"pending", "succeeded", "canceled"}
  BY <1>1 DEF IInv, TypeOK, Payment
<1>3. payments' = payments \/ PaymentTurns(p, status)
  BY DEF StorePayment, PaymentTurns
<1>4. QED
  BY <1>1, <1>2, <1>3

LEMMA StorePaymentKeepsCreations ==
  ASSUME IInv, Creators, OnePayment, NEW h \in Handlers, StorePayment(h)
  PROVE  Creators' /\ OnePayment'
<1>. DEFINE p == frame[h].payment
<1>1. PICK status \in {"pending", "succeeded", "canceled"} :
        /\ p \in PaymentIDs /\ payments[p] # NoPayment
        /\ payments[p].order = frame[h].order
        /\ payments' = payments \/ PaymentTurns(p, status)
  BY StorePaymentTurns
<1>2. /\ PaymentsStay
      /\ \A q \in PaymentIDs : payments[q] = NoPayment => payments'[q] = NoPayment
      /\ \A q \in PaymentIDs \ {p} : payments'[q] = payments[q]
  BY <1>1, TurnsOne
<1>3. /\ h \in Goroutines /\ Creating(h) /\ UNCHANGED usedIDs
      /\ \A x \in Goroutines : frame'[x] = IF x = h THEN IdleFrame ELSE frame[x]
  BY HandlersRun, BecomeMoves DEF StorePayment, At, Creating, Return
<1>4. \A x \in Goroutines : frame'[x].pc \in CreatingSteps =>
        /\ Creating(x) /\ frame'[x] = frame[x]
        /\ frame[x].order # frame[h].order
  BY <1>3 DEF Creators, Creating, CreatingSteps, IdleFrame
<1>5. NothingCreated
  BY <1>1, <1>2, <1>3, <1>4 DEF NothingCreated, Creating, CreatingSteps, PaymentsOf
<1>6. QED
  BY <1>5, CreationsKept

\* An unseen payment may expire, and is not paid.
LEMMA PaymentKeepsCreations ==
  ASSUME IInv, Creators, OnePayment, NEW p \in PaymentIDs,
         CustomerPays(p) \/ PaymentExpires(p)
  PROVE  Creators' /\ OnePayment'
<1>1. UNCHANGED <<frame, usedIDs>> /\ payments[p] # NoPayment
  BY DEF CustomerPays, PaymentExpires
<1>2. CASE CustomerPays(p)
  <2>1. PaymentTurns(p, "succeeded") /\ payments[p].status = "pending"
    BY <1>2 DEF CustomerPays, PaymentTurns
  <2>2. /\ PaymentsStay
        /\ \A q \in PaymentIDs : payments[q] = NoPayment => payments'[q] = NoPayment
        /\ \A q \in PaymentIDs \ {p} : payments'[q] = payments[q]
    BY <1>1, <2>1, TurnsOne
  <2>3. NothingCreated
    BY <1>1, <2>1, <2>2 DEF NothingCreated, PaymentsOf
  <2>4. QED
    BY <2>3, CreationsKept
<1>3. CASE PaymentExpires(p)
  <2>1. PaymentTurns(p, "canceled")
    BY <1>3 DEF PaymentExpires, PaymentTurns
  <2>2. /\ PaymentsStay
        /\ \A q \in PaymentIDs : payments[q] = NoPayment => payments'[q] = NoPayment
        /\ \A q \in PaymentIDs \ {p} : payments'[q] = payments[q]
        /\ payments'[p].status \in {payments[p].status, "canceled"}
    BY <1>1, <2>1, TurnsOne
  <2>3. NothingCreated
    BY <1>1, <2>2 DEF NothingCreated, PaymentsOf
  <2>4. QED
    BY <2>3, CreationsKept
<1>4. QED
  BY <1>2, <1>3

LEMMA CreationsInductive ==
  ASSUME IInv, Creators, OnePayment, [Next]_vars
  PROVE  Creators' /\ OnePayment'
<1>. IdleFrame.pc \notin CreatingSteps
  BY DEF IdleFrame, CreatingSteps
<1>1. ASSUME NEW h \in Handlers, YooRefusesPayment(h) PROVE Creators' /\ OnePayment'
  <2>. DEFINE f == [frame[h] EXCEPT !.pc = "createFailed"]
  <2>1. /\ Become(h, f) /\ UNCHANGED <<usedIDs, payments>> /\ h \in Goroutines
        /\ frame[h] \in Frame /\ frame[h].pc = "creating"
    BY <1>1, HandlersRun, Running DEF YooRefusesPayment, At
  <2>2. f.pc = "createFailed" /\ f.order = frame[h].order
    BY <2>1 DEF Frame
  <2>3. HIDE DEF f
  <2>4. NothingCreated
    BY <2>1, <2>2, BecomeMoves DEF NothingCreated, PaymentsStay, CreatingSteps
  <2>5. QED
    BY <2>4, CreationsKept
<1>2. ASSUME NEW g \in Goroutines, SyncStep(g) PROVE Creators' /\ OnePayment'
  <2>1. PICK f \in Frame : Become(g, f) /\ (f = IdleFrame \/ f.pc \in Fetched)
    BY <1>2, SyncShape
  <2>2. UNCHANGED <<usedIDs, payments>>
    BY <1>2, SyncShape
  <2>3. f.pc \notin CreatingSteps
    BY <2>1 DEF Fetched, CreatingSteps
  <2>4. QED
    BY <2>1, <2>2, <2>3, OthersKeepCreations
<1>3. CASE Starts
  <2>1. PICK g \in Goroutines, f \in Frame : Become(g, f) /\ f.pc = "fetching"
    BY <1>3, StartShape DEF Starts
  <2>2. UNCHANGED <<usedIDs, payments>>
    BY <1>3, StartShape DEF Starts, callVars
  <2>3. QED
    BY <2>1, <2>2, OthersKeepCreations DEF CreatingSteps
<1>4. ASSUME NEW h \in Handlers, StoreCreateError(h) PROVE Creators' /\ OnePayment'
  BY <1>4, HandlersRun, OthersKeepCreations DEF StoreCreateError, Return, callVars
<1>5. CASE Crash \/ Restart \/ reconcilePending \/ UNCHANGED vars
  <2>1. UNCHANGED <<usedIDs, payments>>
    BY <1>5 DEF Crash, Restart, reconcilePending, vars, callVars
  <2>2. \A x \in Goroutines : frame'[x] \in {frame[x], IdleFrame}
    BY <1>5 DEF Crash, Restart, reconcilePending, vars
  <2>3. NothingCreated
    BY <2>1, <2>2 DEF NothingCreated, PaymentsStay
  <2>4. QED
    BY <2>3, CreationsKept
<1>6. ASSUME NEW g \in Goroutines, Updates(g),
             StorePayment(g) \/ StoreCreateError(g) => g \in Handlers
      PROVE  Creators' /\ OnePayment'
  BY <1>6, <1>2, <1>4, StorePaymentKeepsCreations DEF Updates, SyncStep
<1>7. QED
  BY <1>1, <1>2, <1>3, <1>5, <1>6, StepKinds, CreateOrderKeepsCreations,
     YooCreatesKeepsCreations, PaymentKeepsCreations

-----------------------------------------------------------------------------
(* Updates.                                                                *)

LEMMA WritesOne ==
  ASSUME IInv, NEW o \in OrderIDs, NEW r \in Order, Write(o, r)
  PROVE  /\ \A x \in OrderIDs : orders'[x] = IF x = o THEN r ELSE orders[x]
         /\ \A x \in OrderIDs : dataFile'[x] \in {NoOrder, dataFile[x], orders'[x]}
         /\ r # NoOrder
<1>1. r # NoOrder
  OBVIOUS
<1>2. \A x \in OrderIDs : orders'[x] = IF x = o THEN r ELSE orders[x]
  BY DEF Write, IInv, TypeOK, StoreTypeOK
<1>3. \A x \in OrderIDs : dataFile'[x] \in {NoOrder, dataFile[x], orders'[x]}
  BY DEF Write, Saved, SaveFailed, Torn, NoOrders
<1>4. QED
  BY <1>1, <1>2, <1>3

LEMMA CreationsInitially == Init => Creators /\ OnePayment
BY DEF Init, Creators, OnePayment, Creating, PaymentsOf, IdleFrame

-----------------------------------------------------------------------------
(* Who syncs a payment.                                                    *)

InSyncNext(g, p) ==
  /\ frame'[g].payment = p
  /\ frame'[g].pc \in Fetched \cup {"fetching"}

\* No sync starts: those that run go on or end.
NothingStarted ==
  /\ UNCHANGED overlapped
  /\ PaymentsStay
  /\ \A g \in Goroutines, p \in PaymentIDs : InSyncNext(g, p) => InSync(g, p)

LEMMA SyncsKept ==
  ASSUME IInv, SyncedAlone, NothingStarted
  PROVE  SyncedAlone'
<1>1. \A p \in overlapped' : payments'[p] # NoPayment
  BY DEF SyncedAlone, NothingStarted, PaymentsStay, IInv, TypeOK
<1>2. \A g \in Goroutines, p \in PaymentIDs : InSync(g, p)' => InSync(g, p)
  BY DEF NothingStarted, InSyncNext, InSync, Fetched
<1>3. QED
  BY <1>1, <1>2 DEF SyncedAlone, NothingStarted

\* A sync that starts while another works on the payment is remembered.
LEMMA StartKeepsSyncs ==
  ASSUME IInv, SyncedAlone, Starts
  PROVE  SyncedAlone'
<1>1. PICK g \in Goroutines, p \in PaymentIDs, f \in Frame :
        /\ payments[p] # NoPayment
        /\ Become(g, f) /\ f.pc = "fetching" /\ f.payment = p
        /\ frame[g].pc = "idle"
        /\ overlapped' = IF \E other \in Goroutines : InSync(other, p)
                           THEN overlapped \cup {p} ELSE overlapped
  BY StartShape DEF Starts
<1>2. UNCHANGED payments
  BY StartShape DEF Starts, callVars
<1>3. \A x \in Goroutines : frame'[x] = IF x = g THEN f ELSE frame[x]
  BY <1>1, BecomeMoves
<1>4. \A x \in Goroutines \ {g}, q \in PaymentIDs : InSync(x, q)' => InSync(x, q)
  BY <1>3 DEF InSync
<1>5. \A q \in PaymentIDs : InSync(g, q)' => q = p
  BY <1>1, <1>3 DEF InSync
<1>6. \A q \in overlapped' : payments'[q] # NoPayment
  BY <1>1, <1>2 DEF SyncedAlone
<1>7. ASSUME NEW q \in PaymentIDs \ overlapped', NEW x \in Goroutines, NEW y \in Goroutines,
             InSync(x, q)', InSync(y, q)'
      PROVE  x = y
  <2>1. q \notin overlapped
    BY <1>1, <1>7
  <2>2. CASE q # p
    BY <1>4, <1>5, <1>7, <2>1, <2>2 DEF SyncedAlone
  <2>3. CASE q = p
    <3>1. \A other \in Goroutines : ~InSync(other, p)
      BY <1>1, <1>7, <2>3
    <3>2. QED
      BY <1>4, <1>7, <2>3, <3>1
  <2>4. QED
    BY <2>2, <2>3
<1>8. QED
  BY <1>6, <1>7 DEF SyncedAlone

\* A goroutine that becomes idle, or creates, or goes on with its sync, starts none.
LEMMA OthersStartNothing ==
  ASSUME IInv, NEW g \in Goroutines, NEW f, Become(g, f),
         \/ f.pc \notin Fetched \cup {"fetching"}
         \/ f.payment = frame[g].payment /\ frame[g].pc \in Fetched \cup {"fetching"},
         UNCHANGED overlapped, PaymentsStay
  PROVE  NothingStarted
BY BecomeMoves DEF NothingStarted, InSyncNext, InSync, Fetched

LEMMA StepsKeepPayments ==
  ASSUME IInv, [Next]_vars
  PROVE  PaymentsStay
<1>1. ASSUME NEW h \in Handlers, NEW t \in TradeNos \cup {NoTrade}, CreateOrder(h, t)
      PROVE  PaymentsStay
  BY <1>1 DEF CreateOrder, callVars, PaymentsStay
<1>2. ASSUME NEW h \in Handlers, YooCreatesPayment(h)
      PROVE  PaymentsStay
  <2>1. PICK p \in PaymentIDs :
          payments[p] = NoPayment /\ \A q \in PaymentIDs \ {p} : payments'[q] = payments[q]
    BY <1>2, PaymentShape
  <2>2. QED
    BY <2>1 DEF PaymentsStay
<1>3. ASSUME NEW h \in Handlers, StorePayment(h)
      PROVE  PaymentsStay
  BY <1>3, StorePaymentTurns, TurnsOne
<1>4. ASSUME NEW p \in PaymentIDs, CustomerPays(p) \/ PaymentExpires(p)
      PROVE  PaymentsStay
  <2>1. payments[p] # NoPayment /\ (PaymentTurns(p, "succeeded") \/ PaymentTurns(p, "canceled"))
    BY <1>4 DEF CustomerPays, PaymentExpires, PaymentTurns
  <2>2. QED
    BY <2>1, TurnsOne
<1>5. ASSUME NEW g \in Goroutines, SyncStep(g) \/ StoreCreateError(g) \/ YooRefusesPayment(g)
      PROVE  UNCHANGED payments
  BY <1>5, SyncShape DEF StoreCreateError, YooRefusesPayment, callVars
<1>6. ASSUME Starts \/ reconcilePending \/ Crash \/ Restart \/ UNCHANGED vars
      PROVE  UNCHANGED payments
  BY <1>6 DEF Starts, yooWebhook, getOrder, epayReturn, ReconcileNext, reconcilePending,
              Crash, Restart, vars, callVars
<1>7. UNCHANGED payments => PaymentsStay
  BY DEF PaymentsStay
<1>8. \A g \in Goroutines : StoreUnpaid(g) \/ StoreCredit(g) \/ StoreCreditError(g) => SyncStep(g)
  BY DEF SyncStep
<1>9. QED
  BY <1>1, <1>2, <1>3, <1>4, <1>5, <1>6, <1>7, <1>8, StepKinds, HandlersRun DEF Updates

LEMMA StepsStart ==
  ASSUME IInv, [Next]_vars
  PROVE  NothingStarted \/ Starts
<1>1. PaymentsStay
  BY StepsKeepPayments
<1>. IdleFrame.pc \notin Fetched \cup {"fetching"}
  BY DEF IdleFrame, Fetched
<1>2. ASSUME NEW h \in Handlers, NEW t \in TradeNos \cup {NoTrade}, CreateOrder(h, t)
      PROVE  NothingStarted
  <2>1. PICK f \in Frame : Become(h, f) /\ (f = IdleFrame \/ f.pc = "creating")
    BY <1>2, CreateShape
  <2>2. UNCHANGED overlapped
    BY <1>2 DEF CreateOrder
  <2>3. f.pc \notin Fetched \cup {"fetching"}
    BY <2>1 DEF Fetched
  <2>4. QED
    BY <1>1, <2>1, <2>2, <2>3, HandlersRun, OthersStartNothing
<1>3. ASSUME NEW h \in Handlers, YooCreatesPayment(h) \/ YooRefusesPayment(h)
      PROVE  NothingStarted
  <2>1. PICK f : Become(h, f) /\ f.pc \in {"created", "createFailed"}
    <3>1. frame[h] \in Frame
      BY HandlersRun, Running
    <3>2. [frame[h] EXCEPT !.pc = "createFailed"].pc = "createFailed"
      BY <3>1 DEF Frame
    <3>3. QED
      BY <1>3, <3>2, PaymentShape DEF YooRefusesPayment
  <2>2. UNCHANGED overlapped
    BY <1>3 DEF YooCreatesPayment, YooRefusesPayment
  <2>3. f.pc \notin Fetched \cup {"fetching"}
    BY <2>1 DEF Fetched
  <2>4. QED
    BY <1>1, <2>1, <2>2, <2>3, HandlersRun, OthersStartNothing
<1>4. ASSUME NEW g \in Goroutines, SyncStep(g)
      PROVE  NothingStarted
  <2>1. PICK f \in Frame :
          /\ Become(g, f)
          /\ \/ f = IdleFrame
             \/ f.payment = frame[g].payment /\ frame[g].pc \in Fetched \cup {"fetching"}
    BY <1>4, SyncShape
  <2>2. UNCHANGED overlapped
    BY <1>4, SyncShape
  <2>3. QED
    BY <1>1, <2>1, <2>2, OthersStartNothing
<1>5. ASSUME NEW h \in Handlers, StorePayment(h) \/ StoreCreateError(h)
      PROVE  NothingStarted
  <2>1. Become(h, IdleFrame) /\ UNCHANGED overlapped
    BY <1>5 DEF StorePayment, StoreCreateError, Return
  <2>2. QED
    BY <1>1, <2>1, HandlersRun, OthersStartNothing
<1>6. ASSUME \/ reconcilePending \/ Crash \/ Restart \/ UNCHANGED vars
             \/ \E p \in PaymentIDs : CustomerPays(p) \/ PaymentExpires(p)
      PROVE  NothingStarted
  <2>1. UNCHANGED overlapped /\ \A x \in Goroutines : frame'[x] \in {frame[x], IdleFrame}
    BY <1>6 DEF reconcilePending, Crash, Restart, vars, CustomerPays, PaymentExpires
  <2>2. QED
    BY <1>1, <2>1 DEF NothingStarted, InSyncNext, InSync, Fetched
<1>7. QED
  BY <1>2, <1>3, <1>4, <1>5, <1>6, StepKinds DEF Updates, SyncStep

LEMMA SyncsInductive ==
  ASSUME IInv, SyncedAlone, [Next]_vars
  PROVE  SyncedAlone'
BY StepsStart, SyncsKept, StartKeepsSyncs

-----------------------------------------------------------------------------
(* Orders with a receipt are settled.                                      *)

OverlappedNext(o) == \E p \in overlapped' : payments'[p].order = o

SettledNext(o, r) == HasReceipt(r) => r.status = "succeeded" \/ OverlappedNext(o)

ReceiptNext(o) == orders'[o] # NoOrder /\ HasReceipt(orders'[o])

ToldNext(f) ==
  /\ f.pc = "fetched"
  /\ f.payment \notin overlapped'
  /\ ReceiptNext(payments'[f.payment].order)
  => f.answer = "succeeded"

\* Settles in the next state, from what holds of the values in it.
LEMMA SettlesNext ==
  ASSUME \A o \in OrderIDs :
           /\ orders'[o] # NoOrder => SettledNext(o, orders'[o])
           /\ dataFile'[o] # NoOrder => SettledNext(o, dataFile'[o]),
         \A g \in Goroutines : ToldNext(frame'[g])
  PROVE  Settles'
<1>1. ASSUME NEW o \in OrderIDs
      PROVE  /\ (Exists(o) /\ HasReceipt(orders[o]) =>
                   orders[o].status = "succeeded" \/ Overlapped(o))'
             /\ (dataFile[o] # NoOrder /\ HasReceipt(dataFile[o]) =>
                   dataFile[o].status = "succeeded" \/ Overlapped(o))'
  BY DEF SettledNext, OverlappedNext, Overlapped, HasReceipt, Exists
<1>2. ASSUME NEW g \in Goroutines
      PROVE  (LET o == payments[frame[g].payment].order
              IN  /\ frame[g].pc = "fetched"
                  /\ frame[g].payment \notin overlapped
                  /\ Exists(o) /\ HasReceipt(orders[o])
                  => frame[g].answer = "succeeded")'
  BY DEF ToldNext, ReceiptNext, HasReceipt, Exists
<1>3. QED
  BY <1>1, <1>2 DEF Settles

\* An order that has a receipt was paid for.
LEMMA ReceiptIsPaid ==
  ASSUME IInv, NEW o \in OrderIDs, (Exists(o) /\ HasReceipt(orders[o])) \/ Credits(o) # {}
  PROVE  \E p \in PaymentsOf(o) : payments[p].status = "succeeded"
<1>1. Credits(o) # {}
  BY DEF IInv, NothingStoredIsFalse, Exists, RecordOK, Genuine, HasReceipt
<1>2. PICK i \in DOMAIN ledger : ledger[i] = o
  BY <1>1 DEF Credits
<1>3. PICK p \in PaymentIDs :
        payments[p] # NoPayment /\ payments[p] = [order |-> o, status |-> "succeeded"]
  BY <1>2 DEF IInv, CreditsArePaidFor
<1>4. QED
  BY <1>3 DEF PaymentsOf

LEMMA OverlapsStay ==
  ASSUME IInv, SyncedAlone, [Next]_vars
  PROVE  /\ PaymentsStay
         /\ overlapped \subseteq overlapped'
         /\ \A o \in OrderIDs : Overlapped(o) => OverlappedNext(o)
<1>1. PaymentsStay
  BY StepsKeepPayments
<1>2. overlapped \subseteq overlapped'
  <2>1. CASE Starts
    BY <2>1, StartShape DEF Starts
  <2>2. CASE NothingStarted
    BY <2>2 DEF NothingStarted
  <2>3. QED
    BY <2>1, <2>2, StepsStart
<1>3. \A p \in overlapped : payments'[p].order = payments[p].order
  BY <1>1 DEF PaymentsStay, SyncedAlone, IInv, TypeOK
<1>4. QED
  BY <1>1, <1>2, <1>3 DEF Overlapped, OverlappedNext

\* What a goroutine was told stays true of orders that have no new receipt.
LEMMA ToldKept ==
  ASSUME IInv, Settles, PaymentsStay, overlapped \subseteq overlapped',
         NEW g \in Goroutines,
         frame[g].pc = "fetched" /\ ReceiptNext(payments[frame[g].payment].order) =>
           LET o == payments[frame[g].payment].order
           IN  Exists(o) /\ HasReceipt(orders[o])
  PROVE  ToldNext(frame[g])
<1>1. frame[g].pc = "fetched" =>
        frame[g].payment \in PaymentIDs /\ payments[frame[g].payment] # NoPayment
  BY Running DEF LocalsOK, KnownPayment
<1>2. QED
  BY <1>1 DEF ToldNext, Settles, PaymentsStay

\* Steps that leave the store alone.
LEMMA SettlesKept ==
  ASSUME IInv, SyncedAlone, Settles, [Next]_vars, UNCHANGED <<orders, dataFile>>,
         \A g \in Goroutines : frame'[g].pc = "fetched" => frame'[g] = frame[g] \/ ToldNext(frame'[g])
  PROVE  Settles'
<1>1. \A o \in OrderIDs :
        /\ orders'[o] # NoOrder => SettledNext(o, orders'[o])
        /\ dataFile'[o] # NoOrder => SettledNext(o, dataFile'[o])
  BY OverlapsStay DEF Settles, SettledNext, Exists
<1>2. \A g \in Goroutines : ToldNext(frame[g])
  BY OverlapsStay, ToldKept DEF ReceiptNext, Exists
<1>3. \A g \in Goroutines : ToldNext(frame'[g])
  BY <1>2 DEF ToldNext
<1>4. QED
  BY <1>1, <1>3, SettlesNext

\* Steps that write an order, and settle it if they store its receipt.
LEMMA WrittenSettles ==
  ASSUME IInv, SyncedAlone, Settles, [Next]_vars,
         NEW o \in OrderIDs, NEW r \in Order, Write(o, r), SettledNext(o, r),
         \A g \in Goroutines : frame'[g].pc = "fetched" =>
           /\ frame'[g] = frame[g]
           /\ HasReceipt(r) /\ payments[frame[g].payment].order = o =>
                \/ Exists(o) /\ HasReceipt(orders[o])
                \/ frame[g].payment \in overlapped
  PROVE  Settles'
<1>1. /\ \A x \in OrderIDs : orders'[x] = IF x = o THEN r ELSE orders[x]
      /\ \A x \in OrderIDs : dataFile'[x] \in {NoOrder, dataFile[x], orders'[x]}
  BY WritesOne
<1>2. \A x \in OrderIDs :
        /\ Exists(x) => SettledNext(x, orders[x])
        /\ dataFile[x] # NoOrder => SettledNext(x, dataFile[x])
  BY OverlapsStay DEF Settles, SettledNext
<1>3. \A x \in OrderIDs : orders'[x] # NoOrder => SettledNext(x, orders'[x])
  BY <1>1, <1>2 DEF Exists
<1>4. \A x \in OrderIDs : dataFile'[x] # NoOrder => SettledNext(x, dataFile'[x])
  BY <1>1, <1>2, <1>3
<1>5. ASSUME NEW g \in Goroutines PROVE ToldNext(frame'[g])
  <2>1. CASE frame'[g].pc # "fetched"
    BY <2>1 DEF ToldNext
  <2>2. CASE frame'[g].pc = "fetched" /\ frame[g].payment \in overlapped
    BY <2>2, OverlapsStay DEF ToldNext
  <2>3. CASE frame'[g].pc = "fetched" /\ frame[g].payment \notin overlapped
    <3>. DEFINE x == payments[frame[g].payment].order
    <3>1. frame'[g] = frame[g]
      BY <2>3
    <3>2. x \in OrderIDs
      BY <2>3, <3>1, Running DEF LocalsOK, KnownPayment, IInv, TypeOK, Payment
    <3>3. ReceiptNext(x) => Exists(x) /\ HasReceipt(orders[x])
      BY <1>1, <2>3, <3>1, <3>2 DEF ReceiptNext, Exists
    <3>4. ToldNext(frame[g])
      BY <3>3, OverlapsStay, ToldKept
    <3>5. QED
      BY <3>1, <3>4
  <2>4. QED
    BY <2>1, <2>2, <2>3
<1>6. QED
  BY <1>3, <1>4, <1>5, SettlesNext

\* The update of an order leaves it settled if it was.
LEMMA UpdateSettlesOrder ==
  ASSUME Settlement, [Next]_vars, NEW g \in Goroutines, Updates(g),
         StorePayment(g) \/ StoreCreateError(g) => g \in Handlers,
         NEW o \in OrderIDs, NEW r \in Order, Exists(o), Alters(g, o, r)
  PROVE  SettledNext(o, r)
<1>. IInv /\ Creators /\ OnePayment /\ SyncedAlone /\ Settles
  BY DEF Settlement
<1>1. SettledNext(o, orders[o])
  BY OverlapsStay DEF Settles, SettledNext
<1>2. CASE r.status = orders[o].status /\ r.code = orders[o].code
           /\ r.notified = orders[o].notified
  BY <1>1, <1>2 DEF SettledNext, HasReceipt
<1>3. CASE r.status = "succeeded"
  BY <1>3 DEF SettledNext
<1>4. CASE /\ StoreCreateError(g) /\ frame[g].order = o
           /\ r.code = orders[o].code /\ r.notified = orders[o].notified
  <2>1. Creating(g) /\ frame[g].order = o
    BY <1>4 DEF StoreCreateError, At, Creating
  <2>2. \A p \in PaymentsOf(o) : payments[p].status # "succeeded"
    BY <2>1 DEF OnePayment
  <2>3. ~HasReceipt(orders[o])
    BY <2>2, ReceiptIsPaid
  <2>4. QED
    BY <1>4, <2>3 DEF SettledNext, HasReceipt
<1>5. CASE /\ StoreUnpaid(g) /\ payments[frame[g].payment].order = o
           /\ r.code = orders[o].code /\ r.notified = orders[o].notified
  <2>1. frame[g].pc = "fetched" /\ frame[g].answer # "succeeded"
    BY <1>5 DEF StoreUnpaid, At
  <2>2. CASE frame[g].payment \in overlapped
    BY <1>5, <2>2, OverlapsStay DEF SettledNext, Overlapped
  <2>3. CASE frame[g].payment \notin overlapped
    <3>1. ~HasReceipt(orders[o])
      BY <1>5, <2>1, <2>3 DEF Settles
    <3>2. QED
      BY <1>5, <3>1 DEF SettledNext, HasReceipt
  <2>4. QED
    BY <2>2, <2>3
<1>6. QED
  BY <1>2, <1>3, <1>4, <1>5 DEF Alters

\* And leaves what other goroutines were told true: whoever else has an answer about
\* the payment that is now credited overlaps with the one that credits it.
LEMMA UpdateSettles ==
  ASSUME Settlement, [Next]_vars, NEW g \in Goroutines, Updates(g),
         StorePayment(g) \/ StoreCreateError(g) => g \in Handlers
  PROVE  Settles'
<1>. IInv /\ Creators /\ OnePayment /\ SyncedAlone /\ Settles
  BY DEF Settlement
<1>1. PICK o \in OrderIDs, r \in Order :
        Exists(o) /\ Write(o, r) /\ Return(g) /\ Alters(g, o, r)
  BY UpdateAlters
<1>2. SettledNext(o, r)
  BY <1>1, UpdateSettlesOrder
<1>3. \A x \in Goroutines : frame'[x] = IF x = g THEN IdleFrame ELSE frame[x]
  BY <1>1, BecomeMoves DEF Return
<1>4. ASSUME NEW x \in Goroutines, frame'[x].pc = "fetched", HasReceipt(r),
             payments[frame[x].payment].order = o, ~HasReceipt(orders[o])
      PROVE  frame[x].payment \in overlapped
  <2>1. x # g /\ frame[x].pc = "fetched"
    BY <1>3, <1>4 DEF IdleFrame
  <2>2. StoreCredit(g) /\ frame[g].order = o
    BY <1>1, <1>4 DEF Alters, HasReceipt
  <2>3. frame[g].payment \in PaymentsOf(o) /\ frame[g].pc = "credited"
    BY <2>2, Running DEF StoreCredit, At, LocalsOK, KnownPayment, PaymentsOf
  <2>4. frame[x].payment \in PaymentsOf(o)
    BY <1>4, <2>1, Running DEF LocalsOK, KnownPayment, PaymentsOf
  <2>5. frame[x].payment = frame[g].payment
    BY <2>3, <2>4 DEF OnePayment
  <2>6. InSync(x, frame[x].payment) /\ InSync(g, frame[x].payment)
    BY <2>1, <2>3, <2>5 DEF InSync
  <2>7. QED
    BY <2>1, <2>4, <2>6 DEF SyncedAlone, PaymentsOf
<1>5. \A x \in Goroutines : frame'[x].pc = "fetched" => frame'[x] = frame[x]
  BY <1>3 DEF IdleFrame
<1>6. QED
  BY <1>1, <1>2, <1>4, <1>5, WrittenSettles

\* YooKassa's answer about the only payment of an order that was credited.
LEMMA AnswerIsTold ==
  ASSUME Settlement, NEW g \in Goroutines, SyncStep(g), NEW f \in Frame,
         f.payment = frame[g].payment, f.pc = "fetched", frame[g].pc = "fetching",
         payments[f.payment].status = "succeeded" => f.answer = "succeeded"
  PROVE  UNCHANGED <<orders, payments>> => ToldNext(f)
<1>. IInv /\ OnePayment
  BY DEF Settlement
<1>. DEFINE p == f.payment
            o == payments[p].order
<1>1. p \in PaymentIDs /\ payments[p] # NoPayment /\ o \in OrderIDs
  BY Running DEF LocalsOK, KnownPayment, IInv, TypeOK, Payment
<1>2. p \in PaymentsOf(o)
  BY <1>1 DEF PaymentsOf
<1>3. ASSUME Exists(o), HasReceipt(orders[o]) PROVE f.answer = "succeeded"
  <2>1. PICK q \in PaymentsOf(o) : payments[q].status = "succeeded"
    BY <1>1, <1>3, ReceiptIsPaid
  <2>2. q = p
    BY <1>1, <1>2, <2>1 DEF OnePayment
  <2>3. QED
    BY <2>1, <2>2
<1>4. QED
  BY <1>3 DEF ToldNext, ReceiptNext, Exists

LEMMA SettlesInductive ==
  ASSUME Settlement, [Next]_vars
  PROVE  Settles'
<1>. IInv /\ Creators /\ OnePayment /\ SyncedAlone /\ Settles
  BY DEF Settlement
<1>. IdleFrame.pc # "fetched"
  BY DEF IdleFrame
<1>1. ASSUME NEW h \in Handlers, NEW t \in TradeNos \cup {NoTrade}, CreateOrder(h, t)
      PROVE  Settles'
  <2>1. PICK o \in OrderIDs, f \in Frame :
          /\ NewOrder(t) \in Order /\ Write(o, NewOrder(t))
          /\ Become(h, f)
          /\ f = IdleFrame \/ f.pc = "creating"
    BY <1>1, CreateShape
  <2>2. ~HasReceipt(NewOrder(t)) /\ SettledNext(o, NewOrder(t))
    BY DEF NewOrder, HasReceipt, SettledNext
  <2>3. \A x \in Goroutines : frame'[x].pc = "fetched" => frame'[x] = frame[x]
    BY <2>1, BecomeMoves, HandlersRun
  <2>4. QED
    BY <2>1, <2>2, <2>3, WrittenSettles
<1>2. ASSUME NEW h \in Handlers, YooCreatesPayment(h) \/ YooRefusesPayment(h)
      PROVE  Settles'
  <2>1. PICK f : Become(h, f) /\ f.pc \in {"created", "createFailed"}
    <3>1. frame[h] \in Frame
      BY HandlersRun, Running
    <3>2. [frame[h] EXCEPT !.pc = "createFailed"].pc = "createFailed"
      BY <3>1 DEF Frame
    <3>3. QED
      BY <1>2, <3>2, PaymentShape DEF YooRefusesPayment
  <2>2. UNCHANGED <<orders, dataFile>>
    BY <1>2 DEF YooCreatesPayment, YooRefusesPayment, storeVars
  <2>3. \A x \in Goroutines : frame'[x].pc = "fetched" => frame'[x] = frame[x]
    BY <2>1, BecomeMoves, HandlersRun
  <2>4. QED
    BY <2>2, <2>3, SettlesKept
<1>3. CASE Starts
  <2>1. PICK g \in Goroutines, f \in Frame : Become(g, f) /\ f.pc = "fetching"
    BY <1>3, StartShape DEF Starts
  <2>2. UNCHANGED <<orders, dataFile>>
    BY <1>3, StartShape DEF Starts, storeVars
  <2>3. \A x \in Goroutines : frame'[x].pc = "fetched" => frame'[x] = frame[x]
    BY <2>1, BecomeMoves
  <2>4. QED
    BY <2>2, <2>3, SettlesKept
<1>4. ASSUME NEW g \in Goroutines, SyncStep(g), ~Updates(g)
      PROVE  Settles'
  <2>1. UNCHANGED <<orders, dataFile, payments>>
    BY <1>4 DEF SyncStep, Updates, YooAnswersPayment, YooDoesNotAnswer, OrderNotFound,
                AlreadyCredited, StartCredit, NewAPICredits, NewAPIRefuses, storeVars, callVars
  <2>2. PICK f \in Frame :
          /\ Become(g, f)
          /\ f = IdleFrame \/ f.payment = frame[g].payment
          /\ f.pc = "fetched" =>
               /\ frame[g].pc = "fetching"
               /\ payments[f.payment].status = "succeeded" => f.answer = "succeeded"
    BY <1>4, SyncShape
  <2>3. f.pc = "fetched" => ToldNext(f)
    BY <1>4, <2>1, <2>2, AnswerIsTold
  <2>4. \A x \in Goroutines : frame'[x] = IF x = g THEN f ELSE frame[x]
    BY <2>2, BecomeMoves
  <2>5. QED
    BY <2>1, <2>3, <2>4, SettlesKept
<1>5. ASSUME \/ reconcilePending \/ UNCHANGED vars
             \/ \E p \in PaymentIDs : CustomerPays(p) \/ PaymentExpires(p)
      PROVE  Settles'
  <2>1. UNCHANGED <<orders, dataFile, frame>>
    BY <1>5 DEF reconcilePending, vars, CustomerPays, PaymentExpires, storeVars
  <2>2. QED
    BY <2>1, SettlesKept
<1>6. CASE Crash \/ Restart
  <2>1. \A o \in OrderIDs : orders'[o] \in {NoOrder, dataFile[o]} /\ dataFile'[o] \in {NoOrder, dataFile[o]}
    BY <1>6 DEF Crash, LoseMemory, Torn, Restart, Load, NoOrders
  <2>2. \A o \in OrderIDs : dataFile[o] # NoOrder => SettledNext(o, dataFile[o])
    BY OverlapsStay DEF Settles, SettledNext
  <2>3. \A g \in Goroutines : frame'[g].pc = "idle"
    BY <1>6 DEF Crash, Restart, IInv, NothingStoredIsFalse, IdleFrame
  <2>4. \A g \in Goroutines : ToldNext(frame'[g])
    BY <2>3 DEF ToldNext
  <2>5. \A o \in OrderIDs :
          /\ orders'[o] # NoOrder => SettledNext(o, orders'[o])
          /\ dataFile'[o] # NoOrder => SettledNext(o, dataFile'[o])
    BY <2>1, <2>2
  <2>6. QED
    BY <2>4, <2>5, SettlesNext
<1>7. QED
  BY <1>1, <1>2, <1>3, <1>4, <1>5, <1>6, StepKinds, UpdateSettles

LEMMA SettlementInvariance == Spec => []Settlement
<1>1. Init => Settlement
  <2>1. ASSUME Init PROVE SyncedAlone /\ Settles
    BY <2>1 DEF Init, StoreInit, NoOrders, Exists, SyncedAlone, InSync, Settles, IdleFrame
  <2>2. QED
    BY <2>1, Initially, CreationsInitially DEF Settlement
<1>2. Settlement /\ [Next]_vars => Settlement'
  <2>1. ASSUME Settlement, [Next]_vars PROVE IInv' /\ Creators' /\ OnePayment' /\ SyncedAlone'
    BY <2>1, Inductive, CreationsInductive, SyncsInductive DEF Settlement
  <2>2. QED
    BY <2>1, SettlesInductive DEF Settlement
<1>3. QED
  BY <1>1, <1>2, PTL DEF Spec

\* An order that has its code or its notification is reported as succeeded, unless two
\* syncs of its payment overlapped; after a crash, what is read back is settled too.
THEOREM ReceiptsSettle == Spec => []ReceiptsSettleOrders
<1>1. Settlement => ReceiptsSettleOrders
  BY DEF Settlement, Settles, ReceiptsSettleOrders, HasReceipt, Overlapped
<1>2. QED
  BY <1>1, SettlementInvariance, PTL

-----------------------------------------------------------------------------
(* Updates lose nothing.                                                   *)

Crediting(f) == f.pc \in {"crediting", "credited"}

\* An order that a goroutine credits, and syncs alone, has no receipt to lose.
CreditsAreFirst ==
  \A g \in Goroutines :
    Crediting(frame[g]) /\ frame[g].payment \notin overlapped =>
      ~HasReceipt(orders[frame[g].order])

\* Nor has one that is about to be credited.
LEMMA NothingStoredBefore ==
  ASSUME Settlement, NEW g \in Goroutines, At(g, "fetched"),
         frame[g].payment \notin overlapped,
         NEW o \in OrdersOf(frame[g].payment), ~NothingToCredit(orders[o])
  PROVE  ~HasReceipt(orders[o])
<1>. IInv /\ OnePayment /\ SyncedAlone /\ Settles
  BY DEF Settlement
<1>. DEFINE p == frame[g].payment
<1>1. /\ o \in OrderIDs /\ Exists(o) /\ p \in PaymentIDs /\ payments[p] # NoPayment
      /\ payments[p].order = o /\ orders[o] \in Order /\ RecordOK(o, orders[o])
  BY OrdersOfOne
<1>2. ~Overlapped(o)
  <2>1. ASSUME NEW q \in overlapped, payments[q].order = o PROVE FALSE
    <3>1. q \in PaymentsOf(o) /\ p \in PaymentsOf(o)
      BY <1>1, <2>1 DEF PaymentsOf, SyncedAlone, TypeOK, IInv
    <3>2. QED
      BY <1>1, <3>1 DEF OnePayment
  <2>2. QED
    BY <2>1 DEF Overlapped
<1>3. HasReceipt(orders[o]) => orders[o].status = "succeeded"
  BY <1>1, <1>2 DEF Settles
<1>4. orders[o].status # "succeeded"
  BY <1>1 DEF RecordOK, NothingToCredit, canCredit, IsEpay, Order
<1>5. QED
  BY <1>3, <1>4

\* A goroutine that credits an order was at it, or has just found that it may.
CreditingNext(g) ==
  \/ frame'[g] = frame[g]
  \/ /\ UNCHANGED <<orders, overlapped>>
     /\ frame'[g].payment = frame[g].payment
     /\ \/ frame[g].pc = "crediting" /\ frame'[g].order = frame[g].order
        \/ /\ At(g, "fetched")
           /\ frame'[g].order \in OrdersOf(frame[g].payment)
           /\ ~NothingToCredit(orders[frame'[g].order])

LEMMA SyncCredits ==
  ASSUME IInv, NEW g \in Goroutines, SyncStep(g), ~Updates(g), Crediting(frame'[g])
  PROVE  CreditingNext(g)
<1>1. frame[g] \in Frame
  BY Running
<1>2. CASE StartCredit(g)
  <2>1. PICK o \in OrdersOf(frame[g].payment) :
          /\ ~NothingToCredit(orders[o])
          /\ Become(g, [frame[g] EXCEPT !.pc = "crediting", !.order = o])
    BY <1>2 DEF StartCredit
  <2>2. frame'[g] = [frame[g] EXCEPT !.pc = "crediting", !.order = o]
    BY <2>1, BecomeMoves
  <2>3. frame'[g].order = o /\ frame'[g].payment = frame[g].payment
    BY <1>1, <2>2 DEF Frame
  <2>4. At(g, "fetched") /\ UNCHANGED <<orders, overlapped>>
    BY <1>2 DEF StartCredit, storeVars
  <2>5. QED
    BY <2>1, <2>3, <2>4 DEF CreditingNext
<1>3. CASE NewAPICredits(g)
  <2>1. frame[g].pc = "crediting" /\ UNCHANGED <<orders, overlapped>>
    BY <1>3 DEF NewAPICredits, At, storeVars
  <2>2. \/ frame'[g] = [frame[g] EXCEPT !.pc = "credited", !.code = Len(ledger')]
        \/ frame'[g] = [frame[g] EXCEPT !.pc = "creditFailed"]
    BY <1>3, BecomeMoves DEF NewAPICredits
  <2>3. frame'[g].order = frame[g].order /\ frame'[g].payment = frame[g].payment
    BY <1>1, <2>2 DEF Frame
  <2>4. QED
    BY <2>1, <2>3 DEF CreditingNext
<1>4. CASE YooAnswersPayment(g)
  <2>. DEFINE status == payments[frame[g].payment].status
              said == IF status = "unseen" THEN "pending" ELSE status
  <2>1. frame'[g] = [frame[g] EXCEPT !.pc = "fetched", !.answer = said]
    BY <1>4, BecomeMoves DEF YooAnswersPayment
  <2>2. HIDE DEF said
  <2>3. frame'[g].pc = "fetched"
    BY <1>1, <2>1 DEF Frame
  <2>4. QED
    BY <2>3 DEF Crediting
<1>5. CASE NewAPIRefuses(g)
  <2>1. frame'[g] = [frame[g] EXCEPT !.pc = "creditFailed"]
    BY <1>5, BecomeMoves DEF NewAPIRefuses
  <2>2. frame'[g].pc = "creditFailed"
    BY <1>1, <2>1 DEF Frame
  <2>3. QED
    BY <2>2 DEF Crediting
<1>6. CASE YooDoesNotAnswer(g) \/ OrderNotFound(g) \/ AlreadyCredited(g)
  <2>1. frame'[g] = IdleFrame
    BY <1>6, BecomeMoves DEF YooDoesNotAnswer, OrderNotFound, AlreadyCredited, Return
  <2>2. QED
    BY <2>1 DEF Crediting, IdleFrame
<1>7. QED
  BY <1>2, <1>3, <1>4, <1>5, <1>6 DEF SyncStep, Updates

LEMMA StepsCredit ==
  ASSUME IInv, [Next]_vars, NEW g \in Goroutines, Crediting(frame'[g])
  PROVE  CreditingNext(g)
<1>. ~Crediting(IdleFrame)
  BY DEF Crediting, IdleFrame
<1>1. ASSUME NEW h \in Handlers, NEW t \in TradeNos \cup {NoTrade}, CreateOrder(h, t)
      PROVE  CreditingNext(g)
  <2>1. PICK f : Become(h, f) /\ (f = IdleFrame \/ f.pc = "creating")
    BY <1>1, CreateShape
  <2>2. QED
    BY <2>1, BecomeMoves, HandlersRun DEF CreditingNext, Crediting
<1>2. ASSUME NEW h \in Handlers, YooCreatesPayment(h) \/ YooRefusesPayment(h)
      PROVE  CreditingNext(g)
  <2>1. PICK f : Become(h, f) /\ f.pc \in {"created", "createFailed"}
    <3>1. frame[h] \in Frame
      BY HandlersRun, Running
    <3>2. [frame[h] EXCEPT !.pc = "createFailed"].pc = "createFailed"
      BY <3>1 DEF Frame
    <3>3. QED
      BY <1>2, <3>2, PaymentShape DEF YooRefusesPayment
  <2>2. QED
    BY <2>1, BecomeMoves, HandlersRun DEF CreditingNext, Crediting
<1>3. ASSUME NEW h \in Goroutines, Updates(h),
             StorePayment(h) \/ StoreCreateError(h) => h \in Handlers
      PROVE  CreditingNext(g)
  <2>1. Return(h)
    BY <1>3, UpdateAlters
  <2>2. QED
    BY <2>1, BecomeMoves DEF Return, CreditingNext
<1>4. CASE Starts
  <2>1. PICK h \in Goroutines, f \in Frame : Become(h, f) /\ f.pc = "fetching"
    BY <1>4, StartShape DEF Starts
  <2>2. QED
    BY <2>1, BecomeMoves DEF CreditingNext, Crediting
<1>5. ASSUME NEW h \in Goroutines, SyncStep(h), ~Updates(h)
      PROVE  CreditingNext(g)
  <2>1. PICK f : Become(h, f)
    BY <1>5, SyncShape
  <2>2. CASE h # g
    BY <2>1, <2>2, BecomeMoves DEF CreditingNext
  <2>3. CASE h = g
    BY <1>5, <2>3, SyncCredits
  <2>4. QED
    BY <2>2, <2>3
<1>6. CASE \/ reconcilePending \/ UNCHANGED vars
           \/ \E p \in PaymentIDs : CustomerPays(p) \/ PaymentExpires(p)
           \/ Restart
  BY <1>6 DEF reconcilePending, vars, CustomerPays, PaymentExpires, Restart, CreditingNext
<1>7. CASE Crash
  BY <1>7 DEF Crash
<1>8. QED
  BY <1>1, <1>2, <1>3, <1>4, <1>5, <1>6, <1>7, StepKinds

\* An update is one goroutine's last step; the other steps of a process that runs
\* write no order that exists.
LEMMA StepsWrite ==
  ASSUME IInv, [Next]_vars, up, up'
  PROVE  \/ \A x \in OrderIDs : Exists(x) => orders'[x] = orders[x]
         \/ \E g \in Goroutines :
              Updates(g) /\ (StorePayment(g) \/ StoreCreateError(g) => g \in Handlers)
<1>1. ASSUME NEW h \in Handlers, NEW t \in TradeNos \cup {NoTrade}, CreateOrder(h, t)
      PROVE  \A x \in OrderIDs : Exists(x) => orders'[x] = orders[x]
  <2>1. PICK o \in OrderIDs : ~Exists(o) /\ NewOrder(t) \in Order /\ Write(o, NewOrder(t))
    BY <1>1, CreateShape
  <2>2. QED
    BY <2>1, WritesOne
<1>2. ASSUME NEW g \in Goroutines, SyncStep(g), ~Updates(g)
      PROVE  UNCHANGED orders
  BY <1>2 DEF SyncStep, Updates, YooAnswersPayment, YooDoesNotAnswer, OrderNotFound,
              AlreadyCredited, StartCredit, NewAPICredits, NewAPIRefuses, storeVars
<1>3. ASSUME \/ \E h \in Handlers : YooCreatesPayment(h) \/ YooRefusesPayment(h)
             \/ Starts \/ reconcilePending
             \/ \E p \in PaymentIDs : CustomerPays(p) \/ PaymentExpires(p)
             \/ UNCHANGED vars
      PROVE  UNCHANGED orders
  BY <1>3 DEF YooCreatesPayment, YooRefusesPayment, Starts, yooWebhook, getOrder,
              epayReturn, ReconcileNext, reconcilePending, CustomerPays, PaymentExpires,
              vars, storeVars
<1>4. ~Crash /\ ~Restart
  BY DEF Crash, Restart
<1>5. QED
  BY <1>1, <1>2, <1>3, <1>4, StepKinds

LEMMA CreditsStayFirst ==
  ASSUME Settlement, CreditsAreFirst, [Next]_vars, NEW g \in Goroutines,
         Crediting(frame'[g]), frame'[g].payment \notin overlapped'
  PROVE  ~HasReceipt(orders'[frame'[g].order])
<1>. IInv /\ OnePayment /\ SyncedAlone
  BY DEF Settlement
<1>1. overlapped \subseteq overlapped'
  BY OverlapsStay
<1>2. CASE /\ UNCHANGED <<orders, overlapped>>
           /\ frame'[g].payment = frame[g].payment
           /\ frame[g].pc = "crediting" /\ frame'[g].order = frame[g].order
  BY <1>2 DEF CreditsAreFirst, Crediting
<1>3. CASE /\ UNCHANGED <<orders, overlapped>>
           /\ frame'[g].payment = frame[g].payment
           /\ At(g, "fetched")
           /\ frame'[g].order \in OrdersOf(frame[g].payment)
           /\ ~NothingToCredit(orders[frame'[g].order])
  <2>1. PICK o \in OrdersOf(frame[g].payment) : o = frame'[g].order
    BY <1>3
  <2>2. ~HasReceipt(orders[o])
    BY <1>3, <2>1, NothingStoredBefore
  <2>3. QED
    BY <1>3, <2>1, <2>2
<1>4. CASE frame'[g] = frame[g]
  <2>. DEFINE o == frame[g].order
              p == frame[g].payment
  <2>1. /\ o \in OrderIDs /\ Exists(o) /\ frame[g].pc \in {"crediting", "credited"}
        /\ p \in PaymentsOf(o) /\ p \notin overlapped
    BY <1>1, <1>4, Running DEF Crediting, LocalsOK, KnownOrder, KnownPayment, PaymentsOf
  <2>2. ~HasReceipt(orders[o])
    BY <2>1 DEF CreditsAreFirst, Crediting
  <2>3. up /\ up'
    <3>1. up
      BY <2>1 DEF IInv, NothingStoredIsFalse
    <3>2. ~Crash
      BY <1>4, <2>1 DEF Crash, IdleFrame
    <3>3. QED
      BY <3>1, <3>2, StoreSteps DEF Restart
  <2>4. CASE orders'[o] = orders[o]
    BY <1>4, <2>2, <2>4
  <2>5. ASSUME NEW h \in Goroutines, Updates(h),
               StorePayment(h) \/ StoreCreateError(h) => h \in Handlers
        PROVE  ~HasReceipt(orders'[o])
    <3>1. PICK x \in OrderIDs, r \in Order :
            Exists(x) /\ Write(x, r) /\ Return(h) /\ Alters(h, x, r)
      BY <2>5, UpdateAlters
    <3>2. orders'[o] = IF x = o THEN r ELSE orders[o]
      BY <2>1, <3>1, WritesOne
    <3>3. h # g
      BY <1>4, <2>1, <3>1, BecomeMoves DEF Return, IdleFrame
    <3>4. ~(StoreCredit(h) /\ frame[h].order = o)
      <4>1. ASSUME StoreCredit(h), frame[h].order = o PROVE FALSE
        <5>1. frame[h].payment \in PaymentsOf(o) /\ frame[h].pc = "credited"
          BY <4>1, Running DEF StoreCredit, At, LocalsOK, KnownPayment, PaymentsOf
        <5>2. frame[h].payment = p
          BY <2>1, <5>1 DEF OnePayment
        <5>3. InSync(h, p) /\ InSync(g, p)
          BY <2>1, <5>1, <5>2 DEF InSync
        <5>4. QED
          BY <2>1, <3>3, <5>3 DEF SyncedAlone, PaymentsOf
      <4>2. QED
        BY <4>1
    <3>5. x = o => r.code = orders[o].code /\ r.notified = orders[o].notified
      BY <3>1, <3>4 DEF Alters
    <3>6. QED
      BY <2>2, <3>2, <3>5 DEF HasReceipt
  <2>6. QED
    BY <1>4, <2>1, <2>3, <2>4, <2>5, StepsWrite
<1>5. QED
  BY <1>2, <1>3, <1>4, StepsCredit DEF CreditingNext

LEMMA CreditsInvariance == Spec => [](Settlement /\ CreditsAreFirst)
<1>1. Init => CreditsAreFirst
  BY DEF Init, CreditsAreFirst, Crediting, IdleFrame
<1>2. Settlement /\ CreditsAreFirst /\ [Next]_vars => CreditsAreFirst'
  BY CreditsStayFirst DEF CreditsAreFirst, Crediting
<1>3. QED
  BY <1>1, <1>2, SettlementInvariance, PTL DEF Spec

\* What UpdatesLoseNothing says of a step.
NothingLost ==
  up /\ up' => \A o \in OrderIDs : Exists(o) =>
    /\ orders'[o] # NoOrder
    /\ orders[o].payment # NoPayment => orders'[o].payment = orders[o].payment
    /\ orders[o].code # NoCode =>
         /\ orders'[o].code # NoCode
         /\ \/ orders'[o].code = orders[o].code
            \/ \E p \in overlapped : payments[p].order = o
    /\ orders[o].notified => orders'[o].notified

LEMMA UpdateLosesNothing ==
  ASSUME Settlement, CreditsAreFirst, NEW g \in Goroutines, Updates(g),
         StorePayment(g) \/ StoreCreateError(g) => g \in Handlers
  PROVE  NothingLost
<1>. IInv /\ OnePayment
  BY DEF Settlement
<1>1. PICK o \in OrderIDs, r \in Order : Exists(o) /\ Write(o, r) /\ Alters(g, o, r)
  BY UpdateAlters
<1>2. /\ \A x \in OrderIDs : orders'[x] = IF x = o THEN r ELSE orders[x]
      /\ r # NoOrder
  BY <1>1, WritesOne
<1>3. /\ orders[o].code # NoCode => r.code # NoCode
      /\ orders[o].notified => r.notified
  BY <1>1 DEF Alters
<1>4. orders[o].payment # NoPayment => r.payment = orders[o].payment
  <2>1. CASE StorePayment(g) /\ frame[g].order = o /\ r.payment = frame[g].payment
    <3>1. frame[g].payment \in PaymentsOf(o)
      BY <2>1, StorePaymentTurns DEF PaymentsOf
    <3>2. orders[o].payment # NoPayment => orders[o].payment \in PaymentsOf(o)
      BY <1>1, StoredPayment DEF PaymentsOf
    <3>3. QED
      BY <2>1, <3>1, <3>2 DEF OnePayment
  <2>2. QED
    BY <1>1, <2>1 DEF Alters
<1>5. orders[o].code # NoCode =>
        r.code = orders[o].code \/ \E p \in overlapped : payments[p].order = o
  <2>1. CASE StoreCredit(g) /\ frame[g].order = o
    <3>1. Crediting(frame[g]) /\ payments[frame[g].payment].order = o
      BY <2>1, Running DEF StoreCredit, At, LocalsOK, Crediting
    <3>2. frame[g].payment \in overlapped \/ ~HasReceipt(orders[o])
      BY <2>1, <3>1 DEF CreditsAreFirst
    <3>3. QED
      BY <3>1, <3>2 DEF HasReceipt
  <2>2. QED
    BY <1>1, <2>1 DEF Alters
<1>6. QED
  BY <1>2, <1>3, <1>4, <1>5 DEF NothingLost, Exists

LEMMA StepsLoseNothing == Settlement /\ CreditsAreFirst /\ [Next]_vars => NothingLost
<1> SUFFICES ASSUME Settlement, CreditsAreFirst, [Next]_vars, up, up' PROVE NothingLost
  BY DEF NothingLost
<1>. IInv
  BY DEF Settlement
<1>1. CASE \A x \in OrderIDs : Exists(x) => orders'[x] = orders[x]
  BY <1>1 DEF NothingLost, Exists
<1>2. QED
  BY <1>1, StepsWrite, UpdateLosesNothing

\* While the process runs, no update wipes a payment id, a code or a notification
\* that another goroutine stored: each closure runs on the order as it is then.  And
\* a stored code stays the same one, unless two syncs of its payment overlapped: a
\* goroutine that credits an order it syncs alone has no code to replace.
THEOREM NoUpdateIsLost == Spec => UpdatesLoseNothing
<1>1. Settlement /\ CreditsAreFirst /\ [Next]_vars =>
        [up /\ up' => \A o \in OrderIDs : Exists(o) =>
           /\ orders'[o] # NoOrder
           /\ orders[o].payment # NoPayment => orders'[o].payment = orders[o].payment
           /\ orders[o].code # NoCode =>
                /\ orders'[o].code # NoCode
                /\ \/ orders'[o].code = orders[o].code
                   \/ \E p \in overlapped : payments[p].order = o
           /\ orders[o].notified => orders'[o].notified]_vars
  BY StepsLoseNothing DEF NothingLost
<1>2. QED
  BY <1>1, CreditsInvariance, PTL DEF Spec, UpdatesLoseNothing

-----------------------------------------------------------------------------
(* Credited once, if nothing went wrong.                                   *)

OnceNext(p) ==
  LET o == payments'[p].order
  IN  /\ \A i, j \in CreditsNext(o) : i = j
      /\ \/ CreditsNext(o) = {}
         \/ ReceiptNext(o)
         \/ \E g \in Goroutines : frame'[g].pc = "credited" /\ frame'[g].payment = p
      /\ \A g \in Goroutines :
           frame'[g].pc = "crediting" /\ frame'[g].payment = p => CreditsNext(o) = {}

\* CreditedOnce in the next state, from what holds of the values in it.
LEMMA CreditedOnceNext ==
  ASSUME badCalls' = 0 /\ crashes' = 0 => up',
         ASSUME badCalls' = 0, crashes' = 0,
                NEW p \in PaymentIDs \ overlapped', payments'[p] # NoPayment
         PROVE  OnceNext(p)
  PROVE  CreditedOnce'
<1>1. ASSUME badCalls' = 0, crashes' = 0,
             NEW p \in PaymentIDs \ overlapped', payments'[p] # NoPayment
      PROVE  (LET o == payments[p].order
              IN  /\ \A i, j \in Credits(o) : i = j
                  /\ \/ Credits(o) = {}
                     \/ Exists(o) /\ HasReceipt(orders[o])
                     \/ \E g \in Goroutines : frame[g].pc = "credited" /\ frame[g].payment = p
                  /\ \A g \in Goroutines :
                       frame[g].pc = "crediting" /\ frame[g].payment = p => Credits(o) = {})'
  <2>1. OnceNext(p)
    BY <1>1
  <2>2. QED
    BY <2>1 DEF OnceNext, CreditsNext, Credits, ReceiptNext, HasReceipt, Exists
<1>2. QED
  BY <1>1 DEF CreditedOnce

\* A failed call, or a crash, is not forgotten.
LEMMA FaultsStay ==
  ASSUME IInv, [Next]_vars, badCalls' = 0, crashes' = 0
  PROVE  badCalls = 0 /\ crashes = 0
<1>1. badCalls \in Nat /\ crashes \in Nat
  BY DEF IInv, TypeOK
<1>2. badCalls' \in {badCalls, badCalls + 1}
  <2>1. ASSUME NEW g \in Goroutines, SyncStep(g) PROVE badCalls' \in {badCalls, badCalls + 1}
    BY <2>1 DEF SyncStep, YooAnswersPayment, YooDoesNotAnswer, OrderNotFound, StoreUnpaid,
                AlreadyCredited, StartCredit, NewAPICredits, NewAPIRefuses, StoreCredit,
                StoreCreditError, CallFails, callVars
  <2>2. ASSUME NEW h \in Handlers, HandlerStep(h) PROVE badCalls' \in {badCalls, badCalls + 1}
    BY <2>2 DEF HandlerStep, createPayment, epaySubmit, CreateOrder, YooCreatesPayment,
                YooRefusesPayment, StorePayment, StoreCreateError, yooWebhook, getOrder,
                epayReturn, CallFails, callVars
  <2>3. ASSUME \/ ReconcileNext \/ reconcilePending \/ Crash \/ Restart \/ UNCHANGED vars
               \/ \E p \in PaymentIDs : CustomerPays(p) \/ PaymentExpires(p)
        PROVE  badCalls' = badCalls
    BY <2>3 DEF ReconcileNext, reconcilePending, Crash, Restart, vars, CustomerPays,
                PaymentExpires, callVars
  <2>4. QED
    BY <2>1, <2>2, <2>3 DEF Next
<1>3. crashes' \in {crashes, crashes + 1}
  <2>1. ASSUME NEW g \in Goroutines, SyncStep(g) PROVE crashes' = crashes
    BY <2>1, SyncShape
  <2>2. ASSUME NEW h \in Handlers, HandlerStep(h) PROVE crashes' = crashes
    BY <2>2 DEF HandlerStep, createPayment, epaySubmit, CreateOrder, YooCreatesPayment,
                YooRefusesPayment, StorePayment, StoreCreateError, yooWebhook, getOrder,
                epayReturn
  <2>3. ASSUME \/ ReconcileNext \/ reconcilePending \/ Restart \/ UNCHANGED vars
               \/ \E p \in PaymentIDs : CustomerPays(p) \/ PaymentExpires(p)
        PROVE  crashes' = crashes
    BY <2>3 DEF ReconcileNext, reconcilePending, Restart, vars, CustomerPays, PaymentExpires
  <2>4. QED
    BY <2>1, <2>2, <2>3 DEF Next, Crash
<1>4. QED
  BY <1>1, <1>2, <1>3

\* Steps that credit nothing.
LEMMA OnceKept ==
  ASSUME Settlement, CreditedOnce, [Next]_vars, badCalls = 0, crashes = 0,
         UNCHANGED ledger,
         \A p \in PaymentIDs : payments[p] = NoPayment /\ payments'[p] # NoPayment =>
           Credits(payments'[p].order) = {},
         \A o \in OrderIDs : Exists(o) /\ HasReceipt(orders[o]) => ReceiptNext(o),
         \A g \in Goroutines : frame[g].pc = "credited" =>
           frame'[g] = frame[g] \/ ReceiptNext(payments[frame[g].payment].order),
         \A g \in Goroutines :
           frame'[g].pc = "crediting" /\ frame'[g].payment \notin overlapped =>
             \/ frame'[g] = frame[g]
             \/ Credits(payments[frame'[g].payment].order) = {},
         NEW p \in PaymentIDs \ overlapped', payments'[p] # NoPayment
  PROVE  OnceNext(p)
<1>. IInv /\ SyncedAlone
  BY DEF Settlement
<1>1. \A o \in OrderIDs : CreditsNext(o) = Credits(o)
  BY DEF CreditsNext, Credits
<1>2. p \notin overlapped
  BY OverlapsStay
<1>3. CASE payments[p] = NoPayment
  <2>1. CreditsNext(payments'[p].order) = {}
    BY <1>3 DEF CreditsNext, Credits
  <2>2. QED
    BY <2>1 DEF OnceNext
<1>4. CASE payments[p] # NoPayment
  <2>. DEFINE o == payments[p].order
  <2>1. payments'[p].order = o /\ o \in OrderIDs
    BY <1>4, OverlapsStay DEF PaymentsStay, IInv, TypeOK, Payment
  <2>2. /\ \A i, j \in Credits(o) : i = j
        /\ \/ Credits(o) = {}
           \/ Exists(o) /\ HasReceipt(orders[o])
           \/ \E g \in Goroutines : frame[g].pc = "credited" /\ frame[g].payment = p
        /\ \A g \in Goroutines :
             frame[g].pc = "crediting" /\ frame[g].payment = p => Credits(o) = {}
    BY <1>2, <1>4 DEF CreditedOnce
  <2>3. CreditsNext(o) = Credits(o)
    BY <1>1, <2>1
  <2>4. \/ CreditsNext(o) = {}
        \/ ReceiptNext(o)
        \/ \E g \in Goroutines : frame'[g].pc = "credited" /\ frame'[g].payment = p
    BY <2>1, <2>2, <2>3
  <2>5. \A g \in Goroutines :
          frame'[g].pc = "crediting" /\ frame'[g].payment = p => CreditsNext(o) = {}
    BY <1>2, <2>2, <2>3
  <2>6. QED
    BY <2>1, <2>2, <2>3, <2>4, <2>5 DEF OnceNext
<1>5. QED
  BY <1>3, <1>4

\* An order that may be credited by the only goroutine that syncs it was not.
LEMMA NotYetCredited ==
  ASSUME Settlement, CreditedOnce, badCalls = 0, crashes = 0,
         NEW g \in Goroutines, At(g, "fetched"), frame[g].payment \notin overlapped,
         NEW o \in OrdersOf(frame[g].payment), ~NothingToCredit(orders[o])
  PROVE  Credits(payments[frame[g].payment].order) = {}
<1>. IInv /\ SyncedAlone
  BY DEF Settlement
<1>. DEFINE p == frame[g].payment
<1>1. /\ o \in OrderIDs /\ Exists(o) /\ p \in PaymentIDs /\ payments[p] # NoPayment
      /\ payments[p].order = o
  BY OrdersOfOne
<1>2. ~(\E h \in Goroutines : frame[h].pc = "credited" /\ frame[h].payment = p)
  <2>1. ASSUME NEW h \in Goroutines, frame[h].pc = "credited", frame[h].payment = p
        PROVE  FALSE
    <3>1. InSync(h, p) /\ InSync(g, p)
      BY <2>1 DEF InSync, At
    <3>2. h = g
      BY <1>1, <3>1 DEF SyncedAlone
    <3>3. QED
      BY <2>1, <3>2 DEF At
  <2>2. QED
    BY <2>1
<1>3. ~HasReceipt(orders[o])
  BY NothingStoredBefore
<1>4. QED
  BY <1>1, <1>2, <1>3 DEF CreditedOnce

\* The credit New API gives is the first of its order, and its receipt is on its way.
LEMMA CreditIsFirst ==
  ASSUME Settlement, CreditedOnce, badCalls = 0, crashes = 0, badCalls' = 0,
         NEW g \in Goroutines, NewAPICredits(g),
         NEW q \in PaymentIDs \ overlapped', payments'[q] # NoPayment
  PROVE  OnceNext(q)
<1>. IInv /\ OnePayment /\ SyncedAlone
  BY DEF Settlement
<1>. DEFINE o == frame[g].order
            p == frame[g].payment
            x == payments[q].order
<1>1. UNCHANGED <<payments, overlapped, orders>> /\ frame[g].pc = "crediting"
  BY DEF NewAPICredits, storeVars, At
<1>2. /\ o \in OrderIDs /\ p \in PaymentIDs /\ payments[p] # NoPayment
      /\ payments[p].order = o /\ frame[g] \in Frame
  BY <1>1, Running DEF LocalsOK, KnownPayment, KnownOrder
<1>3. x \in OrderIDs /\ payments[q] # NoPayment
  BY <1>1 DEF IInv, TypeOK, Payment
<1>4. CreditsNext(o) = Credits(o) \cup {Len(ledger) + 1}
      /\ \A z \in OrderIDs \ {o} : CreditsNext(z) = Credits(z)
  <2>1. ledger \in Seq(OrderIDs) /\ ledger' = Append(ledger, o)
    BY DEF NewAPICredits, IInv, TypeOK
  <2>2. /\ DOMAIN ledger' = DOMAIN ledger \cup {Len(ledger) + 1}
        /\ ledger'[Len(ledger) + 1] = o
        /\ \A i \in DOMAIN ledger : ledger'[i] = ledger[i]
    BY <1>2, <2>1
  <2>3. QED
    BY <2>2 DEF CreditsNext, Credits
<1>5. /\ \A i, j \in Credits(x) : i = j
      /\ \/ Credits(x) = {}
         \/ Exists(x) /\ HasReceipt(orders[x])
         \/ \E h \in Goroutines : frame[h].pc = "credited" /\ frame[h].payment = q
      /\ \A h \in Goroutines :
           frame[h].pc = "crediting" /\ frame[h].payment = q => Credits(x) = {}
  BY <1>1, <1>3 DEF CreditedOnce
<1>6. PICK f : Become(g, f) /\ f.pc = "credited" /\ f.payment = p
  <2>1. ~CallFails
    BY DEF CallFails
  <2>2. Become(g, [frame[g] EXCEPT !.pc = "credited", !.code = Len(ledger')])
    BY <2>1 DEF NewAPICredits
  <2>3. /\ [frame[g] EXCEPT !.pc = "credited", !.code = Len(ledger')].pc = "credited"
        /\ [frame[g] EXCEPT !.pc = "credited", !.code = Len(ledger')].payment = p
    BY <1>2 DEF Frame
  <2>4. QED
    BY <2>2, <2>3
<1>7. \A h \in Goroutines : frame'[h] = IF h = g THEN f ELSE frame[h]
  BY <1>6, BecomeMoves
<1>8. payments'[q].order = x
  BY <1>1
<1>9. CASE x = o
  <2>1. q = p
    BY <1>2, <1>3, <1>9 DEF OnePayment, PaymentsOf
  <2>2. CreditsNext(x) = {Len(ledger) + 1}
    BY <1>1, <1>4, <1>5, <1>9, <2>1
  <2>3. frame'[g].pc = "credited" /\ frame'[g].payment = q
    BY <1>6, <1>7, <2>1
  <2>4. \A h \in Goroutines : ~(frame'[h].pc = "crediting" /\ frame'[h].payment = q)
    <3>1. ASSUME NEW h \in Goroutines, frame'[h].pc = "crediting", frame'[h].payment = q
          PROVE  FALSE
      <4>1. h # g /\ frame[h].pc = "crediting" /\ frame[h].payment = q
        BY <1>6, <1>7, <3>1
      <4>2. InSync(h, q) /\ InSync(g, q)
        BY <1>1, <2>1, <4>1 DEF InSync
      <4>3. QED
        BY <1>1, <4>1, <4>2 DEF SyncedAlone
    <3>2. QED
      BY <3>1
  <2>5. QED
    BY <1>8, <2>2, <2>3, <2>4 DEF OnceNext
<1>10. CASE x # o
  <2>1. CreditsNext(x) = Credits(x) /\ q # p
    BY <1>2, <1>3, <1>4, <1>10
  <2>2. \A h \in Goroutines : frame'[h].payment = q => frame'[h] = frame[h]
    BY <1>6, <1>7, <2>1
  <2>3. \A h \in Goroutines : frame[h].payment = q => frame'[h] = frame[h]
    BY <1>7, <2>1
  <2>4. ReceiptNext(x) <=> Exists(x) /\ HasReceipt(orders[x])
    BY <1>1 DEF ReceiptNext, Exists
  <2>5. QED
    BY <1>5, <1>8, <2>1, <2>2, <2>3, <2>4 DEF OnceNext
<1>11. QED
  BY <1>9, <1>10

\* What the steps that credit nothing do to receipts and to goroutines.
LEMMA UpdateKeepsOnce ==
  ASSUME Settlement, CreditedOnce, [Next]_vars, badCalls = 0, crashes = 0,
         NEW g \in Goroutines, Updates(g),
         StorePayment(g) \/ StoreCreateError(g) => g \in Handlers,
         NEW p \in PaymentIDs \ overlapped', payments'[p] # NoPayment
  PROVE  OnceNext(p)
<1>. IInv /\ OnePayment
  BY DEF Settlement
<1>1. PICK o \in OrderIDs, r \in Order :
        Exists(o) /\ Write(o, r) /\ Return(g) /\ Alters(g, o, r)
  BY UpdateAlters
<1>2. /\ \A x \in OrderIDs : orders'[x] = IF x = o THEN r ELSE orders[x]
      /\ r # NoOrder
  BY <1>1, WritesOne
<1>3. HasReceipt(orders[o]) => HasReceipt(r)
  BY <1>1 DEF Alters, HasReceipt
<1>4. \A x \in OrderIDs : Exists(x) /\ HasReceipt(orders[x]) => ReceiptNext(x)
  BY <1>2, <1>3 DEF ReceiptNext, Exists
<1>5. \A h \in Goroutines : frame'[h] = IF h = g THEN IdleFrame ELSE frame[h]
  BY <1>1, BecomeMoves DEF Return
<1>6. frame[g].pc = "credited" => ReceiptNext(payments[frame[g].payment].order)
  <2>1. ASSUME frame[g].pc = "credited" PROVE StoreCredit(g)
    BY <2>1 DEF Updates, At, StorePayment, StoreCreateError, StoreUnpaid, StoreCreditError
  <2>2. ASSUME StoreCredit(g) PROVE ReceiptNext(payments[frame[g].payment].order)
    <3>1. frame[g].order \in OrderIDs /\ payments[frame[g].payment].order = frame[g].order
      BY <2>2, Running DEF StoreCredit, At, LocalsOK, KnownOrder
    <3>2. frame[g].pc = "credited"
      BY <2>2 DEF StoreCredit, At
    <3>3. frame[g].order = o /\ HasReceipt(r)
      BY <1>1, <3>2 DEF Alters, At, StorePayment, StoreCreateError, StoreUnpaid, StoreCreditError
    <3>4. QED
      BY <1>2, <3>1, <3>3 DEF ReceiptNext
  <2>3. QED
    BY <2>1, <2>2
<1>7. UNCHANGED ledger
  BY DEF Updates, StorePayment, StoreCreateError, StoreUnpaid, StoreCredit, StoreCreditError,
         callVars
<1>8. \A q \in PaymentIDs : payments[q] = NoPayment => payments'[q] = NoPayment
  <2>1. CASE StorePayment(g)
    BY <2>1, StorePaymentTurns, TurnsOne
  <2>2. CASE ~StorePayment(g)
    BY <2>2 DEF Updates, StoreCreateError, StoreUnpaid, StoreCredit, StoreCreditError, callVars
  <2>3. QED
    BY <2>1, <2>2
<1>9. \A h \in Goroutines : frame'[h].pc = "crediting" => frame'[h] = frame[h]
  BY <1>5 DEF IdleFrame
<1>10. \A h \in Goroutines : frame[h].pc = "credited" =>
         frame'[h] = frame[h] \/ ReceiptNext(payments[frame[h].payment].order)
  BY <1>5, <1>6
<1>11. QED
  BY <1>4, <1>7, <1>8, <1>9, <1>10, OnceKept

LEMMA SyncKeepsOnce ==
  ASSUME Settlement, CreditedOnce, [Next]_vars, badCalls = 0, crashes = 0,
         badCalls' = 0,
         NEW g \in Goroutines, SyncStep(g), ~Updates(g),
         NEW p \in PaymentIDs \ overlapped', payments'[p] # NoPayment
  PROVE  OnceNext(p)
<1>. IInv
  BY DEF Settlement
<1>1. CASE NewAPICredits(g)
  BY <1>1, CreditIsFirst
<1>2. CASE ~NewAPICredits(g)
  <2>1. UNCHANGED <<orders, payments, ledger>>
    BY <1>2 DEF SyncStep, Updates, YooAnswersPayment, YooDoesNotAnswer, OrderNotFound,
                AlreadyCredited, StartCredit, NewAPIRefuses, storeVars, callVars
  <2>2. frame[g].pc \in {"fetching", "fetched"}
    <3>1. ~NewAPIRefuses(g)
      BY DEF NewAPIRefuses, CallFails
    <3>2. QED
      BY <1>2, <3>1 DEF SyncStep, Updates, YooAnswersPayment, YooDoesNotAnswer, OrderNotFound,
                        AlreadyCredited, StartCredit, At
  <2>3. PICK f \in Frame :
          Become(g, f) /\ (f = IdleFrame \/ f.payment = frame[g].payment)
    BY SyncShape
  <2>4. \A x \in Goroutines : frame'[x] = IF x = g THEN f ELSE frame[x]
    BY <2>3, BecomeMoves
  <2>5. ASSUME f.pc = "crediting", frame[g].payment \notin overlapped
        PROVE  Credits(payments[frame[g].payment].order) = {}
    <3>1. StartCredit(g)
      <4>1. frame'[g].pc = "crediting"
        BY <2>4, <2>5
      <4>2. CASE YooAnswersPayment(g)
        <5>. DEFINE said == IF payments[frame[g].payment].status = "unseen" THEN "pending"
                              ELSE payments[frame[g].payment].status
        <5>1. frame'[g] = [frame[g] EXCEPT !.pc = "fetched", !.answer = said]
          BY <4>2, BecomeMoves DEF YooAnswersPayment
        <5>2. HIDE DEF said
        <5>3. frame'[g].pc = "fetched"
          BY <5>1, Running DEF Frame
        <5>4. QED
          BY <4>1, <5>3
      <4>3. CASE Return(g)
        BY <4>1, <4>3, BecomeMoves DEF Return, IdleFrame
      <4>4. ~NewAPIRefuses(g)
        BY <2>2 DEF NewAPIRefuses, At
      <4>5. QED
        BY <1>2, <4>2, <4>3, <4>4
           DEF SyncStep, Updates, YooDoesNotAnswer, OrderNotFound, AlreadyCredited
    <3>2. PICK o \in OrdersOf(frame[g].payment) : ~NothingToCredit(orders[o])
      BY <3>1 DEF StartCredit
    <3>3. At(g, "fetched")
      BY <3>1 DEF StartCredit
    <3>4. QED
      BY <2>5, <3>2, <3>3, NotYetCredited
  <2>6. f.pc = "crediting" => f.payment = frame[g].payment
    BY <2>3 DEF IdleFrame
  <2>7. \A x \in Goroutines :
          frame'[x].pc = "crediting" /\ frame'[x].payment \notin overlapped =>
            \/ frame'[x] = frame[x]
            \/ Credits(payments[frame'[x].payment].order) = {}
    BY <2>4, <2>5, <2>6
  <2>8. \A x \in Goroutines : frame[x].pc = "credited" => frame'[x] = frame[x]
    BY <2>2, <2>4
  <2>9. \A o \in OrderIDs : Exists(o) /\ HasReceipt(orders[o]) => ReceiptNext(o)
    BY <2>1 DEF ReceiptNext, Exists
  <2>10. QED
    BY <2>1, <2>7, <2>8, <2>9, OnceKept
<1>3. QED
  BY <1>1, <1>2

\* Steps of other goroutines that neither credit nor store a receipt.
LEMMA OthersKeepOnce ==
  ASSUME Settlement, CreditedOnce, [Next]_vars, badCalls = 0, crashes = 0,
         UNCHANGED ledger,
         \A p \in PaymentIDs : payments[p] = NoPayment /\ payments'[p] # NoPayment =>
           Credits(payments'[p].order) = {},
         \A o \in OrderIDs : Exists(o) => orders'[o] = orders[o],
         \A g \in Goroutines :
           \/ frame'[g] = frame[g]
           \/ frame[g].pc # "credited" /\ frame'[g].pc # "crediting",
         NEW p \in PaymentIDs \ overlapped', payments'[p] # NoPayment
  PROVE  OnceNext(p)
<1>1. \A o \in OrderIDs : Exists(o) /\ HasReceipt(orders[o]) => ReceiptNext(o)
  BY DEF ReceiptNext, Exists
<1>2. \A g \in Goroutines : frame[g].pc = "credited" => frame'[g] = frame[g]
  OBVIOUS
<1>3. \A g \in Goroutines : frame'[g].pc = "crediting" => frame'[g] = frame[g]
  OBVIOUS
<1>4. QED
  BY <1>1, <1>2, <1>3, OnceKept

LEMMA CreditedOnceInductive ==
  ASSUME Settlement, CreditedOnce, [Next]_vars
  PROVE  CreditedOnce'
<1>. IInv /\ OnePayment
  BY DEF Settlement
<1>1. badCalls' = 0 /\ crashes' = 0 => badCalls = 0 /\ crashes = 0 /\ up
  BY FaultsStay DEF CreditedOnce
<1>2. badCalls' = 0 /\ crashes' = 0 => up' /\ ~Crash /\ ~Restart
  <2>1. crashes \in Nat
    BY DEF IInv, TypeOK
  <2>2. Crash => crashes' # 0
    BY <2>1 DEF Crash
  <2>3. up => ~Restart
    BY DEF Restart
  <2>4. ~Crash /\ ~Restart => UNCHANGED up
    BY StoreSteps
  <2>5. QED
    BY <1>1, <2>2, <2>3, <2>4
<1>3. ASSUME badCalls' = 0, crashes' = 0,
             NEW p \in PaymentIDs \ overlapped', payments'[p] # NoPayment
      PROVE  OnceNext(p)
  <2>. badCalls = 0 /\ crashes = 0
    BY <1>1, <1>3
  <2>. IdleFrame.pc = "idle"
    BY DEF IdleFrame
  <2>1. ASSUME NEW h \in Handlers, NEW t \in TradeNos \cup {NoTrade}, CreateOrder(h, t)
        PROVE  OnceNext(p)
    <3>1. PICK o \in OrderIDs, f \in Frame :
            /\ ~Exists(o) /\ NewOrder(t) \in Order /\ Write(o, NewOrder(t))
            /\ Become(h, f) /\ (f = IdleFrame \/ f.pc = "creating")
            /\ UNCHANGED callVars
      BY <2>1, CreateShape
    <3>2. \A x \in OrderIDs : Exists(x) => orders'[x] = orders[x]
      BY <3>1, WritesOne
    <3>3. frame[h].pc = "idle"
      BY <2>1 DEF CreateOrder, Served, At
    <3>4. \A g \in Goroutines :
            frame'[g] = frame[g] \/ (frame[g].pc # "credited" /\ frame'[g].pc # "crediting")
      BY <3>1, <3>3, HandlersRun, BecomeMoves
    <3>5. QED
      BY <1>3, <3>1, <3>2, <3>4, OthersKeepOnce DEF callVars
  <2>2. ASSUME NEW h \in Handlers, YooCreatesPayment(h)
        PROVE  OnceNext(p)
    <3> DEFINE Shape(q, f) ==
                 /\ payments'[q] = [order |-> frame[h].order, status |-> "unseen"]
                 /\ \A z \in PaymentIDs \ {q} : payments'[z] = payments[z]
                 /\ Become(h, f) /\ f.pc \in {"created", "createFailed"}
                 /\ frame[h].order \in OrderIDs
    <3>0. PICK q \in PaymentIDs : \E f : Shape(q, f)
      BY <2>2, PaymentShape
    <3>1. PICK f : Shape(q, f)
      BY <3>0
    <3>2. frame[h].pc = "creating" /\ UNCHANGED <<orders, ledger>>
      BY <2>2 DEF YooCreatesPayment, At, storeVars
    <3>3. Credits(frame[h].order) = {}
      <4>1. PaymentsOf(frame[h].order) = {}
        BY <3>2, HandlersRun DEF OnePayment
      <4>2. QED
        BY <3>1, <4>1, ReceiptIsPaid
    <3>4. \A z \in PaymentIDs : payments[z] = NoPayment /\ payments'[z] # NoPayment =>
            Credits(payments'[z].order) = {}
      BY <3>1, <3>3
    <3>5. \A g \in Goroutines :
            frame'[g] = frame[g] \/ (frame[g].pc # "credited" /\ frame'[g].pc # "crediting")
      BY <3>1, <3>2, HandlersRun, BecomeMoves
    <3>6. QED
      BY <1>3, <3>2, <3>4, <3>5, OthersKeepOnce
  <2>3. ASSUME NEW h \in Handlers, YooRefusesPayment(h)
        PROVE  OnceNext(p)
    BY <2>3, <1>3 DEF YooRefusesPayment, CallFails
  <2>4. CASE Starts
    <3>1. PICK g \in Goroutines, f \in Frame :
            Become(g, f) /\ f.pc = "fetching" /\ frame[g].pc = "idle"
      BY <2>4, StartShape DEF Starts
    <3>2. UNCHANGED <<orders, payments, ledger>>
      BY <2>4, StartShape DEF Starts, storeVars, callVars
    <3>3. \A x \in Goroutines :
            frame'[x] = frame[x] \/ (frame[x].pc # "credited" /\ frame'[x].pc # "crediting")
      BY <3>1, BecomeMoves
    <3>4. QED
      BY <1>3, <3>2, <3>3, OthersKeepOnce
  <2>5. CASE reconcilePending \/ UNCHANGED vars
    <3>1. UNCHANGED <<orders, payments, ledger, frame>>
      BY <2>5 DEF reconcilePending, vars, storeVars, callVars
    <3>2. QED
      BY <1>3, <3>1, OthersKeepOnce
  <2>6. ASSUME NEW q \in PaymentIDs, CustomerPays(q) \/ PaymentExpires(q)
        PROVE  OnceNext(p)
    <3>1. UNCHANGED <<orders, ledger, frame>> /\ payments[q] # NoPayment
      BY <2>6 DEF CustomerPays, PaymentExpires, storeVars
    <3>2. PaymentTurns(q, "succeeded") \/ PaymentTurns(q, "canceled")
      BY <2>6 DEF CustomerPays, PaymentExpires, PaymentTurns
    <3>3. \A z \in PaymentIDs : payments[z] = NoPayment => payments'[z] = NoPayment
      BY <3>1, <3>2, TurnsOne
    <3>4. QED
      BY <1>3, <3>1, <3>3, OthersKeepOnce
  <2>7. QED
    BY <1>2, <1>3, <2>1, <2>2, <2>3, <2>4, <2>5, <2>6, StepKinds, UpdateKeepsOnce,
       SyncKeepsOnce
<1>4. QED
  BY <1>2, <1>3, CreditedOnceNext

\* As long as no call has failed and the process has not died, an order whose payment
\* was never synced by two goroutines at a time is credited once, however often
\* webhooks are repeated and the order is polled.
THEOREM SequentialSyncsCredit == Spec => []SequentialSyncsCreditOnce
<1>1. Init => CreditedOnce
  BY DEF Init, CreditedOnce
<1>2. Settlement /\ CreditedOnce /\ [Next]_vars => CreditedOnce'
  BY CreditedOnceInductive
<1>3. CreditedOnce => SequentialSyncsCreditOnce
  BY DEF CreditedOnce, SequentialSyncsCreditOnce
<1>4. QED
  BY <1>1, <1>2, <1>3, SettlementInvariance, PTL DEF Spec

-----------------------------------------------------------------------------
(* The bridge implements CreditLedger.                                     *)

PaidNext(o) ==
  \E p \in PaymentIDs : payments'[p] # NoPayment /\ payments'[p].order = o
                        /\ payments'[p].status = "succeeded"

LEMMA PaidMeans ==
  ASSUME IInv
  PROVE  \A o \in OrderIDs : o \in PaidOrders <=>
           \E p \in PaymentsOf(o) : payments[p].status = "succeeded"
<1>1. \A p \in PaymentIDs, o \in OrderIDs : payments[p] # NoPayment =>
        (payments[p] = [order |-> o, status |-> "succeeded"] <=>
           payments[p].order = o /\ payments[p].status = "succeeded")
  BY DEF IInv, TypeOK, Payment
<1>2. QED
  BY <1>1 DEF PaidOrders, PaymentsOf

LEMMA PaidMeansNext ==
  ASSUME TypeOK'
  PROVE  \A o \in OrderIDs : o \in PaidOrders' <=> PaidNext(o)
<1>1. \A p \in PaymentIDs, o \in OrderIDs : payments'[p] # NoPayment =>
        (payments'[p] = [order |-> o, status |-> "succeeded"] <=>
           payments'[p].order = o /\ payments'[p].status = "succeeded")
  BY DEF TypeOK, Payment
<1>2. QED
  BY <1>1 DEF PaidOrders, PaidNext

\* Who is paid changes when a customer pays.
LEMMA PaidKept ==
  ASSUME IInv, TypeOK',
         \A p \in PaymentIDs :
           \/ payments'[p] = payments[p]
           \/ /\ payments[p] = NoPayment \/ payments[p].status # "succeeded"
              /\ payments'[p] = NoPayment \/ payments'[p].status # "succeeded"
  PROVE  PaidOrders' = PaidOrders
<1>1. \A o \in OrderIDs : o \in PaidOrders' <=> o \in PaidOrders
  BY PaidMeans, PaidMeansNext DEF PaidNext, PaymentsOf
<1>2. PaidOrders \subseteq OrderIDs /\ PaidOrders' \subseteq OrderIDs
  BY DEF PaidOrders
<1>3. QED
  BY <1>1, <1>2

LEMMA CustomerPaysLedger ==
  ASSUME IInv, TypeOK', NEW p \in PaymentIDs, CustomerPays(p)
  PROVE  \E o \in OrderIDs : Ledger!Pay(o)
<1>. DEFINE o == payments[p].order
<1>1. /\ payments[p] # NoPayment /\ payments[p].status = "pending"
      /\ PaymentTurns(p, "succeeded") /\ UNCHANGED <<orders, up, ledger>>
  BY DEF CustomerPays, PaymentTurns, storeVars
<1>2. o \in OrderIDs
  BY <1>1 DEF IInv, TypeOK, Payment
<1>3. /\ payments'[p] # NoPayment /\ payments'[p].order = o
      /\ \A q \in PaymentIDs \ {p} : payments'[q] = payments[q]
  BY <1>1, TurnsOne DEF PaymentsStay
<1>4. payments'[p].status = "succeeded"
  <2>. DEFINE y == [payments[p] EXCEPT !.status = "succeeded"]
  <2>1. y.status = "succeeded"
    BY <1>1 DEF IInv, TypeOK, Payment
  <2>2. payments' = [payments EXCEPT ![p] = y]
    BY <1>1 DEF PaymentTurns
  <2>3. HIDE DEF y
  <2>4. QED
    BY <2>1, <2>2 DEF IInv, TypeOK
<1>5. \A x \in OrderIDs : x \in PaidOrders' <=> x \in PaidOrders \/ x = o
  BY <1>1, <1>3, <1>4, PaidMeans, PaidMeansNext DEF PaidNext, PaymentsOf
<1>6. PaidOrders' = PaidOrders \cup {o}
  BY <1>2, <1>5 DEF PaidOrders
<1>7. SettledOrders' = SettledOrders
  BY <1>1 DEF SettledOrders, Exists
<1>8. QED
  BY <1>1, <1>2, <1>6, <1>7 DEF Ledger!Pay

\* Every other step leaves the paid orders alone.
LEMMA PaidStays ==
  ASSUME IInv, TypeOK', [Next]_vars, \A p \in PaymentIDs : ~CustomerPays(p)
  PROVE  PaidOrders' = PaidOrders
<1>1. ASSUME NEW h \in Handlers, YooCreatesPayment(h) PROVE PaidOrders' = PaidOrders
  <2>1. PICK p \in PaymentIDs :
          /\ payments[p] = NoPayment
          /\ payments'[p] = [order |-> frame[h].order, status |-> "unseen"]
          /\ \A q \in PaymentIDs \ {p} : payments'[q] = payments[q]
    BY <1>1, PaymentShape
  <2>2. payments'[p].status # "succeeded"
    BY <2>1
  <2>3. QED
    BY <2>1, <2>2, PaidKept
<1>2. ASSUME NEW h \in Handlers, StorePayment(h) PROVE PaidOrders' = PaidOrders
  <2>. DEFINE p == frame[h].payment
              y == [payments[p] EXCEPT !.status = "pending"]
  <2>1. p \in PaymentIDs /\ payments[p] # NoPayment
    BY <1>2, StorePaymentTurns
  <2>2. payments[p] \in Payment
    BY <2>1 DEF IInv, TypeOK
  <2>3. y.status = "pending"
    BY <2>2 DEF Payment
  <2>4. [payments[p] EXCEPT !.status = payments[p].status] = payments[p]
    BY <2>2 DEF Payment
  <2>5. payments' = payments \/ payments' = [payments EXCEPT ![p] =
          IF payments[p].status = "unseen" THEN y ELSE payments[p]]
    BY <1>2, <2>4 DEF StorePayment
  <2>6. HIDE DEF y
  <2>7. \A q \in PaymentIDs :
          \/ payments'[q] = payments[q]
          \/ q = p /\ payments[p].status = "unseen" /\ payments'[p] = y
    BY <2>1, <2>5 DEF IInv, TypeOK
  <2>8. QED
    BY <2>3, <2>7, PaidKept
<1>3. ASSUME NEW p \in PaymentIDs, PaymentExpires(p) PROVE PaidOrders' = PaidOrders
  <2>1. payments[p] # NoPayment /\ payments[p].status # "succeeded"
        /\ PaymentTurns(p, "canceled")
    BY <1>3 DEF PaymentExpires, PaymentTurns
  <2>2. /\ \A q \in PaymentIDs \ {p} : payments'[q] = payments[q]
        /\ payments'[p].status # "succeeded"
    BY <2>1, TurnsOne
  <2>3. QED
    BY <2>1, <2>2, PaidKept
<1>4. ASSUME UNCHANGED payments PROVE PaidOrders' = PaidOrders
  BY <1>4 DEF PaidOrders
<1>5. ASSUME NEW g \in Goroutines, SyncStep(g) \/ StoreCreateError(g) \/ YooRefusesPayment(g)
      PROVE  UNCHANGED payments
  BY <1>5, SyncShape DEF StoreCreateError, YooRefusesPayment, callVars
<1>6. ASSUME Starts \/ reconcilePending \/ Crash \/ Restart \/ UNCHANGED vars
      PROVE  UNCHANGED payments
  BY <1>6 DEF Starts, yooWebhook, getOrder, epayReturn, ReconcileNext, reconcilePending,
              Crash, Restart, vars, callVars
<1>7. ASSUME NEW h \in Handlers, NEW t \in TradeNos \cup {NoTrade}, CreateOrder(h, t)
      PROVE  UNCHANGED payments
  BY <1>7 DEF CreateOrder, callVars
<1>8. \A g \in Goroutines : StoreUnpaid(g) \/ StoreCredit(g) \/ StoreCreditError(g) => SyncStep(g)
  BY DEF SyncStep
<1>9. QED
  BY <1>1, <1>2, <1>3, <1>4, <1>5, <1>6, <1>7, <1>8, StepKinds, HandlersRun DEF Updates

\* An order comes to be settled when a goroutine stores its receipt, which New API gave.
LEMMA UpdateIsLedgerStep ==
  ASSUME IInv, TypeOK', PaidOrders' = PaidOrders, NEW g \in Goroutines, Updates(g),
         StorePayment(g) \/ StoreCreateError(g) => g \in Handlers
  PROVE  \/ \E o \in OrderIDs : Ledger!Settle(o)
         \/ UNCHANGED Ledger!ledgerVars
<1>1. PICK o \in OrderIDs, r \in Order :
        Exists(o) /\ Write(o, r) /\ Return(g) /\ Alters(g, o, r)
  BY UpdateAlters
<1>2. /\ \A x \in OrderIDs : orders'[x] = IF x = o THEN r ELSE orders[x]
      /\ r # NoOrder
  BY <1>1, WritesOne
<1>3. UNCHANGED <<up, ledger>>
  BY DEF Updates, StorePayment, StoreCreateError, StoreUnpaid, StoreCredit, StoreCreditError,
         callVars
<1>4. CASE HasReceipt(r) <=> HasReceipt(orders[o])
  <2>1. \A x \in OrderIDs : x \in SettledOrders' <=> x \in SettledOrders
    BY <1>1, <1>2, <1>4 DEF SettledOrders, HasReceipt, Exists
  <2>2. SettledOrders' = SettledOrders
    BY <2>1 DEF SettledOrders
  <2>3. QED
    BY <1>3, <2>2 DEF Ledger!ledgerVars
<1>5. CASE StoreCredit(g) /\ frame[g].order = o /\ HasReceipt(r)
  <2>1. \A x \in OrderIDs : x \in SettledOrders' <=> x \in SettledOrders \/ x = o
    BY <1>1, <1>2, <1>5 DEF SettledOrders, HasReceipt, Exists
  <2>2. SettledOrders' = SettledOrders \cup {o}
    BY <2>1 DEF SettledOrders
  <2>3. up /\ Credits(o) # {}
    BY <1>5, Running DEF StoreCredit, At, LocalsOK
  <2>4. o \in Ledger!CreditedOrders
    BY <2>3 DEF Credits, Ledger!CreditedOrders
  <2>5. QED
    BY <1>3, <2>2, <2>3, <2>4 DEF Ledger!Settle
<1>6. QED
  BY <1>1, <1>4, <1>5 DEF Alters, HasReceipt

LEMMA CreditIsLedgerStep ==
  ASSUME IInv, PaidOrders' = PaidOrders, NEW g \in Goroutines, NewAPICredits(g)
  PROVE  \E o \in OrderIDs : Ledger!Credit(o)
<1>. DEFINE o == frame[g].order
<1>1. /\ up /\ o \in OrderIDs /\ frame[g].payment \in PaymentsOf(o)
      /\ payments[frame[g].payment].status = "succeeded"
  BY Running
     DEF NewAPICredits, At, LocalsOK, KnownOrder, KnownPayment, Succeeded, PaymentsOf
<1>2. o \in PaidOrders
  BY <1>1, PaidMeans
<1>3. SettledOrders' = SettledOrders
  BY DEF NewAPICredits, storeVars, SettledOrders, Exists
<1>4. QED
  BY <1>1, <1>2, <1>3 DEF NewAPICredits, Ledger!Credit

\* After a restart the bridge knows of some credits, all of them real.
LEMMA RestartIsLedgerStep ==
  ASSUME IInv, PaidOrders' = PaidOrders, Restart
  PROVE  Ledger!Start
<1>1. ~up /\ up' /\ orders' = dataFile /\ UNCHANGED ledger
  BY DEF Restart, Load, callVars
<1>2. ASSUME NEW o \in SettledOrders' PROVE o \in Ledger!CreditedOrders
  <2>1. o \in OrderIDs /\ dataFile[o] # NoOrder /\ HasReceipt(dataFile[o])
    BY <1>1, <1>2 DEF SettledOrders, Exists, HasReceipt
  <2>2. Credits(o) # {}
    BY <2>1 DEF IInv, NothingStoredIsFalse, RecordOK, Genuine, HasReceipt
  <2>3. QED
    BY <2>2 DEF Credits, Ledger!CreditedOrders
<1>3. SettledOrders' \in SUBSET Ledger!CreditedOrders
  BY <1>2
<1>4. up' = TRUE
  BY DEF Restart
<1>5. QED
  BY <1>1, <1>3, <1>4 DEF Ledger!Start

LEMMA StepsAreLedgerSteps ==
  ASSUME IInv, TypeOK', [Next]_vars
  PROVE  Ledger!LedgerNext \/ UNCHANGED Ledger!ledgerVars
<1>1. CASE \E p \in PaymentIDs : CustomerPays(p)
  BY <1>1, CustomerPaysLedger DEF Ledger!LedgerNext
<1>2. CASE \A p \in PaymentIDs : ~CustomerPays(p)
  <2>. PaidOrders' = PaidOrders
    BY <1>2, PaidStays
  <2>1. ASSUME NEW h \in Handlers, NEW t \in TradeNos \cup {NoTrade}, CreateOrder(h, t)
        PROVE  UNCHANGED Ledger!ledgerVars
    <3>1. PICK o \in OrderIDs :
            ~Exists(o) /\ NewOrder(t) \in Order /\ Write(o, NewOrder(t))
      BY <2>1, CreateShape
    <3>2. ~HasReceipt(NewOrder(t))
      BY DEF NewOrder, HasReceipt
    <3>3. \A x \in OrderIDs : x \in SettledOrders' <=> x \in SettledOrders
      BY <3>1, <3>2, WritesOne DEF SettledOrders, HasReceipt, Exists
    <3>4. SettledOrders' = SettledOrders
      BY <3>3 DEF SettledOrders
    <3>5. QED
      BY <2>1, <3>4 DEF CreateOrder, callVars, Ledger!ledgerVars
  <2>2. ASSUME NEW g \in Goroutines, SyncStep(g), ~Updates(g), ~NewAPICredits(g)
        PROVE  UNCHANGED Ledger!ledgerVars
    <3>1. UNCHANGED <<orders, up, ledger>>
      BY <2>2 DEF SyncStep, Updates, YooAnswersPayment, YooDoesNotAnswer, OrderNotFound,
                  AlreadyCredited, StartCredit, NewAPIRefuses, storeVars, callVars
    <3>2. QED
      BY <3>1 DEF SettledOrders, Exists, Ledger!ledgerVars
  <2>3. ASSUME \/ \E h \in Handlers : YooCreatesPayment(h) \/ YooRefusesPayment(h)
               \/ Starts \/ reconcilePending \/ UNCHANGED vars
               \/ \E p \in PaymentIDs : PaymentExpires(p)
        PROVE  UNCHANGED Ledger!ledgerVars
    <3>1. UNCHANGED <<orders, up, ledger>>
      BY <2>3 DEF YooCreatesPayment, YooRefusesPayment, Starts, yooWebhook, getOrder,
                  epayReturn, ReconcileNext, reconcilePending, PaymentExpires, vars,
                  storeVars, callVars
    <3>2. QED
      BY <3>1 DEF SettledOrders, Exists, Ledger!ledgerVars
  <2>4. CASE Crash
    <3>1. SettledOrders' = {} /\ up' = FALSE /\ UNCHANGED ledger
      BY <2>4 DEF Crash, LoseMemory, NoOrders, SettledOrders, Exists, callVars
    <3>2. QED
      BY <3>1 DEF Ledger!Stop, Ledger!LedgerNext
  <2>5. CASE Restart
    BY <2>5, RestartIsLedgerStep DEF Ledger!LedgerNext
  <2>6. ASSUME NEW g \in Goroutines, NewAPICredits(g)
        PROVE  Ledger!LedgerNext
    BY <2>6, CreditIsLedgerStep DEF Ledger!LedgerNext
  <2>7. ASSUME NEW g \in Goroutines, Updates(g),
               StorePayment(g) \/ StoreCreateError(g) => g \in Handlers
        PROVE  Ledger!LedgerNext \/ UNCHANGED Ledger!ledgerVars
    BY <2>7, UpdateIsLedgerStep DEF Ledger!LedgerNext
  <2>8. QED
    BY <1>2, <2>1, <2>2, <2>3, <2>4, <2>5, <2>6, <2>7, StepKinds
<1>3. QED
  BY <1>1, <1>2

\* The bridge implements the ledger: whatever its handlers, its reconciler, its
\* failures and crashes do, seen from the shop it only credits paid orders, comes to
\* know what it credited, and after a crash knows less but nothing false.
THEOREM BridgeImplementsLedger == Spec => ImplementsLedger
<1>1. Init => Ledger!LedgerInit
  BY DEF Init, StoreInit, NoOrders, PaidOrders, SettledOrders, Exists, Ledger!LedgerInit
<1>2. IInv /\ IInv' /\ [Next]_vars => [Ledger!LedgerNext]_(Ledger!ledgerVars)
  BY StepsAreLedgerSteps DEF IInv
<1>3. QED
  BY <1>1, <1>2, Invariance, PTL DEF Spec, ImplementsLedger, Ledger!LedgerSpec
=============================================================================
