--------------------------- MODULE PaymentBridge ---------------------------
(***************************************************************************)
(* The YooKassa bridge (internal/yookassabridge/server.go): HTTP handlers  *)
(* and one reconciler goroutine that create payments at YooKassa, ask it   *)
(* for their status, and credit the customer once per paid order, either   *)
(* with a redemption code New API issues or with an Epay notification to   *)
(* New API.  Handlers and reconciler share the order store and nothing     *)
(* else; every call to YooKassa or New API is made outside its mutex.      *)
(*                                                                         *)
(* A goroutine is a frame: what it is about to do, and the local variables *)
(* it does it with.  A call is three steps: it is made, the other side     *)
(* performs it (its answer is then fixed), and the goroutine uses the      *)
(* answer.  Other goroutines run in between.                               *)
(***************************************************************************)
EXTENDS OrderStore, Sequences

CONSTANTS
  Handlers,      \* goroutines net/http runs handlers on
  Reconciler,    \* the goroutine StartReconciler starts
  MaxRequests,   \* bound: HTTP requests served
  MaxCrashes,    \* bound: times the process dies
  MaxBadCalls    \* bound: calls to YooKassa and New API that fail

Goroutines == Handlers \cup {Reconciler}

ASSUME BridgeAssumption ==
  /\ Reconciler \notin Handlers
  /\ NoPayment \notin [order : OrderIDs,
                       status : {"unseen", "pending", "succeeded", "canceled"}]
  /\ MaxRequests \in Nat
  /\ MaxCrashes \in Nat
  /\ MaxBadCalls \in Nat

VARIABLES
  up,         \* the process is running
  frame,      \* the goroutines
  queue,      \* payments the reconciler has still to sync in this round
  usedIDs,    \* order ids drawn so far: 16 random bytes never repeat
  payments,   \* YooKassa: the payments it knows
  ledger,     \* New API: the order of each credit it gave, oldest first
  overlapped, \* history: payments that two syncs worked on at the same time
  requests, crashes, badCalls   \* how much of each bound is used

callVars == <<payments, ledger, badCalls>>
vars == <<storeVars, up, frame, queue, usedIDs, callVars, overlapped,
          requests, crashes>>

\* "unseen": the confirmation URL has not been given to the customer.
\* Metadata["order_id"] is the order; Paid goes with "succeeded".
Payment == [order  : OrderIDs,
            status : {"unseen", "pending", "succeeded", "canceled"}]

Steps == {"idle", "creating", "created", "createFailed",
          "fetching", "fetched", "crediting", "credited", "creditFailed"}

Frame == [pc      : Steps,
          order   : OrderIDs \cup {NoOrder},
          payment : PaymentIDs \cup {NoPayment},
          answer  : {"none", "pending", "succeeded", "canceled"},
          code    : Nat]

IdleFrame == [pc |-> "idle", order |-> NoOrder, payment |-> NoPayment,
              answer |-> "none", code |-> NoCode]

TypeOK ==
  /\ StoreTypeOK
  /\ up \in BOOLEAN
  /\ frame \in [Goroutines -> Frame]
  /\ queue \subseteq PaymentIDs
  /\ usedIDs \subseteq OrderIDs
  /\ payments \in [PaymentIDs -> Payment \cup {NoPayment}]
  /\ ledger \in Seq(OrderIDs)
  /\ overlapped \subseteq PaymentIDs
  /\ requests \in 0..MaxRequests
  /\ crashes \in 0..MaxCrashes
  /\ badCalls \in 0..MaxBadCalls

Init ==
  /\ StoreInit
  /\ up = TRUE
  /\ frame = [g \in Goroutines |-> IdleFrame]
  /\ queue = {}
  /\ usedIDs = {}
  /\ payments = [p \in PaymentIDs |-> NoPayment]
  /\ ledger = <<>>
  /\ overlapped = {}
  /\ requests = 0
  /\ crashes = 0
  /\ badCalls = 0

At(g, step) == up /\ frame[g].pc = step

Become(g, f) == frame' = [frame EXCEPT ![g] = f]

Return(g) == Become(g, IdleFrame)

Served(h) ==
  /\ At(h, "idle")
  /\ requests < MaxRequests
  /\ requests' = requests + 1

CallFails ==
  /\ badCalls < MaxBadCalls
  /\ badCalls' = badCalls + 1

-----------------------------------------------------------------------------
(* createPayment and epaySubmit. *)

NewOrder(t) == [status |-> "pending", payment |-> NoPayment, code |-> NoCode,
                trade |-> t, notified |-> FALSE, error |-> FALSE]

\* The part before the call to YooKassa.  t is NoTrade in createPayment and
\* out_trade_no in epaySubmit; requests either handler rejects change nothing.
CreateOrder(h, t) ==
  /\ Served(h)
  /\ \E o \in OrderIDs \ usedIDs :
       /\ usedIDs' = usedIDs \cup {o}
       /\ \/ /\ CreateSaved(o, NewOrder(t))
             /\ Become(h, [IdleFrame EXCEPT !.pc = "creating", !.order = o])
          \/ /\ CreateUnsaved(o, NewOrder(t))
             /\ Return(h)
  /\ UNCHANGED <<up, queue, callVars, overlapped, crashes>>

createPayment(h) == CreateOrder(h, NoTrade)

epaySubmit(h) == \E t \in TradeNos : CreateOrder(h, t)

\* YooKassa performs CreatePayment; the answer arrives, or is lost.
YooCreatesPayment(h) ==
  /\ At(h, "creating")
  /\ \E p \in PaymentIDs :
       /\ payments[p] = NoPayment
       /\ payments' = [payments EXCEPT
                         ![p] = [order |-> frame[h].order, status |-> "unseen"]]
       /\ \/ /\ Become(h, [frame[h] EXCEPT !.pc = "created", !.payment = p])
             /\ UNCHANGED badCalls
          \/ /\ Become(h, [frame[h] EXCEPT !.pc = "createFailed"])
             /\ CallFails
  /\ UNCHANGED <<storeVars, up, queue, usedIDs, ledger, overlapped,
                 requests, crashes>>

YooRefusesPayment(h) ==
  /\ At(h, "creating")
  /\ Become(h, [frame[h] EXCEPT !.pc = "createFailed"])
  /\ CallFails
  /\ UNCHANGED <<storeVars, up, queue, usedIDs, payments, ledger, overlapped,
                 requests, crashes>>

WithPayment(order, p) == [order EXCEPT !.payment = p]

\* The customer gets the confirmation URL, except that createPayment answers
\* 500 when the save fails; epaySubmit ignores that error and redirects.
StorePayment(h) ==
  LET o == frame[h].order
      p == frame[h].payment
      opened == [payments EXCEPT ![p].status = IF @ = "unseen" THEN "pending" ELSE @]
  IN  /\ At(h, "created")
      /\ \/ /\ UpdateSaved(o, WithPayment(orders[o], p))
            /\ payments' = opened
         \/ /\ UpdateUnsaved(o, WithPayment(orders[o], p))
            /\ payments' = IF IsEpay(orders[o]) THEN opened ELSE payments
      /\ Return(h)
      /\ UNCHANGED <<up, queue, usedIDs, ledger, badCalls, overlapped,
                     requests, crashes>>

\* Bug: a status the rest of the code does not know.
Bug_AsFailed(order) == [order EXCEPT !.status = "error"]

AsFailed(order) == [order EXCEPT !.status = "failed", !.error = TRUE]

StoreCreateError(h) ==
  LET o == frame[h].order
  IN  /\ At(h, "createFailed")
      /\ Update(o, AsFailed(orders[o]))
      /\ Return(h)
      /\ UNCHANGED <<up, queue, usedIDs, callVars, overlapped, requests, crashes>>

-----------------------------------------------------------------------------
(* syncPayment: started by a webhook, an order poll, the Epay return page  *)
(* or the reconciler.                                                      *)

InSync(g, p) ==
  /\ frame[g].payment = p
  /\ frame[g].pc \in {"fetching", "fetched", "crediting", "credited", "creditFailed"}

syncPayment(g, p) ==
  /\ At(g, "idle")
  /\ Become(g, [IdleFrame EXCEPT !.pc = "fetching", !.payment = p])
  /\ overlapped' = IF \E other \in Goroutines : InSync(other, p)
                   THEN overlapped \cup {p} ELSE overlapped

\* YooKassa posts an event about a payment, perhaps late and more than once;
\* the handler does not read which event.
yooWebhook(h) ==
  /\ Served(h)
  /\ \E p \in PaymentIDs :
       /\ payments[p] # NoPayment
       /\ syncPayment(h, p)
  /\ UNCHANGED <<storeVars, up, queue, usedIDs, callVars, crashes>>

\* Polls of any other order only read it.
getOrder(h) ==
  /\ Served(h)
  /\ \E o \in OrderIDs :
       /\ Exists(o)
       /\ orders[o].status = "pending"
       /\ orders[o].payment # NoPayment
       /\ syncPayment(h, orders[o].payment)
  /\ UNCHANGED <<storeVars, up, queue, usedIDs, callVars, crashes>>

epayReturn(h) ==
  /\ Served(h)
  /\ \E t \in TradeNos : \E o \in FindByTradeNo(t) :
       /\ orders[o].payment # NoPayment
       /\ syncPayment(h, orders[o].payment)
  /\ UNCHANGED <<storeVars, up, queue, usedIDs, callVars, crashes>>

\* The ticker fires: reconcilePending takes the list it will work through.
reconcilePending ==
  /\ At(Reconciler, "idle")
  /\ queue = {}
  /\ queue' = PendingPaymentIDs
  /\ UNCHANGED <<storeVars, up, frame, usedIDs, callVars, overlapped,
                 requests, crashes>>

ReconcileNext ==
  /\ \E p \in queue :
       /\ syncPayment(Reconciler, p)
       /\ queue' = queue \ {p}
  /\ UNCHANGED <<storeVars, up, usedIDs, callVars, requests, crashes>>

\* YooKassa performs GetPayment: the answer is the status now.
YooAnswersPayment(g) ==
  /\ At(g, "fetching")
  /\ LET status == payments[frame[g].payment].status
     IN  Become(g, [frame[g] EXCEPT
                      !.pc = "fetched",
                      !.answer = IF status = "unseen" THEN "pending" ELSE status])
  /\ UNCHANGED <<storeVars, up, queue, usedIDs, callVars, overlapped,
                 requests, crashes>>

\* GetPayment fails: syncPayment returns the error.
YooDoesNotAnswer(g) ==
  /\ At(g, "fetching")
  /\ CallFails
  /\ Return(g)
  /\ UNCHANGED <<storeVars, up, queue, usedIDs, payments, ledger, overlapped,
                 requests, crashes>>

\* The order of a fetched payment: the one its metadata names, else one that
\* has its id.
OrdersOf(p) ==
  IF Exists(payments[p].order) THEN {payments[p].order} ELSE FindByPaymentID(p)

\* Bug: the closure writes back the order as it was created.
Bug_Unpaid(order, answer) ==
  [NewOrder(order.trade) EXCEPT
    !.payment = order.payment,
    !.status = IF answer = "canceled" THEN "canceled" ELSE "pending"]

\* Bug: every unpaid order is put back to pending.
Bug_UnpaidPending(order, answer) == [order EXCEPT !.status = "pending"]

Unpaid(order, answer) ==
  [order EXCEPT !.status = IF answer = "canceled" THEN "canceled" ELSE "pending"]

OrderNotFound(g) ==
  /\ At(g, "fetched")
  /\ OrdersOf(frame[g].payment) = {}
  /\ Return(g)
  /\ UNCHANGED <<storeVars, up, queue, usedIDs, callVars, overlapped,
                 requests, crashes>>

StoreUnpaid(g) ==
  /\ At(g, "fetched")
  /\ frame[g].answer # "succeeded"
  /\ \E o \in OrdersOf(frame[g].payment) :
       Update(o, Unpaid(orders[o], frame[g].answer))
  /\ Return(g)
  /\ UNCHANGED <<up, queue, usedIDs, callVars, overlapped, requests, crashes>>

\* Bug: canCredit is not asked.
Bug_NothingToCredit(order) == IsEpay(order) /\ order.notified

NothingToCredit(order) == ~canCredit(order) \/ (IsEpay(order) /\ order.notified)

AlreadyCredited(g) ==
  /\ At(g, "fetched")
  /\ frame[g].answer = "succeeded"
  /\ \E o \in OrdersOf(frame[g].payment) : NothingToCredit(orders[o])
  /\ Return(g)
  /\ UNCHANGED <<storeVars, up, queue, usedIDs, callVars, overlapped,
                 requests, crashes>>

\* Bug: every payment that is not canceled counts as paid.
Bug_StartCredit(g) ==
  /\ At(g, "fetched")
  /\ frame[g].answer # "canceled"
  /\ \E o \in OrdersOf(frame[g].payment) :
       /\ ~NothingToCredit(orders[o])
       /\ Become(g, [frame[g] EXCEPT !.pc = "crediting", !.order = o])
  /\ UNCHANGED <<storeVars, up, queue, usedIDs, callVars, overlapped,
                 requests, crashes>>

\* canCredit is decided on this copy of the order; the mutex is released.
StartCredit(g) ==
  /\ At(g, "fetched")
  /\ frame[g].answer = "succeeded"
  /\ \E o \in OrdersOf(frame[g].payment) :
       /\ ~NothingToCredit(orders[o])
       /\ Become(g, [frame[g] EXCEPT !.pc = "crediting", !.order = o])
  /\ UNCHANGED <<storeVars, up, queue, usedIDs, callVars, overlapped,
                 requests, crashes>>

\* New API performs CreateRedemption, or takes an Epay notification.  The
\* answer arrives; or it is lost, late, or not the one expected.
NewAPICredits(g) ==
  /\ At(g, "crediting")
  /\ ledger' = Append(ledger, frame[g].order)
  /\ \/ /\ Become(g, [frame[g] EXCEPT !.pc = "credited", !.code = Len(ledger')])
        /\ UNCHANGED badCalls
     \/ /\ Become(g, [frame[g] EXCEPT !.pc = "creditFailed"])
        /\ CallFails
  /\ UNCHANGED <<storeVars, up, queue, usedIDs, payments, overlapped,
                 requests, crashes>>

NewAPIRefuses(g) ==
  /\ At(g, "crediting")
  /\ Become(g, [frame[g] EXCEPT !.pc = "creditFailed"])
  /\ CallFails
  /\ UNCHANGED <<storeVars, up, queue, usedIDs, payments, ledger, overlapped,
                 requests, crashes>>

\* Bug: EpayNotified is not set.
Bug_CreditedNotNotified(order, code) ==
  IF IsEpay(order)
  THEN [order EXCEPT !.status = "succeeded", !.error = FALSE]
  ELSE [order EXCEPT !.status = "succeeded", !.error = FALSE, !.code = code]

\* Bug: Status is not set.
Bug_CreditedStillPending(order, code) ==
  IF IsEpay(order)
  THEN [order EXCEPT !.error = FALSE, !.notified = TRUE]
  ELSE [order EXCEPT !.error = FALSE, !.code = code]

\* Bug: the code kept is the last one New API answered to anyone.
Bug_CreditedLatest(order, code) ==
  IF IsEpay(order)
  THEN [order EXCEPT !.status = "succeeded", !.error = FALSE, !.notified = TRUE]
  ELSE [order EXCEPT !.status = "succeeded", !.error = FALSE, !.code = Len(ledger)]

Credited(order, code) ==
  IF IsEpay(order)
  THEN [order EXCEPT !.status = "succeeded", !.error = FALSE, !.notified = TRUE]
  ELSE [order EXCEPT !.status = "succeeded", !.error = FALSE, !.code = code]

StoreCredit(g) ==
  LET o == frame[g].order
  IN  /\ At(g, "credited")
      /\ Update(o, Credited(orders[o], frame[g].code))
      /\ Return(g)
      /\ UNCHANGED <<up, queue, usedIDs, callVars, overlapped, requests, crashes>>

StoreCreditError(g) ==
  LET o == frame[g].order
  IN  /\ At(g, "creditFailed")
      /\ Update(o, [orders[o] EXCEPT !.error = TRUE])
      /\ Return(g)
      /\ UNCHANGED <<up, queue, usedIDs, callVars, overlapped, requests, crashes>>

-----------------------------------------------------------------------------
(* The customer, and the process.                                          *)

CustomerPays(p) ==
  /\ payments[p] # NoPayment
  /\ payments[p].status = "pending"
  /\ payments' = [payments EXCEPT ![p].status = "succeeded"]
  /\ UNCHANGED <<storeVars, up, frame, queue, usedIDs, ledger, badCalls,
                 overlapped, requests, crashes>>

PaymentExpires(p) ==
  /\ payments[p] # NoPayment
  /\ payments[p].status \in {"unseen", "pending"}
  /\ payments' = [payments EXCEPT ![p].status = "canceled"]
  /\ UNCHANGED <<storeVars, up, frame, queue, usedIDs, ledger, badCalls,
                 overlapped, requests, crashes>>

\* Goroutines that write the store in their next step.
Saving ==
  \/ requests < MaxRequests /\ OrderIDs \ usedIDs # {}
  \/ \E g \in Goroutines :
       \/ frame[g].pc \in {"created", "createFailed", "credited", "creditFailed"}
       \/ frame[g].pc = "fetched" /\ frame[g].answer # "succeeded"

Crash ==
  /\ up
  /\ crashes < MaxCrashes
  /\ crashes' = crashes + 1
  /\ up' = FALSE
  /\ LoseMemory(Saving)
  /\ frame' = [g \in Goroutines |-> IdleFrame]
  /\ queue' = {}
  /\ UNCHANGED <<usedIDs, callVars, overlapped, requests>>

\* main: NewStore, or log.Fatal.
Restart ==
  /\ ~up
  /\ Load
  /\ up' = TRUE
  /\ UNCHANGED <<frame, queue, usedIDs, callVars, overlapped, requests, crashes>>

-----------------------------------------------------------------------------
HandlerStep(h) ==
  \/ createPayment(h) \/ epaySubmit(h)
  \/ YooCreatesPayment(h) \/ YooRefusesPayment(h)
  \/ StorePayment(h) \/ StoreCreateError(h)
  \/ yooWebhook(h) \/ getOrder(h) \/ epayReturn(h)

SyncStep(g) ==
  \/ YooAnswersPayment(g) \/ YooDoesNotAnswer(g)
  \/ OrderNotFound(g) \/ StoreUnpaid(g) \/ AlreadyCredited(g) \/ StartCredit(g)
  \/ NewAPICredits(g) \/ NewAPIRefuses(g)
  \/ StoreCredit(g) \/ StoreCreditError(g)

Next ==
  \/ \E h \in Handlers : HandlerStep(h)
  \/ \E g \in Goroutines : SyncStep(g)
  \/ reconcilePending
  \/ ReconcileNext
  \/ \E p \in PaymentIDs : CustomerPays(p) \/ PaymentExpires(p)
  \/ Crash
  \/ Restart

Spec == Init /\ [][Next]_vars

\* What the reconciler does is all that has to go on: its ticker fires, and
\* each of its calls ends, with an answer or an error.
Fairness ==
  /\ WF_vars(reconcilePending)
  /\ WF_vars(ReconcileNext)
  /\ WF_vars(SyncStep(Reconciler))

FairSpec == Spec /\ Fairness

-----------------------------------------------------------------------------
(* Properties.                                                             *)

Credits(o) == {i \in DOMAIN ledger : ledger[i] = o}

\* New API is asked for a code or notified only for an order whose payment
\* the customer has made: no schedule of webhooks, polls, lost answers,
\* crashes and restarts lets syncPayment credit an unpaid order.
CreditsArePaidFor ==
  \A i \in DOMAIN ledger : \E p \in PaymentIDs :
    /\ payments[p] # NoPayment
    /\ payments[p] = [order |-> ledger[i], status |-> "succeeded"]

\* The code in an order, in memory and in DATA_FILE, is one New API issued
\* for this very order, and an order marked notified was notified: what the
\* success page shows was never made for another customer's order.
Genuine(o, order) ==
  /\ order.code # NoCode => order.code \in Credits(o) /\ ~IsEpay(order)
  /\ order.notified => Credits(o) # {} /\ IsEpay(order)

ReceiptsAreGenuine ==
  \A o \in OrderIDs :
    /\ Exists(o) => Genuine(o, orders[o])
    /\ dataFile[o] # NoOrder => Genuine(o, dataFile[o])

\* An order reported as succeeded has its code, or its notification, however
\* the updates of two syncs and of the creating handler interleave: no update
\* wipes the receipt another one stored.
SucceededOrdersHaveReceipts ==
  \A o \in OrderIDs :
    Exists(o) /\ orders[o].status = "succeeded" =>
      IF IsEpay(orders[o]) THEN orders[o].notified ELSE orders[o].code # NoCode

\* While the process runs, no update loses what another goroutine stored: the
\* payment id and the Epay notification stay, and so does the redemption code,
\* this very one, unless two syncs of its payment overlapped (the second one's
\* code can then replace the first one's, but no update leaves none).
UpdatesLoseNothing ==
  [][up /\ up' => \A o \in OrderIDs : Exists(o) =>
       /\ orders'[o] # NoOrder
       /\ orders[o].payment # NoPayment => orders'[o].payment = orders[o].payment
       /\ orders[o].code # NoCode =>
            /\ orders'[o].code # NoCode
            /\ \/ orders'[o].code = orders[o].code
               \/ \E p \in overlapped : payments[p].order = o
       /\ orders[o].notified => orders'[o].notified]_vars

\* DATA_FILE is what the process would answer from memory, as long as no save
\* has failed: nothing is changed in memory alone.
FileIsCurrent ==
  up /\ badSaves = 0 => readable /\ dataFile = orders

\* An order that has its receipt is reported as succeeded, unless two syncs
\* of its payment overlapped (an older answer can then put it back).
ReceiptsSettleOrders ==
  \A o \in OrderIDs :
    Exists(o) /\ (orders[o].code # NoCode \/ orders[o].notified) =>
      \/ orders[o].status = "succeeded"
      \/ \E p \in overlapped : payments[p].order = o

\* How far "a repeated webhook does not create a second code" holds: an order
\* is credited once as long as its payment is synced by one goroutine at a
\* time, no call's answer was lost and the process did not die.
SequentialSyncsCreditOnce ==
  badCalls = 0 /\ crashes = 0 =>
    \A p \in PaymentIDs \ overlapped :
      payments[p] # NoPayment =>
        \A i, j \in Credits(payments[p].order) : i = j

\* The documentation: a repeated webhook creates no second code once one was
\* issued.  No code is issued for an order whose code is already stored.
StoredCodeEndsIssuing ==
  [][\A o \in OrderIDs :
       Exists(o) /\ orders[o].code # NoCode => Credits(o)' = Credits(o)]_vars

\* The bridge runs and waits for order o, whose payment is now in status.
Waiting(o, status) ==
  /\ up
  /\ Exists(o)
  /\ orders[o].status = "pending"
  /\ orders[o].payment # NoPayment
  /\ payments[orders[o].payment].status = status

\* A paid order that is waiting with its payment id is credited at last, with
\* no webhook and no open page: reconciling repeats failed calls and undoes
\* what older answers did.
PaidOrdersAreCredited ==
  \A o \in OrderIDs :
    Waiting(o, "succeeded") ~>
      \/ ~up
      \/ Exists(o) /\ IsEpay(orders[o]) /\ orders[o].notified
      \/ Exists(o) /\ ~IsEpay(orders[o]) /\ orders[o].status = "succeeded"

\* And a waiting order whose payment expired does not wait for ever.
ExpiredOrdersAreCanceled ==
  \A o \in OrderIDs :
    Waiting(o, "canceled") ~> ~up \/ (Exists(o) /\ orders[o].status = "canceled")

-----------------------------------------------------------------------------
(* Why the properties hold: what a goroutine may rely on between two steps. *)

KnownPayment(p) == p \in PaymentIDs /\ payments[p] # NoPayment

KnownOrder(o) == o \in OrderIDs /\ Exists(o)

Succeeded(p) == KnownPayment(p) /\ payments[p].status = "succeeded"

\* The local variables of a goroutine stay true while others run: the order
\* it works on exists, the payment it was told succeeded did, and the code it
\* is about to store was issued for its order.
LocalsOK(f) ==
  /\ f.pc \in {"creating", "created", "createFailed"} =>
       KnownOrder(f.order) /\ f.answer = "none"
  /\ f.pc = "created" =>
       KnownPayment(f.payment) /\ payments[f.payment].order = f.order
  /\ f.pc \in {"fetching", "fetched", "crediting", "credited", "creditFailed"} =>
       KnownPayment(f.payment)
  /\ f.answer = "succeeded" => Succeeded(f.payment)
  /\ f.pc \in {"crediting", "credited", "creditFailed"} =>
       /\ KnownOrder(f.order)
       /\ Succeeded(f.payment)
       /\ payments[f.payment].order = f.order
  /\ f.pc = "credited" => f.code \in Credits(f.order)

\* What is stored of an order, in memory or on disk, is true: its payment was
\* made for it, and its receipt is genuine and there when it says succeeded.
RecordOK(o, order) ==
  /\ order.payment # NoPayment =>
       KnownPayment(order.payment) /\ payments[order.payment].order = o
  /\ Genuine(o, order)
  /\ order.status = "succeeded" =>
       IF IsEpay(order) THEN order.notified ELSE order.code # NoCode

\* No step makes a goroutine's local variables, or a stored order, untrue.
NothingStoredIsFalse ==
  /\ \A g \in Goroutines : LocalsOK(frame[g])
  /\ ~up => \A g \in Goroutines : frame[g].pc = "idle"
  /\ \A p \in queue : KnownPayment(p)
  /\ \A o \in OrderIDs :
       /\ orders[o] # NoOrder => RecordOK(o, orders[o])
       /\ dataFile[o] # NoOrder => RecordOK(o, dataFile[o])

-----------------------------------------------------------------------------
(* The bridge implements the ledger of CreditLedger.                       *)

PaidOrders ==
  {o \in OrderIDs : \E p \in PaymentIDs :
     payments[p] # NoPayment /\ payments[p] = [order |-> o, status |-> "succeeded"]}

SettledOrders ==
  {o \in OrderIDs :
     Exists(o) /\ (orders[o].code # NoCode \/ orders[o].notified)}

Ledger == INSTANCE CreditLedger
            WITH running <- up, paid <- PaidOrders, settled <- SettledOrders

\* Every behaviour of the bridge is one of the ledger.
ImplementsLedger == Ledger!LedgerSpec
=============================================================================
