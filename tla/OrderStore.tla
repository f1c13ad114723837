----------------------------- MODULE OrderStore -----------------------------
(***************************************************************************)
(* The order store of the YooKassa bridge (internal/yookassabridge,        *)
(* store.go and order.go): a map from order id to order, guarded by one    *)
(* mutex and written to DATA_FILE as a whole by every operation that       *)
(* changes it.                                                             *)
(*                                                                         *)
(* Every operation holds the mutex until its file write has returned, so   *)
(* no goroutine sees the map changed and the file not yet written: an      *)
(* operation is one step.  The process can still die in the middle of the  *)
(* write, and the write can fail, so the map and the file are two          *)
(* variables.                                                              *)
(***************************************************************************)
EXTENDS Integers

CONSTANTS
  OrderIDs,     \* the ids newOrderID can draw
  PaymentIDs,   \* the ids YooKassa gives to payments
  TradeNos,     \* the out_trade_no values New API gives to its own orders
  NoOrder,      \* an id that is not in the map
  NoPayment,    \* an empty YooPaymentID
  NoTrade,      \* an empty EpayTradeNo and EpayNotifyURL: not an Epay order
  MaxBadSaves   \* bound: how many saves may fail

\* RedemptionCode is the position of the code in New API's ledger; 0 is "".
NoCode == 0

Statuses == {"pending", "succeeded", "canceled", "failed"}

\* Order without the fields no decision depends on: amount, quota, urls,
\* timestamps.  error is only "set" or "empty".
Order == [status   : Statuses,
          payment  : PaymentIDs \cup {NoPayment},
          code     : Nat,
          trade    : TradeNos \cup {NoTrade},
          notified : BOOLEAN,
          error    : BOOLEAN]

ASSUME StoreAssumption ==
  /\ NoOrder \notin Order
  /\ NoOrder \notin OrderIDs
  /\ NoPayment \notin PaymentIDs
  /\ NoTrade \notin TradeNos
  /\ MaxBadSaves \in Nat

VARIABLES
  orders,     \* Store.Orders, the map in memory
  dataFile,   \* the map DATA_FILE holds; a missing or empty file holds none
  readable,   \* FALSE when DATA_FILE is not a JSON document
  badSaves    \* how many saves have failed

storeVars == <<orders, dataFile, readable, badSaves>>

NoOrders == [o \in OrderIDs |-> NoOrder]

StoreTypeOK ==
  /\ orders \in [OrderIDs -> Order \cup {NoOrder}]
  /\ dataFile \in [OrderIDs -> Order \cup {NoOrder}]
  /\ readable \in BOOLEAN
  /\ badSaves \in 0..MaxBadSaves

\* The first start: DATA_FILE does not exist.
StoreInit ==
  /\ orders = NoOrders
  /\ dataFile = NoOrders
  /\ readable = TRUE
  /\ badSaves = 0

-----------------------------------------------------------------------------
(* Reads. *)

Exists(o) == orders[o] # NoOrder

IsEpay(order) == order.trade # NoTrade

canCredit(order) == order.status # "succeeded" \/ order.code = NoCode

FindByPaymentID(p) == {o \in OrderIDs : Exists(o) /\ orders[o].payment = p}

FindByTradeNo(t) == {o \in OrderIDs : Exists(o) /\ orders[o].trade = t}

\* Bug: orders whose last sync failed are left out.
Bug_PendingPaymentIDs ==
  {p \in PaymentIDs :
     \E o \in FindByPaymentID(p) : orders[o].status = "pending" /\ ~orders[o].error}

PendingPaymentIDs ==
  {p \in PaymentIDs :
     \E o \in FindByPaymentID(p) : orders[o].status = "pending"}

-----------------------------------------------------------------------------
(* Writes. *)

\* os.WriteFile truncates DATA_FILE and then writes it: whoever stops between
\* the two leaves an empty file, or the beginning of a document.
Torn ==
  /\ dataFile' = NoOrders
  /\ readable' \in BOOLEAN

\* saveLocked(m) succeeds.
Saved(m) ==
  /\ dataFile' = m
  /\ readable' = TRUE
  /\ UNCHANGED badSaves

\* saveLocked returns an error: before the file was opened, or with it torn.
SaveFailed ==
  /\ badSaves < MaxBadSaves
  /\ badSaves' = badSaves + 1
  /\ Torn \/ UNCHANGED <<dataFile, readable>>

\* Create and Update change the map first and keep the change when the save
\* fails.
CreateSaved(o, order) ==
  /\ ~Exists(o)
  /\ orders' = [orders EXCEPT ![o] = order]
  /\ Saved(orders')

CreateUnsaved(o, order) ==
  /\ ~Exists(o)
  /\ orders' = [orders EXCEPT ![o] = order]
  /\ SaveFailed

\* The caller's closure runs on the order the map holds now, under the mutex.
UpdateSaved(o, order) ==
  /\ Exists(o)
  /\ orders' = [orders EXCEPT ![o] = order]
  /\ Saved(orders')

UpdateUnsaved(o, order) ==
  /\ Exists(o)
  /\ orders' = [orders EXCEPT ![o] = order]
  /\ SaveFailed

\* Bug: the map is changed and not saved.
Bug_Update(o, order) ==
  /\ Exists(o)
  /\ orders' = [orders EXCEPT ![o] = order]
  /\ UNCHANGED <<dataFile, readable, badSaves>>

Update(o, order) == UpdateSaved(o, order) \/ UpdateUnsaved(o, order)

\* The process dies; if it was inside saveLocked the file may be torn.
LoseMemory(saving) ==
  /\ orders' = NoOrders
  /\ (saving /\ Torn) \/ UNCHANGED <<dataFile, readable>>
  /\ UNCHANGED badSaves

\* NewStore and load: an empty or missing file is an empty store, a file that
\* does not parse is fatal.
Load ==
  /\ readable
  /\ orders' = dataFile
  /\ UNCHANGED <<dataFile, readable, badSaves>>
=============================================================================
