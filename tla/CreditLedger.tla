---------------------------- MODULE CreditLedger ----------------------------
(***************************************************************************)
(* What the bridge promises the shop, with no webhooks, polls, calls or    *)
(* files in it: customers pay orders; a paid order may be credited; the    *)
(* bridge comes to know that it credited an order, and does not forget it  *)
(* while it runs.  After it stopped it may know less, but nothing false.   *)
(* The bridge does not promise that a paid order is credited once.         *)
(***************************************************************************)
EXTENDS Sequences

CONSTANT OrderIDs

VARIABLES
  running,   \* the bridge runs
  paid,      \* orders whose customers have paid
  ledger,    \* the orders credited, in the order of the credits
  settled    \* orders the bridge knows to be credited

ledgerVars == <<running, paid, ledger, settled>>

CreditedOrders == {ledger[i] : i \in DOMAIN ledger}

LedgerInit ==
  /\ running = TRUE
  /\ paid = {}
  /\ ledger = <<>>
  /\ settled = {}

Pay(o) ==
  /\ paid' = paid \cup {o}
  /\ UNCHANGED <<running, ledger, settled>>

Credit(o) ==
  /\ running
  /\ o \in paid
  /\ ledger' = Append(ledger, o)
  /\ UNCHANGED <<running, paid, settled>>

Settle(o) ==
  /\ running
  /\ o \in CreditedOrders
  /\ settled' = settled \cup {o}
  /\ UNCHANGED <<running, paid, ledger>>

Stop ==
  /\ running' = FALSE
  /\ settled' = {}
  /\ UNCHANGED <<paid, ledger>>

Start ==
  /\ ~running
  /\ running' = TRUE
  /\ settled' \in SUBSET CreditedOrders
  /\ UNCHANGED <<paid, ledger>>

LedgerNext ==
  \/ \E o \in OrderIDs : Pay(o) \/ Credit(o) \/ Settle(o)
  \/ Stop
  \/ Start

LedgerSpec == LedgerInit /\ [][LedgerNext]_ledgerVars
=============================================================================
