-------------------------- MODULE MCBridgeWebhooks --------------------------
(* The behaviours of PaymentBridge in which one order is paid through       *)
(* webhooks alone: nobody polls, nothing fails, the reconciler has not yet  *)
(* ticked.                                                                  *)
EXTENDS PaymentBridge

WebhookNext ==
  \/ \E h \in Handlers :
       \/ createPayment(h) \/ YooCreatesPayment(h) \/ StorePayment(h)
       \/ yooWebhook(h) \/ SyncStep(h)
  \/ \E p \in PaymentIDs : CustomerPays(p)

WebhookSpec == Init /\ [][WebhookNext]_vars
=============================================================================
