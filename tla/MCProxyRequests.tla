-------------------------- MODULE MCProxyRequests --------------------------
(***************************************************************************)
(* ProxyRequests with two accounts in the group.  The first has one slot   *)
(* and credits that were checked.                                          *)
(*                                                                         *)
(* A behaviour is one of several sessions, each with bounds of its own: so *)
(* many requests and updates, no more than overlap of them at a time, so   *)
(* many faults, and accounts whose tokens handlers, the scheduler and the  *)
(* admin read and write at any time and as often as they like, one copy of *)
(* each at a time and until the account's credits are unsure.  In such a   *)
(* session, which is about credits, the history is not cleared.            *)
(***************************************************************************)
EXTENDS ProxyRequests, TLC

VARIABLE session

Session(requests, overlap, mayFail, writers) ==
  [requests |-> requests, overlap |-> overlap, faults |-> mayFail, rewritten |-> writers]

\* Three requests that overlap, two with a failure at any point, three with one
\* after the other and a failure, and two among the other writers of a token.
Sessions == {Session(3, 2, 0, {}), Session(2, 2, 1, {}), Session(3, 1, 1, {}),
             Session(2, 2, 0, {1})}

Slots == [a \in Accounts |-> a]

Overlapping == {i \in Ids : req[i].pc \notin {"none", "done"} \/ req[i].holds}

MCInit ==
  /\ ProxyInit
  /\ stored[1] = MaxCredits
  /\ session \in Sessions

MCNext ==
  /\ \/ \E i \in Ids : RequestStep(i)
     \/ \E a \in session.rewritten \ unsure : WriterStep(a)
     \/ OtherStep
  /\ begun' <= session.requests
  /\ Cardinality(Overlapping') <= session.overlap
  /\ faults' <= session.faults
  /\ session.rewritten # {} => Cardinality(unsure') <= 1 /\ ~clearRequestHistory
  /\ \A a \in Accounts : Cardinality(copies'[a]) <= 1
  /\ UNCHANGED session

MCSpec == MCInit /\ [][MCNext]_<<proxyVars, session>>
=============================================================================
