------------------------ MODULE ProxyRequests_proofs ------------------------
(***************************************************************************)
(* Proofs about ProxyRequests, for any set of accounts, any group and any  *)
(* concurrency, and any bounds.                                            *)
(*                                                                         *)
(* Running is inductive by itself: what each request is at fits what it    *)
(* holds.  That the limiter counts the holders is then inductive relative  *)
(* to it.  The credits are reckoned account by account (AccountOK): of an  *)
(* account that is not unsure at most one request is under way, which      *)
(* holds the credits before and after it, and token files and the lists    *)
(* that requests choose from are behind Kiro only while one is.  Others    *)
(* write token files at any time, and whatever they write either keeps     *)
(* this or makes the account unsure (WritesHarmless).  The entries of the  *)
(* history rest on this (Told).                                            *)
(***************************************************************************)
EXTENDS ProxyRequests, FiniteSetTheorems, TLAPS

USE ProxyAssumption DEF ProxyAssumption

Busy == {"serving", "served", "selecting", "asking", "persisting", "spent"}

\* The record r of request i fits what it is at, n requests having begun.
RequestOK(i, r, n) ==
  /\ i > n => r.pc = "none"
  /\ r.pc \in {"none", "choosing"} => ~r.holds
  /\ r.pc \in Busy => r.account \in Accounts

RequestsOK == \A i \in Ids : RequestOK(i, req[i], begun)

HistoryFits == history # Torn => Len(history) <= MaxHistory

Running == ProxyTypeOK /\ RequestsOK /\ HistoryFits

-----------------------------------------------------------------------------
(* Requests. *)

LEMMA Numbers == Ids \subseteq Int /\ Credits \subseteq Int /\ 0 \in Credits /\ MaxCredits \in Credits
BY DEF Ids, Credits

LEMMA RequestTypes ==
  /\ NoRequest \in Request /\ NoRequest.pc = "none" /\ ~NoRequest.holds
  /\ Ended \in Request /\ Ended.pc = "done" /\ ~Ended.holds
BY DEF NoRequest, Ended, Request, Stored, Unknown, GroupKey, NoAccount

LEMMA Fields ==
  ASSUME Running, NEW i \in Ids
  PROVE  /\ req[i] \in Request
         /\ req[i].list \in [Accounts -> Stored]
         /\ req[i].untried \subseteq Accounts
         /\ req[i].unsettled \subseteq Accounts
         /\ req[i].account \in Accounts \cup {NoAccount}
         /\ req[i].before \in Stored
         /\ req[i].after \in Stored
         /\ req[i].file \in Stored
         /\ req[i].holds \in BOOLEAN
         /\ req[i].pc \in Busy => req[i].account \in Accounts
         /\ req[i].pc \in {"none", "choosing"} => ~req[i].holds
         /\ i > begun => req[i].pc = "none"
<1>1. req[i] \in Request
  BY DEF Running, ProxyTypeOK
<1>2. RequestOK(i, req[i], begun)
  BY DEF Running, RequestsOK
<1>3. QED
  BY <1>1, <1>2 DEF Request, RequestOK

\* One request moves on.
LEMMA OneMoves ==
  ASSUME Running, NEW i \in Ids, NEW r \in Request,
         req' = [req EXCEPT ![i] = r], begun' = begun, RequestOK(i, r, begun)
  PROVE  req' \in [Ids -> Request] /\ RequestsOK'
<1>1. req \in [Ids -> Request]
  BY DEF Running, ProxyTypeOK
<1>2. req' \in [Ids -> Request]
  BY <1>1
<1>3. ASSUME NEW j \in Ids PROVE RequestOK(j, req'[j], begun')
  <2>1. CASE j = i
    BY <1>1, <2>1
  <2>2. CASE j # i
    <3>1. req'[j] = req[j]
      BY <1>1, <2>2
    <3>2. QED
      BY <3>1 DEF Running, RequestsOK
  <2>3. QED
    BY <2>1, <2>2
<1>4. QED
  BY <1>2, <1>3 DEF RequestsOK

\* A request begins.
LEMMA OneBegins ==
  ASSUME Running, NEW i \in Ids, NEW r \in Request, i = begun + 1, begun' = i,
         req' = [req EXCEPT ![i] = r], RequestOK(i, r, i)
  PROVE  /\ begun' \in 0..MaxRequests /\ req' \in [Ids -> Request] /\ RequestsOK'
<1>1. req \in [Ids -> Request] /\ begun \in 0..MaxRequests
  BY DEF Running, ProxyTypeOK
<1>2. req' \in [Ids -> Request] /\ begun' \in 0..MaxRequests
  BY <1>1 DEF Ids
<1>3. ASSUME NEW j \in Ids PROVE RequestOK(j, req'[j], begun')
  <2>1. CASE j = i
    BY <1>1, <2>1
  <2>2. CASE j # i
    <3>1. req'[j] = req[j]
      BY <1>1, <2>2
    <3>2. RequestOK(j, req[j], begun)
      BY DEF Running, RequestsOK
    <3>3. j > i => j > begun
      BY <1>1 DEF Ids
    <3>4. QED
      BY <3>1, <3>2, <3>3 DEF RequestOK
  <2>3. QED
    BY <2>1, <2>2
<1>4. QED
  BY <1>2, <1>3 DEF RequestsOK

\* The record that End leaves.
EndRecord(i) ==
  IF req[i].holds THEN [Ended EXCEPT !.account = req[i].account, !.holds = TRUE] ELSE Ended

LEMMA EndLeaves ==
  ASSUME Running, NEW i \in Ids, End(i), req[i].pc \in Busy
  PROVE  \E r \in Request :
           /\ req' = [req EXCEPT ![i] = r]
           /\ r.pc = "done" /\ r.holds = req[i].holds
           /\ req[i].holds => r.account = req[i].account
<1>1. /\ req[i].account \in Accounts /\ req[i].holds \in BOOLEAN
      /\ req \in [Ids -> Request]
  BY Fields DEF Running, ProxyTypeOK
<1>2. req' = [req EXCEPT ![i] = EndRecord(i)]
  BY <1>1 DEF End, EndRecord
<1>3. CASE req[i].holds
  <2>1. EndRecord(i) = [Ended EXCEPT !.account = req[i].account, !.holds = TRUE]
    BY <1>3 DEF EndRecord
  <2>2. EndRecord(i) \in Request
    BY <1>1, <2>1, RequestTypes DEF Request
  <2>3. EndRecord(i).pc = "done" /\ EndRecord(i).holds = TRUE
        /\ EndRecord(i).account = req[i].account
    BY <2>1, RequestTypes DEF Ended, NoRequest
  <2>4. QED
    BY <1>1, <1>2, <1>3, <2>2, <2>3
<1>4. CASE ~req[i].holds
  <2>1. EndRecord(i) = Ended
    BY <1>4 DEF EndRecord
  <2>2. Ended.holds = FALSE
    BY DEF Ended, NoRequest
  <2>3. QED
    BY <1>1, <1>2, <1>4, <2>1, <2>2, RequestTypes
<1>5. QED
  BY <1>3, <1>4

-----------------------------------------------------------------------------
(* The history. *)

LEMMA SaveTypes ==
  ASSUME Running, NEW new \in Seq(Entry), Len(new) <= MaxHistory, Save(new)
  PROVE  /\ entries' \in Seq(Entry) /\ Len(entries') <= MaxHistory
         /\ history' = Torn \/ history' \in Seq(Entry)
         /\ HistoryFits'
         /\ faults' \in 0..MaxFaults
<1>1. /\ history = Torn \/ history \in Seq(Entry)
      /\ faults \in 0..MaxFaults
      /\ history # Torn => Len(history) <= MaxHistory
  BY DEF Running, ProxyTypeOK, HistoryFits
<1>2. entries' = new
  BY DEF Save
<1>3. /\ history' \in {new, history, Torn}
      /\ faults' = faults \/ (faults < MaxFaults /\ faults' = faults + 1)
  BY DEF Save
<1>4. QED
  BY <1>1, <1>2, <1>3 DEF HistoryFits

LEMMA WithEntryFits ==
  ASSUME Running, NEW entry \in Entry
  PROVE  WithEntry(entry) \in Seq(Entry) /\ Len(WithEntry(entry)) <= MaxHistory
<1> DEFINE all == <<entry>> \o entries
<1>1. entries \in Seq(Entry)
  BY DEF Running, ProxyTypeOK
<1>2. <<entry>> \in Seq(Entry)
  OBVIOUS
<1>3. all \in Seq(Entry)
  BY <1>1, <1>2
<1>4. CASE Len(all) > MaxHistory
  <2>1. WithEntry(entry) = SubSeq(all, 1, MaxHistory)
    BY <1>4 DEF WithEntry
  <2>2. SubSeq(all, 1, MaxHistory) \in Seq(Entry)
    BY <1>3, <1>4
  <2>3. Len(SubSeq(all, 1, MaxHistory)) <= MaxHistory
    BY <1>3, <1>4
  <2>4. QED
    BY <2>1, <2>2, <2>3
<1>5. CASE ~(Len(all) > MaxHistory)
  <2>1. WithEntry(entry) = all
    BY <1>5 DEF WithEntry
  <2>2. QED
    BY <1>3, <1>5, <2>1
<1>6. QED
  BY <1>4, <1>5

\* What stays as it was is still of its type.
LEMMA Stays ==
  ASSUME Running
  PROVE  /\ stored' = stored => stored' \in [Accounts -> Stored]
         /\ copies' = copies => copies' \in [Accounts -> SUBSET Stored]
         /\ credits' = credits => credits' \in [Accounts -> Credits]
         /\ inFlight' = inFlight => inFlight' \in [Accounts -> Nat]
         /\ begun' = begun => begun' \in 0..MaxRequests
         /\ used' = used => used' \in [Ids -> Credits]
         /\ unsure' = unsure => unsure' \subseteq Accounts
         /\ faults' = faults => faults' \in 0..MaxFaults
         /\ faults < MaxFaults /\ faults' = faults + 1 => faults' \in 0..MaxFaults
         /\ \A a \in Accounts : unsure' = unsure \cup {a} => unsure' \subseteq Accounts
         /\ entries' = entries =>
              entries' \in Seq(Entry) /\ Len(entries') <= MaxHistory
         /\ history' = history =>
              (history' = Torn \/ history' \in Seq(Entry)) /\ HistoryFits'
<1>1. ProxyTypeOK /\ HistoryFits
  BY DEF Running
<1>2. history' = history => HistoryFits'
  BY <1>1 DEF HistoryFits
<1>3. /\ faults \in 0..MaxFaults
      /\ faults < MaxFaults /\ faults' = faults + 1 => faults' \in 0..MaxFaults
  BY <1>1 DEF ProxyTypeOK
<1>4. QED
  BY <1>1, <1>2, <1>3 DEF ProxyTypeOK

\* Writing a token file changes one account.
LEMMA WriteTokenTypes ==
  ASSUME Running, NEW a \in Accounts, NEW c \in Stored, WriteToken(a, c)
  PROVE  stored' \in [Accounts -> Stored] /\ unsure \subseteq unsure' /\ unsure' \subseteq Accounts
<1>1. stored \in [Accounts -> Stored] /\ unsure \subseteq Accounts
  BY DEF Running, ProxyTypeOK
<1>2. stored' = [stored EXCEPT ![a] = c] /\ unsure' \in {unsure, unsure \cup {a}}
  BY DEF WriteToken
<1>3. QED
  BY <1>1, <1>2

-----------------------------------------------------------------------------
(* Each action. *)

LEMMA ArriveRuns ==
  ASSUME Running, NEW i \in Ids, NEW key \in Accounts \cup {GroupKey}, Arrive(i, key)
  PROVE  Running'
<1> DEFINE r == [NoRequest EXCEPT !.pc = "choosing", !.key = key, !.untried = Choice(key),
                   !.list = [a \in Accounts |-> IF a \in Choice(key) THEN stored[a]
                                                ELSE Unknown],
                   !.unsettled = {a \in Accounts : Live(a)}]
<1>1. stored \in [Accounts -> Stored]
  BY DEF Running, ProxyTypeOK
<1>2. Choice(key) \subseteq Accounts
  BY DEF Choice
<1>3. r.list \in [Accounts -> Stored]
  BY <1>1 DEF NoRequest, Stored
<1>4. r \in Request /\ r.pc = "choosing" /\ ~r.holds
  BY <1>2, <1>3, RequestTypes DEF Request, NoRequest
<1>5. RequestOK(i, r, i)
  BY <1>4 DEF RequestOK, Busy, Ids
<1>6. i = begun + 1 /\ begun' = i /\ req' = [req EXCEPT ![i] = r]
  BY DEF Arrive
<1>7. begun' \in 0..MaxRequests /\ req' \in [Ids -> Request] /\ RequestsOK'
  BY <1>4, <1>5, <1>6, OneBegins
<1>8. QED
  BY <1>7, Stays DEF Arrive, Running, ProxyTypeOK

LEMMA RefreshRuns ==
  ASSUME Running, NEW i \in Ids, NEW a \in Accounts, Refresh(i, a)
  PROVE  Running'
<1> DEFINE r == [NoRequest EXCEPT !.pc = "asking", !.account = a, !.file = stored[a]]
<1>1. stored[a] \in Stored
  BY DEF Running, ProxyTypeOK
<1>2. r \in Request /\ r.pc = "asking" /\ r.account = a
  BY <1>1, RequestTypes DEF Request, NoRequest
<1>3. RequestOK(i, r, i)
  BY <1>2 DEF RequestOK, Ids
<1>4. i = begun + 1 /\ begun' = i /\ req' = [req EXCEPT ![i] = r]
  BY DEF Refresh
<1>5. begun' \in 0..MaxRequests /\ req' \in [Ids -> Request] /\ RequestsOK'
  BY <1>2, <1>3, <1>4, OneBegins
<1>6. unsure' = unsure \/ unsure' = unsure \cup {a}
  BY DEF Refresh
<1>7. QED
  BY <1>5, <1>6, Stays DEF Refresh, Running, ProxyTypeOK

LEMMA TakeRuns ==
  ASSUME Running, NEW i \in Ids, NEW a \in Accounts, Take(i, a)
  PROVE  Running'
<1> DEFINE r == [NoRequest EXCEPT !.pc = "serving", !.account = a,
                                  !.holds = TRUE, !.before = req[i].list[a]]
<1>1. req[i].pc = "choosing" /\ req[i].list[a] \in Stored
  BY Fields DEF Take, IsFirst
<1>2. r \in Request /\ r.pc = "serving" /\ r.account = a
  BY <1>1, RequestTypes DEF Request, NoRequest
<1>3. begun' = begun /\ ~(i > begun)
  BY <1>1, Fields DEF Take
<1>4. RequestOK(i, r, begun)
  BY <1>2, <1>3 DEF RequestOK
<1>5. ASSUME NEW j \in Ids PROVE req'[j] \in Request /\ RequestOK(j, req'[j], begun)
  <2>1. CASE j = i
    BY <1>2, <1>4, <2>1 DEF Take
  <2>2. CASE j # i /\ req[j].pc = "choosing"
    <3> DEFINE s == [req[j] EXCEPT !.unsettled = @ \cup {a}]
    <3>1. req[j] \in Request /\ RequestOK(j, req[j], begun)
      BY Fields DEF Running, RequestsOK
    <3>2. req'[j] = s
      BY <2>2 DEF Take
    <3>3. s \in Request
      BY <3>1 DEF Request
    <3>4. s.pc = req[j].pc /\ s.holds = req[j].holds /\ s.account = req[j].account
      BY <3>1 DEF Request
    <3>5. QED
      BY <3>1, <3>2, <3>3, <3>4 DEF RequestOK
  <2>3. CASE j # i /\ req[j].pc # "choosing"
    <3>1. req'[j] = req[j]
      BY <2>3 DEF Take
    <3>2. QED
      BY <3>1, Fields DEF Running, RequestsOK
  <2>4. QED
    BY <2>1, <2>2, <2>3
<1>6. req' \in [Ids -> Request] /\ RequestsOK'
  BY <1>3, <1>5 DEF Take, RequestsOK
<1>7. inFlight' \in [Accounts -> Nat]
  BY DEF Take, Running, ProxyTypeOK
<1>8. unsure' = unsure \/ unsure' = unsure \cup {a}
  BY DEF Take
<1>9. QED
  BY <1>6, <1>7, <1>8, Stays DEF Take, Running, ProxyTypeOK

LEMMA PassOverRuns ==
  ASSUME Running, NEW i \in Ids, NEW a \in Accounts, PassOver(i, a)
  PROVE  Running'
<1> DEFINE r == [req[i] EXCEPT !.untried = @ \ {a}]
<1>1. req[i] \in Request /\ RequestOK(i, req[i], begun) /\ req \in [Ids -> Request]
  BY Fields DEF Running, RequestsOK, ProxyTypeOK
<1>2. r \in Request /\ r.pc = req[i].pc /\ r.holds = req[i].holds /\ r.account = req[i].account
  BY <1>1 DEF Request
<1>3. RequestOK(i, r, begun)
  BY <1>1, <1>2 DEF RequestOK
<1>4. req' = [req EXCEPT ![i] = r]
  BY <1>1 DEF PassOver
<1>5. req' \in [Ids -> Request] /\ RequestsOK'
  BY <1>2, <1>3, <1>4, OneMoves DEF PassOver
<1>6. req[i].list[a] \in Stored
  BY Fields
<1>7. stored' \in [Accounts -> Stored] /\ unsure' \subseteq Accounts
  BY <1>6, Stays, WriteTokenTypes DEF PassOver
<1>8. QED
  BY <1>5, <1>7, Stays DEF PassOver, Running, ProxyTypeOK

LEMMA RefuseRuns ==
  ASSUME Running, NEW i \in Ids, Refuse(i)
  PROVE  Running'
<1>1. ~(i > begun)
  BY Fields DEF Refuse
<1>2. RequestOK(i, Ended, begun)
  BY <1>1, RequestTypes DEF RequestOK, Busy
<1>3. req' \in [Ids -> Request] /\ RequestsOK'
  BY <1>2, OneMoves, RequestTypes DEF Refuse
<1>4. QED
  BY <1>3, Stays DEF Refuse, Running, ProxyTypeOK

\* Request i, which is busy, moves on: it keeps its account and its slot.
MovesOn(i) ==
  \E r \in Request : /\ req' = [req EXCEPT ![i] = r]
                     /\ r.pc \in Busy \cup {"done"}
                     /\ req[i].holds \in BOOLEAN /\ r.holds = req[i].holds
                     /\ r.pc \in Busy => r.account = req[i].account
                     /\ req[i].holds => r.account = req[i].account

LEMMA MovesOnRuns ==
  ASSUME Running, NEW i \in Ids, req[i].pc \in Busy, MovesOn(i), begun' = begun
  PROVE  req' \in [Ids -> Request] /\ RequestsOK'
<1>1. PICK r \in Request : /\ req' = [req EXCEPT ![i] = r]
                           /\ r.pc \in Busy \cup {"done"}
                           /\ r.pc \in Busy => r.account = req[i].account
  BY DEF MovesOn
<1>2. req[i].account \in Accounts
  BY Fields
<1>3. req[i].pc # "none"
  BY DEF Busy
<1>4. ~(i > begun)
  BY <1>3, Fields
<1>5. r.pc \notin {"none", "choosing"}
  BY <1>1 DEF Busy
<1>6. RequestOK(i, r, begun)
  BY <1>1, <1>2, <1>4, <1>5 DEF RequestOK
<1>7. QED
  BY <1>1, <1>6, OneMoves

LEMMA ServeMoves ==
  ASSUME Running, NEW i \in Ids, Serve(i)
  PROVE  MovesOn(i) /\ req[i].pc \in Busy
<1> DEFINE r == [req[i] EXCEPT !.pc = "served"]
<1>1. req[i] \in Request /\ req \in [Ids -> Request] /\ req[i].holds \in BOOLEAN
  BY Fields DEF Running, ProxyTypeOK
<1>2. r \in Request /\ r.pc = "served" /\ r.holds = req[i].holds /\ r.account = req[i].account
  BY <1>1 DEF Request
<1>3. req' = [req EXCEPT ![i] = r]
  BY <1>1 DEF Serve
<1>4. QED
  BY <1>1, <1>2, <1>3 DEF MovesOn, Serve, Busy

LEMMA ServeRuns ==
  ASSUME Running, NEW i \in Ids, Serve(i)
  PROVE  Running'
<1>1. req[i].account \in Accounts
  BY Fields DEF Serve, Busy
<1>2. req' \in [Ids -> Request] /\ RequestsOK'
  BY ServeMoves, MovesOnRuns DEF Serve
<1>3. credits \in [Accounts -> Credits] /\ used \in [Ids -> Credits]
  BY DEF Running, ProxyTypeOK
<1>4. PICK cost \in {0, 1} :
        /\ cost <= credits[req[i].account]
        /\ credits' = [credits EXCEPT ![req[i].account] = @ - cost]
        /\ used' = [used EXCEPT ![i] = cost]
  BY DEF Serve
<1>5. cost \in Credits /\ credits[req[i].account] - cost \in Credits
  <2> DEFINE had == credits[req[i].account]
  <2>1. had \in Credits
    BY <1>1, <1>3
  <2>2. cost <= had
    BY <1>4
  <2>3. cost \in 0..1
    OBVIOUS
  <2> HIDE DEF had
  <2>4. cost \in 0..MaxCredits /\ had - cost \in 0..MaxCredits
    BY <2>1, <2>2, <2>3 DEF Credits
  <2>5. QED
    BY <2>4 DEF had, Credits
<1>6. credits' \in [Accounts -> Credits] /\ used' \in [Ids -> Credits]
  BY <1>1, <1>3, <1>4, <1>5
<1>7. QED
  BY <1>2, <1>6, Stays DEF Serve, Running, ProxyTypeOK

LEMMA addRequestHistoryMoves ==
  ASSUME Running, NEW i \in Ids, addRequestHistory(i)
  PROVE  MovesOn(i) /\ req[i].pc \in Busy
<1> DEFINE r == [req[i] EXCEPT !.pc = "selecting"]
<1>1. /\ req[i] \in Request /\ req \in [Ids -> Request] /\ req[i].holds \in BOOLEAN
      /\ stored \in [Accounts -> Stored] /\ credits \in [Accounts -> Credits]
  BY Fields DEF Running, ProxyTypeOK
<1>2. req[i].pc \in Busy
  BY DEF addRequestHistory, Busy
<1>3. req[i].account \in Accounts /\ req[i].file \in Stored
  BY <1>2, Fields
<1>4. r \in Request /\ r.pc = "selecting" /\ r.holds = req[i].holds /\ r.account = req[i].account
  BY <1>1, <1>3 DEF Request, Stored
<1>5. req' = [req EXCEPT ![i] = r]
  BY <1>1 DEF addRequestHistory
<1>6. QED
  BY <1>1, <1>2, <1>4, <1>5 DEF MovesOn, Busy

LEMMA addRequestHistoryRuns ==
  ASSUME Running, NEW i \in Ids, addRequestHistory(i)
  PROVE  Running'
<1> DEFINE entry == [id |-> i, account |-> req[i].account, spent |-> NotSpent]
<1>1. req' \in [Ids -> Request] /\ RequestsOK'
  BY addRequestHistoryMoves, MovesOnRuns DEF addRequestHistory
<1>2. entry \in Entry
  BY addRequestHistoryMoves, Fields DEF Entry
<1>3. Save(WithEntry(entry))
  BY DEF addRequestHistory
<1>4. QED
  BY <1>1, <1>2, <1>3, WithEntryFits, SaveTypes, Stays
     DEF addRequestHistory, Running, ProxyTypeOK

LEMMA RereadMoves ==
  ASSUME Running, NEW i \in Ids, Reread(i)
  PROVE  MovesOn(i) /\ req[i].pc \in Busy
<1> DEFINE r == [req[i] EXCEPT !.pc = "asking", !.file = stored[req[i].account]]
<1>1. /\ req[i] \in Request /\ req \in [Ids -> Request] /\ req[i].holds \in BOOLEAN
      /\ stored \in [Accounts -> Stored] /\ credits \in [Accounts -> Credits]
  BY Fields DEF Running, ProxyTypeOK
<1>2. req[i].pc \in Busy
  BY DEF Reread, Busy
<1>3. req[i].account \in Accounts /\ req[i].file \in Stored
  BY <1>2, Fields
<1>4. r \in Request /\ r.pc = "asking" /\ r.holds = req[i].holds /\ r.account = req[i].account
  BY <1>1, <1>3 DEF Request, Stored
<1>5. req' = [req EXCEPT ![i] = r]
  BY <1>1 DEF Reread
<1>6. QED
  BY <1>1, <1>2, <1>4, <1>5 DEF MovesOn, Busy

LEMMA RereadRuns ==
  ASSUME Running, NEW i \in Ids, Reread(i)
  PROVE  Running'
<1>1. req' \in [Ids -> Request] /\ RequestsOK'
  BY RereadMoves, MovesOnRuns DEF Reread
<1>2. req[i].account \in Accounts
  BY RereadMoves, Fields
<1>3. QED
  BY <1>1, <1>2, Stays DEF Reread, Running, ProxyTypeOK

LEMMA UsageAnswersMoves ==
  ASSUME Running, NEW i \in Ids, UsageAnswers(i)
  PROVE  MovesOn(i) /\ req[i].pc \in Busy
<1> DEFINE r == [req[i] EXCEPT !.pc = "persisting", !.after = credits[req[i].account]]
<1>1. /\ req[i] \in Request /\ req \in [Ids -> Request] /\ req[i].holds \in BOOLEAN
      /\ stored \in [Accounts -> Stored] /\ credits \in [Accounts -> Credits]
  BY Fields DEF Running, ProxyTypeOK
<1>2. req[i].pc \in Busy
  BY DEF UsageAnswers, Busy
<1>3. req[i].account \in Accounts /\ req[i].file \in Stored
  BY <1>2, Fields
<1>4. r \in Request /\ r.pc = "persisting" /\ r.holds = req[i].holds /\ r.account = req[i].account
  BY <1>1, <1>3 DEF Request, Stored
<1>5. req' = [req EXCEPT ![i] = r]
  BY <1>1 DEF UsageAnswers
<1>6. QED
  BY <1>1, <1>2, <1>4, <1>5 DEF MovesOn, Busy

LEMMA UsageAnswersRuns ==
  ASSUME Running, NEW i \in Ids, UsageAnswers(i)
  PROVE  Running'
<1>1. req' \in [Ids -> Request] /\ RequestsOK'
  BY UsageAnswersMoves, MovesOnRuns DEF UsageAnswers
<1>2. req[i].account \in Accounts
  BY UsageAnswersMoves, Fields
<1>3. QED
  BY <1>1, <1>2, Stays DEF UsageAnswers, Running, ProxyTypeOK

LEMMA UsageFailsMoves ==
  ASSUME Running, NEW i \in Ids, UsageFails(i)
  PROVE  MovesOn(i) /\ req[i].pc \in Busy
<1> DEFINE r == [req[i] EXCEPT !.pc = "spent", !.after = req[i].file, !.file = Unknown]
<1>1. /\ req[i] \in Request /\ req \in [Ids -> Request] /\ req[i].holds \in BOOLEAN
      /\ stored \in [Accounts -> Stored] /\ credits \in [Accounts -> Credits]
  BY Fields DEF Running, ProxyTypeOK
<1>2. req[i].pc \in Busy
  BY DEF UsageFails, Busy
<1>3. req[i].account \in Accounts /\ req[i].file \in Stored
  BY <1>2, Fields
<1>4. r \in Request /\ r.pc = "spent" /\ r.holds = req[i].holds /\ r.account = req[i].account
  BY <1>1, <1>3 DEF Request, Stored
<1>5. req' = [req EXCEPT ![i] = r]
  BY <1>1 DEF UsageFails
<1>6. QED
  BY <1>1, <1>2, <1>4, <1>5 DEF MovesOn, Busy

LEMMA UsageFailsRuns ==
  ASSUME Running, NEW i \in Ids, UsageFails(i)
  PROVE  Running'
<1>1. req' \in [Ids -> Request] /\ RequestsOK'
  BY UsageFailsMoves, MovesOnRuns DEF UsageFails
<1>2. req[i].account \in Accounts
  BY UsageFailsMoves, Fields
<1>3. QED
  BY <1>1, <1>2, Stays DEF UsageFails, Running, ProxyTypeOK

LEMMA PersistMoves ==
  ASSUME Running, NEW i \in Ids, Persist(i)
  PROVE  MovesOn(i) /\ req[i].pc \in Busy
<1> DEFINE r == [req[i] EXCEPT !.pc = "spent", !.file = Unknown]
<1>1. /\ req[i] \in Request /\ req \in [Ids -> Request] /\ req[i].holds \in BOOLEAN
      /\ stored \in [Accounts -> Stored] /\ credits \in [Accounts -> Credits]
  BY Fields DEF Running, ProxyTypeOK
<1>2. req[i].pc \in Busy
  BY DEF Persist, Busy
<1>3. req[i].account \in Accounts /\ req[i].file \in Stored
  BY <1>2, Fields
<1>4. r \in Request /\ r.pc = "spent" /\ r.holds = req[i].holds /\ r.account = req[i].account
  BY <1>1, <1>3 DEF Request, Stored
<1>5. req' = [req EXCEPT ![i] = r]
  BY <1>1 DEF Persist
<1>6. QED
  BY <1>1, <1>2, <1>4, <1>5 DEF MovesOn, Busy

LEMMA PersistRuns ==
  ASSUME Running, NEW i \in Ids, Persist(i)
  PROVE  Running'
<1>1. req' \in [Ids -> Request] /\ RequestsOK'
  BY PersistMoves, MovesOnRuns DEF Persist
<1>2. req[i].account \in Accounts /\ req[i].after \in Stored
  BY PersistMoves, Fields
<1>3. stored' \in [Accounts -> Stored]
  BY <1>2 DEF Persist, WithCredits, Running, ProxyTypeOK
<1>4. unsure' \subseteq Accounts /\ faults' \in 0..MaxFaults
  BY <1>2, Stays DEF Persist
<1>5. QED
  BY <1>1, <1>3, <1>4, Stays DEF Persist, Running, ProxyTypeOK

LEMMA EndMoves ==
  ASSUME Running, NEW i \in Ids, End(i), req[i].pc \in Busy
  PROVE  MovesOn(i)
BY EndLeaves, Fields DEF MovesOn, Busy

LEMMA RereadFailsRuns ==
  ASSUME Running, NEW i \in Ids, RereadFails(i)
  PROVE  Running'
<1>1. req[i].pc \in Busy
  BY DEF RereadFails, Busy
<1>2. req' \in [Ids -> Request] /\ RequestsOK'
  BY <1>1, EndMoves, MovesOnRuns DEF RereadFails
<1>3. req[i].account \in Accounts
  BY <1>1, Fields
<1>4. QED
  BY <1>2, <1>3, Stays DEF RereadFails, Running, ProxyTypeOK

LEMMA updateRequestHistoryCreditsSpentRuns ==
  ASSUME Running, NEW i \in Ids, updateRequestHistoryCreditsSpent(i)
  PROVE  Running'
<1> DEFINE new == [k \in DOMAIN entries |->
                     IF entries[k].id = i THEN [entries[k] EXCEPT !.spent = Spent(i)]
                     ELSE entries[k]]
<1>1. req[i].pc \in Busy
  BY DEF updateRequestHistoryCreditsSpent, Busy
<1>2. req' \in [Ids -> Request] /\ RequestsOK'
  BY <1>1, EndMoves, MovesOnRuns DEF updateRequestHistoryCreditsSpent
<1>3. /\ entries' \in Seq(Entry) /\ Len(entries') <= MaxHistory
      /\ history' = Torn \/ history' \in Seq(Entry)
      /\ HistoryFits'
      /\ faults' \in 0..MaxFaults
  <2>1. CASE Spent(i) >= 0 /\ \E k \in DOMAIN entries : entries[k].id = i
    <3>1. entries \in Seq(Entry) /\ Len(entries) <= MaxHistory
      BY DEF Running, ProxyTypeOK
    <3>2. Spent(i) \in Credits
      <4>1. req[i].before \in Stored /\ req[i].after \in Stored
        BY Fields
      <4>2. CASE req[i].before = Unknown \/ req[i].after = Unknown
        BY <2>1, <4>2 DEF Spent, NotSpent
      <4>3. CASE ~(req[i].before = Unknown \/ req[i].after = Unknown)
        BY <2>1, <4>1, <4>3 DEF Spent, Stored, Credits
      <4>4. QED
        BY <4>2, <4>3
    <3>3. ASSUME NEW k \in 1..Len(entries) PROVE new[k] \in Entry
      <4>1. entries[k] \in Entry
        BY <3>1
      <4>2. [entries[k] EXCEPT !.spent = Spent(i)] \in Entry
        BY <3>2, <4>1 DEF Entry
      <4>3. k \in DOMAIN entries
        BY <3>1
      <4>4. new[k] = IF entries[k].id = i THEN [entries[k] EXCEPT !.spent = Spent(i)]
                     ELSE entries[k]
        BY <4>3
      <4>5. QED
        BY <4>1, <4>2, <4>4
    <3>4. new \in Seq(Entry) /\ Len(new) = Len(entries)
      <4>1. DOMAIN new = 1..Len(entries) /\ Len(entries) \in Nat
        BY <3>1
      <4> HIDE DEF new
      <4>2. new \in [1..Len(entries) -> Entry]
        <5>1. new = [k \in DOMAIN new |-> new[k]]
          BY DEF new
        <5>2. QED
          BY <3>3, <4>1, <5>1
      <4>3. QED
        BY <4>1, <4>2
    <3>5. Save(new)
      BY <2>1 DEF updateRequestHistoryCreditsSpent, SaveSpent
    <3>6. QED
      BY <3>1, <3>4, <3>5, SaveTypes
  <2>2. CASE ~(Spent(i) >= 0 /\ \E k \in DOMAIN entries : entries[k].id = i)
    BY <2>2, Stays DEF updateRequestHistoryCreditsSpent
  <2>3. QED
    BY <2>1, <2>2
<1>4. QED
  BY <1>2, <1>3, Stays DEF updateRequestHistoryCreditsSpent, Running, ProxyTypeOK

LEMMA ReleaseLeaves ==
  ASSUME Running, NEW i \in Ids, Release(i)
  PROVE  \E r \in Request :
           /\ req' = [req EXCEPT ![i] = r]
           /\ r.holds = FALSE
           /\ r.pc = req[i].pc /\ (r.pc \in Busy => r.account = req[i].account)
<1>1. req[i] \in Request /\ req \in [Ids -> Request]
  BY Fields DEF Running, ProxyTypeOK
<1>2. CASE req[i].pc = "done"
  <2>1. req' = [req EXCEPT ![i] = Ended]
    BY <1>1, <1>2 DEF Release
  <2>2. Ended.holds = FALSE /\ Ended.pc = "done"
    BY DEF Ended, NoRequest
  <2>3. QED
    BY <1>2, <2>1, <2>2, RequestTypes DEF Busy
<1>3. CASE req[i].pc # "done"
  <2> DEFINE r == [req[i] EXCEPT !.holds = FALSE]
  <2>1. r \in Request /\ r.holds = FALSE /\ r.pc = req[i].pc /\ r.account = req[i].account
    BY <1>1 DEF Request
  <2>2. req' = [req EXCEPT ![i] = r]
    BY <1>1, <1>3 DEF Release
  <2>3. QED
    BY <2>1, <2>2
<1>4. QED
  BY <1>2, <1>3

LEMMA ReleaseRuns ==
  ASSUME Running, NEW i \in Ids, Release(i)
  PROVE  Running'
<1>1. PICK r \in Request :
        /\ req' = [req EXCEPT ![i] = r]
        /\ r.holds = FALSE
        /\ r.pc = req[i].pc /\ (r.pc \in Busy => r.account = req[i].account)
  BY ReleaseLeaves
<1>2. RequestOK(i, r, begun)
  BY <1>1, Fields DEF RequestOK
<1>3. req' \in [Ids -> Request] /\ RequestsOK'
  BY <1>1, <1>2, OneMoves DEF Release
<1>4. \A n \in Nat : SlotsAfter(n) \in Nat
  BY DEF SlotsAfter
<1>5. inFlight' \in [Accounts -> Nat]
  BY <1>4 DEF Release, Running, ProxyTypeOK
<1>6. QED
  BY <1>3, <1>5, Stays DEF Release, Running, ProxyTypeOK

LEMMA ClearRuns == Running /\ clearRequestHistory => Running'
<1> SUFFICES ASSUME Running, clearRequestHistory PROVE Running'
  OBVIOUS
<1>1. <<>> \in Seq(Entry) /\ Len(<<>>) <= MaxHistory /\ Save(<<>>)
  BY DEF clearRequestHistory
<1>2. req' \in [Ids -> Request] /\ RequestsOK'
  BY DEF clearRequestHistory, Running, ProxyTypeOK, RequestsOK
<1>3. QED
  BY <1>1, <1>2, SaveTypes, Stays DEF clearRequestHistory, Running, ProxyTypeOK

LEMMA ResetCreditsRuns ==
  ASSUME Running, NEW a \in Accounts, ResetCredits(a)
  PROVE  Running'
<1>1. req' \in [Ids -> Request] /\ RequestsOK'
  BY DEF ResetCredits, Running, ProxyTypeOK, RequestsOK
<1>2. credits' \in [Accounts -> Credits]
  BY Numbers DEF ResetCredits, Running, ProxyTypeOK
<1>3. QED
  BY <1>1, <1>2, Stays DEF ResetCredits, Running, ProxyTypeOK

\* Other writers of token files leave the requests, the limiter and the history.
LEMMA WriterRuns ==
  ASSUME Running, NEW a \in Accounts, WriterStep(a)
  PROVE  Running'
<1>1. /\ stored \in [Accounts -> Stored] /\ copies \in [Accounts -> SUBSET Stored]
      /\ req \in [Ids -> Request] /\ RequestsOK
  BY DEF Running, ProxyTypeOK
<1>2. req' \in [Ids -> Request] /\ RequestsOK'
  BY <1>1 DEF WriterStep, ReadToken, WriteBack, SaveAccount, RequestsOK
<1>3. CASE ReadToken(a)
  <2>1. copies' \in [Accounts -> SUBSET Stored]
    BY <1>1, <1>3 DEF ReadToken
  <2>2. QED
    BY <1>2, <1>3, <2>1, Stays DEF ReadToken, Running, ProxyTypeOK
<1>4. CASE WriteBack(a)
  <2>1. PICK c \in Stored : WriteToken(a, c)
    BY <1>1, <1>4 DEF WriteBack
  <2>2. stored' \in [Accounts -> Stored] /\ unsure' \subseteq Accounts
    BY <2>1, WriteTokenTypes
  <2>3. QED
    BY <1>2, <1>4, <2>2, Stays DEF WriteBack, Running, ProxyTypeOK
<1>5. CASE SaveAccount(a)
  <2>1. PICK c \in Stored : WriteToken(a, c)
    BY <1>5 DEF SaveAccount
  <2>2. stored' \in [Accounts -> Stored] /\ unsure' \subseteq Accounts
    BY <2>1, WriteTokenTypes
  <2>3. QED
    BY <1>2, <1>5, <2>2, Stays DEF SaveAccount, Running, ProxyTypeOK
<1>6. QED
  BY <1>3, <1>4, <1>5 DEF WriterStep

LEMMA CrashRuns == Running /\ Crash => Running'
<1> SUFFICES ASSUME Running, Crash PROVE Running'
  OBVIOUS
<1>1. /\ history = Torn \/ history \in Seq(Entry)
      /\ history # Torn => Len(history) <= MaxHistory
  BY DEF Running, ProxyTypeOK, HistoryFits
<1>2. history' = Torn \/ history' \in Seq(Entry)
  BY <1>1 DEF Crash
<1>3. history' # Torn => Len(history') <= MaxHistory
  BY <1>1 DEF Crash
<1>4. entries' \in Seq(Entry) /\ Len(entries') <= MaxHistory
  <2>1. <<>> \in Seq(Entry) /\ Len(<<>>) <= MaxHistory
    OBVIOUS
  <2>2. entries' = IF history' = Torn THEN <<>> ELSE history'
    BY DEF Crash, loadRequestHistory
  <2>3. QED
    BY <1>2, <1>3, <2>1, <2>2
<1>5. ASSUME NEW i \in Ids PROVE req'[i] \in Request /\ RequestOK(i, req'[i], begun)
  <2>1. CASE req[i].pc = "none"
    <3>1. req'[i] = NoRequest
      BY <2>1 DEF Crash
    <3>2. QED
      BY <3>1, RequestTypes DEF RequestOK, Busy
  <2>2. CASE req[i].pc # "none"
    <3>1. req'[i] = Ended /\ ~(i > begun)
      BY <2>2, Fields DEF Crash
    <3>2. QED
      BY <3>1, RequestTypes DEF RequestOK, Busy
  <2>3. QED
    BY <2>1, <2>2
<1>6. req' \in [Ids -> Request] /\ RequestsOK'
  BY <1>5 DEF Crash, RequestsOK
<1>7. /\ inFlight' \in [Accounts -> Nat] /\ unsure' \subseteq Accounts
      /\ copies' \in [Accounts -> SUBSET Stored]
  BY DEF Crash, Running, ProxyTypeOK
<1>8. QED
  BY <1>2, <1>3, <1>4, <1>6, <1>7, Stays DEF Crash, Running, ProxyTypeOK, HistoryFits

-----------------------------------------------------------------------------
(* Running is an invariant. *)

LEMMA RunningInit == ProxyInit => Running
<1> SUFFICES ASSUME ProxyInit PROVE Running
  OBVIOUS
<1>1. stored \in [Accounts -> Stored] /\ credits \in [Accounts -> Credits]
  BY Numbers DEF ProxyInit, Stored
<1>2. /\ inFlight \in [Accounts -> Nat] /\ used \in [Ids -> Credits]
      /\ copies \in [Accounts -> SUBSET Stored]
  BY Numbers DEF ProxyInit
<1>3. /\ entries \in Seq(Entry) /\ history \in Seq(Entry)
      /\ Len(entries) <= MaxHistory /\ Len(history) <= MaxHistory
  BY DEF ProxyInit
<1>4. begun \in 0..MaxRequests /\ unsure \subseteq Accounts /\ faults \in 0..MaxFaults
  BY DEF ProxyInit
<1>5. req \in [Ids -> Request] /\ RequestsOK
  BY RequestTypes DEF ProxyInit, RequestsOK, RequestOK, Busy
<1>6. QED
  BY <1>1, <1>2, <1>3, <1>4, <1>5 DEF Running, ProxyTypeOK, HistoryFits

LEMMA RunningStutters == Running /\ UNCHANGED proxyVars => Running'
BY DEF Running, ProxyTypeOK, RequestsOK, HistoryFits, proxyVars

LEMMA RunningInductive == Running /\ [ProxyNext]_proxyVars => Running'
<1> SUFFICES ASSUME Running, [ProxyNext]_proxyVars PROVE Running'
  OBVIOUS
<1>1. ASSUME NEW i \in Ids, RequestStep(i) PROVE Running'
  BY <1>1, ArriveRuns, TakeRuns, PassOverRuns, RefreshRuns, RefuseRuns, ServeRuns,
     addRequestHistoryRuns, ReleaseRuns, RereadRuns, RereadFailsRuns, UsageAnswersRuns,
     UsageFailsRuns, PersistRuns, updateRequestHistoryCreditsSpentRuns DEF RequestStep
<1>2. ASSUME NEW a \in Accounts, WriterStep(a) PROVE Running'
  BY <1>2, WriterRuns
<1>3. ASSUME NEW a \in Accounts, ResetCredits(a) PROVE Running'
  BY <1>3, ResetCreditsRuns
<1>4. CASE clearRequestHistory
  BY <1>4, ClearRuns
<1>5. CASE Crash
  BY <1>5, CrashRuns
<1>6. CASE UNCHANGED proxyVars
  BY <1>6, RunningStutters
<1>7. QED
  BY <1>1, <1>2, <1>3, <1>4, <1>5, <1>6 DEF ProxyNext, OtherStep

LEMMA AlwaysRunning == ProxySpec => []Running
BY RunningInit, RunningInductive, PTL DEF ProxySpec

\* The history never holds more than it may, and what requests, the limiter and
\* the token files hold is of its type, in every behaviour.
THEOREM ProxyTypeCorrect == ProxySpec => []ProxyTypeOK
<1>1. Running => ProxyTypeOK
  BY DEF Running
<1>2. QED
  BY <1>1, AlwaysRunning, PTL

-----------------------------------------------------------------------------
(* The limiter counts the requests that hold a slot. *)

LEMMA HoldersFinite == \A a \in Accounts : IsFiniteSet(Holders(a))
<1>1. IsFiniteSet(Ids)
  BY FS_Interval DEF Ids
<1>2. QED
  BY <1>1, FS_Subset DEF Holders

\* Every request has what it had.
Undisturbed ==
  /\ inFlight' = inFlight
  /\ \A i \in Ids : /\ req[i].holds => req'[i].holds /\ req'[i].account = req[i].account
                    /\ req'[i].holds => req[i].holds

LEMMA UndisturbedSlots == SlotsAreHeld /\ Undisturbed => SlotsAreHeld'
<1> SUFFICES ASSUME SlotsAreHeld, Undisturbed, NEW a \in Accounts
             PROVE  inFlight'[a] = Cardinality(Holders(a)') /\ inFlight'[a] <= Concurrency[a]
  BY DEF SlotsAreHeld
<1>1. Holders(a)' = Holders(a)
  BY DEF Undisturbed, Holders
<1>2. inFlight'[a] = inFlight[a]
  BY DEF Undisturbed
<1>3. QED
  BY <1>1, <1>2 DEF SlotsAreHeld

\* One request changes, and neither has nor gets a slot.
LEMMA OneWithoutSlot ==
  ASSUME Running, NEW i \in Ids, NEW r \in Request, req' = [req EXCEPT ![i] = r],
         ~req[i].holds, ~r.holds, inFlight' = inFlight
  PROVE  Undisturbed
<1>1. req \in [Ids -> Request]
  BY DEF Running, ProxyTypeOK
<1>2. req'[i] = r /\ \A j \in Ids \ {i} : req'[j] = req[j]
  BY <1>1
<1>3. QED
  BY <1>2 DEF Undisturbed

LEMMA MovesUndisturbed ==
  ASSUME Running, NEW i \in Ids, MovesOn(i), inFlight' = inFlight
  PROVE  Undisturbed
<1>1. req \in [Ids -> Request]
  BY DEF Running, ProxyTypeOK
<1>2. PICK r \in Request : /\ req' = [req EXCEPT ![i] = r]
                           /\ req[i].holds \in BOOLEAN /\ r.holds = req[i].holds
                           /\ req[i].holds => r.account = req[i].account
  BY DEF MovesOn
<1>3. req'[i] = r /\ \A j \in Ids \ {i} : req'[j] = req[j]
  BY <1>1, <1>2
<1>4. QED
  BY <1>2, <1>3 DEF Undisturbed

LEMMA ChoosingUndisturbed ==
  ASSUME Running, NEW i \in Ids,
         \/ \E key \in Accounts \cup {GroupKey} : Arrive(i, key)
         \/ \E a \in Accounts : PassOver(i, a) \/ Refresh(i, a)
         \/ Refuse(i)
  PROVE  Undisturbed
<1>1. /\ req \in [Ids -> Request] /\ inFlight' = inFlight
      /\ begun \in 0..MaxRequests
  BY DEF Running, ProxyTypeOK, Arrive, PassOver, Refresh, Refuse
<1>2. ASSUME NEW key \in Accounts \cup {GroupKey}, Arrive(i, key) PROVE Undisturbed
  <2>1. i = begun + 1
    BY <1>2 DEF Arrive
  <2>2. ~req[i].holds
    <3>1. i > begun
      BY <1>1, <2>1
    <3>2. QED
      BY <3>1, Fields
  <2>3. ~req'[i].holds /\ \A j \in Ids \ {i} : req'[j] = req[j]
    BY <1>1, <1>2 DEF Arrive, NoRequest
  <2>4. QED
    BY <1>1, <2>2, <2>3 DEF Undisturbed
<1>3. ASSUME NEW a \in Accounts, Refresh(i, a) PROVE Undisturbed
  <2>1. i = begun + 1
    BY <1>3 DEF Refresh
  <2>2. ~req[i].holds
    <3>1. i > begun
      BY <1>1, <2>1
    <3>2. QED
      BY <3>1, Fields
  <2>3. ~req'[i].holds /\ \A j \in Ids \ {i} : req'[j] = req[j]
    BY <1>1, <1>3 DEF Refresh, NoRequest
  <2>4. QED
    BY <1>1, <2>2, <2>3 DEF Undisturbed
<1>4. ASSUME NEW a \in Accounts, PassOver(i, a) PROVE Undisturbed
  <2>1. req[i].pc = "choosing" /\ req[i] \in Request
    BY <1>4, Fields DEF PassOver, IsFirst
  <2>2. ~req[i].holds
    BY <2>1, Fields
  <2>3. req' = [req EXCEPT ![i] = [req[i] EXCEPT !.untried = @ \ {a}]]
    BY <1>1, <1>4 DEF PassOver
  <2>4. req'[i].holds = req[i].holds /\ \A j \in Ids \ {i} : req'[j] = req[j]
    BY <1>1, <2>1, <2>3 DEF Request
  <2>5. QED
    BY <1>1, <2>2, <2>4 DEF Undisturbed
<1>5. CASE Refuse(i)
  <2>1. ~req[i].holds
    BY <1>5, Fields DEF Refuse
  <2>2. QED
    BY <1>1, <1>5, <2>1, OneWithoutSlot, RequestTypes DEF Refuse
<1>6. QED
  BY <1>2, <1>3, <1>4, <1>5

LEMMA ServingUndisturbed ==
  ASSUME Running, NEW i \in Ids,
         \/ Serve(i) \/ addRequestHistory(i) \/ Reread(i) \/ RereadFails(i)
         \/ UsageAnswers(i) \/ UsageFails(i) \/ Persist(i)
         \/ updateRequestHistoryCreditsSpent(i)
  PROVE  Undisturbed
<1>1. inFlight' = inFlight
  BY DEF Serve, addRequestHistory, Reread, RereadFails, UsageAnswers, UsageFails,
         Persist, updateRequestHistoryCreditsSpent
<1>2. ASSUME RereadFails(i) PROVE MovesOn(i)
  BY <1>2, EndMoves DEF RereadFails, Busy
<1>3. ASSUME updateRequestHistoryCreditsSpent(i) PROVE MovesOn(i)
  BY <1>3, EndMoves DEF updateRequestHistoryCreditsSpent, Busy
<1>4. MovesOn(i)
  BY <1>2, <1>3, ServeMoves, addRequestHistoryMoves, RereadMoves, UsageAnswersMoves,
     UsageFailsMoves, PersistMoves
<1>5. QED
  BY <1>1, <1>4, MovesUndisturbed

LEMMA TakeSlots ==
  ASSUME Running, SlotsAreHeld, NEW i \in Ids, NEW a \in Accounts, Take(i, a)
  PROVE  SlotsAreHeld'
<1>1. req[i].pc = "choosing" /\ ~req[i].holds
  BY Fields DEF Take, IsFirst
<1>2. req'[i].holds /\ req'[i].account = a
  BY DEF Take, NoRequest
<1>3. ASSUME NEW j \in Ids \ {i}
      PROVE  req'[j].holds = req[j].holds /\ req'[j].account = req[j].account
  <2>1. req[j] \in Request
    BY Fields
  <2>2. [req[j] EXCEPT !.unsettled = @ \cup {a}].holds = req[j].holds
    BY <2>1 DEF Request
  <2>3. [req[j] EXCEPT !.unsettled = @ \cup {a}].account = req[j].account
    BY <2>1 DEF Request
  <2>4. QED
    BY <2>2, <2>3 DEF Take
<1>4. Holders(a)' = Holders(a) \cup {i} /\ i \notin Holders(a)
  BY <1>1, <1>2, <1>3 DEF Holders
<1>5. \A b \in Accounts \ {a} : Holders(b)' = Holders(b)
  BY <1>1, <1>2, <1>3 DEF Holders
<1>6. inFlight \in [Accounts -> Nat] /\ inFlight[a] < Concurrency[a]
  BY DEF Take, Running, ProxyTypeOK
<1>7. inFlight' = [inFlight EXCEPT ![a] = inFlight[a] + 1]
  BY <1>6 DEF Take
<1>8. Cardinality(Holders(a)') = Cardinality(Holders(a)) + 1
  BY <1>4, HoldersFinite, FS_AddElement
<1>9. ASSUME NEW b \in Accounts
      PROVE  inFlight'[b] = Cardinality(Holders(b)') /\ inFlight'[b] <= Concurrency[b]
  <2>1. inFlight[b] = Cardinality(Holders(b)) /\ inFlight[b] <= Concurrency[b]
    BY DEF SlotsAreHeld
  <2>2. CASE b = a
    BY <1>6, <1>7, <1>8, <2>1, <2>2
  <2>3. CASE b # a
    BY <1>5, <1>6, <1>7, <2>1, <2>3
  <2>4. QED
    BY <2>2, <2>3
<1>10. QED
  BY <1>9 DEF SlotsAreHeld

LEMMA ReleaseSlots ==
  ASSUME Running, SlotsAreHeld, NEW i \in Ids, Release(i)
  PROVE  SlotsAreHeld'
<1> DEFINE a == req[i].account
<1>1. req[i].holds /\ inFlight \in [Accounts -> Nat] /\ req \in [Ids -> Request]
  BY DEF Release, Running, ProxyTypeOK
<1>2. ~req'[i].holds /\ \A j \in Ids \ {i} : req'[j] = req[j]
  BY <1>1, ReleaseLeaves, ZenonT(60)
<1>3. inFlight' = [inFlight EXCEPT ![a] = SlotsAfter(inFlight[a])]
  BY <1>1 DEF Release
<1>4. \A b \in Accounts : b # a => Holders(b)' = Holders(b)
  BY <1>1, <1>2 DEF Holders
<1>5. ASSUME NEW b \in Accounts
      PROVE  inFlight'[b] = Cardinality(Holders(b)') /\ inFlight'[b] <= Concurrency[b]
  <2>1. inFlight[b] = Cardinality(Holders(b)) /\ inFlight[b] <= Concurrency[b]
    BY DEF SlotsAreHeld
  <2>2. CASE b # a
    <3>1. inFlight'[b] = inFlight[b]
      BY <1>1, <1>3, <2>2
    <3>2. QED
      BY <1>4, <2>1, <2>2, <3>1
  <2>3. CASE b = a
    <3>1. i \in Holders(b) /\ Holders(b)' = Holders(b) \ {i}
      BY <1>1, <1>2, <2>3 DEF Holders
    <3>2. Cardinality(Holders(b)') = Cardinality(Holders(b)) - 1
      BY <3>1, HoldersFinite, FS_RemoveElement
    <3>3. Cardinality(Holders(b)) # 0
      BY <3>1, HoldersFinite, FS_EmptySet
    <3>4. inFlight'[b] = SlotsAfter(inFlight[b])
      BY <1>1, <1>3, <2>3
    <3>5. inFlight[b] \in Nat /\ Concurrency[b] \in Nat
      BY <1>1
    <3>6. QED
      BY <2>1, <3>2, <3>3, <3>4, <3>5 DEF SlotsAfter
  <2>4. QED
    BY <2>2, <2>3
<1>6. QED
  BY <1>5 DEF SlotsAreHeld

LEMMA NoHolders ==
  ASSUME \A i \in Ids : ~req[i].holds, \A a \in Accounts : inFlight[a] = 0
  PROVE  SlotsAreHeld
<1>1. \A a \in Accounts : Holders(a) = {}
  BY DEF Holders
<1>2. \A a \in Accounts : 0 <= Concurrency[a]
  OBVIOUS
<1>3. QED
  BY <1>1, <1>2, FS_EmptySet DEF SlotsAreHeld

LEMMA CrashSlots == Running /\ Crash => SlotsAreHeld'
<1> SUFFICES ASSUME Running, Crash PROVE SlotsAreHeld'
  OBVIOUS
<1>1. \A i \in Ids : ~req'[i].holds
  BY RequestTypes DEF Crash
<1>2. \A a \in Accounts : inFlight'[a] = 0
  BY DEF Crash
<1>3. \A a \in Accounts : Holders(a)' = {}
  BY <1>1 DEF Holders
<1>4. \A a \in Accounts : 0 <= Concurrency[a]
  OBVIOUS
<1>5. QED
  BY <1>2, <1>3, <1>4, FS_EmptySet DEF SlotsAreHeld

LEMMA SlotsInductive == Running /\ SlotsAreHeld /\ [ProxyNext]_proxyVars => SlotsAreHeld'
<1> SUFFICES ASSUME Running, SlotsAreHeld, [ProxyNext]_proxyVars PROVE SlotsAreHeld'
  OBVIOUS
<1>1. ASSUME NEW i \in Ids, RequestStep(i) PROVE SlotsAreHeld'
  <2>1. CASE \E a \in Accounts : Take(i, a)
    BY <2>1, TakeSlots
  <2>2. CASE Release(i)
    BY <2>2, ReleaseSlots
  <2>3. CASE \/ \E key \in Accounts \cup {GroupKey} : Arrive(i, key)
             \/ \E a \in Accounts : PassOver(i, a) \/ Refresh(i, a)
             \/ Refuse(i)
    BY <2>3, ChoosingUndisturbed, UndisturbedSlots
  <2>4. CASE \/ Serve(i) \/ addRequestHistory(i) \/ Reread(i) \/ RereadFails(i)
             \/ UsageAnswers(i) \/ UsageFails(i) \/ Persist(i)
             \/ updateRequestHistoryCreditsSpent(i)
    BY <2>4, ServingUndisturbed, UndisturbedSlots
  <2>5. QED
    BY <1>1, <2>1, <2>2, <2>3, <2>4 DEF RequestStep
<1>2. CASE Crash
  BY <1>2, CrashSlots
<1>3. CASE \/ \E a \in Accounts : WriterStep(a) \/ ResetCredits(a)
           \/ clearRequestHistory \/ UNCHANGED proxyVars
  <2>1. req' = req /\ inFlight' = inFlight
    BY <1>3 DEF WriterStep, ReadToken, WriteBack, SaveAccount, ResetCredits,
                clearRequestHistory, proxyVars
  <2>2. QED
    BY <2>1, UndisturbedSlots DEF Undisturbed
<1>4. QED
  BY <1>1, <1>2, <1>3 DEF ProxyNext, OtherStep

\* inFlight is the number of requests that hold a slot of the account, whichever
\* ends first, a request's handler or its goroutine, and never beyond the limit.
THEOREM SlotsComeBack == ProxySpec => []SlotsAreHeld
<1>1. ProxyInit => SlotsAreHeld
  BY NoHolders, RequestTypes DEF ProxyInit
<1>2. QED
  BY <1>1, SlotsInductive, AlwaysRunning, PTL DEF ProxySpec

-----------------------------------------------------------------------------
(* The history file.                                                       *)

LEMMA SaveSaves ==
  ASSUME Running, HistoryIsSaved, NEW new, Save(new)
  PROVE  HistoryIsSaved'
<1>1. faults \in Nat
  BY DEF Running, ProxyTypeOK
<1>2. QED
  BY <1>1 DEF Save, HistoryIsSaved

LEMMA SavedInductive == Running /\ HistoryIsSaved /\ [ProxyNext]_proxyVars => HistoryIsSaved'
<1> SUFFICES ASSUME Running, HistoryIsSaved, [ProxyNext]_proxyVars PROVE HistoryIsSaved'
  OBVIOUS
<1>1. faults \in Nat
  BY DEF Running, ProxyTypeOK
<1>2. ASSUME NEW i \in Ids, RequestStep(i) PROVE HistoryIsSaved'
  <2>1. CASE addRequestHistory(i)
    BY <2>1, SaveSaves DEF addRequestHistory
  <2>2. CASE updateRequestHistoryCreditsSpent(i)
    BY <2>2, SaveSaves DEF updateRequestHistoryCreditsSpent, SaveSpent, HistoryIsSaved
  <2>3. CASE history' = history /\ entries' = entries /\ faults' \in {faults, faults + 1}
    BY <1>1, <2>3 DEF HistoryIsSaved
  <2>4. QED
    BY <1>2, <2>1, <2>2, <2>3
       DEF RequestStep, Arrive, Refresh, Take, PassOver, Refuse, Serve, Release, Reread,
           RereadFails, UsageAnswers, UsageFails, Persist
<1>3. CASE clearRequestHistory
  BY <1>3, SaveSaves DEF clearRequestHistory
<1>4. CASE (\E a \in Accounts : ResetCredits(a)) \/ Crash
  BY <1>1, <1>4 DEF ResetCredits, Crash, HistoryIsSaved
<1>5. CASE (\E a \in Accounts : WriterStep(a)) \/ UNCHANGED proxyVars
  BY <1>5 DEF WriterStep, ReadToken, WriteBack, SaveAccount, proxyVars, HistoryIsSaved
<1>6. QED
  BY <1>2, <1>3, <1>4, <1>5 DEF ProxyNext, OtherStep

\* As long as nothing failed, the history file is what the history shows, however
\* requests, late amounts and clearings interleave.
THEOREM RestartForgetsNothing == ProxySpec => []HistoryIsSaved
<1>1. ProxyInit => HistoryIsSaved
  BY DEF ProxyInit, HistoryIsSaved
<1>2. QED
  BY <1>1, SavedInductive, AlwaysRunning, PTL DEF ProxySpec

-----------------------------------------------------------------------------
(* The credits from which requests are reckoned.                           *)

\* Request or update i is using the account.
Uses(i, a) == req[i].account = a /\ req[i].pc \in Busy

Pending == {"served", "selecting", "asking", "persisting"}

\* It may have changed the credits without having stored them.
Behind(i, a) == req[i].account = a /\ req[i].pc \in Pending

\* A list that was read holds the credits of the account or, when others use it,
\* no fewer.
ListOK(i, a) ==
  req[i].pc = "choosing" /\ req[i].list[a] # Unknown =>
    /\ req[i].list[a] >= credits[a]
    /\ a \notin req[i].unsettled => req[i].list[a] = credits[a]

\* What a request holds of the credits before and after it is their difference.
ReckonOK(i, a) ==
  /\ req[i].pc = "serving" => req[i].before \in {Unknown, credits[a]}
  /\ req[i].pc \in Pending \cup {"spent"} => req[i].before \in {Unknown, credits[a] + used[i]}
  /\ req[i].pc \in {"persisting", "spent"} => req[i].after = credits[a]

AccountOK(a) ==
  /\ \A i, j \in Ids : Uses(i, a) /\ Uses(j, a) => i = j
  /\ stored[a] # Unknown => stored[a] >= credits[a]
  /\ stored[a] # Unknown /\ (\A i \in Ids : ~Behind(i, a)) => stored[a] = credits[a]
  /\ \A i \in Ids : ListOK(i, a) /\ (Uses(i, a) => ReckonOK(i, a))

\* Who still chooses knows of each account that is serving.
Seen ==
  \A i, j \in Ids : req[i].pc = "choosing" /\ req[j].pc = "serving" =>
                      req[j].account \in req[i].unsettled

Reckoned == Seen /\ \A a \in Accounts \ unsure : AccountOK(a)

-----------------------------------------------------------------------------
(* What a step leaves of the requests. *)

\* Request j has what it had, and has perhaps learnt of an account that is used.
Keeps(j) ==
  /\ req'[j].pc = req[j].pc
  /\ req'[j].account = req[j].account
  /\ req'[j].list = req[j].list
  /\ req'[j].before = req[j].before
  /\ req'[j].after = req[j].after
  /\ req[j].unsettled \subseteq req'[j].unsettled

OthersKeep(i) == \A j \in Ids \ {i} : Keeps(j)

LEMMA OneChanges ==
  ASSUME Running, NEW i \in Ids, NEW r, req' = [req EXCEPT ![i] = r]
  PROVE  req'[i] = r /\ OthersKeep(i)
<1>1. req \in [Ids -> Request]
  BY DEF Running, ProxyTypeOK
<1>2. QED
  BY <1>1 DEF OthersKeep, Keeps

\* A request goes from one step to the next, with what it has noted.
Goes(i, from, to) ==
  /\ req[i].pc = from /\ req'[i].pc = to
  /\ req'[i].account = req[i].account
  /\ req'[i].before = req[i].before
  /\ OthersKeep(i)

LEMMA ArriveLeaves ==
  ASSUME Running, NEW i \in Ids, NEW key \in Accounts \cup {GroupKey}, Arrive(i, key)
  PROVE  /\ req[i].pc = "none" /\ req'[i].pc = "choosing"
         /\ req'[i].unsettled = {a \in Accounts : Live(a)}
         /\ \A a \in Accounts : req'[i].list[a] \in {stored[a], Unknown}
         /\ OthersKeep(i)
<1> DEFINE r == [NoRequest EXCEPT !.pc = "choosing", !.key = key, !.untried = Choice(key),
                   !.list = [a \in Accounts |-> IF a \in Choice(key) THEN stored[a]
                                                ELSE Unknown],
                   !.unsettled = {a \in Accounts : Live(a)}]
<1>1. i > begun /\ req' = [req EXCEPT ![i] = r]
  BY DEF Arrive, Running, ProxyTypeOK
<1>2. req[i].pc = "none"
  BY <1>1, Fields
<1>3. /\ r.pc = "choosing" /\ r.unsettled = {a \in Accounts : Live(a)}
      /\ \A a \in Accounts : r.list[a] \in {stored[a], Unknown}
  BY DEF NoRequest
<1> HIDE DEF r
<1>4. QED
  BY <1>1, <1>2, <1>3, OneChanges

LEMMA RefreshLeaves ==
  ASSUME Running, NEW i \in Ids, NEW a \in Accounts, Refresh(i, a)
  PROVE  /\ req[i].pc = "none" /\ req'[i].pc = "asking"
         /\ req'[i].account = a /\ req'[i].before = Unknown
         /\ OthersKeep(i)
<1> DEFINE r == [NoRequest EXCEPT !.pc = "asking", !.account = a, !.file = stored[a]]
<1>1. i > begun /\ req' = [req EXCEPT ![i] = r]
  BY DEF Refresh, Running, ProxyTypeOK
<1>2. req[i].pc = "none"
  BY <1>1, Fields
<1>3. r.pc = "asking" /\ r.account = a /\ r.before = Unknown
  BY DEF NoRequest
<1> HIDE DEF r
<1>4. QED
  BY <1>1, <1>2, <1>3, OneChanges

LEMMA TakeLeaves ==
  ASSUME Running, NEW i \in Ids, NEW a \in Accounts, Take(i, a)
  PROVE  /\ req[i].pc = "choosing" /\ req'[i].pc = "serving"
         /\ req'[i].account = a /\ req'[i].before = req[i].list[a]
         /\ OthersKeep(i)
         /\ \A j \in Ids \ {i} : req[j].pc = "choosing" => a \in req'[j].unsettled
<1>1. req[i].pc = "choosing"
  BY DEF Take, IsFirst
<1>2. req'[i].pc = "serving" /\ req'[i].account = a /\ req'[i].before = req[i].list[a]
  BY DEF Take, NoRequest
<1>3. ASSUME NEW j \in Ids \ {i}
      PROVE  Keeps(j) /\ (req[j].pc = "choosing" => a \in req'[j].unsettled)
  <2>1. CASE req[j].pc = "choosing"
    <3>1. req'[j] = [req[j] EXCEPT !.unsettled = @ \cup {a}]
      BY <2>1 DEF Take
    <3>2. req[j] \in Request
      BY Fields
    <3>3. /\ req'[j].pc = req[j].pc /\ req'[j].account = req[j].account
          /\ req'[j].list = req[j].list
          /\ req'[j].before = req[j].before /\ req'[j].after = req[j].after
          /\ req'[j].unsettled = req[j].unsettled \cup {a}
      BY <3>1, <3>2 DEF Request
    <3>4. QED
      BY <3>3 DEF Keeps
  <2>2. CASE req[j].pc # "choosing"
    BY <2>2 DEF Take, Keeps
  <2>3. QED
    BY <2>1, <2>2
<1>4. QED
  BY <1>1, <1>2, <1>3 DEF OthersKeep

LEMMA PassOverLeaves ==
  ASSUME Running, NEW i \in Ids, NEW a \in Accounts, PassOver(i, a)
  PROVE  \A j \in Ids : Keeps(j)
<1>1. req[i] \in Request
  BY Fields
<1>2. req' = [req EXCEPT ![i] = [req[i] EXCEPT !.untried = @ \ {a}]]
  BY DEF PassOver, Running, ProxyTypeOK
<1>3. Keeps(i)
  <2>1. req'[i] = [req[i] EXCEPT !.untried = @ \ {a}]
    BY <1>2, OneChanges
  <2>2. QED
    BY <1>1, <2>1 DEF Keeps, Request
<1>4. OthersKeep(i)
  BY <1>2, OneChanges
<1>5. QED
  BY <1>3, <1>4 DEF OthersKeep

LEMMA ReleaseKeeps ==
  ASSUME Running, NEW i \in Ids, Release(i)
  PROVE  /\ OthersKeep(i)
         /\ Keeps(i) \/ (req[i].pc = "done" /\ req'[i].pc = "done")
<1>1. req[i] \in Request /\ req \in [Ids -> Request]
  BY Fields DEF Running, ProxyTypeOK
<1>2. CASE req[i].pc = "done"
  <2>1. req' = [req EXCEPT ![i] = Ended]
    BY <1>1, <1>2 DEF Release
  <2>2. QED
    BY <1>2, <2>1, OneChanges, RequestTypes
<1>3. CASE req[i].pc # "done"
  <2>1. req' = [req EXCEPT ![i] = [req[i] EXCEPT !.holds = FALSE]]
    BY <1>1, <1>3 DEF Release
  <2>2. req'[i] = [req[i] EXCEPT !.holds = FALSE] /\ OthersKeep(i)
    BY <2>1, OneChanges
  <2>3. Keeps(i)
    BY <1>1, <2>2 DEF Keeps, Request
  <2>4. QED
    BY <2>2, <2>3
<1>4. QED
  BY <1>2, <1>3

LEMMA RefuseEnds ==
  ASSUME Running, NEW i \in Ids, Refuse(i)
  PROVE  req[i].pc = "choosing" /\ req'[i].pc = "done" /\ OthersKeep(i)
BY OneChanges, RequestTypes DEF Refuse

LEMMA EndEnds ==
  ASSUME Running, NEW i \in Ids, End(i), req[i].pc \in Busy
  PROVE  req'[i].pc = "done" /\ OthersKeep(i)
<1>1. PICK r \in Request : req' = [req EXCEPT ![i] = r] /\ r.pc = "done"
  BY EndLeaves
<1>2. QED
  BY <1>1, OneChanges

LEMMA ServeGoes ==
  ASSUME Running, NEW i \in Ids, Serve(i)
  PROVE  Goes(i, "serving", "served")
<1>1. req[i] \in Request /\ req[i].pc = "serving"
  BY Fields DEF Serve
<1>2. req' = [req EXCEPT ![i] = [req[i] EXCEPT !.pc = "served"]]
  BY DEF Serve, Running, ProxyTypeOK
<1>3. req'[i] = [req[i] EXCEPT !.pc = "served"] /\ OthersKeep(i)
  BY <1>2, OneChanges
<1>4. QED
  BY <1>1, <1>3 DEF Goes, Request

LEMMA addRequestHistoryGoes ==
  ASSUME Running, NEW i \in Ids, addRequestHistory(i)
  PROVE  Goes(i, "served", "selecting")
<1>1. req[i] \in Request /\ req[i].pc = "served"
  BY Fields DEF addRequestHistory
<1>2. req' = [req EXCEPT ![i] = [req[i] EXCEPT !.pc = "selecting"]]
  BY DEF addRequestHistory, Running, ProxyTypeOK
<1>3. req'[i] = [req[i] EXCEPT !.pc = "selecting"] /\ OthersKeep(i)
  BY <1>2, OneChanges
<1>4. QED
  BY <1>1, <1>3 DEF Goes, Request

LEMMA RereadGoes ==
  ASSUME Running, NEW i \in Ids, Reread(i)
  PROVE  Goes(i, "selecting", "asking")
<1>1. req[i] \in Request /\ req[i].pc = "selecting"
  BY Fields DEF Reread
<1>2. PICK file : file = stored[req[i].account]
  OBVIOUS
<1>3. req' = [req EXCEPT ![i] = [req[i] EXCEPT !.pc = "asking", !.file = file]]
  BY <1>2 DEF Reread, Running, ProxyTypeOK
<1>4. req'[i] = [req[i] EXCEPT !.pc = "asking", !.file = file] /\ OthersKeep(i)
  BY <1>3, OneChanges
<1>5. QED
  BY <1>1, <1>4 DEF Goes, Request

LEMMA UsageAnswersGoes ==
  ASSUME Running, NEW i \in Ids, UsageAnswers(i)
  PROVE  Goes(i, "asking", "persisting") /\ req'[i].after = credits[req[i].account]
<1>1. req[i] \in Request /\ req[i].pc = "asking"
  BY Fields DEF UsageAnswers
<1>2. PICK after : after = credits[req[i].account]
  OBVIOUS
<1>3. req' = [req EXCEPT ![i] = [req[i] EXCEPT !.pc = "persisting", !.after = after]]
  BY <1>2 DEF UsageAnswers, Running, ProxyTypeOK
<1>4. req'[i] = [req[i] EXCEPT !.pc = "persisting", !.after = after] /\ OthersKeep(i)
  BY <1>3, OneChanges
<1>5. QED
  BY <1>1, <1>2, <1>4 DEF Goes, Request

LEMMA UsageFailsGoes ==
  ASSUME Running, NEW i \in Ids, UsageFails(i)
  PROVE  Goes(i, "asking", "spent")
<1>1. req[i] \in Request /\ req[i].pc = "asking"
  BY Fields DEF UsageFails
<1>2. PICK r : r = [req[i] EXCEPT !.pc = "spent", !.after = req[i].file, !.file = Unknown]
  OBVIOUS
<1>3. req' = [req EXCEPT ![i] = r]
  BY <1>2 DEF UsageFails, Running, ProxyTypeOK
<1>4. req'[i] = r /\ OthersKeep(i)
  BY <1>3, OneChanges
<1>5. QED
  BY <1>1, <1>2, <1>4 DEF Goes, Request

LEMMA PersistGoes ==
  ASSUME Running, NEW i \in Ids, Persist(i)
  PROVE  Goes(i, "persisting", "spent") /\ req'[i].after = req[i].after
<1>1. req[i] \in Request /\ req[i].pc = "persisting"
  BY Fields DEF Persist
<1>2. PICK r : r = [req[i] EXCEPT !.pc = "spent", !.file = Unknown]
  OBVIOUS
<1>3. req' = [req EXCEPT ![i] = r]
  BY <1>2 DEF Persist, Running, ProxyTypeOK
<1>4. req'[i] = r /\ OthersKeep(i)
  BY <1>3, OneChanges
<1>5. QED
  BY <1>1, <1>2, <1>4 DEF Goes, Request
-----------------------------------------------------------------------------
(* One step keeps the reckoning. *)

LEMMA Amounts ==
  /\ \A c \in Credits : c \in Int /\ c >= 0
  /\ \A s \in Stored : s \in Int /\ (s # Unknown => s \in Credits)
BY DEF Credits, Stored, Unknown

\* The token file of the account is as it was, or tells what Kiro has, or nothing.
HarmlessWrite(a) ==
  \/ stored'[a] = stored[a]
  \/ stored'[a] \in {credits[a], Unknown} /\ credits[a] \in Int

\* Whoever writes other credits makes the account unsure.
LEMMA WritesHarmless ==
  ASSUME Running, NEW b \in Accounts, NEW c \in Stored, WriteToken(b, c),
         NEW a \in Accounts \ unsure'
  PROVE  HarmlessWrite(a)
<1>1. stored \in [Accounts -> Stored] /\ credits[a] \in Int
  BY Numbers DEF Running, ProxyTypeOK
<1>2. CASE a = b
  BY <1>1, <1>2 DEF WriteToken, HarmlessWrite
<1>3. CASE a # b
  BY <1>1, <1>3 DEF WriteToken, HarmlessWrite
<1>4. QED
  BY <1>2, <1>3

\* Only request i has moved, and it fits the account.
LEMMA AccountStays ==
  ASSUME NEW a \in Accounts, AccountOK(a), NEW i \in Ids, OthersKeep(i),
         HarmlessWrite(a), credits'[a] = credits[a],
         \A j \in Ids \ {i} : used'[j] = used[j],
         Behind(i, a) => Behind(i, a)',
         Uses(i, a)' => Uses(i, a) \/ \A j \in Ids : ~Uses(j, a),
         ListOK(i, a)',
         Uses(i, a)' => ReckonOK(i, a)'
  PROVE  AccountOK(a)'
<1>1. ASSUME NEW j \in Ids \ {i}
      PROVE  /\ Uses(j, a)' <=> Uses(j, a)
             /\ Behind(j, a)' <=> Behind(j, a)
             /\ ListOK(j, a)'
             /\ Uses(j, a) => ReckonOK(j, a)'
  <2>1. Keeps(j)
    BY DEF OthersKeep
  <2>2. ListOK(j, a) /\ (Uses(j, a) => ReckonOK(j, a))
    BY DEF AccountOK
  <2>3. (Uses(j, a)' <=> Uses(j, a)) /\ (Behind(j, a)' <=> Behind(j, a))
    BY <2>1 DEF Keeps, Uses, Behind
  <2>4. ListOK(j, a)'
    BY <2>1, <2>2 DEF Keeps, ListOK
  <2>5. ReckonOK(j, a) => ReckonOK(j, a)'
    BY <2>1 DEF Keeps, ReckonOK
  <2>6. QED
    BY <2>2, <2>3, <2>4, <2>5
<1>2. \A j, k \in Ids : Uses(j, a)' /\ Uses(k, a)' => j = k
  BY <1>1 DEF AccountOK
<1>3. stored'[a] # Unknown => stored'[a] >= credits'[a]
  BY DEF HarmlessWrite, AccountOK
<1>4. (\A j \in Ids : ~Behind(j, a)') => \A j \in Ids : ~Behind(j, a)
  BY <1>1
<1>5. stored'[a] # Unknown /\ (\A j \in Ids : ~Behind(j, a)') => stored'[a] = credits'[a]
  BY <1>4 DEF HarmlessWrite, AccountOK
<1>6. \A j \in Ids : ListOK(j, a)' /\ (Uses(j, a)' => ReckonOK(j, a)')
  BY <1>1
<1>7. QED
  BY <1>2, <1>3, <1>5, <1>6 DEF AccountOK

\* Request i has gone on, with the account that it has.
LEMMA AccountGoes ==
  ASSUME NEW a \in Accounts, AccountOK(a), NEW i \in Ids, NEW from \in Busy, NEW to \in Busy,
         Goes(i, from, to),
         stored'[a] = stored[a], credits'[a] = credits[a], used' = used,
         from \in Pending /\ to \notin Pending => req[i].account # a,
         req[i].account = a => ReckonOK(i, a)'
  PROVE  AccountOK(a)'
<1>1. req[i].pc = from /\ req'[i].pc = to /\ req'[i].account = req[i].account /\ OthersKeep(i)
  BY DEF Goes
<1>2. Behind(i, a) => Behind(i, a)'
  BY <1>1 DEF Behind
<1>3. Uses(i, a)' => Uses(i, a)
  BY <1>1 DEF Uses
<1>4. ListOK(i, a)'
  BY <1>1 DEF ListOK, Busy
<1>5. Uses(i, a)' => ReckonOK(i, a)'
  BY <1>1 DEF Uses
<1>6. QED
  BY <1>1, <1>2, <1>3, <1>4, <1>5, AccountStays DEF HarmlessWrite

\* Request i is through, with an account that is not behind for it.
LEMMA AccountEnds ==
  ASSUME NEW a \in Accounts, AccountOK(a), NEW i \in Ids, OthersKeep(i), req'[i].pc = "done",
         stored'[a] = stored[a], credits'[a] = credits[a], used' = used, ~Behind(i, a)
  PROVE  AccountOK(a)'
<1>1. ~Uses(i, a)' /\ ListOK(i, a)'
  BY DEF Uses, ListOK, Busy
<1>2. QED
  BY <1>1, AccountStays DEF HarmlessWrite

LEMMA LiveUses ==
  ASSUME Running, NEW a \in Accounts, ~Live(a)
  PROVE  \A j \in Ids : ~Uses(j, a) /\ ~Behind(j, a)
BY DEF Live, Uses, Behind, Busy, Pending

LEMMA ArriveReckons ==
  ASSUME Running, Reckoned, NEW i \in Ids, NEW key \in Accounts \cup {GroupKey}, Arrive(i, key),
         NEW a \in Accounts \ unsure'
  PROVE  AccountOK(a)'
<1>1. AccountOK(a) /\ UNCHANGED <<stored, credits, used>>
  BY DEF Reckoned, Arrive
<1>2. /\ req[i].pc = "none" /\ req'[i].pc = "choosing"
      /\ req'[i].unsettled = {b \in Accounts : Live(b)}
      /\ req'[i].list[a] \in {stored[a], Unknown}
      /\ OthersKeep(i)
  BY ArriveLeaves
<1>3. ~Behind(i, a) /\ ~Uses(i, a)'
  BY <1>2 DEF Behind, Pending, Uses, Busy
<1>4. a \notin req'[i].unsettled => \A j \in Ids : ~Behind(j, a)
  BY <1>2, LiveUses
<1>5. ListOK(i, a)'
  BY <1>1, <1>2, <1>4 DEF ListOK, AccountOK
<1>6. QED
  BY <1>1, <1>2, <1>3, <1>5, AccountStays DEF HarmlessWrite

LEMMA RefreshReckons ==
  ASSUME Running, Reckoned, NEW i \in Ids, NEW b \in Accounts, Refresh(i, b),
         NEW a \in Accounts \ unsure'
  PROVE  AccountOK(a)'
<1>1. AccountOK(a) /\ UNCHANGED <<stored, credits, used>>
  BY DEF Reckoned, Refresh
<1>2. /\ req[i].pc = "none" /\ req'[i].pc = "asking"
      /\ req'[i].account = b /\ req'[i].before = Unknown
      /\ OthersKeep(i)
  BY RefreshLeaves
<1>3. ~Behind(i, a) /\ ListOK(i, a)' /\ ReckonOK(i, a)'
  BY <1>2 DEF Behind, Pending, ListOK, ReckonOK
<1>4. Uses(i, a)' => a = b
  BY <1>2 DEF Uses
<1>5. a = b => ~Live(a)
  BY DEF Refresh
<1>6. QED
  BY <1>1, <1>2, <1>3, <1>4, <1>5, LiveUses, AccountStays DEF HarmlessWrite

LEMMA TakeReckons ==
  ASSUME Running, Reckoned, NEW i \in Ids, NEW b \in Accounts, Take(i, b),
         NEW a \in Accounts \ unsure'
  PROVE  AccountOK(a)'
<1>1. AccountOK(a) /\ UNCHANGED <<stored, credits, used>>
  BY DEF Reckoned, Take
<1>2. /\ req[i].pc = "choosing" /\ req'[i].pc = "serving"
      /\ req'[i].account = b /\ req'[i].before = req[i].list[b]
      /\ OthersKeep(i)
  BY TakeLeaves
<1>3. ~Behind(i, a) /\ ListOK(i, a)'
  BY <1>2 DEF Behind, Pending, ListOK
<1>4. Uses(i, a)' => a = b
  BY <1>2 DEF Uses
<1>5. a = b => ~Live(a) /\ a \notin req[i].unsettled
  BY DEF Take
<1>6. ListOK(i, a)
  BY <1>1 DEF AccountOK
<1>7. a = b => req'[i].before \in {Unknown, credits'[a]}
  BY <1>1, <1>2, <1>5, <1>6 DEF ListOK
<1>8. a = b => ReckonOK(i, a)'
  BY <1>2, <1>7 DEF ReckonOK, Pending
<1>9. QED
  BY <1>1, <1>2, <1>3, <1>4, <1>5, <1>8, LiveUses, AccountStays DEF HarmlessWrite

LEMMA PassOverReckons ==
  ASSUME Running, Reckoned, NEW i \in Ids, NEW b \in Accounts, PassOver(i, b),
         NEW a \in Accounts \ unsure'
  PROVE  AccountOK(a)'
<1>1. UNCHANGED <<credits, used>> /\ req[i].list[b] \in Stored
  BY Fields DEF PassOver
<1>2. (stored' = stored /\ unsure' = unsure) \/ WriteToken(b, req[i].list[b])
  BY DEF PassOver
<1>3. AccountOK(a) /\ HarmlessWrite(a)
  <2>1. unsure \subseteq unsure'
    BY <1>1, <1>2, WriteTokenTypes
  <2>2. HarmlessWrite(a)
    BY <1>1, <1>2, WritesHarmless DEF HarmlessWrite
  <2>3. QED
    BY <2>1, <2>2 DEF Reckoned
<1>4. Keeps(i) /\ OthersKeep(i) /\ req[i].pc = "choosing"
  BY PassOverLeaves DEF OthersKeep, PassOver, IsFirst
<1>5. ~Behind(i, a) /\ ~Uses(i, a)'
  BY <1>4 DEF Keeps, Behind, Pending, Uses, Busy
<1>6. ListOK(i, a)
  BY <1>3 DEF AccountOK
<1>7. ListOK(i, a)'
  BY <1>1, <1>4, <1>6 DEF Keeps, ListOK
<1>8. QED
  BY <1>1, <1>3, <1>4, <1>5, <1>7, AccountStays

LEMMA ReleaseReckons ==
  ASSUME Running, Reckoned, NEW i \in Ids, Release(i), NEW a \in Accounts \ unsure'
  PROVE  AccountOK(a)'
<1>1. AccountOK(a) /\ UNCHANGED <<stored, credits, used>>
  BY DEF Reckoned, Release
<1>2. OthersKeep(i) /\ (Keeps(i) \/ (req[i].pc = "done" /\ req'[i].pc = "done"))
  BY ReleaseKeeps
<1>3. CASE Keeps(i)
  <2>1. (Behind(i, a)' <=> Behind(i, a)) /\ (Uses(i, a)' <=> Uses(i, a))
    BY <1>3 DEF Keeps, Behind, Uses
  <2>2. ListOK(i, a) /\ (Uses(i, a) => ReckonOK(i, a))
    BY <1>1 DEF AccountOK
  <2>3. ListOK(i, a)'
    BY <1>1, <1>3, <2>2 DEF Keeps, ListOK
  <2>4. ReckonOK(i, a) => ReckonOK(i, a)'
    BY <1>1, <1>3 DEF Keeps, ReckonOK
  <2>5. QED
    BY <1>1, <1>2, <2>1, <2>2, <2>3, <2>4, AccountStays DEF HarmlessWrite
<1>4. CASE req[i].pc = "done" /\ req'[i].pc = "done"
  <2>1. ~Behind(i, a)
    BY <1>4 DEF Behind, Pending
  <2>2. QED
    BY <1>1, <1>2, <1>4, <2>1, AccountEnds
<1>5. QED
  BY <1>2, <1>3, <1>4

LEMMA RefuseReckons ==
  ASSUME Running, Reckoned, NEW i \in Ids, Refuse(i), NEW a \in Accounts \ unsure'
  PROVE  AccountOK(a)'
<1>1. AccountOK(a) /\ UNCHANGED <<stored, credits, used>>
  BY DEF Reckoned, Refuse
<1>2. req[i].pc = "choosing" /\ req'[i].pc = "done" /\ OthersKeep(i)
  BY RefuseEnds
<1>3. ~Behind(i, a)
  BY <1>2 DEF Behind, Pending
<1>4. QED
  BY <1>1, <1>2, <1>3, AccountEnds

\* Kiro has charged for the request.
LEMMA ServeReckons ==
  ASSUME Running, Reckoned, NEW i \in Ids, Serve(i), NEW a \in Accounts \ unsure'
  PROVE  AccountOK(a)'
<1>1. AccountOK(a) /\ stored' = stored
  BY DEF Reckoned, Serve
<1>2. Goes(i, "serving", "served")
  BY ServeGoes
<1>3. /\ req[i].pc = "serving" /\ req'[i].pc = "served"
      /\ req'[i].account = req[i].account /\ req'[i].before = req[i].before
      /\ OthersKeep(i)
  BY <1>2 DEF Goes
<1>4. req[i].account \in Accounts
  BY <1>3, Fields DEF Busy
<1>5. credits \in [Accounts -> Credits] /\ used \in [Ids -> Credits]
  BY DEF Running, ProxyTypeOK
<1>6. PICK cost \in {0, 1} :
        /\ credits' = [credits EXCEPT ![req[i].account] = credits[req[i].account] - cost]
        /\ used' = [used EXCEPT ![i] = cost]
  BY <1>4, <1>5 DEF Serve
<1>7. \A j \in Ids \ {i} : used'[j] = used[j]
  BY <1>5, <1>6
<1>8. ListOK(i, a)' /\ ~Behind(i, a)
  BY <1>3 DEF ListOK, Behind, Pending
<1>9. CASE req[i].account # a
  <2>1. credits'[a] = credits[a] /\ stored'[a] = stored[a]
    BY <1>1, <1>5, <1>6, <1>9
  <2>2. ~Uses(i, a)'
    BY <1>3, <1>9 DEF Uses
  <2>3. QED
    BY <1>1, <1>3, <1>7, <1>8, <2>1, <2>2, AccountStays DEF HarmlessWrite
<1>10. CASE req[i].account = a
  <2>1. /\ credits[a] \in Int /\ credits'[a] = credits[a] - cost
        /\ used'[i] = cost /\ cost \in 0..1
    <3>1. credits[a] \in Credits
      BY <1>5
    <3>2. credits'[a] = credits[a] - cost /\ used'[i] = cost
      BY <1>5, <1>6, <1>10
    <3>3. cost \in 0..1
      OBVIOUS
    <3>4. QED
      BY <3>1, <3>2, <3>3, Amounts
  <2>2. Uses(i, a) /\ Behind(i, a)' /\ Uses(i, a)'
    BY <1>3, <1>10 DEF Uses, Behind, Busy, Pending
  <2>3. ReckonOK(i, a)
    BY <1>1, <2>2 DEF AccountOK
  <2>4. req[i].before \in {Unknown, credits[a]}
    BY <1>3, <2>3 DEF ReckonOK
  <2>5. ReckonOK(i, a)'
    BY <1>3, <2>1, <2>4 DEF ReckonOK, Pending
  <2>6. ASSUME NEW j \in Ids \ {i}
        PROVE  ListOK(j, a)' /\ ~Uses(j, a)'
    <3>1. Keeps(j)
      BY <1>3 DEF OthersKeep
    <3>2. ~Uses(j, a)
      BY <1>1, <2>2 DEF AccountOK
    <3>3. ~Uses(j, a)'
      BY <3>1, <3>2 DEF Keeps, Uses
    <3>4. req[j].pc = "choosing" => a \in req[j].unsettled
      BY <1>3, <1>10 DEF Reckoned, Seen
    <3>5. ListOK(j, a)
      BY <1>1 DEF AccountOK
    <3>6. req[j].list[a] \in Stored
      BY Fields
    <3>7. ListOK(j, a)'
      BY <2>1, <3>1, <3>4, <3>5, <3>6, Amounts DEF Keeps, ListOK
    <3>8. QED
      BY <3>3, <3>7
  <2>7. stored'[a] # Unknown => stored'[a] >= credits'[a]
    <3>1. stored[a] \in Stored
      BY DEF Running, ProxyTypeOK
    <3>2. stored[a] # Unknown => stored[a] >= credits[a]
      BY <1>1 DEF AccountOK
    <3>3. QED
      BY <1>1, <2>1, <3>1, <3>2, Amounts
  <2>8. QED
    BY <1>8, <2>2, <2>5, <2>6, <2>7 DEF AccountOK
<1>11. QED
  BY <1>9, <1>10

\* The goroutine after the request goes on.
LEMMA GoesReckons ==
  ASSUME Running, Reckoned, NEW i \in Ids,
         addRequestHistory(i) \/ Reread(i) \/ UsageAnswers(i) \/ UsageFails(i),
         NEW a \in Accounts \ unsure'
  PROVE  AccountOK(a)'
<1>1. AccountOK(a) /\ UNCHANGED <<stored, credits, used>>
  <2>1. unsure \subseteq unsure' /\ UNCHANGED <<stored, credits, used>>
    BY DEF addRequestHistory, Reread, UsageAnswers, UsageFails
  <2>2. QED
    BY <2>1 DEF Reckoned
<1>2. req[i].account = a /\ req[i].pc \in Busy => ReckonOK(i, a)
  BY <1>1 DEF AccountOK, Uses
<1>3. CASE addRequestHistory(i)
  <2>1. Goes(i, "served", "selecting")
    BY <1>3, addRequestHistoryGoes
  <2>2. req[i].account = a => ReckonOK(i, a)'
    BY <1>1, <1>2, <2>1 DEF Goes, ReckonOK, Busy, Pending
  <2>3. QED
    BY <1>1, <2>1, <2>2, AccountGoes DEF Busy, Pending
<1>4. CASE Reread(i)
  <2>1. Goes(i, "selecting", "asking")
    BY <1>4, RereadGoes
  <2>2. req[i].account = a => ReckonOK(i, a)'
    BY <1>1, <1>2, <2>1 DEF Goes, ReckonOK, Busy, Pending
  <2>3. QED
    BY <1>1, <2>1, <2>2, AccountGoes DEF Busy, Pending
<1>5. CASE UsageAnswers(i)
  <2>1. Goes(i, "asking", "persisting") /\ req'[i].after = credits[req[i].account]
    BY <1>5, UsageAnswersGoes
  <2>2. req[i].account = a => ReckonOK(i, a)'
    BY <1>1, <1>2, <2>1 DEF Goes, ReckonOK, Busy, Pending
  <2>3. QED
    BY <1>1, <2>1, <2>2, AccountGoes DEF Busy, Pending
<1>6. CASE UsageFails(i)
  <2>1. Goes(i, "asking", "spent")
    BY <1>6, UsageFailsGoes
  <2>2. req[i].account # a
    BY <1>6 DEF UsageFails
  <2>3. QED
    BY <1>1, <2>1, <2>2, AccountGoes DEF Busy, Pending
<1>7. QED
  BY <1>3, <1>4, <1>5, <1>6

\* The token file has the credits that Kiro told, which are still those it has.
LEMMA PersistReckons ==
  ASSUME Running, Reckoned, NEW i \in Ids, Persist(i), NEW a \in Accounts \ unsure'
  PROVE  AccountOK(a)'
<1>1. AccountOK(a) /\ UNCHANGED <<credits, used>>
  <2>1. unsure \subseteq unsure' /\ UNCHANGED <<credits, used>>
    BY DEF Persist
  <2>2. QED
    BY <2>1 DEF Reckoned
<1>2. Goes(i, "persisting", "spent") /\ req'[i].after = req[i].after
  BY PersistGoes
<1>3. /\ req[i].pc = "persisting" /\ req'[i].pc = "spent"
      /\ req'[i].account = req[i].account /\ req'[i].before = req[i].before
      /\ OthersKeep(i)
  BY <1>2 DEF Goes
<1>4. stored \in [Accounts -> Stored]
  BY DEF Running, ProxyTypeOK
<1>5. CASE req[i].account # a
  <2>1. stored'[a] = stored[a]
    BY <1>4, <1>5 DEF Persist
  <2>2. QED
    BY <1>1, <1>2, <1>5, <2>1, AccountGoes DEF Busy, Pending
<1>6. CASE req[i].account = a
  <2>1. stored' = [stored EXCEPT ![a] = req[i].after]
    BY <1>6 DEF Persist, WithCredits
  <2>2. Uses(i, a)
    BY <1>3, <1>6 DEF Uses, Busy
  <2>3. ReckonOK(i, a)
    BY <1>1, <2>2 DEF AccountOK
  <2>4. stored'[a] = credits'[a]
    BY <1>1, <1>3, <1>4, <2>1, <2>3 DEF ReckonOK
  <2>5. ListOK(i, a)' /\ ReckonOK(i, a)'
    BY <1>1, <1>2, <1>3, <2>3 DEF ListOK, ReckonOK, Pending
  <2>6. ASSUME NEW j \in Ids \ {i}
        PROVE  ListOK(j, a)' /\ ~Uses(j, a)'
    <3>1. Keeps(j)
      BY <1>3 DEF OthersKeep
    <3>2. ~Uses(j, a) /\ ListOK(j, a)
      BY <1>1, <2>2 DEF AccountOK
    <3>3. ~Uses(j, a)'
      BY <3>1, <3>2 DEF Keeps, Uses
    <3>4. ListOK(j, a)'
      BY <1>1, <3>1, <3>2 DEF Keeps, ListOK
    <3>5. QED
      BY <3>3, <3>4
  <2>7. credits[a] \in Int
    BY Numbers DEF Running, ProxyTypeOK
  <2>8. stored'[a] >= credits'[a]
    BY <1>1, <2>4, <2>7
  <2>9. \A j, k \in Ids : Uses(j, a)' /\ Uses(k, a)' => j = k
    BY <2>6
  <2>10. \A j \in Ids : ListOK(j, a)' /\ (Uses(j, a)' => ReckonOK(j, a)')
    BY <2>5, <2>6
  <2>11. QED
    BY <2>4, <2>8, <2>9, <2>10 DEF AccountOK
<1>7. QED
  BY <1>5, <1>6

LEMMA EndingReckons ==
  ASSUME Running, Reckoned, NEW i \in Ids,
         RereadFails(i) \/ updateRequestHistoryCreditsSpent(i),
         NEW a \in Accounts \ unsure'
  PROVE  AccountOK(a)'
<1>1. AccountOK(a) /\ UNCHANGED <<stored, credits, used>>
  <2>1. unsure \subseteq unsure' /\ UNCHANGED <<stored, credits, used>>
    BY DEF RereadFails, updateRequestHistoryCreditsSpent
  <2>2. QED
    BY <2>1 DEF Reckoned
<1>2. req[i].pc \in Busy /\ End(i)
  BY DEF RereadFails, updateRequestHistoryCreditsSpent, Busy
<1>3. req'[i].pc = "done" /\ OthersKeep(i)
  BY <1>2, EndEnds
<1>4. ~Behind(i, a)
  BY DEF RereadFails, updateRequestHistoryCreditsSpent, Behind, Pending
<1>5. QED
  BY <1>1, <1>3, <1>4, AccountEnds

LEMMA ResetCreditsReckons ==
  ASSUME Running, Reckoned, NEW b \in Accounts, ResetCredits(b), NEW a \in Accounts \ unsure'
  PROVE  AccountOK(a)'
<1>1. AccountOK(a) /\ a # b /\ UNCHANGED <<stored, req, used>>
  BY DEF Reckoned, ResetCredits
<1>2. credits'[a] = credits[a]
  BY <1>1 DEF ResetCredits, Running, ProxyTypeOK
<1>3. QED
  BY <1>1, <1>2 DEF AccountOK, Uses, Behind, ListOK, ReckonOK

LEMMA CrashReckons ==
  ASSUME Running, Reckoned, Crash, NEW a \in Accounts \ unsure'
  PROVE  AccountOK(a)'
<1>1. AccountOK(a) /\ UNCHANGED <<stored, credits, used>> /\ ~Live(a)
  BY DEF Reckoned, Crash
<1>2. \A i \in Ids : ~Behind(i, a)
  BY <1>1, LiveUses
<1>3. \A i \in Ids : req'[i].pc \in {"none", "done"}
  BY RequestTypes DEF Crash
<1>4. \A i \in Ids : ~Uses(i, a)' /\ ListOK(i, a)'
  BY <1>3 DEF Uses, Busy, ListOK
<1>5. QED
  BY <1>1, <1>2, <1>4 DEF AccountOK

\* Another writer of token files leaves the requests, which reckon as before.
LEMMA WriterReckons ==
  ASSUME Running, Reckoned, NEW b \in Accounts, WriterStep(b)
  PROVE  Reckoned'
<1>1. /\ UNCHANGED <<credits, req, used>>
      /\ (stored' = stored /\ unsure' = unsure) \/ \E c \in Stored : WriteToken(b, c)
  <2>1. copies[b] \subseteq Stored
    BY DEF Running, ProxyTypeOK
  <2>2. QED
    BY <2>1 DEF WriterStep, ReadToken, WriteBack, SaveAccount
<1>2. ASSUME NEW a \in Accounts \ unsure'
      PROVE  AccountOK(a)'
  <2>1. unsure \subseteq unsure'
    BY <1>1, WriteTokenTypes
  <2>2. AccountOK(a)
    BY <2>1 DEF Reckoned
  <2>3. HarmlessWrite(a)
    BY <1>1, WritesHarmless DEF HarmlessWrite
  <2>4. (stored'[a] # Unknown => stored'[a] >= credits'[a])
        /\ (stored'[a] # Unknown /\ (\A i \in Ids : ~Behind(i, a)) => stored'[a] = credits'[a])
    BY <1>1, <2>2, <2>3 DEF HarmlessWrite, AccountOK
  <2>5. QED
    BY <1>1, <2>2, <2>4 DEF AccountOK, Uses, Behind, ListOK, ReckonOK
<1>3. Seen'
  BY <1>1 DEF Reckoned, Seen
<1>4. QED
  BY <1>2, <1>3 DEF Reckoned

LEMMA UnchangedReckons ==
  ASSUME Reckoned, UNCHANGED <<stored, credits, req, used, unsure>>
  PROVE  Reckoned'
BY DEF Reckoned, Seen, AccountOK, Uses, Behind, ListOK, ReckonOK
\* Request i neither begins to choose nor to be served.
LEMMA SeenStays ==
  ASSUME Seen, NEW i \in Ids, OthersKeep(i),
         req'[i].pc = "choosing" =>
           req[i].pc = "choosing" /\ req[i].unsettled \subseteq req'[i].unsettled,
         req'[i].pc = "serving" =>
           req[i].pc = "serving" /\ req'[i].account = req[i].account
  PROVE  Seen'
<1>1. ASSUME NEW j \in Ids
      PROVE  /\ req'[j].pc = "choosing" =>
                  req[j].pc = "choosing" /\ req[j].unsettled \subseteq req'[j].unsettled
             /\ req'[j].pc = "serving" =>
                  req[j].pc = "serving" /\ req'[j].account = req[j].account
  <2>1. CASE j = i
    BY <2>1
  <2>2. CASE j # i
    BY <2>2 DEF OthersKeep, Keeps
  <2>3. QED
    BY <2>1, <2>2
<1>2. QED
  BY <1>1 DEF Seen

LEMMA ArriveSeen ==
  ASSUME Running, Seen, NEW i \in Ids, NEW key \in Accounts \cup {GroupKey}, Arrive(i, key)
  PROVE  Seen'
<1>1. /\ req[i].pc = "none" /\ req'[i].pc = "choosing"
      /\ req'[i].unsettled = {a \in Accounts : Live(a)}
      /\ OthersKeep(i)
  BY ArriveLeaves
<1>2. ASSUME NEW j \in Ids, NEW k \in Ids, req'[j].pc = "choosing", req'[k].pc = "serving"
      PROVE  req'[k].account \in req'[j].unsettled
  <2>1. k # i
    BY <1>1, <1>2
  <2>2. req[k].pc = "serving" /\ req'[k].account = req[k].account
    BY <1>1, <1>2, <2>1 DEF OthersKeep, Keeps
  <2>3. CASE j = i
    <3>1. req[k].account \in Accounts
      BY <2>2, Fields DEF Busy
    <3>2. Live(req[k].account)
      BY <2>2 DEF Live
    <3>3. QED
      BY <1>1, <2>2, <2>3, <3>1, <3>2
  <2>4. CASE j # i
    <3>1. req[j].pc = "choosing" /\ req[j].unsettled \subseteq req'[j].unsettled
      BY <1>1, <1>2, <2>4 DEF OthersKeep, Keeps
    <3>2. QED
      BY <2>2, <3>1 DEF Seen
  <2>5. QED
    BY <2>3, <2>4
<1>3. QED
  BY <1>2 DEF Seen

LEMMA TakeSeen ==
  ASSUME Running, Seen, NEW i \in Ids, NEW a \in Accounts, Take(i, a)
  PROVE  Seen'
<1>1. /\ req'[i].pc = "serving" /\ req'[i].account = a
      /\ OthersKeep(i)
      /\ \A j \in Ids \ {i} : req[j].pc = "choosing" => a \in req'[j].unsettled
  BY TakeLeaves
<1>2. ASSUME NEW j \in Ids, NEW k \in Ids, req'[j].pc = "choosing", req'[k].pc = "serving"
      PROVE  req'[k].account \in req'[j].unsettled
  <2>1. j # i
    BY <1>1, <1>2
  <2>2. req[j].pc = "choosing" /\ req[j].unsettled \subseteq req'[j].unsettled
    BY <1>1, <1>2, <2>1 DEF OthersKeep, Keeps
  <2>3. CASE k = i
    BY <1>1, <2>1, <2>2, <2>3
  <2>4. CASE k # i
    <3>1. req[k].pc = "serving" /\ req'[k].account = req[k].account
      BY <1>1, <1>2, <2>4 DEF OthersKeep, Keeps
    <3>2. QED
      BY <2>2, <3>1 DEF Seen
  <2>5. QED
    BY <2>3, <2>4
<1>3. QED
  BY <1>2 DEF Seen

LEMMA RequestSeen ==
  ASSUME Running, Seen, NEW i \in Ids, RequestStep(i)
  PROVE  Seen'
<1>1. ASSUME NEW a \in Accounts, PassOver(i, a) PROVE Seen'
  <2>1. Keeps(i) /\ OthersKeep(i)
    BY <1>1, PassOverLeaves DEF OthersKeep
  <2>2. QED
    BY <2>1, SeenStays DEF Keeps
<1>2. ASSUME NEW a \in Accounts, Refresh(i, a) PROVE Seen'
  BY <1>2, RefreshLeaves, SeenStays
<1>3. CASE Refuse(i)
  BY <1>3, RefuseEnds, SeenStays
<1>4. CASE Release(i)
  <2>1. OthersKeep(i) /\ (Keeps(i) \/ req'[i].pc = "done")
    BY <1>4, ReleaseKeeps
  <2>2. QED
    BY <2>1, SeenStays DEF Keeps
<1>5. CASE RereadFails(i) \/ updateRequestHistoryCreditsSpent(i)
  <2>1. req[i].pc \in Busy /\ End(i)
    BY <1>5 DEF RereadFails, updateRequestHistoryCreditsSpent, Busy
  <2>2. req'[i].pc = "done" /\ OthersKeep(i)
    BY <2>1, EndEnds
  <2>3. QED
    BY <2>2, SeenStays
<1>6. CASE \/ Serve(i) \/ addRequestHistory(i) \/ Reread(i) \/ UsageAnswers(i)
           \/ UsageFails(i) \/ Persist(i)
  <2>1. OthersKeep(i) /\ req'[i].pc \in Pending \cup {"spent"}
    BY <1>6, ServeGoes, addRequestHistoryGoes, RereadGoes, UsageAnswersGoes, UsageFailsGoes,
       PersistGoes DEF Goes, Pending
  <2>2. QED
    BY <2>1, SeenStays DEF Pending
<1>7. QED
  BY <1>1, <1>2, <1>3, <1>4, <1>5, <1>6, ArriveSeen, TakeSeen DEF RequestStep

LEMMA RequestReckons ==
  ASSUME Running, Reckoned, NEW i \in Ids, RequestStep(i)
  PROVE  Reckoned'
<1>1. Seen'
  BY RequestSeen DEF Reckoned
<1>2. ASSUME NEW a \in Accounts \ unsure'
      PROVE  AccountOK(a)'
  <2>1. CASE \/ \E key \in Accounts \cup {GroupKey} : Arrive(i, key)
             \/ \E b \in Accounts : Take(i, b) \/ PassOver(i, b) \/ Refresh(i, b)
             \/ Refuse(i)
    BY <2>1, ArriveReckons, TakeReckons, PassOverReckons, RefreshReckons, RefuseReckons
  <2>2. CASE \/ addRequestHistory(i) \/ Reread(i) \/ UsageAnswers(i) \/ UsageFails(i)
    BY <2>2, GoesReckons
  <2>3. CASE Serve(i) \/ Release(i) \/ Persist(i)
    BY <2>3, ServeReckons, ReleaseReckons, PersistReckons
  <2>4. CASE RereadFails(i) \/ updateRequestHistoryCreditsSpent(i)
    BY <2>4, EndingReckons
  <2>5. QED
    BY <2>1, <2>2, <2>3, <2>4 DEF RequestStep
<1>3. QED
  BY <1>1, <1>2 DEF Reckoned

LEMMA ReckonedInductive == Running /\ Reckoned /\ [ProxyNext]_proxyVars => Reckoned'
<1> SUFFICES ASSUME Running, Reckoned, [ProxyNext]_proxyVars PROVE Reckoned'
  OBVIOUS
<1>1. ASSUME NEW b \in Accounts, ResetCredits(b) PROVE Reckoned'
  <2>1. Seen'
    BY <1>1 DEF ResetCredits, Reckoned, Seen
  <2>2. \A a \in Accounts \ unsure' : AccountOK(a)'
    BY <1>1, ResetCreditsReckons
  <2>3. QED
    BY <2>1, <2>2 DEF Reckoned
<1>2. CASE Crash
  <2>1. Seen'
    <3>1. \A i \in Ids : req'[i].pc \in {"none", "done"}
      BY <1>2, RequestTypes DEF Crash
    <3>2. QED
      BY <3>1 DEF Seen
  <2>2. \A a \in Accounts \ unsure' : AccountOK(a)'
    BY <1>2, CrashReckons
  <2>3. QED
    BY <2>1, <2>2 DEF Reckoned
<1>3. CASE clearRequestHistory \/ UNCHANGED proxyVars
  BY <1>3, UnchangedReckons DEF clearRequestHistory, proxyVars
<1>4. QED
  BY <1>1, <1>2, <1>3, RequestReckons, WriterReckons DEF ProxyNext, OtherStep

LEMMA ReckonedInit == ProxyInit => Reckoned
<1> SUFFICES ASSUME ProxyInit PROVE Reckoned
  OBVIOUS
<1>1. /\ \A i \in Ids : req[i].pc = "none"
      /\ \A a \in Accounts : stored[a] \in {MaxCredits, Unknown} /\ credits[a] = MaxCredits
  BY RequestTypes DEF ProxyInit
<1>2. \A a \in Accounts : stored[a] # Unknown => stored[a] = credits[a] /\ credits[a] \in Int
  BY <1>1
<1>3. \A i \in Ids, a \in Accounts : ~Uses(i, a) /\ ListOK(i, a)
  BY <1>1 DEF Uses, Busy, ListOK
<1>4. \A a \in Accounts : AccountOK(a)
  BY <1>2, <1>3 DEF AccountOK
<1>5. Seen
  BY <1>1 DEF Seen
<1>6. QED
  BY <1>4, <1>5 DEF Reckoned

LEMMA AlwaysReckoned == ProxySpec => []Reckoned
BY ReckonedInit, ReckonedInductive, AlwaysRunning, PTL DEF ProxySpec

-----------------------------------------------------------------------------
(* The account that is chosen. *)

LEMMA FirstIsRichest ==
  ASSUME Running, Reckoned, NEW i \in Ids, NEW a \in Accounts, Take(i, a), a \notin unsure',
         NEW b \in req[i].untried \ unsure, req[i].list[b] # Unknown
  PROVE  req[i].list[a] # Unknown /\ credits[b] <= credits[a]
<1>1. req[i].pc = "choosing" /\ a \notin unsure /\ a \notin req[i].unsettled /\ b \in Accounts
  BY Fields DEF Take, IsFirst
<1>2. ListOK(i, a) /\ ListOK(i, b)
  BY <1>1 DEF Reckoned, AccountOK
<1>3. /\ req[i].list[a] \in Stored /\ req[i].list[b] \in Credits
      /\ credits[a] \in Int /\ credits[b] \in Int
  BY <1>1, Fields, Amounts DEF Running, ProxyTypeOK
<1>4. req[i].list[a] >= req[i].list[b]
  <2>1. CASE a = b
    BY <1>3, <2>1, Amounts
  <2>2. CASE a # b
    <3>1. Ahead(req[i].list, a, b)
      BY <2>2 DEF Take, IsFirst
    <3>2. QED
      BY <1>3, <3>1, Amounts DEF Ahead
  <2>3. QED
    BY <2>1, <2>2
<1>5. req[i].list[a] # Unknown
  BY <1>3, <1>4, Amounts DEF Unknown
<1>6. req[i].list[a] = credits[a] /\ req[i].list[b] >= credits[b]
  BY <1>1, <1>2, <1>5 DEF ListOK
<1>7. QED
  BY <1>3, <1>4, <1>5, <1>6, Amounts

\* A request with the group key goes to the account that really has the most credits
\* left, of those whose credits can be known: however other requests, updates, writers
\* of token files and failures interleave, the lists by which requests choose fall
\* behind only for accounts that are known to be used, or into whose token file
\* somebody wrote credits that were neither those stored nor those at Kiro.
THEOREM RichestIsChosen == ProxySpec => RichestServes
<1>1. Running /\ Reckoned /\ [ProxyNext]_proxyVars =>
        [\A i \in Ids, a \in Accounts :
           Take(i, a) /\ req[i].key = GroupKey /\ a \notin unsure' =>
             \A b \in req[i].untried \ unsure :
               req[i].list[b] # Unknown =>
                 /\ req[i].list[a] # Unknown
                 /\ credits[b] <= credits[a]]_proxyVars
  BY FirstIsRichest
<1>2. QED
  BY <1>1, AlwaysRunning, AlwaysReckoned, PTL DEF ProxySpec, RichestServes
-----------------------------------------------------------------------------
(* The entries of the history. *)

\* Steps of a request before it is in the history.
Early == {"none", "choosing", "serving", "served"}

\* Entry e is of a request that has passed these, and tells what it cost.
EntryOK(e) ==
  /\ req[e.id].pc \notin Early
  /\ req[e.id].pc \in Busy => e.account = req[e.id].account
  /\ e.spent # NotSpent /\ e.account \notin unsure => e.spent = used[e.id]

Told == /\ \A k \in DOMAIN entries : EntryOK(entries[k])
        /\ history # Torn => \A k \in DOMAIN history : EntryOK(history[k])

\* Requests that have passed the early steps go on, at the cost they had.
Advance ==
  /\ unsure \subseteq unsure'
  /\ \A i \in Ids : req[i].pc \notin Early =>
       /\ req'[i].pc \notin Early
       /\ req'[i].pc \in Busy => req[i].pc \in Busy /\ req'[i].account = req[i].account
       /\ used'[i] = used[i]

\* Entry e will tell it after the step.
EntryNext(e) ==
  /\ req'[e.id].pc \notin Early
  /\ req'[e.id].pc \in Busy => e.account = req'[e.id].account
  /\ e.spent # NotSpent /\ e.account \notin unsure' => e.spent = used'[e.id]

AllTell(s) == \A k \in DOMAIN s : EntryNext(s[k])

LEMMA EntryStays ==
  ASSUME Advance, NEW e \in Entry, EntryOK(e)
  PROVE  EntryNext(e)
<1>1. e.id \in Ids
  BY DEF Entry
<1>2. QED
  BY <1>1 DEF Advance, EntryOK, EntryNext

\* Only request i moves, and it moves on, or was early.
LEMMA OneAdvances ==
  ASSUME Running, NEW i \in Ids, OthersKeep(i), unsure \subseteq unsure',
         \A j \in Ids \ {i} : used'[j] = used[j],
         \/ req[i].pc \in Early
         \/ /\ req'[i].pc \notin Early /\ used' = used
            /\ req'[i].pc \in Busy => req[i].pc \in Busy /\ req'[i].account = req[i].account
  PROVE  Advance
<1>1. ASSUME NEW j \in Ids, req[j].pc \notin Early
      PROVE  /\ req'[j].pc \notin Early
             /\ req'[j].pc \in Busy => req[j].pc \in Busy /\ req'[j].account = req[j].account
             /\ used'[j] = used[j]
  <2>1. CASE j = i
    BY <1>1, <2>1
  <2>2. CASE j # i
    BY <1>1, <2>2 DEF OthersKeep, Keeps
  <2>3. QED
    BY <2>1, <2>2
<1>2. QED
  BY <1>1 DEF Advance

LEMMA RequestAdvances ==
  ASSUME Running, NEW i \in Ids, RequestStep(i)
  PROVE  Advance
<1>1. ASSUME NEW key \in Accounts \cup {GroupKey}, Arrive(i, key) PROVE Advance
  <2>1. unsure' = unsure /\ used' = used
    BY <1>1 DEF Arrive
  <2>2. req[i].pc = "none" /\ OthersKeep(i)
    BY <1>1, ArriveLeaves
  <2>3. QED
    BY <2>1, <2>2, OneAdvances DEF Early
<1>2. ASSUME NEW a \in Accounts, Take(i, a) PROVE Advance
  <2>1. unsure \subseteq unsure' /\ used' = used
    BY <1>2 DEF Take
  <2>2. req[i].pc = "choosing" /\ OthersKeep(i)
    BY <1>2, TakeLeaves
  <2>3. QED
    BY <2>1, <2>2, OneAdvances DEF Early
<1>3. ASSUME NEW a \in Accounts, PassOver(i, a) PROVE Advance
  <2>1. unsure \subseteq unsure' /\ used' = used /\ req[i].pc = "choosing"
    <3>1. req[i].list[a] \in Stored
      BY Fields
    <3>2. QED
      BY <1>3, <3>1, WriteTokenTypes DEF PassOver, IsFirst
  <2>2. OthersKeep(i)
    BY <1>3, PassOverLeaves DEF OthersKeep
  <2>3. QED
    BY <2>1, <2>2, OneAdvances DEF Early
<1>4. ASSUME NEW a \in Accounts, Refresh(i, a) PROVE Advance
  <2>1. unsure \subseteq unsure' /\ used' = used
    BY <1>4 DEF Refresh
  <2>2. req[i].pc = "none" /\ OthersKeep(i)
    BY <1>4, RefreshLeaves
  <2>3. QED
    BY <2>1, <2>2, OneAdvances DEF Early
<1>5. CASE Refuse(i)
  <2>1. unsure' = unsure /\ used' = used
    BY <1>5 DEF Refuse
  <2>2. req[i].pc = "choosing" /\ OthersKeep(i)
    BY <1>5, RefuseEnds
  <2>3. QED
    BY <2>1, <2>2, OneAdvances DEF Early
<1>6. CASE Release(i)
  <2>1. unsure' = unsure /\ used' = used
    BY <1>6 DEF Release
  <2>2. OthersKeep(i) /\ (Keeps(i) \/ (req[i].pc = "done" /\ req'[i].pc = "done"))
    BY <1>6, ReleaseKeeps
  <2>3. QED
    BY <2>1, <2>2, OneAdvances DEF Keeps, Early, Busy
<1>7. CASE Serve(i)
  <2>1. unsure' = unsure
    BY <1>7 DEF Serve
  <2>2. \A j \in Ids \ {i} : used'[j] = used[j]
    BY <1>7 DEF Serve, Running, ProxyTypeOK
  <2>3. req[i].pc = "serving" /\ OthersKeep(i)
    BY <1>7, ServeGoes DEF Goes
  <2>4. QED
    BY <2>1, <2>2, <2>3, OneAdvances DEF Early
<1>8. CASE \/ addRequestHistory(i) \/ Reread(i) \/ UsageAnswers(i) \/ UsageFails(i)
           \/ Persist(i)
  <2>1. unsure \subseteq unsure' /\ used' = used
    BY <1>8 DEF addRequestHistory, Reread, UsageAnswers, UsageFails, Persist
  <2>2. /\ OthersKeep(i) /\ req'[i].account = req[i].account
        /\ req[i].pc \in Busy /\ req'[i].pc \in {"selecting", "asking", "persisting", "spent"}
    BY <1>8, addRequestHistoryGoes, RereadGoes, UsageAnswersGoes, UsageFailsGoes,
       PersistGoes DEF Goes, Busy
  <2>3. QED
    BY <2>1, <2>2, OneAdvances DEF Early
<1>9. CASE RereadFails(i) \/ updateRequestHistoryCreditsSpent(i)
  <2>1. unsure \subseteq unsure' /\ used' = used /\ req[i].pc \in Busy /\ End(i)
    BY <1>9 DEF RereadFails, updateRequestHistoryCreditsSpent, Busy
  <2>2. req'[i].pc = "done" /\ OthersKeep(i)
    BY <2>1, EndEnds
  <2>3. QED
    BY <2>1, <2>2, OneAdvances DEF Early, Busy
<1>10. QED
  BY <1>1, <1>2, <1>3, <1>4, <1>5, <1>6, <1>7, <1>8, <1>9 DEF RequestStep

LEMMA Histories ==
  ASSUME Running
  PROVE  /\ entries \in Seq(Entry) /\ \A k \in DOMAIN entries : entries[k] \in Entry
         /\ history # Torn =>
              history \in Seq(Entry) /\ \A k \in DOMAIN history : history[k] \in Entry
<1>1. entries \in Seq(Entry) /\ (history = Torn \/ history \in Seq(Entry))
  BY DEF Running, ProxyTypeOK
<1>2. ASSUME NEW s \in Seq(Entry) PROVE \A k \in DOMAIN s : s[k] \in Entry
  OBVIOUS
<1>3. QED
  BY <1>1, <1>2

\* What was written is still told right.
LEMMA ToldBefore ==
  ASSUME Running, Told, Advance
  PROVE  AllTell(entries) /\ (history # Torn => AllTell(history))
<1>1. \A k \in DOMAIN entries : entries[k] \in Entry /\ EntryOK(entries[k])
  BY Histories DEF Told
<1>2. history # Torn => \A k \in DOMAIN history : history[k] \in Entry /\ EntryOK(history[k])
  BY Histories DEF Told
<1>3. \A e \in Entry : EntryOK(e) => EntryNext(e)
  BY EntryStays
<1>4. QED
  BY <1>1, <1>2, <1>3 DEF AllTell

LEMMA ToldAfter ==
  ASSUME AllTell(entries'), history' # Torn => AllTell(history')
  PROVE  Told'
BY DEF AllTell, Told, EntryOK, EntryNext

LEMMA SaveTells ==
  ASSUME Running, Told, Advance, NEW new, Save(new), AllTell(new)
  PROVE  Told'
<1>1. entries' = new /\ history' \in {new, history, Torn}
  BY DEF Save
<1>2. QED
  BY <1>1, ToldBefore, ToldAfter

LEMMA SameTells ==
  ASSUME Running, Told, Advance, UNCHANGED <<entries, history>>
  PROVE  Told'
BY ToldBefore, ToldAfter

LEMMA WithEntryHolds ==
  ASSUME Running, NEW e \in Entry
  PROVE  /\ Len(WithEntry(e)) = IF Len(entries) < MaxHistory THEN Len(entries) + 1
                                ELSE MaxHistory
         /\ DOMAIN WithEntry(e) = 1..Len(WithEntry(e))
         /\ WithEntry(e)[1] = e
         /\ \A k \in DOMAIN WithEntry(e) :
              k # 1 => k - 1 \in DOMAIN entries /\ WithEntry(e)[k] = entries[k - 1]
<1>1. PICK all : all = <<e>> \o entries
  OBVIOUS
<1>2. entries \in Seq(Entry) /\ Len(entries) \in Nat /\ Len(entries) <= MaxHistory
  BY DEF Running, ProxyTypeOK
<1>3. <<e>> \in Seq(Entry) /\ Len(<<e>>) = 1
  OBVIOUS
<1>4. /\ all \in Seq(Entry) /\ Len(all) = Len(entries) + 1
      /\ all[1] = e
      /\ \A k \in 2..Len(all) : all[k] = entries[k - 1]
  BY <1>1, <1>2, <1>3
<1>5. CASE Len(all) > MaxHistory
  <2>1. PICK s : s = SubSeq(all, 1, MaxHistory)
    OBVIOUS
  <2>2. s \in Seq(Entry) /\ Len(s) = MaxHistory /\ \A k \in 1..MaxHistory : s[k] = all[k]
    BY <1>4, <1>5, <2>1
  <2>3. WithEntry(e) = s
    BY <1>1, <1>5, <2>1 DEF WithEntry
  <2>4. ~(Len(entries) < MaxHistory)
    BY <1>2, <1>4, <1>5
  <2>5. \A k \in 1..MaxHistory : k # 1 => k - 1 \in 1..Len(entries) /\ k \in 2..Len(all)
    BY <1>2, <1>4, <1>5
  <2>6. QED
    BY <1>2, <1>4, <2>2, <2>3, <2>4, <2>5
<1>6. CASE ~(Len(all) > MaxHistory)
  <2>1. WithEntry(e) = all
    BY <1>1, <1>6 DEF WithEntry
  <2>2. Len(entries) < MaxHistory
    BY <1>2, <1>4, <1>6
  <2>3. \A k \in 1..Len(all) : k # 1 => k - 1 \in 1..Len(entries) /\ k \in 2..Len(all)
    BY <1>2, <1>4
  <2>4. QED
    BY <1>2, <1>4, <2>1, <2>2, <2>3
<1>7. QED
  BY <1>5, <1>6

LEMMA addRequestHistoryTells ==
  ASSUME Running, Told, NEW i \in Ids, addRequestHistory(i)
  PROVE  Told'
<1>1. Advance
  BY RequestAdvances DEF RequestStep
<1>2. /\ req[i].pc = "served" /\ req'[i].pc = "selecting"
      /\ req'[i].account = req[i].account
  BY addRequestHistoryGoes DEF Goes
<1>3. req[i].account \in Accounts
  BY <1>2, Fields DEF Busy
<1>4. PICK e : e = [id |-> i, account |-> req[i].account, spent |-> NotSpent]
  OBVIOUS
<1>5. e \in Entry /\ e.id = i /\ e.account = req[i].account /\ e.spent = NotSpent
  BY <1>3, <1>4 DEF Entry
<1>6. EntryNext(e)
  BY <1>2, <1>5 DEF EntryNext, Early
<1>7. PICK new : new = WithEntry(e)
  OBVIOUS
<1>8. \A k \in DOMAIN new : new[k] = e \/ \E m \in DOMAIN entries : new[k] = entries[m]
  BY <1>5, <1>7, WithEntryHolds
<1>9. AllTell(entries)
  BY <1>1, ToldBefore
<1>10. AllTell(new)
  BY <1>6, <1>8, <1>9 DEF AllTell
<1>11. Save(new)
  BY <1>4, <1>7 DEF addRequestHistory
<1>12. QED
  BY <1>1, <1>10, <1>11, SaveTells

\* The amount that comes late.
LEMMA SpentIsUsed ==
  ASSUME Running, Reckoned, NEW i \in Ids, req[i].pc = "spent", req[i].account \notin unsure,
         Spent(i) >= 0
  PROVE  Spent(i) = used[i]
<1>1. req[i].account \in Accounts
  BY Fields DEF Busy
<1>2. AccountOK(req[i].account)
  BY <1>1 DEF Reckoned
<1>3. ReckonOK(i, req[i].account)
  BY <1>2 DEF AccountOK, Uses, Busy
<1>4. /\ req[i].before \in {Unknown, credits[req[i].account] + used[i]}
      /\ req[i].after = credits[req[i].account]
  BY <1>3 DEF ReckonOK
<1>5. credits[req[i].account] \in Int /\ used[i] \in Int
  BY <1>1, Amounts DEF Running, ProxyTypeOK
<1>6. req[i].before # Unknown /\ Spent(i) = req[i].before - req[i].after
  BY DEF Spent, NotSpent
<1>7. QED
  BY <1>4, <1>5, <1>6

LEMMA updateRequestHistoryCreditsSpentTells ==
  ASSUME Running, Reckoned, Told, NEW i \in Ids, updateRequestHistoryCreditsSpent(i)
  PROVE  Told'
<1>1. Advance
  BY RequestAdvances DEF RequestStep
<1>2. /\ req[i].pc = "spent" /\ End(i) /\ used' = used /\ unsure' = unsure
  BY DEF updateRequestHistoryCreditsSpent
<1>3. req'[i].pc = "done"
  BY <1>2, EndEnds DEF Busy
<1>4. CASE Spent(i) >= 0 /\ \E k \in DOMAIN entries : entries[k].id = i
  <2>1. PICK new : new = [k \in DOMAIN entries |->
                            IF entries[k].id = i THEN [entries[k] EXCEPT !.spent = Spent(i)]
                            ELSE entries[k]]
    OBVIOUS
  <2>2. ASSUME NEW k \in DOMAIN entries
        PROVE  EntryNext(new[k])
    <3>1. entries[k] \in Entry /\ EntryOK(entries[k]) /\ EntryNext(entries[k])
      BY <1>1, Histories, ToldBefore DEF Told, AllTell
    <3>2. CASE entries[k].id # i
      BY <2>1, <3>1, <3>2
    <3>3. CASE entries[k].id = i
      <4>1. new[k] = [entries[k] EXCEPT !.spent = Spent(i)]
        BY <2>1, <3>3
      <4>2. /\ new[k].id = i /\ new[k].account = entries[k].account
            /\ new[k].spent = Spent(i)
        BY <3>1, <3>3, <4>1 DEF Entry
      <4>3. entries[k].account = req[i].account
        BY <1>2, <3>1, <3>3 DEF EntryOK, Busy
      <4>4. new[k].account \notin unsure => new[k].spent = used[i]
        BY <1>2, <1>4, <4>2, <4>3, SpentIsUsed
      <4>5. QED
        BY <1>2, <1>3, <4>2, <4>4 DEF EntryNext, Early, Busy
    <3>4. QED
      BY <3>2, <3>3
  <2>3. AllTell(new)
    BY <2>1, <2>2 DEF AllTell
  <2>4. Save(new)
    BY <1>4, <2>1 DEF updateRequestHistoryCreditsSpent, SaveSpent
  <2>5. QED
    BY <1>1, <2>3, <2>4, SaveTells
<1>5. CASE ~(Spent(i) >= 0 /\ \E k \in DOMAIN entries : entries[k].id = i)
  <2>1. UNCHANGED <<entries, history>>
    BY <1>5 DEF updateRequestHistoryCreditsSpent
  <2>2. QED
    BY <1>1, <2>1, SameTells
<1>6. QED
  BY <1>4, <1>5

LEMMA CrashTells ==
  ASSUME Running, Told, Crash
  PROVE  Told'
<1>1. unsure \subseteq unsure' /\ used' = used
  BY DEF Crash
<1>2. \A i \in Ids : req[i].pc # "none" => req'[i].pc = "done"
  BY RequestTypes DEF Crash
<1>3. Advance
  BY <1>1, <1>2 DEF Advance, Early, Busy
<1>4. history' \in {history, Torn} /\ entries' \in {history', <<>>}
  BY DEF Crash, loadRequestHistory
<1>5. history' = Torn => entries' = <<>>
  BY DEF Crash, loadRequestHistory
<1>6. AllTell(<<>>)
  BY DEF AllTell
<1>7. QED
  BY <1>3, <1>4, <1>5, <1>6, ToldBefore, ToldAfter

LEMMA ToldInductive == Running /\ Reckoned /\ Told /\ [ProxyNext]_proxyVars => Told'
<1> SUFFICES ASSUME Running, Reckoned, Told, [ProxyNext]_proxyVars PROVE Told'
  OBVIOUS
<1>1. ASSUME NEW i \in Ids, RequestStep(i) PROVE Told'
  <2>1. CASE addRequestHistory(i)
    BY <2>1, addRequestHistoryTells
  <2>2. CASE updateRequestHistoryCreditsSpent(i)
    BY <2>2, updateRequestHistoryCreditsSpentTells
  <2>3. CASE ~addRequestHistory(i) /\ ~updateRequestHistoryCreditsSpent(i)
    <3>1. UNCHANGED <<entries, history>>
      BY <1>1, <2>3
         DEF RequestStep, Arrive, Refresh, Take, PassOver, Refuse, Serve, Release, Reread,
             RereadFails, UsageAnswers, UsageFails, Persist
    <3>2. QED
      BY <1>1, <3>1, RequestAdvances, SameTells
  <2>4. QED
    BY <2>1, <2>2, <2>3
<1>2. ASSUME NEW a \in Accounts, ResetCredits(a) PROVE Told'
  <2>1. Advance /\ UNCHANGED <<entries, history>>
    BY <1>2 DEF ResetCredits, Advance
  <2>2. QED
    BY <2>1, SameTells
<1>3. CASE clearRequestHistory
  <2>1. Advance /\ Save(<<>>) /\ AllTell(<<>>)
    BY <1>3 DEF clearRequestHistory, Advance, AllTell
  <2>2. QED
    BY <2>1, SaveTells
<1>4. CASE Crash
  BY <1>4, CrashTells
<1>5. ASSUME NEW a \in Accounts, WriterStep(a) PROVE Told'
  <2>1. UNCHANGED <<req, used, entries, history>>
    BY <1>5 DEF WriterStep, ReadToken, WriteBack, SaveAccount
  <2>2. unsure \subseteq unsure'
    BY <1>5, WriteTokenTypes
       DEF WriterStep, ReadToken, WriteBack, SaveAccount, Running, ProxyTypeOK
  <2>3. Advance
    BY <2>1, <2>2 DEF Advance
  <2>4. QED
    BY <2>1, <2>3, SameTells
<1>6. CASE UNCHANGED proxyVars
  <2>1. Advance /\ UNCHANGED <<entries, history>>
    BY <1>6 DEF proxyVars, Advance
  <2>2. QED
    BY <2>1, SameTells
<1>7. QED
  BY <1>1, <1>2, <1>3, <1>4, <1>5, <1>6 DEF ProxyNext, OtherStep

LEMMA AlwaysTold == ProxySpec => []Told
<1>1. ProxyInit => Told
  BY DEF ProxyInit, Told
<1>2. QED
  BY <1>1, ToldInductive, AlwaysReckoned, AlwaysRunning, PTL DEF ProxySpec

\* What the history says a request cost is what Kiro charged for it, unless the
\* requests of its account overlapped, its credits were reset, an answer was lost or
\* somebody wrote older credits back into its token file, however late the amount
\* comes, whoever else reads and writes the file, and whatever was cleared or lost
\* meanwhile.
THEOREM SpentIsWhatItCost == ProxySpec => []SpentIsExact
<1>1. Told => SpentIsExact
  BY DEF Told, EntryOK, SpentIsExact
<1>2. QED
  BY <1>1, AlwaysTold, PTL

-----------------------------------------------------------------------------
(* The newest entries. *)

LEMMA NewestFirst ==
  ASSUME Running, NEW i \in Ids, addRequestHistory(i)
  PROVE  \E new : /\ entries' = new /\ new # <<>> /\ new[1].id = i
                  /\ DOMAIN new = 1..Len(new)
                  /\ Len(new) = IF Len(entries) < MaxHistory THEN Len(entries) + 1
                                ELSE MaxHistory
                  /\ \A k \in DOMAIN new : k # 1 => new[k] = entries[k - 1]
<1>1. req[i].account \in Accounts
  BY Fields DEF addRequestHistory, Busy
<1>2. PICK e : e = [id |-> i, account |-> req[i].account, spent |-> NotSpent]
  OBVIOUS
<1>3. e \in Entry /\ e.id = i
  BY <1>1, <1>2 DEF Entry
<1>4. PICK new : new = WithEntry(e)
  OBVIOUS
<1>5. entries' = new
  BY <1>2, <1>4 DEF addRequestHistory, Save
<1>6. /\ Len(new) = IF Len(entries) < MaxHistory THEN Len(entries) + 1 ELSE MaxHistory
      /\ DOMAIN new = 1..Len(new)
      /\ new[1] = e
      /\ \A k \in DOMAIN new : k # 1 => new[k] = entries[k - 1]
  BY <1>3, <1>4, WithEntryHolds
<1>7. Len(entries) \in Nat
  BY DEF Running, ProxyTypeOK
<1>8. new # <<>>
  BY <1>6, <1>7
<1>9. QED
  BY <1>3, <1>5, <1>6, <1>8

Newest ==
  \A i \in Ids : req[i].pc = "served" /\ req'[i].pc = "selecting" =>
    entries' # <<>> /\ entries'[1].id = i

LEMMA NewestStep == Running /\ [ProxyNext]_proxyVars => Newest
<1> SUFFICES ASSUME Running, [ProxyNext]_proxyVars, NEW i \in Ids,
                    req[i].pc = "served", req'[i].pc = "selecting"
             PROVE  entries' # <<>> /\ entries'[1].id = i
  BY DEF Newest
<1>1. addRequestHistory(i)
  <2>1. ASSUME NEW j \in Ids, RequestStep(j) PROVE addRequestHistory(i)
    <3>1. CASE j # i
      <4>1. OthersKeep(j)
        BY <2>1, ArriveLeaves, TakeLeaves, PassOverLeaves, RefreshLeaves, RefuseEnds,
           ServeGoes, addRequestHistoryGoes, ReleaseKeeps, RereadGoes, UsageAnswersGoes,
           UsageFailsGoes, PersistGoes, EndEnds
           DEF RequestStep, Goes, OthersKeep, RereadFails,
               updateRequestHistoryCreditsSpent, Busy
      <4>2. QED
        BY <3>1, <4>1 DEF OthersKeep, Keeps
    <3>2. CASE j = i
      <4>1. ~Serve(i) /\ ~Release(i) /\ ~Refuse(i)
        BY DEF Serve, Release, Refuse
      <4>2. ~Reread(i) /\ ~RereadFails(i) /\ ~UsageAnswers(i) /\ ~UsageFails(i)
        BY DEF Reread, RereadFails, UsageAnswers, UsageFails
      <4>3. ~Persist(i) /\ ~updateRequestHistoryCreditsSpent(i)
        BY DEF Persist, updateRequestHistoryCreditsSpent
      <4>4. \A a \in Accounts : ~Take(i, a) /\ ~PassOver(i, a) /\ ~Refresh(i, a)
        BY RefreshLeaves DEF Take, PassOver, IsFirst
      <4>5. \A key \in Accounts \cup {GroupKey} : ~Arrive(i, key)
        BY ArriveLeaves
      <4>6. QED
        BY <2>1, <3>2, <4>1, <4>2, <4>3, <4>4, <4>5 DEF RequestStep
    <3>3. QED
      BY <3>1, <3>2
  <2>2. ~Crash
    BY RequestTypes DEF Crash
  <2>3. req' # req
    OBVIOUS
  <2>4. QED
    BY <2>1, <2>2, <2>3
       DEF ProxyNext, WriterStep, ReadToken, WriteBack, SaveAccount, OtherStep, ResetCredits,
           clearRequestHistory, proxyVars
<1>2. QED
  BY <1>1, NewestFirst

Dropped(k) ==
  (~\E j \in DOMAIN entries' : entries'[j].id = entries[k].id) /\ entries' # <<>>

DropsOldest ==
  (Crash => history = entries) =>
    \A k \in DOMAIN entries : Dropped(k) =>
      /\ Len(entries') = MaxHistory
      /\ k = Len(entries)
      /\ ~\E j \in DOMAIN entries : entries[j].id = entries'[1].id

LEMMA KeptEntries ==
  ASSUME \/ entries' = <<>>
         \/ /\ DOMAIN entries' = DOMAIN entries
            /\ \A k \in DOMAIN entries : entries'[k].id = entries[k].id
  PROVE  \A k \in DOMAIN entries : ~Dropped(k)
BY DEF Dropped

LEMMA AddingDropsOldest ==
  ASSUME Running, Told, NEW i \in Ids, addRequestHistory(i), NEW k \in DOMAIN entries,
         Dropped(k)
  PROVE  /\ Len(entries') = MaxHistory
         /\ k = Len(entries)
         /\ ~\E j \in DOMAIN entries : entries[j].id = entries'[1].id
<1>1. PICK new : /\ entries' = new /\ new[1].id = i
                 /\ DOMAIN new = 1..Len(new)
                 /\ Len(new) = IF Len(entries) < MaxHistory THEN Len(entries) + 1
                               ELSE MaxHistory
                 /\ \A m \in DOMAIN new : m # 1 => new[m] = entries[m - 1]
  BY NewestFirst
<1>2. /\ entries \in Seq(Entry) /\ Len(entries) \in Nat /\ Len(entries) <= MaxHistory
      /\ DOMAIN entries = 1..Len(entries)
  BY DEF Running, ProxyTypeOK
<1>3. k \in Int /\ 1 <= k /\ k <= Len(entries)
  BY <1>2
<1>4. k + 1 \notin DOMAIN new
  <2>1. SUFFICES ASSUME k + 1 \in DOMAIN new PROVE FALSE
    OBVIOUS
  <2>2. new[k + 1] = entries[k]
    BY <1>1, <1>3, <2>1
  <2>3. QED
    BY <1>1, <2>1, <2>2 DEF Dropped
<1>5. Len(new) = MaxHistory /\ k = Len(entries)
  BY <1>1, <1>2, <1>3, <1>4
<1>6. \A j \in DOMAIN entries : entries[j].id # i
  BY DEF Told, EntryOK, Early, addRequestHistory
<1>7. QED
  BY <1>1, <1>5, <1>6

LEMMA DropsStep == Running /\ Told /\ [ProxyNext]_proxyVars => DropsOldest
<1> SUFFICES ASSUME Running, Told, [ProxyNext]_proxyVars, Crash => history = entries,
                    NEW k \in DOMAIN entries, Dropped(k)
             PROVE  /\ Len(entries') = MaxHistory
                    /\ k = Len(entries)
                    /\ ~\E j \in DOMAIN entries : entries[j].id = entries'[1].id
  BY DEF DropsOldest
<1>1. ASSUME NEW i \in Ids, addRequestHistory(i)
      PROVE  /\ Len(entries') = MaxHistory
             /\ k = Len(entries)
             /\ ~\E j \in DOMAIN entries : entries[j].id = entries'[1].id
  BY <1>1, AddingDropsOldest
<1>2. ASSUME NEW i \in Ids, updateRequestHistoryCreditsSpent(i)
      PROVE  FALSE
  <2>1. CASE entries' = entries
    BY <2>1, KeptEntries
  <2>2. CASE entries' = [m \in DOMAIN entries |->
                           IF entries[m].id = i THEN [entries[m] EXCEPT !.spent = Spent(i)]
                           ELSE entries[m]]
    <3>1. DOMAIN entries' = DOMAIN entries
      BY <2>2
    <3>2. ASSUME NEW m \in DOMAIN entries PROVE entries'[m].id = entries[m].id
      <4>1. entries[m] \in Entry
        BY Histories
      <4>2. [entries[m] EXCEPT !.spent = Spent(i)].id = entries[m].id
        BY <4>1 DEF Entry
      <4>3. QED
        BY <2>2, <4>2
    <3>3. QED
      BY <3>1, <3>2, KeptEntries
  <2>3. QED
    BY <1>2, <2>1, <2>2 DEF updateRequestHistoryCreditsSpent, SaveSpent, Save
<1>3. CASE Crash
  <2>1. entries' = <<>> \/ entries' = entries
    BY <1>3 DEF Crash, loadRequestHistory
  <2>2. QED
    BY <2>1, KeptEntries
<1>4. CASE clearRequestHistory
  BY <1>4, KeptEntries DEF clearRequestHistory, Save
<1>5. CASE entries' = entries
  BY <1>5, KeptEntries
<1>6. ASSUME NEW i \in Ids, RequestStep(i),
             ~addRequestHistory(i), ~updateRequestHistoryCreditsSpent(i)
      PROVE  entries' = entries
  BY <1>6 DEF RequestStep, Arrive, Refresh, Take, PassOver, Refuse, Serve, Release, Reread,
              RereadFails, UsageAnswers, UsageFails, Persist
<1>7. QED
  BY <1>1, <1>2, <1>3, <1>4, <1>5, <1>6
     DEF ProxyNext, WriterStep, ReadToken, WriteBack, SaveAccount, OtherStep, ResetCredits,
         proxyVars

\* The history shows the newest requests, the last one first: only a full history
\* drops an entry, its oldest, for a request that was not in it; late amounts, writes
\* that fail and, if none did, crashes lose nothing.
THEOREM HistoryKeepsNewest == ProxySpec => HistoryIsNewest
<1>1. Running /\ Told /\ [ProxyNext]_proxyVars =>
        [/\ \A i \in Ids :
               req[i].pc = "served" /\ req'[i].pc = "selecting" =>
                 entries' # <<>> /\ entries'[1].id = i
         /\ (Crash => history = entries) =>
               \A k \in DOMAIN entries :
                 (~\E j \in DOMAIN entries' : entries'[j].id = entries[k].id)
                   /\ entries' # <<>> =>
                   /\ Len(entries') = MaxHistory
                   /\ k = Len(entries)
                   /\ ~\E j \in DOMAIN entries : entries[j].id = entries'[1].id]_proxyVars
  BY NewestStep, DropsStep DEF Newest, DropsOldest, Dropped
<1>2. QED
  BY <1>1, AlwaysRunning, AlwaysTold, PTL DEF ProxySpec, HistoryIsNewest
=============================================================================
