--------------------------- MODULE ProxyRequests ---------------------------
(***************************************************************************)
(* A request to the proxy of kiro-admin (main.go): an account is chosen by *)
(* the key of the request, Kiro serves it at the cost of credits, it goes  *)
(* into the history, its slot is given back, and a goroutine of its own    *)
(* then asks Kiro for the account's credits, stores them in the token file *)
(* and puts the difference into the history entry as what the request cost.*)
(*                                                                         *)
(* Requests overlap, and read what others are about to change.  Token      *)
(* files are written whole: whoever refreshes the token, toggles or checks *)
(* the account, or finds it blocked, writes back the credits that it read  *)
(* before its call, and the admin may enter others by hand.                *)
(*                                                                         *)
(* Of the token files only the credits are here, read at once and written  *)
(* in one step, and of the limiter only the concurrency: TokenFiles and    *)
(* AccountLimiter model them.  An account may be passed over at any time,  *)
(* because it is disabled or expired, does not offer the model, or has had *)
(* its requests of this second.                                            *)
(***************************************************************************)
EXTENDS Integers, Sequences, FiniteSets

CONSTANTS
  Accounts,      \* numbered in the order of their names
  Members,       \* the accounts of the group that the group key is for
  Concurrency,   \* of each account
  MaxCredits,    \* credits of an account when they are reset
  MaxRequests,   \* bound: requests, and updates of credits besides them
  MaxHistory,    \* maxRequestHistory
  Torn,          \* the history file was truncated and not written again
  MaxFaults      \* bound: crashes, lost answers, failed writes, credit resets

ASSUME ProxyAssumption ==
  /\ Accounts \subseteq Nat \ {0}
  /\ Members \subseteq Accounts
  /\ Concurrency \in [Accounts -> Nat \ {0}]
  /\ MaxCredits \in Nat
  /\ MaxRequests \in Nat
  /\ MaxHistory \in Nat \ {0}
  /\ MaxFaults \in Nat

VARIABLES
  stored,    \* CreditsRemaining in the token files
  copies,    \* the credits in the copies that handlers and the scheduler have read
  credits,   \* Kiro: the credits that accounts have left
  inFlight,  \* accountLimiterState.inFlight
  entries,   \* requestHistory.entries
  history,   \* the history file
  begun,     \* requests and updates so far
  req,       \* the requests and updates
  used,      \* history: what each request cost
  unsure,    \* history: accounts whose stored credits may not be what they have,
             \* after an overlap, a failure, a reset or a write of other credits
  faults

proxyVars == <<stored, copies, credits, inFlight, entries, history, begun, req, used,
               unsure, faults>>

-----------------------------------------------------------------------------
Ids == 1..MaxRequests

NoAccount == 0
GroupKey == 0   \* other keys are those of accounts
Unknown == -1   \* CreditsRemaining is nil
NotSpent == -1  \* CreditsSpent is nil

Credits == 0..MaxCredits

Stored == Credits \cup {Unknown}

Entry == [id : Ids, account : Accounts, spent : Credits \cup {NotSpent}]

\* list: the accounts as they were read.  untried: those not yet passed over.
\* before, after: the credits before the request and after it.  file: the token
\* file that the goroutine after the request has read.  holds: the slot was not
\* yet given back.  unsettled: accounts that others have used since list was read.
Request == [pc       : {"none", "choosing", "serving", "served", "selecting",
                        "asking", "persisting", "spent", "done"},
            key      : Accounts \cup {GroupKey},
            list     : [Accounts -> Stored],
            untried  : SUBSET Accounts,
            account  : Accounts \cup {NoAccount},
            before   : Stored,
            after    : Stored,
            file     : Stored,
            holds    : BOOLEAN,
            unsettled: SUBSET Accounts]

NoRequest == [pc |-> "none", key |-> GroupKey, list |-> [a \in Accounts |-> Unknown],
              untried |-> {}, account |-> NoAccount, before |-> Unknown,
              after |-> Unknown, file |-> Unknown, holds |-> FALSE, unsettled |-> {}]

Ended == [NoRequest EXCEPT !.pc = "done"]

ProxyTypeOK ==
  /\ stored \in [Accounts -> Stored]
  /\ copies \in [Accounts -> SUBSET Stored]
  /\ credits \in [Accounts -> Credits]
  /\ inFlight \in [Accounts -> Nat]
  /\ entries \in Seq(Entry)
  /\ history = Torn \/ history \in Seq(Entry)
  /\ Len(entries) <= MaxHistory
  /\ begun \in 0..MaxRequests
  /\ req \in [Ids -> Request]
  /\ used \in [Ids -> Credits]
  /\ unsure \subseteq Accounts
  /\ faults \in 0..MaxFaults

\* Accounts whose credits were checked, or never.
ProxyInit ==
  /\ credits = [a \in Accounts |-> MaxCredits]
  /\ stored \in [Accounts -> {MaxCredits, Unknown}]
  /\ copies = [a \in Accounts |-> {}]
  /\ inFlight = [a \in Accounts |-> 0]
  /\ entries = <<>>
  /\ history = <<>>
  /\ begun = 0
  /\ req = [i \in Ids |-> NoRequest]
  /\ used = [i \in Ids |-> 0]
  /\ unsure = {}
  /\ faults = 0

-----------------------------------------------------------------------------
(* Choosing the account.                                                   *)

\* The account serves a request, or the goroutine after it is not done.
Live(a) ==
  \E i \in Ids : req[i].account = a /\ req[i].pc \notin {"none", "choosing", "done"}

\* Bug: the accounts with the fewest credits come first.
Bug_Ahead(list, a, b) ==
  \/ list[a] < list[b]
  \/ list[a] = list[b] /\ a < b

\* The order of selectBalancedTokenAccount: unknown credits come last.
Ahead(list, a, b) ==
  \/ list[a] > list[b]
  \/ list[a] = list[b] /\ a < b

\* a is the next account to be tried.
IsFirst(i, a) ==
  /\ req[i].pc = "choosing"
  /\ a \in req[i].untried
  /\ \A b \in req[i].untried \ {a} : Ahead(req[i].list, a, b)

Choice(key) == IF key = GroupKey THEN Members ELSE {key}

\* The key of the request is looked up, and the token files are read.
Arrive(i, key) ==
  /\ i = begun + 1
  /\ begun' = i
  /\ req' = [req EXCEPT ![i] =
       [NoRequest EXCEPT !.pc = "choosing", !.key = key, !.untried = Choice(key),
                         !.list = [a \in Accounts |-> IF a \in Choice(key) THEN stored[a]
                                                      ELSE Unknown],
                         !.unsettled = {a \in Accounts : Live(a)}]]
  /\ UNCHANGED <<stored, copies, credits, inFlight, entries, history, used, unsure, faults>>

\* The next account is available and has a slot.  One that the client names
\* by its own key may be without credits.
Take(i, a) ==
  /\ IsFirst(i, a)
  /\ req[i].key = GroupKey => req[i].list[a] # 0
  /\ inFlight[a] < Concurrency[a]
  /\ inFlight' = [inFlight EXCEPT ![a] = @ + 1]
  /\ req' = [j \in Ids |->
       IF j = i THEN [NoRequest EXCEPT !.pc = "serving", !.account = a,
                                       !.holds = TRUE, !.before = req[i].list[a]]
       ELSE IF req[j].pc = "choosing" THEN [req[j] EXCEPT !.unsettled = @ \cup {a}]
       ELSE req[j]]
  /\ unsure' = IF a \in req[i].unsettled \/ Live(a) THEN unsure \cup {a} ELSE unsure
  /\ UNCHANGED <<stored, copies, credits, entries, history, begun, used, faults>>

\* A token file is written with these credits.  They do no harm if they are those
\* stored or those at Kiro, or if nobody can reckon with them.
WriteToken(a, c) ==
  /\ stored' = [stored EXCEPT ![a] = c]
  /\ unsure' = IF c \in {stored[a], credits[a], Unknown} THEN unsure ELSE unsure \cup {a}

\* accountAvailableForModel or the limiter says no.  If Kiro says that the account
\* is blocked when it is asked for the models, disableBlockedAccount writes its
\* token as it was read when the request came.
PassOver(i, a) ==
  /\ IsFirst(i, a)
  /\ req' = [req EXCEPT ![i].untried = @ \ {a}]
  /\ \/ UNCHANGED <<stored, unsure>>
     \/ /\ req[i].key = GroupKey
        /\ req[i].list[a] # 0
        /\ WriteToken(a, req[i].list[a])
  /\ UNCHANGED <<copies, credits, inFlight, entries, history, begun, used, faults>>

\* There are no more accounts: the request is refused.
Refuse(i) ==
  /\ req[i].pc = "choosing"
  /\ req[i].untried = {}
  /\ req' = [req EXCEPT ![i] = Ended]
  /\ UNCHANGED <<stored, copies, credits, inFlight, entries, history, begun, used, unsure, faults>>

-----------------------------------------------------------------------------
(* Serving and recording.                                                  *)

\* Kiro answers, or fails, and may have charged for it.
Serve(i) ==
  LET a == req[i].account
  IN  /\ req[i].pc = "serving"
      /\ \E cost \in {0, 1} :
           /\ cost <= credits[a]
           /\ credits' = [credits EXCEPT ![a] = @ - cost]
           /\ used' = [used EXCEPT ![i] = cost]
      /\ req' = [req EXCEPT ![i].pc = "served"]
      /\ UNCHANGED <<stored, copies, inFlight, entries, history, begun, unsure, faults>>

\* saveRequestHistoryLocked: nobody learns that a save has failed.
Save(new) ==
  /\ entries' = new
  /\ \/ history' = new /\ UNCHANGED faults
     \/ /\ faults < MaxFaults
        /\ faults' = faults + 1
        /\ history' \in {history, Torn}

\* Bug: when the history is full, the new entry is the one that is dropped.
Bug_WithEntry(entry) ==
  IF Len(entries) = MaxHistory THEN entries ELSE <<entry>> \o entries

\* Bug: nothing is dropped.
Bug_Untruncated(entry) == <<entry>> \o entries

WithEntry(entry) ==
  LET all == <<entry>> \o entries
  IN  IF Len(all) > MaxHistory THEN SubSeq(all, 1, MaxHistory) ELSE all

addRequestHistory(i) ==
  /\ req[i].pc = "served"
  /\ Save(WithEntry([id |-> i, account |-> req[i].account, spent |-> NotSpent]))
  /\ req' = [req EXCEPT ![i].pc = "selecting"]
  /\ UNCHANGED <<stored, copies, credits, inFlight, begun, used, unsure>>

\* Bug: an account's last slot is never given back.
Bug_SlotsAfter(n) == IF n > 1 THEN n - 1 ELSE n

SlotsAfter(n) == IF n > 0 THEN n - 1 ELSE n

\* The deferred call, when the handler returns.
Release(i) ==
  /\ req[i].holds
  /\ req[i].pc \notin {"serving", "served"}
  /\ inFlight' = [inFlight EXCEPT ![req[i].account] = SlotsAfter(@)]
  /\ req' = [req EXCEPT ![i] = IF @.pc = "done" THEN Ended ELSE [@ EXCEPT !.holds = FALSE]]
  /\ UNCHANGED <<stored, copies, credits, entries, history, begun, used, unsure, faults>>

-----------------------------------------------------------------------------
(* maybeRefreshCreditsAfterRequest: the goroutine after the request.       *)

\* The goroutine ends, before or after the handler.
End(i) == req' = [req EXCEPT ![i] =
  IF @.holds THEN [Ended EXCEPT !.account = req[i].account, !.holds = TRUE] ELSE Ended]

Reread(i) ==
  /\ req[i].pc = "selecting"
  /\ req' = [req EXCEPT ![i].pc = "asking", ![i].file = stored[req[i].account]]
  /\ UNCHANGED <<stored, copies, credits, inFlight, entries, history, begun, used, unsure, faults>>

\* The token file cannot be read, or is gone.
RereadFails(i) ==
  /\ req[i].pc = "selecting"
  /\ faults < MaxFaults
  /\ faults' = faults + 1
  /\ unsure' = unsure \cup {req[i].account}
  /\ End(i)
  /\ UNCHANGED <<stored, copies, credits, inFlight, entries, history, begun, used>>

UsageAnswers(i) ==
  /\ req[i].pc = "asking"
  /\ req' = [req EXCEPT ![i].pc = "persisting", ![i].after = credits[req[i].account]]
  /\ UNCHANGED <<stored, copies, credits, inFlight, entries, history, begun, used, unsure, faults>>

\* The credits in the file count as those after the request.
UsageFails(i) ==
  /\ req[i].pc = "asking"
  /\ faults < MaxFaults
  /\ faults' = faults + 1
  /\ unsure' = unsure \cup {req[i].account}
  /\ req' = [req EXCEPT ![i].pc = "spent", ![i].after = req[i].file, ![i].file = Unknown]
  /\ UNCHANGED <<stored, copies, credits, inFlight, entries, history, begun, used>>

\* Bug: the token file is written as it was read.
Bug_WithCredits(file, after) == file

WithCredits(file, after) == after

Persist(i) ==
  LET a == req[i].account
  IN  /\ req[i].pc = "persisting"
      /\ \/ /\ stored' = [stored EXCEPT ![a] = WithCredits(req[i].file, req[i].after)]
            /\ UNCHANGED <<faults, unsure>>
         \/ /\ faults < MaxFaults
            /\ faults' = faults + 1
            /\ unsure' = unsure \cup {a}
            /\ UNCHANGED stored
      /\ req' = [req EXCEPT ![i].pc = "spent", ![i].file = Unknown]
      /\ UNCHANGED <<copies, credits, inFlight, entries, history, begun, used>>

\* Known is the difference only if both credits are; a negative one is dropped.
Spent(i) ==
  IF req[i].before = Unknown \/ req[i].after = Unknown THEN NotSpent
  ELSE req[i].before - req[i].after

\* Bug: the file is not saved.
Bug_SaveSpent(new) == entries' = new /\ UNCHANGED <<history, faults>>

SaveSpent(new) == Save(new)

updateRequestHistoryCreditsSpent(i) ==
  /\ req[i].pc = "spent"
  /\ IF Spent(i) >= 0 /\ \E k \in DOMAIN entries : entries[k].id = i
       THEN SaveSpent([k \in DOMAIN entries |->
                         IF entries[k].id = i THEN [entries[k] EXCEPT !.spent = Spent(i)]
                         ELSE entries[k]])
       ELSE UNCHANGED <<entries, history, faults>>
  /\ End(i)
  /\ UNCHANGED <<stored, copies, credits, inFlight, begun, used, unsure>>

-----------------------------------------------------------------------------
(* Who else writes token files.                                            *)

\* A handler finds the account in listTokenAccounts, or the scheduler does, and
\* goes on with that copy: to refresh the token, to toggle or check the account,
\* to ask Kiro for its models, to give it a key (loadTokenFromFile).
ReadToken(a) ==
  /\ copies' = [copies EXCEPT ![a] = @ \cup {stored[a]}]
  /\ UNCHANGED <<stored, credits, inFlight, entries, history, begun, req, used, unsure, faults>>

\* refreshKASToken keeps the credits of its copy when it stores the new tokens,
\* and so do toggle, check and disableBlockedAccount with what they change.  The
\* copy remains: others may have read the same.
WriteBack(a) ==
  /\ \E c \in copies[a] : WriteToken(a, c)
  /\ UNCHANGED <<copies, credits, inFlight, entries, history, begun, req, used, faults>>

\* handleAdminAccounts, POST: with the credits of the form, or without.
SaveAccount(a) ==
  /\ \E c \in Stored : WriteToken(a, c)
  /\ UNCHANGED <<copies, credits, inFlight, entries, history, begun, req, used, faults>>

-----------------------------------------------------------------------------
(* The admin, Kiro's billing and crashes.                                  *)

\* The admin or a billing request has the credits of an account updated: the
\* file is read, and updateAccountCredits follows as it does after a request.
Refresh(i, a) ==
  /\ i = begun + 1
  /\ begun' = i
  /\ req' = [req EXCEPT ![i] =
       [NoRequest EXCEPT !.pc = "asking", !.account = a, !.file = stored[a]]]
  /\ unsure' = IF Live(a) THEN unsure \cup {a} ELSE unsure
  /\ UNCHANGED <<stored, copies, credits, inFlight, entries, history, used, faults>>

clearRequestHistory ==
  /\ Save(<<>>)
  /\ UNCHANGED <<stored, copies, credits, inFlight, begun, req, used, unsure>>

ResetCredits(a) ==
  /\ credits[a] < MaxCredits
  /\ faults < MaxFaults
  /\ faults' = faults + 1
  /\ credits' = [credits EXCEPT ![a] = MaxCredits]
  /\ unsure' = unsure \cup {a}
  /\ UNCHANGED <<stored, copies, inFlight, entries, history, begun, req, used>>

loadRequestHistory(file) == IF file = Torn THEN <<>> ELSE file

\* The process dies, perhaps while it saves the history, and starts again.
Crash ==
  /\ faults < MaxFaults
  /\ faults' = faults + 1
  /\ history' \in {history, Torn}
  /\ entries' = loadRequestHistory(history')
  /\ inFlight' = [a \in Accounts |-> 0]
  /\ copies' = [a \in Accounts |-> {}]
  /\ req' = [i \in Ids |-> IF req[i].pc = "none" THEN NoRequest ELSE Ended]
  /\ unsure' = unsure \cup {a \in Accounts : Live(a)}
  /\ UNCHANGED <<stored, credits, begun, used>>

-----------------------------------------------------------------------------
RequestStep(i) ==
  \/ \E key \in Accounts \cup {GroupKey} : Arrive(i, key)
  \/ \E a \in Accounts : Take(i, a) \/ PassOver(i, a) \/ Refresh(i, a)
  \/ Refuse(i)
  \/ Serve(i) \/ addRequestHistory(i) \/ Release(i)
  \/ Reread(i) \/ RereadFails(i) \/ UsageAnswers(i) \/ UsageFails(i) \/ Persist(i)
  \/ updateRequestHistoryCreditsSpent(i)

WriterStep(a) == ReadToken(a) \/ WriteBack(a) \/ SaveAccount(a)

OtherStep ==
  \/ \E a \in Accounts : ResetCredits(a)
  \/ clearRequestHistory
  \/ Crash

ProxyNext ==
  \/ \E i \in Ids : RequestStep(i)
  \/ \E a \in Accounts : WriterStep(a)
  \/ OtherStep

ProxySpec == ProxyInit /\ [][ProxyNext]_proxyVars

-----------------------------------------------------------------------------
(* Properties.                                                             *)

Holders(a) == {i \in Ids : req[i].holds /\ req[i].account = a}

\* Every request that was given a slot gives it back once, by whatever path it
\* ends and whether its handler or its goroutine ends first.
SlotsAreHeld ==
  \A a \in Accounts :
    inFlight[a] = Cardinality(Holders(a)) /\ inFlight[a] <= Concurrency[a]

\* What the history says a request cost is what it cost, as long as no other
\* request of the account was chosen, served or accounted for at the same time,
\* every usage call was answered, the credits were not reset, and nobody wrote into
\* the token file credits that were neither stored nor Kiro's (a token refresh that
\* read it before a request and stores it after, or the admin by hand).  Each
\* request leaves behind the credits from which the next one is reckoned, and the
\* refreshes, toggles and checks between them keep these.
SpentIsExact ==
  \A k \in DOMAIN entries :
    entries[k].spent # NotSpent /\ entries[k].account \notin unsure =>
      entries[k].spent = used[entries[k].id]

\* A request with the group key goes to the account that really has the most
\* credits left at Kiro, of those that were not passed over and whose credits
\* are known: the stored credits by which it is chosen keep up with Kiro's, except
\* where SpentIsExact names what puts them apart (unsure).
RichestServes ==
  [][\A i \in Ids, a \in Accounts :
       Take(i, a) /\ req[i].key = GroupKey /\ a \notin unsure' =>
         \A b \in req[i].untried \ unsure :
           req[i].list[b] # Unknown =>
             /\ req[i].list[a] # Unknown
             /\ credits[b] <= credits[a]]_proxyVars

\* The history file is what the history shows, after every request, every
\* amount that comes late and every clearing, unless a write failed: a restart
\* forgets nothing.
HistoryIsSaved == faults = 0 => history = entries

\* The history shows the newest requests, the last one first: an entry is dropped
\* only by a newer one when the history is full, or with all others, and an amount
\* that comes late does not bring it back; only a crash after a write that failed
\* goes back to what was written before.
HistoryIsNewest ==
  [][/\ \A i \in Ids :
          req[i].pc = "served" /\ req'[i].pc = "selecting" =>
            entries' # <<>> /\ entries'[1].id = i
     /\ (Crash => history = entries) =>
          \A k \in DOMAIN entries :
            (~\E j \in DOMAIN entries' : entries'[j].id = entries[k].id) /\ entries' # <<>> =>
              /\ Len(entries') = MaxHistory
              /\ k = Len(entries)
              /\ ~\E j \in DOMAIN entries : entries[j].id = entries'[1].id]_proxyVars
=============================================================================
