---------------------------- MODULE DeviceLogin ----------------------------
(***************************************************************************)
(* The login of a new account by a device code (main.go): the admin page   *)
(* has kiro-admin start a login, the admin approves it at the auth server, *)
(* and meanwhile the page polls kiro-admin, which polls the auth server.   *)
(* Logins are kept in memory, in oidcLoginSessions, whose mutex is held    *)
(* for each half of a poll and not for the call in between.                *)
(*                                                                         *)
(* The page polls by setInterval, so that polls overlap when answers are   *)
(* slow.  It remembers one interval, authPollTimer, and clears that one;   *)
(* answers that are under way still arrive.  The auth server gives the     *)
(* token of an approved login once.                                        *)
(*                                                                         *)
(* The clock is relative: how old a login is, and how long ago it was      *)
(* polled.  Both stop where their size matters no longer.  Callbacks of an *)
(* interval come at any time.  Left out: the contents of tokens, what the  *)
(* page displays, leaving the page, and the saving of the account, which   *)
(* is in TokenFiles.                                                       *)
(***************************************************************************)
EXTENDS Integers, FiniteSets

CONSTANTS
  Logins,     \* bound: logins started
  Polls,      \* bound: polls under way at one time
  NoLogin,
  Lifetime,   \* ticks until a login expires
  Interval,   \* ticks that the auth server wants between two polls
  MaxFaults   \* bound: restarts, lost answers, failed calls

ASSUME LoginAssumption ==
  /\ NoLogin \notin Logins
  /\ Lifetime \in Nat
  /\ Interval \in Nat
  /\ MaxFaults \in Nat

VARIABLES
  session,   \* kiro-admin: KiroOIDCLoginSession of each login
  code,      \* auth server: the device code of each login
  poll,      \* polls under way
  starting,  \* page: logins being started
  intervals, \* page: logins that an interval polls
  timer,     \* page: the one whose interval is authPollTimer
  open,      \* page: the account form is open
  form,      \* page: the login whose token is in the form
  own,       \* history: logins started in this form, or not stopped by closing the last
  filled,    \* history: logins whose token came into a form
  lost,      \* history: logins whose token a fault may have destroyed
  doubled,   \* history: a login was started while another was being started
  faults

serverVars == <<session, code>>
pageVars == <<starting, intervals, timer, open, form>>
historyVars == <<own, filled, lost, doubled>>
loginVars == <<serverVars, poll, pageVars, historyVars, faults>>

-----------------------------------------------------------------------------
\* listed: it is in byID.  since: ticks since LastPollAt.
Session == [listed : BOOLEAN,
            age    : 0..(Lifetime + 1),
            since  : 0..Interval,
            token  : BOOLEAN]

\* LastPollAt is zero, which counts as long ago.
NoSession == [listed |-> FALSE, age |-> 0, since |-> Interval, token |-> FALSE]

\* status: what the auth server, and then kiro-admin, says.  kas: the answer
\* has the KAS JSON.
Poll == [at     : {"idle", "sent", "asking", "replied", "answered"},
         login  : Logins \cup {NoLogin},
         status : {"none", "pending", "error", "complete"},
         kas    : BOOLEAN]

NoPoll == [at |-> "idle", login |-> NoLogin, status |-> "none", kas |-> FALSE]

LoginTypeOK ==
  /\ session \in [Logins -> Session]
  /\ code \in [Logins -> {"none", "waiting", "approved", "redeemed", "refused"}]
  /\ poll \in [Polls -> Poll]
  /\ starting \subseteq Logins
  /\ intervals \subseteq Logins
  /\ timer \in Logins \cup {NoLogin}
  /\ open \in BOOLEAN
  /\ form \in Logins \cup {NoLogin}
  /\ own \subseteq Logins
  /\ filled \subseteq Logins
  /\ lost \subseteq Logins
  /\ doubled \in BOOLEAN
  /\ faults \in 0..MaxFaults

LoginInit ==
  /\ session = [l \in Logins |-> NoSession]
  /\ code = [l \in Logins |-> "none"]
  /\ poll = [p \in Polls |-> NoPoll]
  /\ starting = {}
  /\ intervals = {}
  /\ timer = NoLogin
  /\ open = FALSE
  /\ form = NoLogin
  /\ own = {}
  /\ filled = {}
  /\ lost = {}
  /\ doubled = FALSE
  /\ faults = 0

Polled == {poll[p].login : p \in {q \in Polls : poll[q].at # "idle"}}

\* now is after ExpiresAt.
Expired(l) == session[l].age > Lifetime

-----------------------------------------------------------------------------
(* The page.                                                               *)

\* Bug: the interval that was started before goes on.
Bug_clearAuthPolling == UNCHANGED <<intervals, timer>>

\* Only the interval that timer names is cleared.
clearAuthPolling ==
  /\ intervals' = intervals \ {timer}
  /\ timer' = NoLogin

\* openAccountModal: the form for a new account, empty.
NewAccount ==
  /\ ~open
  /\ open' = TRUE
  /\ form' = NoLogin
  /\ clearAuthPolling
  /\ UNCHANGED <<serverVars, poll, starting, historyVars, faults>>

\* openEditAccountModal: the same form, for an account that exists.
EditAccount ==
  /\ ~open
  /\ open' = TRUE
  /\ form' = NoLogin
  /\ UNCHANGED <<serverVars, poll, starting, intervals, timer, historyVars, faults>>

\* Bug: the modal closes and its polling goes on.
Bug_CloseForm ==
  /\ open
  /\ open' = FALSE
  /\ own' = starting \cup Polled \cup (intervals \ {timer})
  /\ UNCHANGED <<serverVars, poll, starting, intervals, timer, form, filled, lost,
                 doubled, faults>>

\* The close button, Escape, or a submitted form, which keeps its contents.
CloseForm ==
  /\ open
  /\ open' = FALSE
  /\ clearAuthPolling
  /\ own' = starting \cup Polled \cup (intervals \ {timer})
  /\ UNCHANGED <<serverVars, poll, starting, form, filled, lost, doubled, faults>>

\* The button of startAdminAuthorization.  A second click finds the first one's
\* request under way.
ClickStart(l) ==
  /\ open
  /\ code[l] = "none" /\ l \notin starting
  /\ clearAuthPolling
  /\ starting' = starting \cup {l}
  /\ own' = own \cup {l}
  /\ doubled' = (doubled \/ starting # {})
  /\ UNCHANGED <<serverVars, poll, open, form, filled, lost, faults>>

SendPoll(p, l) ==
  /\ poll[p].at = "idle"
  /\ poll' = [poll EXCEPT ![p] = [NoPoll EXCEPT !.at = "sent", !.login = l]]

\* The answer of the start: an interval is set, whatever was done with the form
\* meanwhile, and the first poll is sent.
PageStarted(p, l) ==
  /\ l \in starting /\ code[l] # "none"
  /\ starting' = starting \ {l}
  /\ intervals' = intervals \cup {l}
  /\ timer' = l
  /\ SendPoll(p, l)
  /\ UNCHANGED <<serverVars, open, form, historyVars, faults>>

\* The start is refused, or its answer lost: the page shows the error.
StartFails(l) ==
  /\ l \in starting
  /\ starting' = starting \ {l}
  /\ code' = [code EXCEPT ![l] = IF @ = "none" THEN "refused" ELSE @]
  /\ UNCHANGED <<session, poll, intervals, timer, open, form, historyVars, faults>>

\* The callback of an interval.
PageTick(p, l) ==
  /\ l \in intervals
  /\ SendPoll(p, l)
  /\ UNCHANGED <<serverVars, starting, intervals, timer, open, form, historyVars, faults>>

EndPoll(p) == poll' = [poll EXCEPT ![p] = NoPoll]

\* Complete, with the KAS JSON: it goes into the form that is there now.
TakeToken(p) ==
  /\ poll[p].at = "answered" /\ poll[p].status = "complete" /\ poll[p].kas
  /\ clearAuthPolling
  /\ form' = poll[p].login
  /\ filled' = filled \cup {poll[p].login}
  /\ EndPoll(p)
  /\ UNCHANGED <<serverVars, starting, open, own, lost, doubled, faults>>

ShowError(p) ==
  /\ poll[p].at = "answered" /\ poll[p].status = "error"
  /\ clearAuthPolling
  /\ EndPoll(p)
  /\ UNCHANGED <<serverVars, starting, open, form, historyVars, faults>>

\* Pending, or complete without the KAS JSON.
KeepWaiting(p) ==
  /\ poll[p].at = "answered" /\ poll[p].status # "error"
  /\ ~(poll[p].status = "complete" /\ poll[p].kas)
  /\ EndPoll(p)
  /\ UNCHANGED <<serverVars, pageVars, historyVars, faults>>

PageAnswer(p) == TakeToken(p) \/ ShowError(p) \/ KeepWaiting(p)

-----------------------------------------------------------------------------
(* kiro-admin.                                                             *)

\* startKiroOIDCDeviceLogin: a client is registered, a device code got, and the
\* login put into byID.
startKiroOIDCDeviceLogin(l) ==
  /\ l \in starting /\ code[l] = "none"
  /\ code' = [code EXCEPT ![l] = "waiting"]
  /\ session' = [session EXCEPT ![l] = [NoSession EXCEPT !.listed = TRUE]]
  /\ UNCHANGED <<poll, pageVars, historyVars, faults>>

Arrived(p) == poll[p].at = "sent"

\* adminAuthSessionResponse.  It reads the login after the mutex was released, which
\* can only add to a pending answer a KAS JSON that the page does not look at.
Answer(p, status, hasToken) ==
  poll' = [poll EXCEPT ![p].at = "answered", ![p].status = status, ![p].kas = hasToken]

\* Bug: a login that is not there any more is an answer of its own.
Bug_NotFound(p) ==
  /\ Arrived(p) /\ ~session[poll[p].login].listed
  /\ Answer(p, "expired", FALSE)
  /\ UNCHANGED <<serverVars, pageVars, historyVars, faults>>

\* The first half of pollKiroOIDCLoginSession, under the mutex.
NotFound(p) ==
  /\ Arrived(p) /\ ~session[poll[p].login].listed
  /\ Answer(p, "error", FALSE)
  /\ UNCHANGED <<serverVars, pageVars, historyVars, faults>>

AlreadyComplete(p) ==
  /\ Arrived(p)
  /\ session[poll[p].login].listed /\ session[poll[p].login].token
  /\ Answer(p, "complete", TRUE)
  /\ UNCHANGED <<serverVars, pageVars, historyVars, faults>>

\* Bug: the age of a login is looked at before its token.
Bug_DropExpired(p) ==
  /\ Arrived(p)
  /\ session[poll[p].login].listed
  /\ Expired(poll[p].login)
  /\ session' = [session EXCEPT ![poll[p].login].listed = FALSE]
  /\ Answer(p, "error", FALSE)
  /\ UNCHANGED <<code, pageVars, historyVars, faults>>

DropExpired(p) ==
  /\ Arrived(p)
  /\ session[poll[p].login].listed /\ ~session[poll[p].login].token
  /\ Expired(poll[p].login)
  /\ session' = [session EXCEPT ![poll[p].login].listed = FALSE]
  /\ Answer(p, "error", FALSE)
  /\ UNCHANGED <<code, pageVars, historyVars, faults>>

\* Listed, without a token, and not expired.
Waits(l) == session[l].listed /\ ~session[l].token /\ ~Expired(l)

TooSoon(p) ==
  /\ Arrived(p) /\ Waits(poll[p].login)
  /\ session[poll[p].login].since < Interval
  /\ Answer(p, "pending", FALSE)
  /\ UNCHANGED <<serverVars, pageVars, historyVars, faults>>

Ask(p) ==
  /\ Arrived(p) /\ Waits(poll[p].login)
  /\ session[poll[p].login].since = Interval
  /\ session' = [session EXCEPT ![poll[p].login].since = 0]
  /\ poll' = [poll EXCEPT ![p].at = "asking"]
  /\ UNCHANGED <<code, pageVars, historyVars, faults>>

LookUp(p) ==
  NotFound(p) \/ AlreadyComplete(p) \/ DropExpired(p) \/ TooSoon(p) \/ Ask(p)

\* The second half, when the auth server gave the token.  A login that was dropped
\* meanwhile does not get it, and the poll answers complete all the same.
StoreToken(p) ==
  /\ poll[p].at = "replied"
  /\ session' = [session EXCEPT ![poll[p].login].token = session[poll[p].login].listed]
  /\ Answer(p, "complete", session'[poll[p].login].token)
  /\ UNCHANGED <<code, pageVars, historyVars, faults>>

-----------------------------------------------------------------------------
(* The auth server, time and faults.                                       *)

\* Nobody will ask for the other logins again.
Watched == starting \cup intervals \cup Polled

Decide(l) ==
  /\ l \in Watched
  /\ \/ code[l] = "waiting" /\ code' = [code EXCEPT ![l] = "approved"]
     \/ code[l] \in {"waiting", "approved"} /\ code' = [code EXCEPT ![l] = "refused"]
  /\ UNCHANGED <<session, poll, pageVars, historyVars, faults>>

\* The call of createKiroOIDCTokenFromDeviceCode.  Approved, the code is redeemed.
AuthGives(p) ==
  LET l == poll[p].login IN
  /\ poll[p].at = "asking" /\ code[l] = "approved"
  /\ code' = [code EXCEPT ![l] = "redeemed"]
  /\ poll' = [poll EXCEPT ![p].at = "replied"]
  /\ UNCHANGED <<session, pageVars, historyVars, faults>>

\* Authorization pending, or an error for a code that was refused, expired or redeemed
\* by another poll.  The second half of the poll leaves the login waiting; LastError,
\* which it sets, is shown to nobody.
AuthGivesNothing(p) ==
  LET l == poll[p].login IN
  /\ poll[p].at = "asking" /\ code[l] # "approved"
  /\ Answer(p, IF code[l] = "waiting" THEN "pending" ELSE "error", FALSE)
  /\ UNCHANGED <<serverVars, pageVars, historyVars, faults>>

AuthReplies(p) == AuthGives(p) \/ AuthGivesNothing(p)

\* The call fails, before or after the auth server has redeemed the code.
AuthFails(p) ==
  LET l == poll[p].login IN
  /\ poll[p].at = "asking" /\ faults < MaxFaults
  /\ faults' = faults + 1
  /\ \/ UNCHANGED <<code, lost>>
     \/ /\ code[l] = "approved"
        /\ code' = [code EXCEPT ![l] = "redeemed"]
        /\ lost' = lost \cup {l}
  /\ Answer(p, "error", FALSE)
  /\ UNCHANGED <<session, pageVars, own, filled, doubled>>

\* The page's fetch fails.
LoseAnswer(p) ==
  /\ poll[p].at = "answered" /\ poll[p].status # "error" /\ faults < MaxFaults
  /\ faults' = faults + 1
  /\ lost' = IF poll[p].kas THEN lost \cup {poll[p].login} ELSE lost
  /\ poll' = [poll EXCEPT ![p].status = "error", ![p].kas = FALSE]
  /\ UNCHANGED <<serverVars, pageVars, own, filled, doubled>>

\* All logins are forgotten, and polls under way fail.
Restart ==
  /\ faults < MaxFaults
  /\ faults' = faults + 1
  /\ session' = [l \in Logins |-> [session[l] EXCEPT !.listed = FALSE, !.token = FALSE]]
  /\ poll' = [p \in Polls |-> IF poll[p].at \in {"idle", "answered"} THEN poll[p]
                              ELSE [poll[p] EXCEPT !.at = "answered", !.status = "error"]]
  /\ lost' = Logins
  /\ UNCHANGED <<code, pageVars, own, filled, doubled>>

Up(n, max) == IF n < max THEN n + 1 ELSE n

Tick ==
  /\ session' = [l \in Logins |->
       IF l \in Watched /\ code[l] # "none"
       THEN [session[l] EXCEPT !.age = Up(@, Lifetime + 1), !.since = Up(@, Interval)]
       ELSE session[l]]
  /\ UNCHANGED <<code, poll, starting, intervals, timer, open, form, historyVars, faults>>

-----------------------------------------------------------------------------
LoginNext ==
  \/ NewAccount \/ EditAccount \/ CloseForm
  \/ \E l \in Logins :
       \/ ClickStart(l) \/ startKiroOIDCDeviceLogin(l) \/ StartFails(l) \/ Decide(l)
       \/ \E p \in Polls : PageStarted(p, l) \/ PageTick(p, l)
  \/ \E p \in Polls :
       \/ LookUp(p) \/ StoreToken(p) \/ PageAnswer(p)
       \/ AuthReplies(p) \/ AuthFails(p) \/ LoseAnswer(p)
  \/ Restart
  \/ Tick

LoginSpec == LoginInit /\ [][LoginNext]_loginVars

-----------------------------------------------------------------------------
(* Properties.                                                             *)

\* The poll has the token from the auth server, or takes it to the page.
Carries(p, l) ==
  /\ poll[p].login = l
  /\ \/ poll[p].at = "replied"
     \/ poll[p].at = "answered" /\ poll[p].kas

\* The auth server gives a token once.  From then on, whatever polls and forms overlap,
\* a poll carries it until it is in a form, unless a fault destroyed it or the login
\* expired, and was dropped by another poll, while the auth server was being asked.
\* A login that has its token is not dropped, however old it is.
TokenIsOnItsWay ==
  \A l \in Logins :
    /\ session[l].token => session[l].listed
    /\ code[l] = "redeemed" =>
         \/ l \in filled
         \/ \E p \in Polls : Carries(p, l)
         \/ l \in lost
         \/ ~session[l].listed /\ Expired(l)

\* The token in the form, which is saved under the name that is in the form, is that of
\* a login started in this form.  Closing a form clears its interval; what that does
\* not stop are logins being started then, polls under way, and intervals that the page
\* forgot.  Only those can still put their token into the next form.
FormHasItsOwnToken == open => form \in own \cup {NoLogin}

\* The page polls one login at a time and remembers its interval, so that it can clear
\* it, unless a login was started while another was being started.
OneLoginIsPolled == ~doubled => intervals \subseteq {timer}
=============================================================================
