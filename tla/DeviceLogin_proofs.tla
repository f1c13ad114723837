------------------------- MODULE DeviceLogin_proofs -------------------------
(***************************************************************************)
(* Proofs about DeviceLogin, for any sets of logins and polls, any times,  *)
(* and any number of faults.                                               *)
(*                                                                         *)
(* Polling is what polls under way hold; it is inductive with the types.   *)
(* That a token is on its way rests on it, and on Gone: a login that is    *)
(* not listed any more has expired, or a fault has removed it.  Of the two *)
(* properties of the page, one rests on Watching: whatever may still bring *)
(* a token to the page belongs to the form; the other on OneAtATime: while *)
(* a login is being started no interval is left.                           *)
(***************************************************************************)
EXTENDS DeviceLogin, TLAPS

USE LoginAssumption DEF LoginAssumption

\* The record of a poll fits what it is at.
PollOK(r) ==
  /\ r.at # "idle" => r.login \in Logins
  /\ r.kas => r.at = "answered" /\ r.status = "complete"

PollsOK == \A p \in Polls : PollOK(poll[p])

Polling == LoginTypeOK /\ PollsOK

-----------------------------------------------------------------------------
(* Types, and what polls hold.                                             *)

LEMMA Fields ==
  ASSUME Polling, NEW p \in Polls
  PROVE  /\ poll[p] \in Poll
         /\ PollOK(poll[p])
         /\ poll[p].login \in Logins \cup {NoLogin}
         /\ poll[p].status \in {"none", "pending", "error", "complete"}
         /\ poll[p].kas \in BOOLEAN
         /\ poll[p].at # "idle" => poll[p].login \in Logins
BY DEF Polling, LoginTypeOK, PollsOK, PollOK, Poll

\* Whatever becomes of a poll that is under way, it is of the login that it was sent for.
LEMMA AnswersKeepLogin ==
  ASSUME Polling, NEW p \in Polls,
         \/ \E status, k : Answer(p, status, k)
         \/ \E at : poll' = [poll EXCEPT ![p].at = at]
         \/ poll' = [poll EXCEPT ![p].status = "error", ![p].kas = FALSE]
  PROVE  poll'[p].login = poll[p].login
<1>1. poll \in [Polls -> Poll] /\ DOMAIN poll[p] = {"at", "login", "status", "kas"}
  BY Fields DEF Polling, LoginTypeOK, Poll
<1>2. ASSUME NEW status, NEW k, Answer(p, status, k)
      PROVE  poll'[p].login = poll[p].login
  BY <1>1, <1>2 DEF Answer
<1>3. ASSUME NEW at, poll' = [poll EXCEPT ![p].at = at]
      PROVE  poll'[p].login = poll[p].login
  BY <1>1, <1>3
<1>4. CASE poll' = [poll EXCEPT ![p].status = "error", ![p].kas = FALSE]
  BY <1>1, <1>4
<1>5. QED
  BY <1>2, <1>3, <1>4

LEMMA SessionFields ==
  ASSUME Polling, NEW l \in Logins
  PROVE  /\ session[l] \in Session
         /\ session[l].listed \in BOOLEAN
         /\ session[l].token \in BOOLEAN
         /\ session[l].age \in 0..(Lifetime + 1)
         /\ session[l].since \in 0..Interval
BY DEF Polling, LoginTypeOK, Session

\* One poll changes.
LEMMA OnePoll ==
  ASSUME Polling, NEW p \in Polls, NEW r \in Poll, PollOK(r),
         poll' = [poll EXCEPT ![p] = r]
  PROVE  poll' \in [Polls -> Poll] /\ PollsOK'
BY DEF Polling, LoginTypeOK, PollsOK

LEMMA NoPollIsIdle == NoPoll \in Poll /\ NoPoll.at = "idle" /\ PollOK(NoPoll)
BY DEF NoPoll, Poll, PollOK

LEMMA Sent ==
  ASSUME Polling, NEW p \in Polls, NEW l \in Logins, SendPoll(p, l)
  PROVE  poll' \in [Polls -> Poll] /\ PollsOK'
<1> DEFINE r == [NoPoll EXCEPT !.at = "sent", !.login = l]
<1>1. r \in Poll /\ PollOK(r)
  BY DEF NoPoll, Poll, PollOK
<1>2. poll' = [poll EXCEPT ![p] = r]
  BY DEF SendPoll
<1>3. QED
  BY <1>1, <1>2, OnePoll

LEMMA Answered ==
  ASSUME Polling, NEW p \in Polls, poll[p].at # "idle",
         NEW status \in {"none", "pending", "error", "complete"}, NEW k \in BOOLEAN,
         k => status = "complete",
         Answer(p, status, k)
  PROVE  poll' \in [Polls -> Poll] /\ PollsOK'
<1> DEFINE r == [poll[p] EXCEPT !.at = "answered", !.status = status, !.kas = k]
<1>1. r \in Poll /\ PollOK(r)
  BY Fields DEF Poll, PollOK
<1>2. poll' = [poll EXCEPT ![p] = r]
  BY DEF Answer, Polling, LoginTypeOK
<1>3. QED
  BY <1>1, <1>2, OnePoll

LEMMA Moved ==
  ASSUME Polling, NEW p \in Polls, poll[p].at # "idle", poll[p].at # "answered",
         NEW at \in {"asking", "replied"},
         poll' = [poll EXCEPT ![p].at = at]
  PROVE  poll' \in [Polls -> Poll] /\ PollsOK'
<1> DEFINE r == [poll[p] EXCEPT !.at = at]
<1>1. r \in Poll /\ PollOK(r)
  BY Fields DEF Poll, PollOK
<1>2. poll' = [poll EXCEPT ![p] = r]
  BY DEF Polling, LoginTypeOK
<1>3. QED
  BY <1>1, <1>2, OnePoll

LEMMA EndedPoll ==
  ASSUME Polling, NEW p \in Polls, EndPoll(p)
  PROVE  poll' \in [Polls -> Poll] /\ PollsOK'
BY NoPollIsIdle, OnePoll DEF EndPoll

LEMMA SamePolls ==
  ASSUME Polling, UNCHANGED poll
  PROVE  poll' \in [Polls -> Poll] /\ PollsOK'
BY DEF Polling, LoginTypeOK, PollsOK, PollOK

LEMMA NoSessionIsOne == NoSession \in Session
BY DEF NoSession, Session

LEMMA PollingInit == LoginInit => Polling
<1> SUFFICES ASSUME LoginInit PROVE Polling
  OBVIOUS
<1>1. LoginTypeOK
  <2>1. session \in [Logins -> Session]
    BY NoSessionIsOne DEF LoginInit
  <2>2. poll \in [Polls -> Poll]
    BY NoPollIsIdle DEF LoginInit
  <2>3. code \in [Logins -> {"none", "waiting", "approved", "redeemed", "refused"}]
    BY DEF LoginInit
  <2>4. faults \in 0..MaxFaults
    BY DEF LoginInit
  <2>5. QED
    BY <2>1, <2>2, <2>3, <2>4 DEF LoginInit, LoginTypeOK
<1>2. PollsOK
  BY NoPollIsIdle DEF LoginInit, PollsOK
<1>3. QED
  BY <1>1, <1>2 DEF Polling

-----------------------------------------------------------------------------
(* One step of the page, of kiro-admin, of the rest.                       *)

\* All variables but poll.
RestOK ==
  /\ session \in [Logins -> Session]
  /\ code \in [Logins -> {"none", "waiting", "approved", "redeemed", "refused"}]
  /\ starting \subseteq Logins
  /\ intervals \subseteq Logins
  /\ timer \in Logins \cup {NoLogin}
  /\ open \in BOOLEAN
  /\ form \in Logins \cup {NoLogin}
  /\ own \subseteq Logins
  /\ filled \subseteq Logins
  /\ lost \subseteq Logins
  /\ doubled \in BOOLEAN
  /\ faults \in 0..MaxFaults

LEMMA PollingSplit == Polling => RestOK
BY DEF Polling, LoginTypeOK, RestOK

LEMMA PollingAgain ==
  ASSUME RestOK', poll' \in [Polls -> Poll], PollsOK'
  PROVE  Polling'
BY DEF Polling, LoginTypeOK, RestOK

LEMMA PageForms ==
  ASSUME Polling, NewAccount \/ EditAccount \/ CloseForm \/ (\E l \in Logins : ClickStart(l))
  PROVE  Polling'
<1> USE DEF clearAuthPolling, serverVars, historyVars, pageVars
<1>1. UNCHANGED poll
  BY DEF NewAccount, EditAccount, CloseForm, ClickStart
<1>2. Polled \subseteq Logins
  BY Fields DEF Polled
<1>3. RestOK'
  <2>1. CASE NewAccount
    BY <2>1, PollingSplit DEF NewAccount, RestOK
  <2>2. CASE EditAccount
    BY <2>2, PollingSplit DEF EditAccount, RestOK
  <2>3. CASE CloseForm
    BY <2>3, <1>2, PollingSplit DEF CloseForm, RestOK
  <2>4. CASE \E l \in Logins : ClickStart(l)
    BY <2>4, PollingSplit DEF ClickStart, RestOK
  <2>5. QED
    BY <2>1, <2>2, <2>3, <2>4
<1>4. QED
  BY <1>1, <1>3, SamePolls, PollingAgain

LEMMA PageStarts ==
  ASSUME Polling, NEW l \in Logins, NEW p \in Polls, PageStarted(p, l) \/ PageTick(p, l)
  PROVE  Polling'
<1>1. poll' \in [Polls -> Poll] /\ PollsOK'
  BY Sent DEF PageStarted, PageTick
<1>2. RestOK'
  BY PollingSplit DEF PageStarted, PageTick, RestOK, serverVars, historyVars
<1>3. QED
  BY <1>1, <1>2, PollingAgain

LEMMA PageAnswers ==
  ASSUME Polling, NEW p \in Polls, PageAnswer(p)
  PROVE  Polling'
<1>1. poll' \in [Polls -> Poll] /\ PollsOK'
  BY EndedPoll DEF PageAnswer, TakeToken, ShowError, KeepWaiting
<1>2. RestOK'
  <2> USE DEF clearAuthPolling, serverVars, historyVars, pageVars
  <2>1. CASE TakeToken(p)
    BY <2>1, Fields, PollingSplit DEF TakeToken, RestOK
  <2>2. CASE ShowError(p)
    BY <2>2, PollingSplit DEF ShowError, RestOK
  <2>3. CASE KeepWaiting(p)
    BY <2>3, PollingSplit DEF KeepWaiting, RestOK
  <2>4. QED
    BY <2>1, <2>2, <2>3 DEF PageAnswer
<1>3. QED
  BY <1>1, <1>2, PollingAgain

LEMMA LooksUp ==
  ASSUME Polling, NEW p \in Polls, LookUp(p)
  PROVE  Polling'
<1> USE DEF historyVars, pageVars, serverVars, Arrived
<1>0. poll[p].at = "sent" /\ poll[p].login \in Logins
  BY Fields DEF LookUp, NotFound, AlreadyComplete, DropExpired, TooSoon, Ask
<1>1. CASE NotFound(p) \/ AlreadyComplete(p) \/ TooSoon(p)
  <2>1. poll' \in [Polls -> Poll] /\ PollsOK'
    BY <1>0, <1>1, Answered DEF NotFound, AlreadyComplete, TooSoon
  <2>2. RestOK'
    BY <1>1, PollingSplit DEF NotFound, AlreadyComplete, TooSoon, RestOK
  <2>3. QED
    BY <2>1, <2>2, PollingAgain
<1>2. CASE DropExpired(p)
  <2>1. poll' \in [Polls -> Poll] /\ PollsOK'
    BY <1>0, <1>2, Answered DEF DropExpired
  <2>2. session' \in [Logins -> Session]
    BY <1>0, <1>2, SessionFields, PollingSplit, ZenonT(60) DEF DropExpired, RestOK, Session
  <2>3. QED
    BY <1>2, <2>1, <2>2, PollingSplit, PollingAgain DEF DropExpired, RestOK
<1>3. CASE Ask(p)
  <2>1. poll' \in [Polls -> Poll] /\ PollsOK'
    BY <1>0, <1>3, Moved DEF Ask
  <2>2. session' \in [Logins -> Session]
    BY <1>0, <1>3, SessionFields, PollingSplit DEF Ask, RestOK, Session
  <2>3. QED
    BY <1>3, <2>1, <2>2, PollingSplit, PollingAgain DEF Ask, RestOK
<1>4. QED
  BY <1>1, <1>2, <1>3 DEF LookUp

LEMMA StoresToken ==
  ASSUME Polling, NEW p \in Polls, StoreToken(p)
  PROVE  /\ Polling'
         /\ poll[p].login \in Logins
         /\ session' = [session EXCEPT ![poll[p].login] =
                          [@ EXCEPT !.token = session[poll[p].login].listed]]
         /\ session'[poll[p].login].token = session[poll[p].login].listed
<1>1. poll[p].at = "replied" /\ poll[p].login \in Logins
  BY Fields DEF StoreToken
<1>2. session[poll[p].login] \in Session /\ session \in [Logins -> Session]
  BY <1>1, SessionFields, PollingSplit DEF RestOK
<1>3. session' = [session EXCEPT ![poll[p].login] =
                    [@ EXCEPT !.token = session[poll[p].login].listed]]
  BY <1>1, <1>2 DEF StoreToken
<1>4. session'[poll[p].login].token = session[poll[p].login].listed
  BY <1>1, <1>2, <1>3 DEF Session
<1>5. session' \in [Logins -> Session]
  BY <1>1, <1>2, <1>3, SessionFields DEF Session
<1>6. poll' \in [Polls -> Poll] /\ PollsOK'
  BY <1>1, <1>4, SessionFields, Answered DEF StoreToken
<1>7. Polling'
  BY <1>5, <1>6, PollingSplit, PollingAgain DEF StoreToken, RestOK, historyVars, pageVars
<1>8. QED
  BY <1>1, <1>3, <1>4, <1>7

LEMMA AuthServerSteps ==
  ASSUME Polling, NEW p \in Polls, AuthReplies(p) \/ AuthFails(p)
  PROVE  Polling'
<1> USE DEF historyVars, pageVars, serverVars
<1>1. CASE AuthGives(p)
  <2>1. poll[p].login \in Logins
    BY <1>1, Fields DEF AuthGives
  <2>2. poll' \in [Polls -> Poll] /\ PollsOK'
    BY <1>1, Moved DEF AuthGives
  <2>3. QED
    BY <1>1, <2>1, <2>2, PollingSplit, PollingAgain DEF AuthGives, RestOK
<1>2. CASE AuthGivesNothing(p)
  <2>1. poll' \in [Polls -> Poll] /\ PollsOK'
    BY <1>2, Answered DEF AuthGivesNothing
  <2>2. QED
    BY <1>2, <2>1, PollingSplit, PollingAgain DEF AuthGivesNothing, RestOK
<1>3. CASE AuthFails(p)
  <2>1. poll[p].login \in Logins
    BY <1>3, Fields DEF AuthFails
  <2>2. poll' \in [Polls -> Poll] /\ PollsOK'
    BY <1>3, Answered DEF AuthFails
  <2>3. QED
    BY <1>3, <2>1, <2>2, PollingSplit, PollingAgain DEF AuthFails, RestOK
<1>4. QED
  BY <1>1, <1>2, <1>3 DEF AuthReplies

LEMMA FaultsAndTime ==
  ASSUME Polling,
         \/ \E l \in Logins :
              startKiroOIDCDeviceLogin(l) \/ StartFails(l) \/ Decide(l)
         \/ \E p \in Polls : LoseAnswer(p)
         \/ Restart \/ Tick
  PROVE  Polling'
<1> USE DEF historyVars, pageVars, serverVars
<1>1. CASE \E l \in Logins : startKiroOIDCDeviceLogin(l) \/ StartFails(l) \/ Decide(l)
  <2>1. [NoSession EXCEPT !.listed = TRUE] \in Session
    BY NoSessionIsOne DEF Session
  <2>2. poll' \in [Polls -> Poll] /\ PollsOK'
    BY <1>1, SamePolls DEF startKiroOIDCDeviceLogin, StartFails, Decide
  <2>3. RestOK'
    <3>1. CASE \E l \in Logins : startKiroOIDCDeviceLogin(l)
      BY <2>1, <3>1, PollingSplit DEF startKiroOIDCDeviceLogin, RestOK
    <3>2. CASE \E l \in Logins : StartFails(l)
      BY <3>2, PollingSplit DEF StartFails, RestOK
    <3>3. CASE \E l \in Logins : Decide(l)
      BY <3>3, PollingSplit DEF Decide, RestOK
    <3>4. QED
      BY <1>1, <3>1, <3>2, <3>3
  <2>4. QED
    BY <2>2, <2>3, PollingAgain
<1>2. ASSUME NEW p \in Polls, LoseAnswer(p) PROVE Polling'
  <2> DEFINE r == [poll[p] EXCEPT !.status = "error", !.kas = FALSE]
  <2>1. r \in Poll /\ PollOK(r) /\ poll[p].login \in Logins
    BY <1>2, Fields DEF LoseAnswer, Poll, PollOK
  <2>2. poll' = [poll EXCEPT ![p] = r]
    BY <1>2 DEF LoseAnswer, Polling, LoginTypeOK
  <2>3. poll' \in [Polls -> Poll] /\ PollsOK'
    BY <2>1, <2>2, OnePoll
  <2>4. RestOK'
    BY <1>2, <2>1, PollingSplit DEF LoseAnswer, RestOK
  <2>5. QED
    BY <2>3, <2>4, PollingAgain
<1>3. CASE Restart
  <2>1. session' \in [Logins -> Session]
    BY <1>3, SessionFields DEF Restart, Session
  <2>2. ASSUME NEW q \in Polls PROVE poll'[q] \in Poll /\ PollOK(poll'[q])
    BY <1>3, Fields DEF Restart, Poll, PollOK
  <2>3. poll' \in [Polls -> Poll] /\ PollsOK'
    BY <1>3, <2>2 DEF Restart, PollsOK
  <2>4. RestOK'
    <3>1. RestOK
      BY PollingSplit
    <3>2. faults' \in 0..MaxFaults
      <4>1. faults < MaxFaults /\ faults' = faults + 1
        BY <1>3 DEF Restart
      <4>2. faults \in 0..MaxFaults
        BY <3>1 DEF RestOK
      <4>3. QED
        BY <4>1, <4>2
    <3>3. /\ UNCHANGED <<code, starting, intervals, timer, open, form, own, filled, doubled>>
          /\ lost' = Logins
      BY <1>3 DEF Restart
    <3>4. QED
      BY <2>1, <3>1, <3>2, <3>3 DEF RestOK
  <2>5. QED
    BY <2>3, <2>4, PollingAgain
<1>4. CASE Tick
  <2>1. ASSUME NEW l \in Logins PROVE session'[l] \in Session
    <3>1. \A n \in 0..(Lifetime + 1) : Up(n, Lifetime + 1) \in 0..(Lifetime + 1)
      BY DEF Up
    <3>2. \A n \in 0..Interval : Up(n, Interval) \in 0..Interval
      BY DEF Up
    <3>3. CASE session'[l] = session[l]
      BY <3>3, SessionFields
    <3>4. CASE session'[l] = [session[l] EXCEPT !.age = Up(@, Lifetime + 1),
                                                !.since = Up(@, Interval)]
      BY <3>1, <3>2, <3>4, SessionFields, ZenonT(60) DEF Session
    <3>5. QED
      BY <1>4, <3>3, <3>4 DEF Tick
  <2>2. session' \in [Logins -> Session]
    BY <1>4, <2>1 DEF Tick
  <2>3. poll' \in [Polls -> Poll] /\ PollsOK'
    BY <1>4, SamePolls DEF Tick
  <2>4. RestOK'
    BY <1>4, <2>2, PollingSplit DEF Tick, RestOK
  <2>5. QED
    BY <2>3, <2>4, PollingAgain
<1>5. QED
  BY <1>1, <1>2, <1>3, <1>4

LEMMA PollingUnchanged ==
  ASSUME Polling, UNCHANGED loginVars
  PROVE  Polling'
BY DEF Polling, LoginTypeOK, PollsOK, PollOK, loginVars, serverVars, pageVars, historyVars

LEMMA PollingInductive ==
  ASSUME Polling, [LoginNext]_loginVars
  PROVE  Polling'
<1>1. CASE LoginNext
  BY <1>1, PageForms, PageStarts, PageAnswers, LooksUp, StoresToken, AuthServerSteps,
     FaultsAndTime DEF LoginNext
<1>2. QED
  BY <1>1, PollingUnchanged

LEMMA AlwaysPolling == LoginSpec => []Polling
BY PollingInit, PollingInductive, PTL DEF LoginSpec

\* Sessions, polls, the form and what is under way keep their types; a poll that is
\* under way is of a login, and one with a token is complete.
THEOREM LoginTypeCorrect == LoginSpec => []LoginTypeOK
<1>1. Polling => LoginTypeOK
  BY DEF Polling
<1>2. QED
  BY <1>1, AlwaysPolling, PTL

-----------------------------------------------------------------------------
(* The token that the auth server gives.                                   *)

\* A login that was started and is not listed has expired, or a fault removed it.
Gone(l) ==
  code[l] \in {"waiting", "approved", "redeemed"} /\ ~session[l].listed =>
    Expired(l) \/ l \in lost

\* TokenIsOnItsWay, for one login.
TokenOf(l) ==
  /\ session[l].token => session[l].listed
  /\ code[l] = "redeemed" =>
       \/ l \in filled
       \/ \E p \in Polls : Carries(p, l)
       \/ l \in lost
       \/ ~session[l].listed /\ Expired(l)

Tokens == \A l \in Logins : Gone(l) /\ TokenOf(l)

\* Nothing is given, and nobody who carries a token loses it.
LEMMA TokensStay ==
  ASSUME Polling, Tokens,
         \A l \in Logins :
           /\ session'[l].listed = session[l].listed
           /\ session'[l].token = session[l].token
           /\ Expired(l) => Expired(l)'
           /\ code'[l] = "redeemed" => code[l] = "redeemed"
           /\ code'[l] \in {"waiting", "approved"} =>
                code[l] \in {"waiting", "approved"}
           /\ \A p \in Polls : Carries(p, l) =>
                Carries(p, l)' \/ l \in filled' \/ l \in lost',
         filled \subseteq filled', lost \subseteq lost'
  PROVE  Tokens'
<1> SUFFICES ASSUME NEW l \in Logins PROVE Gone(l)' /\ TokenOf(l)'
  BY DEF Tokens
<1>1. Gone(l) /\ TokenOf(l)
  BY DEF Tokens
<1>2. Gone(l)'
  BY <1>1 DEF Gone
<1>3. TokenOf(l)'
  BY <1>1 DEF TokenOf
<1>4. QED
  BY <1>2, <1>3

\* The same, when one poll changes and logins do not.
LEMMA OnePollChanges ==
  ASSUME Polling, Tokens, UNCHANGED <<session, code>>,
         filled \subseteq filled', lost \subseteq lost',
         NEW p \in Polls,
         \A q \in Polls : q # p => poll'[q] = poll[q],
         \A l \in Logins : Carries(p, l) => Carries(p, l)' \/ l \in filled' \/ l \in lost'
  PROVE  Tokens'
<1>1. ASSUME NEW l \in Logins, NEW q \in Polls, Carries(q, l)
      PROVE  Carries(q, l)' \/ l \in filled' \/ l \in lost'
  BY <1>1 DEF Carries
<1>2. QED
  BY <1>1, TokensStay DEF Expired

LEMMA PollsDoNotChange ==
  ASSUME Polling, Tokens, UNCHANGED <<session, code, poll>>,
         filled \subseteq filled', lost \subseteq lost'
  PROVE  Tokens'
BY TokensStay DEF Expired, Carries

\* Only the polls that Carries names carry anything.
LEMMA NotCarrying ==
  ASSUME Polling, NEW p \in Polls, poll[p].at # "replied", ~poll[p].kas
  PROVE  \A l \in Logins : ~Carries(p, l)
BY DEF Carries

LEMMA NoKas ==
  ASSUME Polling, NEW p \in Polls,
         poll[p].at # "answered" \/ poll[p].status # "complete"
  PROVE  ~poll[p].kas
BY Fields DEF PollOK

LEMMA OthersSame ==
  ASSUME Polling, NEW p \in Polls, NEW r, poll' = [poll EXCEPT ![p] = r]
  PROVE  \A q \in Polls : q # p => poll'[q] = poll[q]
BY DEF Polling, LoginTypeOK

LEMMA PageKeepsTokens ==
  ASSUME Polling, Tokens,
         \/ NewAccount \/ EditAccount \/ CloseForm
         \/ \E l \in Logins : ClickStart(l)
         \/ \E l \in Logins, p \in Polls : PageStarted(p, l) \/ PageTick(p, l)
         \/ \E p \in Polls : PageAnswer(p)
  PROVE  Tokens'
<1> USE DEF serverVars, historyVars, pageVars
<1>1. CASE NewAccount \/ EditAccount \/ CloseForm \/ (\E l \in Logins : ClickStart(l))
  BY <1>1, PollsDoNotChange DEF NewAccount, EditAccount, CloseForm, ClickStart
<1>2. ASSUME NEW l \in Logins, NEW p \in Polls, PageStarted(p, l) \/ PageTick(p, l)
      PROVE  Tokens'
  <2>1. SendPoll(p, l) /\ UNCHANGED <<session, code, filled, lost>>
    BY <1>2 DEF PageStarted, PageTick
  <2>2. \A m \in Logins : ~Carries(p, m)
    BY <2>1, NoKas, NotCarrying DEF SendPoll
  <2>3. \A q \in Polls : q # p => poll'[q] = poll[q]
    BY <2>1, OthersSame DEF SendPoll
  <2>4. QED
    BY <2>1, <2>2, <2>3, OnePollChanges
<1>3. ASSUME NEW p \in Polls, PageAnswer(p) PROVE Tokens'
  <2>1. /\ EndPoll(p) /\ UNCHANGED <<session, code, lost>> /\ filled \subseteq filled'
        /\ poll[p].at = "answered"
    BY <1>3 DEF PageAnswer, TakeToken, ShowError, KeepWaiting
  <2>2. \A q \in Polls : q # p => poll'[q] = poll[q]
    BY <2>1, OthersSame DEF EndPoll
  <2>3. \A l \in Logins : Carries(p, l) => l \in filled'
    <3>1. CASE TakeToken(p)
      BY <3>1 DEF TakeToken, Carries
    <3>2. CASE ShowError(p) \/ KeepWaiting(p)
      BY <2>1, <3>2, Fields DEF ShowError, KeepWaiting, Carries, PollOK
    <3>3. QED
      BY <1>3, <3>1, <3>2 DEF PageAnswer
  <2>4. QED
    BY <2>1, <2>2, <2>3, OnePollChanges
<1>4. QED
  BY <1>1, <1>2, <1>3

\* Answers that keep logins as they are.
LEMMA AnswersKeepTokens ==
  ASSUME Polling, Tokens, NEW p \in Polls,
         \/ NotFound(p) \/ AlreadyComplete(p) \/ TooSoon(p)
         \/ AuthGivesNothing(p) \/ LoseAnswer(p)
  PROVE  Tokens'
<1>1. /\ UNCHANGED <<session, code, filled>> /\ lost \subseteq lost'
      /\ \A q \in Polls : q # p => poll'[q] = poll[q]
  BY DEF NotFound, AlreadyComplete, TooSoon, AuthGivesNothing, LoseAnswer, Answer,
         serverVars, historyVars, pageVars, Polling, LoginTypeOK
<1>2. \A l \in Logins : Carries(p, l) => l \in lost'
  <2>1. CASE LoseAnswer(p)
    BY <2>1 DEF LoseAnswer, Carries
  <2>2. CASE NotFound(p) \/ AlreadyComplete(p) \/ TooSoon(p) \/ AuthGivesNothing(p)
    <3>1. poll[p].at \in {"sent", "asking"}
      BY <2>2 DEF NotFound, AlreadyComplete, TooSoon, AuthGivesNothing, Arrived
    <3>2. QED
      BY <3>1, NoKas, NotCarrying
  <2>3. QED
    BY <2>1, <2>2
<1>3. QED
  BY <1>1, <1>2, OnePollChanges

LEMMA AskKeepsTokens ==
  ASSUME Polling, Tokens, NEW p \in Polls, Ask(p)
  PROVE  Tokens'
<1>1. poll[p].at = "sent" /\ UNCHANGED <<code, filled, lost>>
  BY DEF Ask, Arrived, historyVars
<1>2. ASSUME NEW l \in Logins
      PROVE  /\ session'[l].listed = session[l].listed
             /\ session'[l].token = session[l].token
             /\ session'[l].age = session[l].age
  BY SessionFields DEF Ask, Polling, LoginTypeOK, Session
<1>3. ASSUME NEW l \in Logins, NEW q \in Polls, Carries(q, l) PROVE Carries(q, l)'
  <2>1. q # p
    BY <1>1, <1>3, NoKas, NotCarrying
  <2>2. poll'[q] = poll[q]
    BY <2>1 DEF Ask, Polling, LoginTypeOK
  <2>3. QED
    BY <1>3, <2>2 DEF Carries
<1>4. QED
  BY <1>1, <1>2, <1>3, TokensStay DEF Expired

\* The login that is dropped has expired, and has no token.
LEMMA DropKeepsTokens ==
  ASSUME Polling, Tokens, NEW p \in Polls, DropExpired(p)
  PROVE  Tokens'
<1> DEFINE m == poll[p].login
<1>1. /\ poll[p].at = "sent" /\ m \in Logins /\ UNCHANGED <<code, filled, lost>>
      /\ ~session[m].token /\ Expired(m)
  BY Fields DEF DropExpired, Arrived, historyVars
<1>2. ASSUME NEW l \in Logins
      PROVE  /\ session'[l].token = session[l].token
             /\ session'[l].age = session[l].age
             /\ l # m => session'[l].listed = session[l].listed
  BY <1>1, SessionFields DEF DropExpired, Polling, LoginTypeOK, Session
<1>3. ASSUME NEW l \in Logins, NEW q \in Polls, Carries(q, l) PROVE Carries(q, l)'
  <2>1. q # p
    BY <1>1, <1>3, NoKas, NotCarrying
  <2>2. poll'[q] = poll[q]
    BY <2>1 DEF DropExpired, Answer, Polling, LoginTypeOK
  <2>3. QED
    BY <1>3, <2>2 DEF Carries
<1>4. ASSUME NEW l \in Logins PROVE Gone(l)' /\ TokenOf(l)'
  <2>1. Gone(l) /\ TokenOf(l)
    BY DEF Tokens
  <2>2. CASE l = m
    <3>1. Expired(l)' /\ ~session'[l].token /\ session'[l].listed = FALSE
      BY <1>1, <1>2, <2>2, SessionFields DEF DropExpired, Expired, Polling, LoginTypeOK, Session
    <3>2. QED
      BY <3>1 DEF Gone, TokenOf
  <2>3. CASE l # m
    <3>1. Gone(l)'
      BY <1>1, <1>2, <2>1, <2>3 DEF Gone, Expired
    <3>2. TokenOf(l)'
      BY <1>1, <1>2, <1>3, <2>1, <2>3 DEF TokenOf, Expired
    <3>3. QED
      BY <3>1, <3>2
  <2>4. QED
    BY <2>2, <2>3
<1>5. QED
  BY <1>4 DEF Tokens

\* A login that is not listed any more does not get its token: it is Gone.
LEMMA StoreKeepsTokens ==
  ASSUME Polling, Tokens, NEW p \in Polls, StoreToken(p)
  PROVE  Tokens'
<1> DEFINE m == poll[p].login
<1>1. /\ poll[p].at = "replied" /\ m \in Logins /\ UNCHANGED <<code, filled, lost>>
      /\ session'[m].token = session[m].listed
  BY StoresToken DEF StoreToken, historyVars
<1>2. ASSUME NEW l \in Logins
      PROVE  /\ session'[l].listed = session[l].listed
             /\ session'[l].age = session[l].age
             /\ l # m => session'[l].token = session[l].token
  <2>1. session'[l] = IF l = m THEN [session[l] EXCEPT !.token = session[m].listed]
                      ELSE session[l]
    <3>1. session \in [Logins -> Session]
      BY DEF Polling, LoginTypeOK
    <3>2. session' = [session EXCEPT ![m].token = session[m].listed]
      BY DEF StoreToken
    <3>3. QED
      BY <1>1, <3>1, <3>2
  <2>2. session[l] \in Session
    BY SessionFields
  <2>3. QED
    BY <2>1, <2>2 DEF Session
<1>3. /\ poll'[p].at = "answered" /\ poll'[p].login = m /\ poll'[p].kas = session[m].listed
      /\ \A q \in Polls : q # p => poll'[q] = poll[q]
  BY <1>1, Fields DEF StoreToken, Answer, Polling, LoginTypeOK, Poll
<1>4. ASSUME NEW l \in Logins PROVE Gone(l)' /\ TokenOf(l)'
  <2>1. Gone(l) /\ TokenOf(l)
    BY DEF Tokens
  <2>2. Gone(l)'
    BY <1>1, <1>2, <2>1 DEF Gone, Expired
  <2>3. session'[l].token => session'[l].listed
    BY <1>1, <1>2, <2>1 DEF TokenOf
  <2>4. ASSUME code'[l] = "redeemed", l \notin filled', l \notin lost'
        PROVE  (\E q \in Polls : Carries(q, l)') \/ (~session'[l].listed /\ Expired(l)')
    <3>1. Expired(l)' <=> Expired(l)
      BY <1>2 DEF Expired
    <3>2. CASE ~session[l].listed
      BY <1>1, <1>2, <2>1, <2>4, <3>1, <3>2 DEF Gone
    <3>3. CASE session[l].listed
      <4>1. PICK q \in Polls : Carries(q, l)
        BY <1>1, <2>1, <2>4, <3>3 DEF TokenOf
      <4>2. Carries(q, l)'
        BY <1>1, <1>3, <3>3, <4>1 DEF Carries
      <4>3. QED
        BY <4>2
    <3>4. QED
      BY <3>2, <3>3
  <2>5. QED
    BY <2>2, <2>3, <2>4 DEF TokenOf
<1>5. QED
  BY <1>4 DEF Tokens

\* The poll that the auth server gives the token to carries it.
LEMMA GiveKeepsTokens ==
  ASSUME Polling, Tokens, NEW p \in Polls, AuthGives(p) \/ AuthFails(p)
  PROVE  Tokens'
<1> DEFINE m == poll[p].login
<1> USE DEF historyVars, pageVars
<1>1. /\ poll[p].at = "asking" /\ m \in Logins /\ UNCHANGED <<session, filled>>
      /\ lost \subseteq lost'
  BY Fields DEF AuthGives, AuthFails
<1>2. \A q \in Polls : q # p => poll'[q] = poll[q]
  BY DEF AuthGives, AuthFails, Answer, Polling, LoginTypeOK
<1>3. \A l \in Logins : ~Carries(p, l)
  BY <1>1, NoKas, NotCarrying
<1>4. \A l \in Logins : l # m => code'[l] = code[l]
  BY <1>1 DEF AuthGives, AuthFails, Polling, LoginTypeOK
<1>5. \/ code' = code
      \/ /\ code[m] = "approved" /\ code'[m] = "redeemed"
         /\ \A l \in Logins : l = m => Carries(p, l)' \/ l \in lost'
  <2>1. CASE AuthGives(p)
    BY <1>1, <2>1 DEF AuthGives, Carries, Polling, LoginTypeOK, Poll
  <2>2. CASE AuthFails(p)
    BY <1>1, <2>2 DEF AuthFails, Polling, LoginTypeOK
  <2>3. QED
    BY <2>1, <2>2
<1>6. ASSUME NEW l \in Logins PROVE Gone(l)' /\ TokenOf(l)'
  <2>1. Gone(l) /\ TokenOf(l)
    BY DEF Tokens
  <2>2. Gone(l)'
    BY <1>1, <1>4, <1>5, <2>1 DEF Gone, Expired
  <2>3. session'[l].token => session'[l].listed
    BY <1>1, <2>1 DEF TokenOf
  <2>4. ASSUME NEW q \in Polls, Carries(q, l) PROVE Carries(q, l)'
    <3>1. q # p
      BY <1>3, <2>4
    <3>2. QED
      BY <1>2, <2>4, <3>1 DEF Carries
  <2>5. TokenOf(l)'
    <3>1. CASE code'[l] = code[l]
      <4>1. (Expired(l)' <=> Expired(l)) /\ session'[l] = session[l]
        BY <1>1 DEF Expired
      <4>2. CASE \E q \in Polls : Carries(q, l)
        BY <2>3, <2>4, <4>2 DEF TokenOf
      <4>3. CASE ~\E q \in Polls : Carries(q, l)
        BY <1>1, <2>1, <2>3, <3>1, <4>1, <4>3 DEF TokenOf
      <4>4. QED
        BY <4>2, <4>3
    <3>2. CASE code'[l] # code[l]
      <4>1. l = m /\ code' # code
        BY <1>4, <3>2
      <4>2. Carries(p, l)' \/ l \in lost'
        BY <1>5, <4>1
      <4>3. QED
        BY <2>3, <4>2 DEF TokenOf
    <3>3. QED
      BY <3>1, <3>2
  <2>6. QED
    BY <2>2, <2>5
<1>7. QED
  BY <1>6 DEF Tokens

\* A login that is started is listed, and its code was not redeemed.
LEMMA StartKeepsTokens ==
  ASSUME Polling, Tokens, NEW l \in Logins,
         startKiroOIDCDeviceLogin(l) \/ StartFails(l) \/ Decide(l)
  PROVE  Tokens'
<1> USE DEF historyVars, pageVars, serverVars
<1>1. UNCHANGED <<poll, filled, lost>>
  BY DEF startKiroOIDCDeviceLogin, StartFails, Decide
<1>2. \A m \in Logins : m # l => code'[m] = code[m] /\ session'[m] = session[m]
  BY DEF startKiroOIDCDeviceLogin, StartFails, Decide, Polling, LoginTypeOK
<1>3. Gone(l)' /\ TokenOf(l)'
  <2>1. CASE startKiroOIDCDeviceLogin(l)
    <3>1. session'[l].listed /\ code'[l] = "waiting"
      BY <2>1 DEF startKiroOIDCDeviceLogin, NoSession, Polling, LoginTypeOK
    <3>2. QED
      BY <3>1 DEF Gone, TokenOf
  <2>2. CASE StartFails(l) \/ Decide(l)
    <3>1. /\ UNCHANGED session
          /\ code'[l] \in {"waiting", "approved"} => code[l] \in {"waiting", "approved"}
          /\ code'[l] = "redeemed" => code[l] = "redeemed"
      BY <2>2 DEF StartFails, Decide, Polling, LoginTypeOK
    <3>2. Gone(l) /\ TokenOf(l)
      BY DEF Tokens
    <3>3. QED
      BY <1>1, <3>1, <3>2 DEF Gone, TokenOf, Carries, Expired
  <2>3. QED
    BY <2>1, <2>2
<1>4. ASSUME NEW m \in Logins, m # l PROVE Gone(m)' /\ TokenOf(m)'
  <2>1. Gone(m) /\ TokenOf(m)
    BY DEF Tokens
  <2>2. QED
    BY <1>1, <1>2, <1>4, <2>1 DEF Gone, TokenOf, Carries, Expired
<1>5. QED
  BY <1>3, <1>4 DEF Tokens

LEMMA RestartKeepsTokens ==
  ASSUME Polling, Restart
  PROVE  Tokens'
<1>1. lost' = Logins
  BY DEF Restart
<1>2. ASSUME NEW l \in Logins PROVE ~session'[l].token
  BY SessionFields DEF Restart, Session
<1>3. QED
  BY <1>1, <1>2 DEF Tokens, Gone, TokenOf

LEMMA TickKeepsTokens ==
  ASSUME Polling, Tokens, Tick
  PROVE  Tokens'
<1>1. UNCHANGED <<code, poll, filled, lost>>
  BY DEF Tick, historyVars
<1>2. ASSUME NEW l \in Logins
      PROVE  /\ session'[l].listed = session[l].listed
             /\ session'[l].token = session[l].token
             /\ Expired(l) => Expired(l)'
  <2>1. CASE session'[l] = session[l]
    BY <2>1 DEF Expired
  <2>2. CASE session'[l] = [session[l] EXCEPT !.age = Up(@, Lifetime + 1),
                                              !.since = Up(@, Interval)]
    <3>1. /\ session'[l].listed = session[l].listed
          /\ session'[l].token = session[l].token
          /\ session'[l].age = Up(session[l].age, Lifetime + 1)
      BY <2>2, SessionFields DEF Session
    <3>2. \A n \in 0..(Lifetime + 1) : Up(n, Lifetime + 1) >= n
      BY DEF Up
    <3>3. Up(session[l].age, Lifetime + 1) \in 0..(Lifetime + 1)
      BY SessionFields DEF Up
    <3>4. QED
      BY <3>1, <3>2, <3>3, SessionFields DEF Expired
  <2>3. QED
    BY <2>1, <2>2 DEF Tick
<1>3. \A l \in Logins, q \in Polls : Carries(q, l) => Carries(q, l)'
  BY <1>1 DEF Carries
<1>4. QED
  BY <1>1, <1>2, <1>3, TokensStay

LEMMA TokensInductive ==
  ASSUME Polling, Tokens, [LoginNext]_loginVars
  PROVE  Tokens'
<1>1. CASE LoginNext
  <2>1. CASE NewAccount \/ EditAccount \/ CloseForm
    BY <2>1, PageKeepsTokens
  <2>2. ASSUME NEW l \in Logins,
               \/ ClickStart(l) \/ startKiroOIDCDeviceLogin(l) \/ StartFails(l) \/ Decide(l)
               \/ \E p \in Polls : PageStarted(p, l) \/ PageTick(p, l)
        PROVE  Tokens'
    BY <2>2, PageKeepsTokens, StartKeepsTokens
  <2>3. ASSUME NEW p \in Polls,
               \/ LookUp(p) \/ StoreToken(p) \/ PageAnswer(p)
               \/ AuthReplies(p) \/ AuthFails(p) \/ LoseAnswer(p)
        PROVE  Tokens'
    <3>1. CASE PageAnswer(p)
      BY <3>1, PageKeepsTokens
    <3>2. CASE ~PageAnswer(p)
      BY <2>3, <3>2, AnswersKeepTokens, AskKeepsTokens, DropKeepsTokens,
         StoreKeepsTokens, GiveKeepsTokens DEF LookUp, AuthReplies
    <3>3. QED
      BY <3>1, <3>2
  <2>4. CASE Restart \/ Tick
    BY <2>4, RestartKeepsTokens, TickKeepsTokens
  <2>5. QED
    BY <1>1, <2>1, <2>2, <2>3, <2>4 DEF LoginNext
<1>2. CASE UNCHANGED loginVars
  BY <1>2, PollsDoNotChange DEF loginVars, serverVars, historyVars
<1>3. QED
  BY <1>1, <1>2

\* The token that the auth server gives once is not lost between polls that overlap: a
\* poll carries it until it is in a form, or a fault or the login's age explains where
\* it went; and a login that has its token stays.
THEOREM TokenArrives == LoginSpec => []TokenIsOnItsWay
<1>1. LoginInit => Tokens
  BY DEF LoginInit, Tokens, Gone, TokenOf, NoSession
<1>2. Tokens => TokenIsOnItsWay
  BY DEF Tokens, TokenOf, TokenIsOnItsWay
<1>3. QED
  BY <1>1, <1>2, TokensInductive, AlwaysPolling, PTL DEF LoginSpec

-----------------------------------------------------------------------------
(* The page.                                                               *)

\* What may still bring a token to the page was started in this form, or was not
\* stopped when the last one was closed.
Watching == Watched \subseteq own /\ FormHasItsOwnToken

LEMMA WatchingInductive ==
  ASSUME Polling, Watching, [LoginNext]_loginVars
  PROVE  Watching'
<1> USE DEF Watching, Watched, Polled, FormHasItsOwnToken, serverVars, historyVars, pageVars
<1>1. CASE NewAccount \/ EditAccount
  BY <1>1 DEF NewAccount, EditAccount, clearAuthPolling
<1>2. CASE CloseForm
  BY <1>2 DEF CloseForm, clearAuthPolling
<1>3. ASSUME NEW l \in Logins, ClickStart(l) PROVE Watching'
  BY <1>3 DEF ClickStart, clearAuthPolling
<1>4. ASSUME NEW l \in Logins, NEW p \in Polls, PageStarted(p, l) \/ PageTick(p, l)
      PROVE  Watching'
  <2>1. Polled' \subseteq Polled \cup {l} /\ l \in own
    BY <1>4, ZenonT(60) DEF PageStarted, PageTick, SendPoll, NoPoll, Polling, LoginTypeOK
  <2>2. QED
    BY <1>4, <2>1 DEF PageStarted, PageTick
<1>5. ASSUME NEW p \in Polls, PageAnswer(p) PROVE Watching'
  <2>1. Polled' \subseteq Polled /\ poll[p].login \in Polled
    BY <1>5 DEF PageAnswer, TakeToken, ShowError, KeepWaiting, EndPoll, NoPoll, Polling,
                LoginTypeOK
  <2>2. QED
    BY <1>5, <2>1 DEF PageAnswer, TakeToken, ShowError, KeepWaiting, clearAuthPolling
<1>6. ASSUME NEW p \in Polls,
             \/ LookUp(p) \/ StoreToken(p) \/ AuthReplies(p) \/ AuthFails(p)
             \/ LoseAnswer(p)
      PROVE  Watching'
  <2>1. poll[p].at # "idle" /\ UNCHANGED <<starting, intervals, open, form, own>>
    BY <1>6 DEF LookUp, NotFound, AlreadyComplete, DropExpired, TooSoon, Ask, Arrived,
                StoreToken, AuthReplies, AuthGives, AuthGivesNothing, AuthFails, LoseAnswer
  <2>2. \A q \in Polls : q # p => poll'[q] = poll[q]
    BY <1>6 DEF LookUp, NotFound, AlreadyComplete, DropExpired, TooSoon, Ask, StoreToken,
                AuthReplies, AuthGives, AuthGivesNothing, AuthFails, LoseAnswer, Answer,
                Polling, LoginTypeOK
  <2>3. \/ \E status, k : Answer(p, status, k)
        \/ \E at : poll' = [poll EXCEPT ![p].at = at]
        \/ poll' = [poll EXCEPT ![p].status = "error", ![p].kas = FALSE]
    BY <1>6 DEF LookUp, NotFound, AlreadyComplete, DropExpired, TooSoon, Ask, StoreToken,
                AuthReplies, AuthGives, AuthGivesNothing, AuthFails, LoseAnswer
  <2>6. poll'[p].login = poll[p].login
    BY <2>3, AnswersKeepLogin
  <2>4. Polled' \subseteq Polled
    BY <2>1, <2>2, <2>6
  <2>5. QED
    BY <2>1, <2>4
<1>7. CASE Restart
  <2>1. ASSUME NEW q \in Polls
        PROVE  poll'[q].login = poll[q].login /\ (poll'[q].at # "idle" => poll[q].at # "idle")
    BY <1>7, Fields DEF Restart, Poll
  <2>2. QED
    BY <1>7, <2>1, ZenonT(60) DEF Restart
<1>8. CASE Tick \/ (\E l \in Logins : startKiroOIDCDeviceLogin(l) \/ Decide(l))
  <2>1. UNCHANGED <<poll, pageVars, own>>
    BY <1>8 DEF Tick, startKiroOIDCDeviceLogin, Decide
  <2>2. QED
    BY <2>1
<1>9. ASSUME NEW l \in Logins, StartFails(l) PROVE Watching'
  BY <1>9 DEF StartFails
<1>10. CASE UNCHANGED loginVars
  BY <1>10 DEF loginVars
<1>11. QED
  BY <1>1, <1>2, <1>3, <1>4, <1>5, <1>6, <1>7, <1>8, <1>9, <1>10 DEF LoginNext

\* The token in the form of a login is that of a login started in this form, whatever
\* polls, starts and forgotten intervals are left over from another form.
THEOREM FormsGetTheirOwnToken == LoginSpec => []FormHasItsOwnToken
<1>1. LoginInit => Watching
  BY DEF LoginInit, Watching, Watched, Polled, FormHasItsOwnToken, NoPoll
<1>2. Watching => FormHasItsOwnToken
  BY DEF Watching
<1>3. QED
  BY <1>1, <1>2, WatchingInductive, AlwaysPolling, PTL DEF LoginSpec

\* Until two logins were started at once, a login is either being started or polled,
\* and there is only the interval that authPollTimer names.
OneAtATime ==
  ~doubled =>
    /\ intervals \subseteq {timer}
    /\ starting = {} \/ intervals = {}
    /\ \A l, m \in starting : l = m

LEMMA OneAtATimeInductive ==
  ASSUME Polling, OneAtATime, [LoginNext]_loginVars
  PROVE  OneAtATime'
<1> USE DEF OneAtATime, serverVars, historyVars, pageVars
<1>1. CASE NewAccount \/ CloseForm
  BY <1>1 DEF NewAccount, CloseForm, clearAuthPolling
<1>2. ASSUME NEW l \in Logins, ClickStart(l) PROVE OneAtATime'
  BY <1>2 DEF ClickStart, clearAuthPolling
<1>3. ASSUME NEW l \in Logins, NEW p \in Polls, PageStarted(p, l) PROVE OneAtATime'
  BY <1>3 DEF PageStarted
<1>4. ASSUME NEW p \in Polls, TakeToken(p) \/ ShowError(p) PROVE OneAtATime'
  BY <1>4 DEF TakeToken, ShowError, clearAuthPolling
<1>5. ASSUME NEW l \in Logins, StartFails(l) PROVE OneAtATime'
  BY <1>5 DEF StartFails
<1>6. ASSUME \/ EditAccount
             \/ \E l \in Logins :
                  \/ startKiroOIDCDeviceLogin(l) \/ Decide(l)
                  \/ \E p \in Polls : PageTick(p, l)
             \/ \E p \in Polls :
                  \/ LookUp(p) \/ StoreToken(p) \/ KeepWaiting(p)
                  \/ AuthReplies(p) \/ AuthFails(p) \/ LoseAnswer(p)
             \/ Restart \/ Tick
      PROVE  OneAtATime'
  <2>1. UNCHANGED <<starting, intervals, timer, doubled>>
    BY <1>6 DEF EditAccount, startKiroOIDCDeviceLogin, Decide, PageTick, LookUp, NotFound,
                AlreadyComplete, DropExpired, TooSoon, Ask, StoreToken, KeepWaiting,
                AuthReplies, AuthGives, AuthGivesNothing, AuthFails, LoseAnswer, Restart, Tick
  <2>2. QED
    BY <2>1
<1>7. CASE UNCHANGED loginVars
  BY <1>7 DEF loginVars
<1>8. QED
  BY <1>1, <1>2, <1>3, <1>4, <1>5, <1>6, <1>7 DEF LoginNext, PageAnswer

\* The page polls one login and remembers its interval, unless a login was started
\* while another was being started.
THEOREM OneIntervalIsLeft == LoginSpec => []OneLoginIsPolled
<1>1. LoginInit => OneAtATime
  BY DEF LoginInit, OneAtATime
<1>2. OneAtATime => OneLoginIsPolled
  BY DEF OneAtATime, OneLoginIsPolled
<1>3. QED
  BY <1>1, <1>2, OneAtATimeInductive, AlwaysPolling, PTL DEF LoginSpec
=============================================================================
