--------------------------- MODULE AccountLimiter ---------------------------
(***************************************************************************)
(* The limiter of kiro-admin (main.go, tryAcquireAccountSlot): for each    *)
(* account, how many requests are in flight and when the requests of the   *)
(* last second started, in one map under one mutex.                        *)
(*                                                                         *)
(* A caller reads the clock BEFORE it takes the mutex, so callers may get  *)
(* the mutex in another order than the one in which they read the clock.   *)
(* The limits are those of the token file the caller has read; the admin   *)
(* may have changed them since, and other callers may have other limits.   *)
(***************************************************************************)
EXTENDS Integers, FiniteSets

CONSTANTS
  Callers,     \* goroutines that serve requests
  Accounts,
  NoAccount,
  Limits,      \* the limits token files may hold, RPS in tenths
  Window,      \* one second, in ticks of the clock
  MinRetry,    \* 100 ms
  MaxTime      \* bound: ticks of the clock

ASSUME LimiterAssumption ==
  /\ IsFiniteSet(Callers)
  /\ NoAccount \notin Accounts
  /\ Limits \subseteq [rps : Int, concurrency : Int]
  /\ Window \in Nat \ {0}
  /\ MinRetry \in 1..Window
  /\ MaxTime \in Nat

VARIABLES
  clock,
  inFlight,   \* accountLimiterState.inFlight
  starts,     \* accountLimiterState.starts; tickets give the order in the slice
  call,       \* the callers
  tickets,    \* history: how many calls were admitted
  admitted,   \* history: all of them
  lastNow,    \* history: the latest clock reading used under the mutex
  late        \* history: a call used an earlier reading than one before it

limiterVars == <<clock, inFlight, starts, call, tickets, admitted, lastNow, late>>

-----------------------------------------------------------------------------
(* normalizeTokenLimits, and what tryAcquireAccountSlot makes of the limits. *)

defaultAccountRPS == 20
defaultAccountConcurrency == 4

Concurrency(limits) ==
  IF limits.concurrency <= 0 THEN defaultAccountConcurrency ELSE limits.concurrency

\* int(RPS), and at least 1.
rpsLimit(limits) ==
  LET tenths == IF limits.rps <= 0 THEN defaultAccountRPS ELSE limits.rps
  IN  IF tenths < 10 THEN 1 ELSE tenths \div 10

-----------------------------------------------------------------------------
Start == [ticket : Nat, at : Nat, rps : Nat]

Limit == [rps : Int, concurrency : Int]

NoLimits == [rps |-> 0, concurrency |-> 0]

\* limits: of the token the caller read.  now: its clock reading.  ticket: its
\* admission, or the last one before it was turned away.  due: when it may try
\* again.  room: how many starts counted against it.
Call == [pc      : {"idle", "clocked", "holding", "waiting"},
         account : Accounts \cup {NoAccount},
         limits  : Limit,
         now     : Nat,
         ticket  : Nat,
         due     : Nat,
         room    : Nat]

IdleCall == [pc |-> "idle", account |-> NoAccount, limits |-> NoLimits,
             now |-> 0, ticket |-> 0, due |-> 0, room |-> 0]

LimiterTypeOK ==
  /\ clock \in 0..MaxTime
  /\ inFlight \in [Accounts -> Nat]
  /\ starts \in [Accounts -> SUBSET Start]
  /\ call \in [Callers -> Call]
  /\ tickets \in [Accounts -> Nat]
  /\ admitted \in [Accounts -> SUBSET Start]
  /\ lastNow \in [Accounts -> Nat]
  /\ late \in [Accounts -> BOOLEAN]

LimiterInit ==
  /\ clock = 0
  /\ inFlight = [a \in Accounts |-> 0]
  /\ starts = [a \in Accounts |-> {}]
  /\ call = [c \in Callers |-> IdleCall]
  /\ tickets = [a \in Accounts |-> 0]
  /\ admitted = [a \in Accounts |-> {}]
  /\ lastNow = [a \in Accounts |-> 0]
  /\ late = [a \in Accounts |-> FALSE]

\* now := time.Now(), with the account the caller has chosen.
ReadClock(c, a, limits) ==
  /\ call[c].pc \in {"idle", "waiting"}
  /\ call' = [call EXCEPT ![c] = [IdleCall EXCEPT !.pc = "clocked", !.account = a,
                                                  !.limits = limits, !.now = clock]]
  /\ UNCHANGED <<clock, inFlight, starts, tickets, admitted, lastNow, late>>

\* Bug: starts are forgotten one tick too early.
Bug_Kept(a, now) == {s \in starts[a] : s.at > now + 1 - Window}

\* The starts of the last second before now: all that pruning leaves.
Kept(a, now) == {s \in starts[a] : s.at > now - Window}

\* Bug: one request more than the limit.
Bug_HasSlot(a, limits) == inFlight[a] <= Concurrency(limits)

HasSlot(a, limits) == inFlight[a] < Concurrency(limits)

\* The clock reading is used under the mutex.
Use(a, now) ==
  /\ lastNow' = [lastNow EXCEPT ![a] = IF now > @ THEN now ELSE @]
  /\ late' = [late EXCEPT ![a] = @ \/ now < lastNow[a]]

Admit(c) ==
  LET a      == call[c].account
      now    == call[c].now
      limits == call[c].limits
      start  == [ticket |-> tickets[a] + 1, at |-> now, rps |-> rpsLimit(limits)]
  IN  /\ call[c].pc = "clocked"
      /\ HasSlot(a, limits)
      /\ Cardinality(Kept(a, now)) < rpsLimit(limits)
      /\ inFlight' = [inFlight EXCEPT ![a] = @ + 1]
      /\ starts' = [starts EXCEPT ![a] = Kept(a, now) \cup {start}]
      /\ tickets' = [tickets EXCEPT ![a] = @ + 1]
      /\ admitted' = [admitted EXCEPT ![a] = @ \cup {start}]
      /\ call' = [call EXCEPT ![c].pc = "holding", ![c].ticket = tickets[a] + 1]
      /\ Use(a, now)
      /\ UNCHANGED clock

\* Bug: the time that has passed is counted as the time to wait.
Bug_RetryAfter(first, now) ==
  IF now - first.at < MinRetry THEN MinRetry ELSE now - first.at

\* How long until the first start in the slice is a second old.
RetryAfter(first, now) ==
  LET wait == Window - (now - first.at)
  IN  IF wait < MinRetry THEN MinRetry ELSE wait

\* Turned away by the concurrency limit; the starts are pruned all the same.
RejectBusy(c) ==
  LET a   == call[c].account
      now == call[c].now
  IN  /\ call[c].pc = "clocked"
      /\ ~HasSlot(a, call[c].limits)
      /\ starts' = [starts EXCEPT ![a] = Kept(a, now)]
      /\ call' = [call EXCEPT ![c] = IdleCall]
      /\ Use(a, now)
      /\ UNCHANGED <<clock, inFlight, tickets, admitted>>

\* Turned away by the rate limit.
RejectRate(c) ==
  LET a    == call[c].account
      now  == call[c].now
      kept == Kept(a, now)
  IN  /\ call[c].pc = "clocked"
      /\ HasSlot(a, call[c].limits)
      /\ Cardinality(kept) >= rpsLimit(call[c].limits)
      /\ starts' = [starts EXCEPT ![a] = kept]
      /\ \E first \in kept :
           /\ \A s \in kept : first.ticket <= s.ticket
           /\ call' = [call EXCEPT ![c].pc = "waiting",
                                   ![c].ticket = tickets[a],
                                   ![c].due = now + RetryAfter(first, now),
                                   ![c].room = Cardinality(kept)]
      /\ Use(a, now)
      /\ UNCHANGED <<clock, inFlight, tickets, admitted>>

\* Bug: the slot is kept.
Bug_Release(c) ==
  /\ call[c].pc = "holding"
  /\ call' = [call EXCEPT ![c] = IdleCall]
  /\ UNCHANGED <<clock, inFlight, starts, tickets, admitted, lastNow, late>>

\* Bug: given back by the handler and by its deferred call.
Bug_ReleaseTwice(c) ==
  /\ call[c].pc = "holding"
  /\ inFlight' = [inFlight EXCEPT ![call[c].account] = IF @ > 0 THEN @ - 2 ELSE @]
  /\ call' = [call EXCEPT ![c] = IdleCall]
  /\ UNCHANGED <<clock, starts, tickets, admitted, lastNow, late>>

\* The closure the handler defers.
Release(c) ==
  /\ call[c].pc = "holding"
  /\ inFlight' = [inFlight EXCEPT ![call[c].account] = IF @ > 0 THEN @ - 1 ELSE @]
  /\ call' = [call EXCEPT ![c] = IdleCall]
  /\ UNCHANGED <<clock, starts, tickets, admitted, lastNow, late>>

Tick ==
  /\ clock < MaxTime
  /\ clock' = clock + 1
  /\ UNCHANGED <<inFlight, starts, call, tickets, admitted, lastNow, late>>

LimiterNext ==
  \/ \E c \in Callers :
       \/ \E a \in Accounts, limits \in Limits : ReadClock(c, a, limits)
       \/ Admit(c) \/ RejectBusy(c) \/ RejectRate(c) \/ Release(c)
  \/ Tick

LimiterSpec == LimiterInit /\ [][LimiterNext]_limiterVars

-----------------------------------------------------------------------------
(* Properties.                                                             *)

Holding(a) == {c \in Callers : call[c].pc = "holding" /\ call[c].account = a}

\* inFlight counts the requests that hold a slot of the account, no matter how
\* admissions and releases interleave: none leaks and none is given back twice.
CountsAreExact == \A a \in Accounts : inFlight[a] = Cardinality(Holding(a))

\* Those admitted no later than c that still hold a slot of its account.
NoLaterThan(c) ==
  {d \in Holding(call[c].account) : call[d].ticket <= call[c].ticket}

\* A request in flight is never more than the Nth in line, N being the
\* concurrency limit of the token it was admitted with: also while the admin
\* lowers and raises the limit, and requests with the old and the new limit
\* are in flight together.
WithinConcurrency ==
  \A c \in Callers : call[c].pc = "holding" =>
    Cardinality(NoLaterThan(c)) <= Concurrency(call[c].limits)

\* The admissions of the second before s, s among them.
SecondBefore(a, s) ==
  {t \in admitted[a] : t.ticket <= s.ticket /\ t.at > s.at - Window}

\* No request is admitted as more than the Nth of its last second, N being its
\* rate limit, although turned-away calls prune the list as well.  It takes
\* callers that use their clock readings in the order they made them.
RateHolds ==
  \A a \in Accounts : ~late[a] =>
    \A s \in admitted[a] : Cardinality(SecondBefore(a, s)) <= s.rps

\* What a turned-away caller is told to wait is enough: unless others were
\* admitted meanwhile, fewer starts count against it when the time has come.
WaitingMakesRoom ==
  \A c \in Callers :
    /\ call[c].pc = "waiting"
    /\ tickets[call[c].account] = call[c].ticket
    /\ clock >= call[c].due
    => Cardinality(Kept(call[c].account, clock)) < call[c].room
=============================================================================
