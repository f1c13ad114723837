----------------------- MODULE AccountLimiter_proofs -----------------------
(***************************************************************************)
(* Proofs about AccountLimiter, for any set of accounts and limits, any    *)
(* finite set of callers and any length of the second.                     *)
(*                                                                         *)
(* Basics is inductive by itself; each property is then proved inductive   *)
(* relative to it.  Tickets number the admissions of an account, so what   *)
(* an admission adds is later than all there was.                          *)
(***************************************************************************)
EXTENDS AccountLimiter, FiniteSetTheorems, TLAPS

USE LimiterAssumption DEF LimiterAssumption

CallsOK ==
  \A c \in Callers :
    /\ call[c].pc # "idle" => call[c].account \in Accounts
    /\ call[c].now <= clock
    /\ call[c].pc = "holding" => call[c].ticket \in 1..tickets[call[c].account]

TicketsDiffer ==
  \A c, d \in Callers :
    /\ call[c].pc = "holding" /\ call[d].pc = "holding"
    /\ call[c].account = call[d].account
    /\ call[c].ticket = call[d].ticket
    => c = d

StartsOK ==
  \A a \in Accounts :
    /\ IsFiniteSet(admitted[a])
    /\ starts[a] \subseteq admitted[a]
    /\ lastNow[a] <= clock
    /\ \A s \in admitted[a] : s.ticket \in 1..tickets[a]

Basics == LimiterTypeOK /\ CallsOK /\ TicketsDiffer /\ StartsOK

-----------------------------------------------------------------------------
(* Types. *)

LEMMA LimitTypes ==
  ASSUME NEW limits \in Limit
  PROVE  Concurrency(limits) \in Nat \ {0} /\ rpsLimit(limits) \in Nat \ {0}
<1>1. limits.rps \in Int /\ limits.concurrency \in Int
  BY DEF Limit
<1>2. Concurrency(limits) \in Nat \ {0}
  BY <1>1 DEF Concurrency, defaultAccountConcurrency
<1>3. rpsLimit(limits) \in Nat \ {0}
  BY <1>1 DEF rpsLimit, defaultAccountRPS
<1>4. QED
  BY <1>2, <1>3

LEMMA IdleCallType == IdleCall \in Call /\ IdleCall.pc = "idle" /\ IdleCall.now = 0
BY DEF IdleCall, Call, NoLimits, Limit

\* What Use leaves: the times stay times, and the latest one is in the past.
LEMMA UseType ==
  ASSUME Basics, NEW a \in Accounts, NEW now \in Nat, now <= clock,
         clock' = clock, Use(a, now)
  PROVE  /\ lastNow' \in [Accounts -> Nat]
         /\ late' \in [Accounts -> BOOLEAN]
         /\ \A b \in Accounts : lastNow'[b] <= clock'
<1>1. lastNow \in [Accounts -> Nat] /\ late \in [Accounts -> BOOLEAN]
  BY DEF Basics, LimiterTypeOK
<1>2. lastNow' \in [Accounts -> Nat]
  BY <1>1 DEF Use
<1>3. late' \in [Accounts -> BOOLEAN]
  BY <1>1 DEF Use
<1>4. \A b \in Accounts : lastNow'[b] <= clock'
  BY <1>1 DEF Use, Basics, StartsOK
<1>5. QED
  BY <1>2, <1>3, <1>4

\* A caller's frame, taken apart.
LEMMA CallFields ==
  ASSUME Basics, NEW c \in Callers
  PROVE  /\ call[c] \in Call
         /\ call[c].limits \in Limit
         /\ call[c].now \in Nat
         /\ call[c].ticket \in Nat
         /\ call[c].due \in Nat
         /\ call[c].room \in Nat
         /\ call[c].now <= clock
         /\ call[c].pc # "idle" => call[c].account \in Accounts
         /\ clock \in Nat
BY DEF Basics, LimiterTypeOK, CallsOK, Call

LEMMA KeptFinite ==
  ASSUME Basics, NEW a \in Accounts, NEW now \in Nat
  PROVE  /\ IsFiniteSet(Kept(a, now))
         /\ Cardinality(Kept(a, now)) \in Nat
         /\ Kept(a, now) \subseteq starts[a]
         /\ Kept(a, now) \subseteq Start
<1>1. Kept(a, now) \subseteq admitted[a] /\ IsFiniteSet(admitted[a])
  BY DEF Basics, StartsOK, Kept
<1>2. IsFiniteSet(Kept(a, now))
  BY <1>1, FS_Subset
<1>3. Kept(a, now) \subseteq starts[a] /\ Kept(a, now) \subseteq Start
  BY DEF Basics, LimiterTypeOK, Kept
<1>4. QED
  BY <1>2, <1>3, FS_CardinalityType

-----------------------------------------------------------------------------
(* Basics is inductive.                                                    *)

LEMMA BasicsInit == LimiterInit => Basics
<1>1. SUFFICES ASSUME LimiterInit PROVE Basics
  OBVIOUS
<1>2. LimiterTypeOK
  BY <1>1, IdleCallType DEF LimiterInit, LimiterTypeOK
<1>3. CallsOK /\ TicketsDiffer
  BY <1>1, IdleCallType DEF LimiterInit, CallsOK, TicketsDiffer
<1>4. StartsOK
  BY <1>1, FS_EmptySet DEF LimiterInit, StartsOK
<1>5. QED
  BY <1>2, <1>3, <1>4 DEF Basics

LEMMA ReadClockBasics ==
  ASSUME Basics, NEW c \in Callers, NEW a \in Accounts, NEW limits \in Limits,
         ReadClock(c, a, limits)
  PROVE  Basics'
<1> DEFINE new == [IdleCall EXCEPT !.pc = "clocked", !.account = a,
                                   !.limits = limits, !.now = clock]
<1>0. limits \in Limit /\ clock \in Nat
  BY DEF Limit, Basics, LimiterTypeOK
<1>1. new \in Call /\ new.pc = "clocked" /\ new.account = a /\ new.now = clock
  BY <1>0 DEF IdleCall, Call
<1>2. call' = [call EXCEPT ![c] = new]
  BY DEF ReadClock
<1> HIDE DEF new
<1>3. UNCHANGED <<clock, inFlight, starts, tickets, admitted, lastNow, late>>
  BY DEF ReadClock
<1>4. LimiterTypeOK'
  BY <1>1, <1>2, <1>3 DEF Basics, LimiterTypeOK
<1>5. CallsOK'
  BY <1>1, <1>2, <1>3 DEF Basics, LimiterTypeOK, CallsOK
<1>6. TicketsDiffer'
  BY <1>1, <1>2, <1>3 DEF Basics, LimiterTypeOK, TicketsDiffer
<1>7. StartsOK'
  BY <1>3 DEF Basics, StartsOK
<1>8. QED
  BY <1>4, <1>5, <1>6, <1>7 DEF Basics

\* The start an admission adds.
NewStart(c) == [ticket |-> tickets[call[c].account] + 1, at |-> call[c].now,
                rps |-> rpsLimit(call[c].limits)]

LEMMA NewStartType ==
  ASSUME Basics, NEW c \in Callers, call[c].pc = "clocked"
  PROVE  /\ NewStart(c) \in Start
         /\ NewStart(c).ticket = tickets[call[c].account] + 1
         /\ NewStart(c).at = call[c].now
         /\ NewStart(c).rps = rpsLimit(call[c].limits)
         /\ NewStart(c) \notin admitted[call[c].account]
         /\ call[c].account \in Accounts
         /\ tickets[call[c].account] \in Nat
<1>1. call[c].account \in Accounts /\ call[c].now \in Nat /\ call[c].limits \in Limit
  BY CallFields
<1>2. tickets[call[c].account] \in Nat
  BY <1>1 DEF Basics, LimiterTypeOK
<1>3. rpsLimit(call[c].limits) \in Nat
  BY <1>1, LimitTypes
<1>4. NewStart(c) \in Start /\ NewStart(c).ticket = tickets[call[c].account] + 1
  BY <1>1, <1>2, <1>3 DEF NewStart, Start
<1>5. NewStart(c) \notin admitted[call[c].account]
  BY <1>1, <1>2, <1>4 DEF Basics, StartsOK
<1>6. QED
  BY <1>1, <1>2, <1>4, <1>5 DEF NewStart

LEMMA AdmitBasics ==
  ASSUME Basics, NEW c \in Callers, Admit(c)
  PROVE  Basics'
<1> DEFINE a == call[c].account
           now == call[c].now
<1>0. call[c].pc = "clocked"
  BY DEF Admit
<1>1. a \in Accounts /\ now \in Nat /\ now <= clock /\ call[c] \in Call
  BY <1>0, CallFields
<1>2. /\ inFlight' = [inFlight EXCEPT ![a] = @ + 1]
      /\ starts' = [starts EXCEPT ![a] = Kept(a, now) \cup {NewStart(c)}]
      /\ tickets' = [tickets EXCEPT ![a] = @ + 1]
      /\ admitted' = [admitted EXCEPT ![a] = @ \cup {NewStart(c)}]
      /\ Use(a, now)
      /\ clock' = clock
  BY DEF Admit, NewStart
<1> DEFINE new == [call[c] EXCEPT !.pc = "holding", !.ticket = tickets[a] + 1]
<1>3. call' = [call EXCEPT ![c] = new]
  BY DEF Admit, Basics, LimiterTypeOK
<1>4. tickets[a] \in Nat
  BY <1>1 DEF Basics, LimiterTypeOK
<1>5. /\ new \in Call /\ new.pc = "holding" /\ new.account = a /\ new.now = now
      /\ new.ticket = tickets[a] + 1
  <2>1. tickets[a] + 1 \in Nat
    BY <1>4
  <2>2. QED
    BY <1>1, <2>1 DEF Call
<1> HIDE DEF new, a, now
<1>6. NewStart(c) \in Start /\ NewStart(c).ticket = tickets[a] + 1
  BY <1>0, NewStartType DEF a
<1>7. LimiterTypeOK'
  <2>1. inFlight' \in [Accounts -> Nat] /\ tickets' \in [Accounts -> Nat]
    BY <1>1, <1>2 DEF Basics, LimiterTypeOK
  <2>2. starts' \in [Accounts -> SUBSET Start]
    BY <1>1, <1>2, <1>6, KeptFinite DEF Basics, LimiterTypeOK
  <2>3. admitted' \in [Accounts -> SUBSET Start]
    BY <1>1, <1>2, <1>6 DEF Basics, LimiterTypeOK
  <2>4. call' \in [Callers -> Call]
    BY <1>3, <1>5 DEF Basics, LimiterTypeOK
  <2>5. clock' \in 0..MaxTime
    BY <1>2 DEF Basics, LimiterTypeOK
  <2>6. QED
    BY <1>1, <1>2, <2>1, <2>2, <2>3, <2>4, <2>5, UseType DEF LimiterTypeOK
<1>8. CallsOK'
  BY <1>1, <1>2, <1>3, <1>4, <1>5 DEF Basics, LimiterTypeOK, CallsOK
<1>9. TicketsDiffer'
  <2>1. \A d \in Callers : call[d].pc = "holding" /\ call[d].account = a
                             => call[d].ticket # tickets[a] + 1
    BY <1>1, <1>4 DEF Basics, CallsOK
  <2>2. QED
    BY <1>3, <1>5, <2>1 DEF Basics, LimiterTypeOK, TicketsDiffer
<1>10. StartsOK'
  <2>1. IsFiniteSet(admitted[a] \cup {NewStart(c)})
    BY <1>1, FS_AddElement DEF Basics, StartsOK
  <2>2. \A b \in Accounts : IsFiniteSet(admitted'[b])
    BY <1>1, <1>2, <2>1 DEF Basics, LimiterTypeOK, StartsOK
  <2>3. \A b \in Accounts : starts'[b] \subseteq admitted'[b]
    BY <1>1, <1>2, KeptFinite DEF Basics, LimiterTypeOK, StartsOK
  <2>4. \A b \in Accounts : lastNow'[b] <= clock'
    BY <1>1, <1>2, UseType
  <2>5. \A b \in Accounts : \A s \in admitted'[b] : s.ticket \in 1..tickets'[b]
    BY <1>1, <1>2, <1>4, <1>6 DEF Basics, LimiterTypeOK, StartsOK
  <2>6. QED
    BY <2>2, <2>3, <2>4, <2>5 DEF StartsOK
<1>11. QED
  BY <1>7, <1>8, <1>9, <1>10 DEF Basics

\* A call that is turned away, and one that ends: it holds nothing afterwards,
\* and starts are at most pruned.
LEMMA EndsBasics ==
  ASSUME Basics, NEW c \in Callers, NEW new \in Call,
         new.pc \in {"idle", "waiting"},
         new.pc # "idle" => new.account \in Accounts,
         new.now <= clock,
         call' = [call EXCEPT ![c] = new],
         inFlight' \in [Accounts -> Nat],
         starts' \in [Accounts -> SUBSET Start],
         \A b \in Accounts : starts'[b] \subseteq starts[b],
         lastNow' \in [Accounts -> Nat],
         late' \in [Accounts -> BOOLEAN],
         \A b \in Accounts : lastNow'[b] <= clock',
         UNCHANGED <<clock, tickets, admitted>>
  PROVE  Basics'
<1>1. LimiterTypeOK'
  BY DEF Basics, LimiterTypeOK
<1>2. CallsOK'
  BY DEF Basics, LimiterTypeOK, CallsOK
<1>3. TicketsDiffer'
  BY DEF Basics, LimiterTypeOK, TicketsDiffer
<1>4. StartsOK'
  BY DEF Basics, StartsOK
<1>5. QED
  BY <1>1, <1>2, <1>3, <1>4 DEF Basics

\* What both ways to turn a call away do to the starts.
LEMMA Pruned ==
  ASSUME Basics, NEW a \in Accounts, NEW now \in Nat,
         starts' = [starts EXCEPT ![a] = Kept(a, now)]
  PROVE  /\ starts' \in [Accounts -> SUBSET Start]
         /\ \A b \in Accounts : starts'[b] \subseteq starts[b]
         /\ starts'[a] = Kept(a, now)
         /\ \A b \in Accounts \ {a} : starts'[b] = starts[b]
BY KeptFinite DEF Basics, LimiterTypeOK

LEMMA RejectBusyBasics ==
  ASSUME Basics, NEW c \in Callers, RejectBusy(c)
  PROVE  Basics'
<1>1. call[c].account \in Accounts /\ call[c].now \in Nat /\ call[c].now <= clock
  BY CallFields DEF RejectBusy
<1>2. inFlight' \in [Accounts -> Nat]
  BY DEF RejectBusy, Basics, LimiterTypeOK
<1>3. 0 <= clock
  BY CallFields
<1>4. QED
  BY <1>1, <1>2, <1>3, IdleCallType, Pruned, UseType, EndsBasics DEF RejectBusy

\* The frame a call that the rate limit turns away leaves.
Told(c, first) ==
  [call[c] EXCEPT !.pc = "waiting",
                  !.ticket = tickets[call[c].account],
                  !.due = call[c].now + RetryAfter(first, call[c].now),
                  !.room = Cardinality(Kept(call[c].account, call[c].now))]

LEMMA ToldType ==
  ASSUME Basics, NEW c \in Callers, call[c].pc = "clocked",
         NEW first \in Kept(call[c].account, call[c].now)
  PROVE  /\ Told(c, first) \in Call
         /\ Told(c, first).pc = "waiting"
         /\ Told(c, first).account = call[c].account
         /\ Told(c, first).now = call[c].now
         /\ Told(c, first).due = call[c].now + RetryAfter(first, call[c].now)
         /\ Told(c, first).room = Cardinality(Kept(call[c].account, call[c].now))
         /\ Told(c, first).ticket = tickets[call[c].account]
         /\ RetryAfter(first, call[c].now) \in Nat
         /\ Told(c, first).due >= first.at + Window
<1>1. /\ call[c].account \in Accounts /\ call[c].now \in Nat /\ call[c] \in Call
  BY CallFields
<1>2. first \in Start /\ first.at \in Nat
  BY <1>1, KeptFinite DEF Start
<1>3. RetryAfter(first, call[c].now) \in Nat
  BY <1>1, <1>2 DEF RetryAfter
<1>4. call[c].now + RetryAfter(first, call[c].now) >= first.at + Window
  BY <1>1, <1>2 DEF RetryAfter
<1>5. call[c].now + RetryAfter(first, call[c].now) \in Nat
  BY <1>1, <1>3
<1>6. Cardinality(Kept(call[c].account, call[c].now)) \in Nat
  BY <1>1, KeptFinite
<1>7. tickets[call[c].account] \in Nat
  BY <1>1 DEF Basics, LimiterTypeOK
<1>8. QED
  BY <1>1, <1>3, <1>4, <1>5, <1>6, <1>7 DEF Told, Call

LEMMA RejectRateBasics ==
  ASSUME Basics, NEW c \in Callers, RejectRate(c)
  PROVE  Basics'
<1>1. /\ call[c].account \in Accounts /\ call[c].now \in Nat /\ call[c].now <= clock
      /\ call[c].pc = "clocked" /\ call[c] \in Call
  BY CallFields DEF RejectRate
<1>2. inFlight' \in [Accounts -> Nat]
  BY DEF RejectRate, Basics, LimiterTypeOK
<1>3. PICK first \in Kept(call[c].account, call[c].now) :
         call' = [call EXCEPT ![c] = Told(c, first)]
  BY ZenonT(60) DEF RejectRate, Told, Basics, LimiterTypeOK
<1>4. /\ Told(c, first) \in Call /\ Told(c, first).pc = "waiting"
      /\ Told(c, first).account \in Accounts /\ Told(c, first).now <= clock
  BY <1>1, ToldType
<1>5. QED
  BY <1>1, <1>2, <1>3, <1>4, Pruned, UseType, EndsBasics DEF RejectRate

LEMMA ReleaseBasics ==
  ASSUME Basics, NEW c \in Callers, Release(c)
  PROVE  Basics'
<1>1. call[c].account \in Accounts /\ 0 <= clock
  BY CallFields DEF Release
<1>2. inFlight' \in [Accounts -> Nat]
  BY <1>1 DEF Release, Basics, LimiterTypeOK
<1>3. /\ starts' \in [Accounts -> SUBSET Start]
      /\ \A b \in Accounts : starts'[b] \subseteq starts[b]
  BY DEF Release, Basics, LimiterTypeOK
<1>4. /\ lastNow' \in [Accounts -> Nat]
      /\ late' \in [Accounts -> BOOLEAN]
      /\ \A b \in Accounts : lastNow'[b] <= clock'
  BY DEF Release, Basics, LimiterTypeOK, StartsOK
<1>5. QED
  BY <1>1, <1>2, <1>3, <1>4, IdleCallType, EndsBasics DEF Release

LEMMA TickBasics ==
  ASSUME Basics, Tick
  PROVE  Basics'
<1>1. clock \in Nat /\ clock' = clock + 1 /\ clock' \in 0..MaxTime
  BY DEF Basics, LimiterTypeOK, Tick
<1>2. LimiterTypeOK'
  BY <1>1 DEF Basics, LimiterTypeOK, Tick
<1>3. CallsOK'
  <2>1. \A c \in Callers : call[c].now \in Nat
    BY CallFields
  <2>2. QED
    BY <1>1, <2>1 DEF Basics, CallsOK, Tick
<1>4. TicketsDiffer'
  BY DEF Basics, TicketsDiffer, Tick
<1>5. StartsOK'
  BY <1>1 DEF Basics, LimiterTypeOK, StartsOK, Tick
<1>6. QED
  BY <1>2, <1>3, <1>4, <1>5 DEF Basics

LEMMA BasicsInductive == Basics /\ [LimiterNext]_limiterVars => Basics'
<1>1. SUFFICES ASSUME Basics, [LimiterNext]_limiterVars PROVE Basics'
  OBVIOUS
<1>2. CASE UNCHANGED limiterVars
  BY <1>1, <1>2 DEF limiterVars, Basics, LimiterTypeOK, CallsOK, TicketsDiffer, StartsOK
<1>3. CASE Tick
  BY <1>1, <1>3, TickBasics
<1>4. ASSUME NEW c \in Callers, NEW a \in Accounts, NEW limits \in Limits,
             ReadClock(c, a, limits)
      PROVE  Basics'
  BY <1>1, <1>4, ReadClockBasics
<1>5. ASSUME NEW c \in Callers, Admit(c) \/ RejectBusy(c) \/ RejectRate(c) \/ Release(c)
      PROVE  Basics'
  BY <1>1, <1>5, AdmitBasics, RejectBusyBasics, RejectRateBasics, ReleaseBasics
<1>6. QED
  BY <1>1, <1>2, <1>3, <1>4, <1>5 DEF LimiterNext
\* The limiter starts from types that fit, and never leaves them.
THEOREM LimiterTypeCorrect == LimiterSpec => []LimiterTypeOK
<1>1. LimiterInit => Basics
  BY BasicsInit
<1>2. Basics /\ [LimiterNext]_limiterVars => Basics'
  BY BasicsInductive
<1>3. Basics => LimiterTypeOK
  BY DEF Basics
<1>4. QED
  BY <1>1, <1>2, <1>3, PTL DEF LimiterSpec

LEMMA AlwaysBasics == LimiterSpec => []Basics
<1>1. LimiterInit => Basics
  BY BasicsInit
<1>2. Basics /\ [LimiterNext]_limiterVars => Basics'
  BY BasicsInductive
<1>3. QED
  BY <1>1, <1>2, PTL DEF LimiterSpec

-----------------------------------------------------------------------------
(* What the steps do to the slots.                                         *)

LEMMA HoldingFinite ==
  ASSUME NEW a
  PROVE  IsFiniteSet(Holding(a)) /\ Cardinality(Holding(a)) \in Nat
<1>1. Holding(a) \subseteq Callers
  BY DEF Holding
<1>2. QED
  BY <1>1, FS_Subset, FS_CardinalityType

\* Aside: the step of a caller that holds no slot before it or after it.
Aside(c, new) ==
  /\ call[c].pc # "holding" /\ new.pc # "holding"
  /\ call' = [call EXCEPT ![c] = new]
  /\ UNCHANGED <<clock, inFlight, tickets, admitted>>

LEMMA AsideSteps ==
  ASSUME Basics, NEW c \in Callers,
         \/ \E a \in Accounts, limits \in Limits : ReadClock(c, a, limits)
         \/ RejectBusy(c)
         \/ RejectRate(c)
  PROVE  \E new \in Call : Aside(c, new)
<1>1. ASSUME NEW a \in Accounts, NEW limits \in Limits, ReadClock(c, a, limits)
      PROVE  \E new \in Call : Aside(c, new)
  <2> DEFINE new == [IdleCall EXCEPT !.pc = "clocked", !.account = a,
                                     !.limits = limits, !.now = clock]
  <2>1. limits \in Limit /\ clock \in Nat
    BY DEF Limit, Basics, LimiterTypeOK
  <2>2. new \in Call /\ new.pc = "clocked"
    BY <2>1 DEF IdleCall, Call
  <2>3. Aside(c, new)
    BY <1>1, <2>2 DEF ReadClock, Aside
  <2>4. QED
    BY <2>2, <2>3
<1>2. CASE RejectBusy(c)
  BY <1>2, IdleCallType DEF RejectBusy, Aside
<1>3. CASE RejectRate(c)
  <2>1. call[c].account \in Accounts /\ call[c].now \in Nat /\ call[c].pc = "clocked"
    BY <1>3, CallFields DEF RejectRate
  <2>2. PICK first \in Kept(call[c].account, call[c].now) :
           call' = [call EXCEPT ![c] = Told(c, first)]
    BY <1>3, ZenonT(60) DEF RejectRate, Told, Basics, LimiterTypeOK
  <2>3. Told(c, first) \in Call /\ Told(c, first).pc = "waiting"
    BY <2>1, ToldType
  <2>4. Aside(c, Told(c, first))
    BY <1>3, <2>1, <2>2, <2>3 DEF RejectRate, Aside
  <2>5. QED
    BY <2>3, <2>4
<1>4. QED
  BY <1>1, <1>2, <1>3

LEMMA AsideKeepsSlots ==
  ASSUME Basics, NEW c \in Callers, NEW new \in Call, Aside(c, new)
  PROVE  /\ \A a \in Accounts : Holding(a)' = Holding(a)
         /\ \A d \in Callers : call'[d].pc = "holding" => call'[d] = call[d]
BY DEF Aside, Holding, Basics, LimiterTypeOK

LEMMA AdmitSlots ==
  ASSUME Basics, NEW c \in Callers, Admit(c)
  PROVE  /\ call[c].account \in Accounts
         /\ tickets[call[c].account] \in Nat
         /\ Holding(call[c].account)' = Holding(call[c].account) \cup {c}
         /\ c \notin Holding(call[c].account)
         /\ \A b \in Accounts \ {call[c].account} : Holding(b)' = Holding(b)
         /\ call'[c].pc = "holding"
         /\ call'[c].account = call[c].account
         /\ call'[c].limits = call[c].limits
         /\ call'[c].ticket = tickets[call[c].account] + 1
         /\ \A d \in Callers \ {c} : call'[d] = call[d]
<1>1. call[c].pc = "clocked" /\ call[c].account \in Accounts /\ call[c] \in Call
  BY CallFields DEF Admit
<1>2. tickets[call[c].account] \in Nat
  BY <1>1 DEF Basics, LimiterTypeOK
<1>3. call' = [call EXCEPT ![c] = [call[c] EXCEPT !.pc = "holding",
                                   !.ticket = tickets[call[c].account] + 1]]
  BY DEF Admit, Basics, LimiterTypeOK
<1>4. /\ call'[c].pc = "holding" /\ call'[c].account = call[c].account
      /\ call'[c].limits = call[c].limits
      /\ call'[c].ticket = tickets[call[c].account] + 1
      /\ \A d \in Callers \ {c} : call'[d] = call[d]
  BY <1>1, <1>3 DEF Basics, LimiterTypeOK, Call
<1>5. QED
  BY <1>1, <1>2, <1>4 DEF Holding

LEMMA ReleaseSlots ==
  ASSUME Basics, NEW c \in Callers, Release(c), NEW a, call[c].account = a
  PROVE  /\ a \in Accounts
         /\ c \in Holding(a)
         /\ Holding(a)' = Holding(a) \ {c}
         /\ \A b \in Accounts \ {a} : Holding(b)' = Holding(b)
         /\ call'[c].pc = "idle"
         /\ \A d \in Callers \ {c} : call'[d] = call[d]
<1>1. call[c].pc = "holding" /\ call[c].account \in Accounts
  BY CallFields DEF Release
<1>2. call'[c].pc = "idle" /\ \A d \in Callers \ {c} : call'[d] = call[d]
  BY IdleCallType DEF Release, Basics, LimiterTypeOK
<1>3. QED
  BY <1>1, <1>2 DEF Holding

-----------------------------------------------------------------------------
(* inFlight counts the holders.                                            *)

LEMMA CountsInductive ==
  Basics /\ CountsAreExact /\ [LimiterNext]_limiterVars => CountsAreExact'
<1>1. SUFFICES ASSUME Basics, CountsAreExact, [LimiterNext]_limiterVars
               PROVE  CountsAreExact'
  OBVIOUS
<1>2. inFlight \in [Accounts -> Nat]
  BY <1>1 DEF Basics, LimiterTypeOK
<1>3. CASE UNCHANGED limiterVars \/ Tick
  BY <1>1, <1>3 DEF limiterVars, Tick, CountsAreExact, Holding
<1>4. ASSUME NEW c \in Callers, NEW new \in Call, Aside(c, new)
      PROVE  CountsAreExact'
  BY <1>1, <1>4, AsideKeepsSlots DEF Aside, CountsAreExact
<1>5. ASSUME NEW c \in Callers, Admit(c)
      PROVE  CountsAreExact'
  <2>1. inFlight' = [inFlight EXCEPT ![call[c].account] = @ + 1]
    BY <1>5 DEF Admit
  <2>2. Cardinality(Holding(call[c].account) \cup {c}) =
          Cardinality(Holding(call[c].account)) + 1
    BY <1>1, <1>5, AdmitSlots, HoldingFinite, FS_AddElement
  <2>3. ASSUME NEW a \in Accounts
        PROVE  inFlight'[a] = Cardinality(Holding(a)')
    <3>1. CASE a = call[c].account
      BY <1>1, <1>2, <1>5, <2>1, <2>2, <3>1, AdmitSlots DEF CountsAreExact
    <3>2. CASE a # call[c].account
      <4>1. inFlight'[a] = inFlight[a]
        BY <1>2, <2>1, <3>2
      <4>2. Holding(a)' = Holding(a)
        BY <1>1, <1>5, <3>2, AdmitSlots
      <4>3. QED
        BY <1>1, <4>1, <4>2 DEF CountsAreExact
    <3>3. QED
      BY <3>1, <3>2
  <2>4. QED
    BY <2>3 DEF CountsAreExact
<1>6. ASSUME NEW c \in Callers, Release(c)
      PROVE  CountsAreExact'
  <2>1. PICK a : call[c].account = a
    OBVIOUS
  <2>2. /\ a \in Accounts
        /\ c \in Holding(a)
        /\ Holding(a)' = Holding(a) \ {c}
        /\ \A b \in Accounts \ {a} : Holding(b)' = Holding(b)
    BY <1>1, <1>6, <2>1, ReleaseSlots
  <2>3. Cardinality(Holding(a) \ {c}) = Cardinality(Holding(a)) - 1
    BY <2>2, HoldingFinite, FS_RemoveElement
  <2>4. Cardinality(Holding(a) \ {c}) \in Nat
    BY HoldingFinite, FS_Subset, FS_CardinalityType
  <2>5. inFlight[a] = Cardinality(Holding(a)) /\ inFlight[a] > 0
    BY <1>1, <1>2, <2>2, <2>3, <2>4, HoldingFinite DEF CountsAreExact
  <2>6. /\ inFlight'[a] = inFlight[a] - 1
        /\ \A b \in Accounts \ {a} : inFlight'[b] = inFlight[b]
    BY <1>2, <1>6, <2>1, <2>2, <2>5 DEF Release
  <2>7. QED
    BY <1>1, <2>2, <2>3, <2>5, <2>6 DEF CountsAreExact
<1>7. QED
  BY <1>1, <1>3, <1>4, <1>5, <1>6, AsideSteps DEF LimiterNext

LEMMA CountsInit == LimiterInit => CountsAreExact
<1>1. SUFFICES ASSUME LimiterInit PROVE CountsAreExact
  OBVIOUS
<1>2. \A a \in Accounts : Holding(a) = {}
  BY <1>1, IdleCallType DEF LimiterInit, Holding
<1>3. QED
  BY <1>1, <1>2, FS_EmptySet DEF LimiterInit, CountsAreExact

\* However admissions, rejections and releases of any number of callers
\* interleave, inFlight is the number of requests that hold a slot.
THEOREM CountsStayExact == LimiterSpec => []CountsAreExact
<1>1. LimiterInit => CountsAreExact
  BY CountsInit
<1>2. QED
  BY <1>1, AlwaysBasics, CountsInductive, PTL DEF LimiterSpec

-----------------------------------------------------------------------------
(* No request in flight exceeds the limit it was admitted with.            *)

LEMMA LineFinite ==
  ASSUME NEW c
  PROVE  IsFiniteSet(NoLaterThan(c)) /\ Cardinality(NoLaterThan(c)) \in Nat
<1>1. NoLaterThan(c) \subseteq Holding(call[c].account)
  BY DEF NoLaterThan
<1>2. QED
  BY <1>1, HoldingFinite, FS_Subset, FS_CardinalityType

\* Nobody joins the line in front of a request that holds a slot.
LEMMA LineShrinks ==
  ASSUME Basics, WithinConcurrency, NEW d \in Callers,
         call[d].pc = "holding", call'[d] = call[d],
         NoLaterThan(d)' \subseteq NoLaterThan(d)
  PROVE  Cardinality(NoLaterThan(d)') <= Concurrency(call'[d].limits)
<1>1. Cardinality(NoLaterThan(d)') <= Cardinality(NoLaterThan(d))
  BY LineFinite, FS_Subset
<1>2. Cardinality(NoLaterThan(d)') \in Nat
  BY LineFinite, FS_Subset, FS_CardinalityType
<1>3. Concurrency(call[d].limits) \in Nat
  BY CallFields, LimitTypes
<1>4. Cardinality(NoLaterThan(d)) <= Concurrency(call[d].limits)
  BY DEF WithinConcurrency
<1>5. QED
  BY <1>1, <1>2, <1>3, <1>4, LineFinite

LEMMA WithinInductive ==
  Basics /\ CountsAreExact /\ WithinConcurrency /\ [LimiterNext]_limiterVars
    => WithinConcurrency'
<1>1. SUFFICES ASSUME Basics, CountsAreExact, WithinConcurrency,
                      [LimiterNext]_limiterVars
               PROVE  WithinConcurrency'
  OBVIOUS
<1>2. CASE UNCHANGED limiterVars \/ Tick
  BY <1>1, <1>2 DEF limiterVars, Tick, WithinConcurrency, NoLaterThan, Holding
<1>3. ASSUME NEW c \in Callers, NEW new \in Call, Aside(c, new)
      PROVE  WithinConcurrency'
  <2>1. SUFFICES ASSUME NEW d \in Callers, call'[d].pc = "holding"
                 PROVE  Cardinality(NoLaterThan(d)') <= Concurrency(call'[d].limits)
    BY DEF WithinConcurrency
  <2>2. call'[d] = call[d]
    BY <1>1, <1>3, <2>1, AsideKeepsSlots
  <2>3. NoLaterThan(d)' \subseteq NoLaterThan(d)
    BY <1>1, <1>3, <2>2, AsideKeepsSlots DEF NoLaterThan, Holding
  <2>4. QED
    BY <1>1, <2>1, <2>2, <2>3, LineShrinks
<1>4. ASSUME NEW c \in Callers, Admit(c)
      PROVE  WithinConcurrency'
  <2>1. PICK a : call[c].account = a
    OBVIOUS
  <2>2. /\ a \in Accounts /\ tickets[a] \in Nat
        /\ Holding(a)' = Holding(a) \cup {c} /\ c \notin Holding(a)
        /\ \A b \in Accounts \ {a} : Holding(b)' = Holding(b)
        /\ call'[c].account = a /\ call'[c].limits = call[c].limits
        /\ call'[c].ticket = tickets[a] + 1
        /\ \A d \in Callers \ {c} : call'[d] = call[d]
    BY <1>1, <1>4, <2>1, AdmitSlots
  <2>3. Cardinality(NoLaterThan(c)') <= Concurrency(call'[c].limits)
    <3>1. NoLaterThan(c)' \subseteq Holding(a) \cup {c}
      BY <2>2 DEF NoLaterThan
    <3>2. Cardinality(Holding(a) \cup {c}) = Cardinality(Holding(a)) + 1
          /\ IsFiniteSet(Holding(a) \cup {c})
      BY <2>2, HoldingFinite, FS_AddElement
    <3>3. Cardinality(NoLaterThan(c)') <= Cardinality(Holding(a)) + 1
          /\ Cardinality(NoLaterThan(c)') \in Nat
      BY <3>1, <3>2, FS_Subset, FS_CardinalityType
    <3>4. inFlight[a] < Concurrency(call[c].limits)
      BY <1>4, <2>1 DEF Admit, HasSlot
    <3>5. Concurrency(call[c].limits) \in Nat
      BY <1>1, CallFields, LimitTypes
    <3>6. Cardinality(Holding(a)) < Concurrency(call[c].limits)
      BY <1>1, <2>2, <3>4 DEF CountsAreExact
    <3>7. QED
      BY <2>2, <3>3, <3>5, <3>6, HoldingFinite
  <2>4. ASSUME NEW d \in Callers \ {c}, call'[d].pc = "holding"
        PROVE  Cardinality(NoLaterThan(d)') <= Concurrency(call'[d].limits)
    <3>1. call'[d] = call[d]
      BY <2>2
    <3>2. call[d].account = a => call[d].ticket < tickets[a] + 1
      BY <1>1, <2>2, <2>4, <3>1, CallFields DEF Basics, CallsOK
    <3>3. c \notin NoLaterThan(d)'
      BY <2>2, <3>1, <3>2, CallFields, <1>1 DEF NoLaterThan, Holding
    <3>4. NoLaterThan(d)' \subseteq NoLaterThan(d)
      BY <2>2, <3>1, <3>3 DEF NoLaterThan, Holding
    <3>5. QED
      BY <1>1, <2>4, <3>1, <3>4, LineShrinks
  <2>5. QED
    BY <2>3, <2>4 DEF WithinConcurrency
<1>5. ASSUME NEW c \in Callers, Release(c)
      PROVE  WithinConcurrency'
  <2>1. SUFFICES ASSUME NEW d \in Callers, call'[d].pc = "holding"
                 PROVE  Cardinality(NoLaterThan(d)') <= Concurrency(call'[d].limits)
    BY DEF WithinConcurrency
  <2>2. call'[c].pc = "idle" /\ \A e \in Callers \ {c} : call'[e] = call[e]
    BY <1>1, <1>5, ReleaseSlots
  <2>3. call'[d] = call[d]
    BY <2>1, <2>2
  <2>4. NoLaterThan(d)' \subseteq NoLaterThan(d)
    BY <2>2, <2>3 DEF NoLaterThan, Holding
  <2>5. QED
    BY <1>1, <2>1, <2>3, <2>4, LineShrinks
<1>6. QED
  BY <1>1, <1>2, <1>3, <1>4, <1>5, AsideSteps DEF LimiterNext

\* For any limits, also ones the admin changes while requests are in flight,
\* and any number of accounts and callers, a request in flight is within the
\* concurrency limit of the token it was admitted with.
THEOREM ConcurrencyIsLimited == LimiterSpec => []WithinConcurrency
<1>1. LimiterInit => WithinConcurrency
  BY IdleCallType DEF LimiterInit, WithinConcurrency
<1>2. QED
  BY <1>1, AlwaysBasics, CountsStayExact, WithinInductive, PTL DEF LimiterSpec

-----------------------------------------------------------------------------
(* The rate.                                                               *)

\* As long as the clock readings are used in order, pruning has dropped no
\* start that the next reading will need.
StartsAreThere ==
  \A a \in Accounts : ~late[a] =>
    \A s \in admitted[a] : s.at > lastNow[a] - Window => s \in starts[a]

\* What using a clock reading in order means.
LEMMA UsedInOrder ==
  ASSUME Basics, NEW a \in Accounts, NEW now \in Nat, Use(a, now)
  PROVE  /\ ~late'[a] => ~late[a] /\ now >= lastNow[a] /\ lastNow'[a] = now
         /\ \A b \in Accounts \ {a} : late'[b] = late[b] /\ lastNow'[b] = lastNow[b]
<1>1. lastNow \in [Accounts -> Nat] /\ late \in [Accounts -> BOOLEAN]
  BY DEF Basics, LimiterTypeOK
<1>2. PICK before : before = (now < lastNow[a])
  OBVIOUS
<1>3. late' = [late EXCEPT ![a] = @ \/ before]
  BY <1>2 DEF Use
<1>4. late'[a] = (late[a] \/ before)
      /\ \A b \in Accounts \ {a} : late'[b] = late[b]
  BY <1>1, <1>3, Zenon
<1>5. /\ lastNow'[a] = IF now > lastNow[a] THEN now ELSE lastNow[a]
      /\ \A b \in Accounts \ {a} : lastNow'[b] = lastNow[b]
  BY <1>1 DEF Use
<1>6. ~late'[a] => ~late[a] /\ ~(now < lastNow[a])
  BY <1>2, <1>4, Zenon
<1>7. ~late'[a] => ~late[a] /\ now >= lastNow[a] /\ lastNow'[a] = now
  BY <1>1, <1>5, <1>6
<1>8. QED
  BY <1>4, <1>5, <1>7

\* A rejection prunes only what is too old for its clock reading.
LEMMA RejectKeepsStarts ==
  ASSUME Basics, StartsAreThere, NEW c \in Callers, RejectBusy(c) \/ RejectRate(c)
  PROVE  StartsAreThere' /\ admitted' = admitted
                         /\ \A b \in Accounts : ~late'[b] => ~late[b]
<1>1. PICK a, now : a = call[c].account /\ now = call[c].now
  OBVIOUS
<1>2. a \in Accounts /\ now \in Nat
  BY <1>1, CallFields DEF RejectBusy, RejectRate
<1>3. starts' = [starts EXCEPT ![a] = Kept(a, now)] /\ Use(a, now) /\ admitted' = admitted
  BY <1>1 DEF RejectBusy, RejectRate
<1>4. starts'[a] = Kept(a, now) /\ \A b \in Accounts \ {a} : starts'[b] = starts[b]
  BY <1>2, <1>3, Pruned
<1>5. \A s \in admitted[a] : s.at \in Nat
  BY <1>2 DEF Basics, LimiterTypeOK, Start
<1>6. /\ lastNow[a] \in Nat
      /\ ~late'[a] => ~late[a] /\ now >= lastNow[a] /\ lastNow'[a] = now
      /\ \A b \in Accounts \ {a} : late'[b] = late[b] /\ lastNow'[b] = lastNow[b]
  BY <1>2, <1>3, UsedInOrder DEF Basics, LimiterTypeOK
<1>7. ASSUME ~late'[a], NEW s \in admitted[a], s.at > lastNow'[a] - Window
      PROVE  s \in starts'[a]
  <2>1. s.at > now - Window /\ s.at > lastNow[a] - Window
    BY <1>2, <1>5, <1>6, <1>7
  <2>2. s \in starts[a]
    BY <1>2, <1>6, <1>7, <2>1 DEF StartsAreThere
  <2>3. QED
    BY <1>4, <2>1, <2>2 DEF Kept
<1>8. StartsAreThere'
  BY <1>2, <1>3, <1>4, <1>6, <1>7 DEF StartsAreThere
<1>9. QED
  BY <1>3, <1>6, <1>8

LEMMA AdmitKeepsStarts ==
  ASSUME Basics, StartsAreThere, NEW c \in Callers, Admit(c),
         NEW a \in Accounts, a = call[c].account, NEW now \in Nat, now = call[c].now
  PROVE  /\ StartsAreThere'
         /\ admitted'[a] = admitted[a] \cup {NewStart(c)}
         /\ \A b \in Accounts \ {a} : admitted'[b] = admitted[b]
         /\ \A b \in Accounts : ~late'[b] => ~late[b]
         /\ ~late'[a] => \A s \in admitted[a] : s.at > now - Window => s \in Kept(a, now)
<1>1. /\ starts' = [starts EXCEPT ![a] = Kept(a, now) \cup {NewStart(c)}]
      /\ admitted' = [admitted EXCEPT ![a] = @ \cup {NewStart(c)}]
      /\ Use(a, now)
  BY DEF Admit, NewStart
<1>2. /\ starts'[a] = Kept(a, now) \cup {NewStart(c)}
      /\ admitted'[a] = admitted[a] \cup {NewStart(c)}
      /\ \A b \in Accounts \ {a} : starts'[b] = starts[b] /\ admitted'[b] = admitted[b]
  BY <1>1 DEF Basics, LimiterTypeOK
<1>3. \A s \in admitted[a] : s.at \in Nat
  BY DEF Basics, LimiterTypeOK, Start
<1>4. /\ lastNow[a] \in Nat
      /\ ~late'[a] => ~late[a] /\ now >= lastNow[a] /\ lastNow'[a] = now
      /\ \A b \in Accounts \ {a} : late'[b] = late[b] /\ lastNow'[b] = lastNow[b]
  BY <1>1, UsedInOrder DEF Basics, LimiterTypeOK
<1>5. ASSUME ~late'[a], NEW s \in admitted[a], s.at > now - Window
      PROVE  s \in Kept(a, now)
  <2>1. s.at > lastNow[a] - Window
    BY <1>3, <1>4, <1>5
  <2>2. s \in starts[a]
    BY <1>4, <1>5, <2>1 DEF StartsAreThere
  <2>3. QED
    BY <1>5, <2>2 DEF Kept
<1>6. StartsAreThere'
  BY <1>2, <1>4, <1>5 DEF StartsAreThere
<1>7. QED
  BY <1>2, <1>4, <1>5, <1>6

\* A start looks back on the same second after a later admission.
LEMMA SecondBeforeStays ==
  ASSUME Basics, NEW c \in Callers, call[c].pc = "clocked",
         NEW a \in Accounts, a = call[c].account,
         admitted'[a] = admitted[a] \cup {NewStart(c)},
         NEW s \in admitted[a]
  PROVE  SecondBefore(a, s)' = SecondBefore(a, s)
<1>1. s.ticket \in 1..tickets[a] /\ tickets[a] \in Nat
  BY DEF Basics, LimiterTypeOK, StartsOK
<1>2. NewStart(c).ticket = tickets[a] + 1
  BY NewStartType
<1>3. ~(NewStart(c).ticket <= s.ticket)
  BY <1>1, <1>2
<1>4. QED
  BY <1>3 DEF SecondBefore

LEMMA RateInductive ==
  Basics /\ StartsAreThere /\ RateHolds /\ [LimiterNext]_limiterVars
    => StartsAreThere' /\ RateHolds'
<1>1. SUFFICES ASSUME Basics, StartsAreThere, RateHolds, [LimiterNext]_limiterVars
               PROVE  StartsAreThere' /\ RateHolds'
  OBVIOUS
<1>2. CASE UNCHANGED <<starts, admitted, lastNow, late>>
  BY <1>1, <1>2 DEF StartsAreThere, RateHolds, SecondBefore
<1>3. ASSUME NEW c \in Callers, RejectBusy(c) \/ RejectRate(c)
      PROVE  StartsAreThere' /\ RateHolds'
  <2>1. StartsAreThere' /\ admitted' = admitted
        /\ \A b \in Accounts : ~late'[b] => ~late[b]
    BY <1>1, <1>3, RejectKeepsStarts
  <2>2. QED
    BY <1>1, <2>1 DEF RateHolds, SecondBefore
<1>4. ASSUME NEW c \in Callers, Admit(c)
      PROVE  StartsAreThere' /\ RateHolds'
  <2>1. call[c].pc = "clocked" /\ call[c].account \in Accounts /\ call[c].now \in Nat
    BY <1>1, <1>4, CallFields DEF Admit
  <2>2. PICK a \in Accounts, now \in Nat : a = call[c].account /\ now = call[c].now
    BY <2>1
  <2>3. /\ StartsAreThere'
        /\ admitted'[a] = admitted[a] \cup {NewStart(c)}
        /\ \A b \in Accounts \ {a} : admitted'[b] = admitted[b]
        /\ \A b \in Accounts : ~late'[b] => ~late[b]
        /\ ~late'[a] => \A s \in admitted[a] : s.at > now - Window => s \in Kept(a, now)
    BY <1>1, <1>4, <2>2, AdmitKeepsStarts
  <2>4. PICK new : new = NewStart(c)
    OBVIOUS
  <2>5. new.at = now /\ new.rps = rpsLimit(call[c].limits) /\ new.rps \in Nat
    BY <1>1, <2>1, <2>2, <2>4, NewStartType DEF Start
  <2>6. ~late'[a] => Cardinality(SecondBefore(a, new)') <= new.rps
    <3>1. SUFFICES ASSUME ~late'[a]
                   PROVE  Cardinality(SecondBefore(a, new)') <= new.rps
      OBVIOUS
    <3>2. SecondBefore(a, new)' \subseteq Kept(a, now) \cup {new}
      BY <2>3, <2>4, <2>5, <3>1 DEF SecondBefore
    <3>3. IsFiniteSet(Kept(a, now)) /\ Cardinality(Kept(a, now)) \in Nat
      BY <1>1, KeptFinite
    <3>4. /\ IsFiniteSet(Kept(a, now) \cup {new})
          /\ Cardinality(Kept(a, now) \cup {new}) <= Cardinality(Kept(a, now)) + 1
          /\ Cardinality(Kept(a, now) \cup {new}) \in Nat
      <4>1. CASE new \in Kept(a, now)
        <5>1. Kept(a, now) \cup {new} = Kept(a, now)
          BY <4>1
        <5>2. QED
          BY <3>3, <5>1
      <4>2. CASE new \notin Kept(a, now)
        <5>1. /\ IsFiniteSet(Kept(a, now) \cup {new})
              /\ Cardinality(Kept(a, now) \cup {new}) = Cardinality(Kept(a, now)) + 1
          BY <3>3, <4>2, FS_AddElement
        <5>2. QED
          BY <3>3, <5>1
      <4>3. QED
        BY <4>1, <4>2
    <3>5. /\ Cardinality(SecondBefore(a, new)') <= Cardinality(Kept(a, now) \cup {new})
          /\ Cardinality(SecondBefore(a, new)') \in Nat
      BY <3>2, <3>4, FS_Subset, FS_CardinalityType
    <3>6. Cardinality(Kept(a, now)) < new.rps
      BY <1>4, <2>2, <2>5 DEF Admit
    <3>7. QED
      BY <2>5, <3>3, <3>4, <3>5, <3>6
  <2>7. ASSUME ~late'[a], NEW s \in admitted[a]
        PROVE  Cardinality(SecondBefore(a, s)') <= s.rps
    BY <1>1, <2>1, <2>2, <2>3, <2>7, SecondBeforeStays DEF RateHolds
  <2>8. \A b \in Accounts \ {a} : ~late'[b] =>
          \A s \in admitted'[b] : Cardinality(SecondBefore(b, s)') <= s.rps
    BY <1>1, <2>3 DEF RateHolds, SecondBefore
  <2>9. RateHolds'
    BY <2>3, <2>4, <2>6, <2>7, <2>8 DEF RateHolds
  <2>10. QED
    BY <2>3, <2>9
<1>5. QED
  BY <1>1, <1>2, <1>3, <1>4
     DEF LimiterNext, limiterVars, ReadClock, Release, Tick

\* While callers use their clock readings in order, no second sees more
\* admissions than the rate limit of the last of them allows.
THEOREM RateIsLimited == LimiterSpec => []RateHolds
<1>1. LimiterInit => StartsAreThere /\ RateHolds
  BY DEF LimiterInit, StartsAreThere, RateHolds
<1>2. QED
  BY <1>1, AlwaysBasics, RateInductive, PTL DEF LimiterSpec

-----------------------------------------------------------------------------
(* The advice to wait.                                                     *)

\* Once it may try again, a waiting caller counts fewer starts than it did,
\* unless the account has admitted others.
RoomAhead ==
  \A c \in Callers : call[c].pc = "waiting" =>
    /\ call[c].ticket <= tickets[call[c].account]
    /\ call[c].ticket = tickets[call[c].account]
         => Cardinality(Kept(call[c].account, call[c].due)) < call[c].room

LEMMA KeptShrinks ==
  ASSUME Basics, NEW a \in Accounts, NEW early \in Nat, NEW later \in Nat, early <= later
  PROVE  Cardinality(Kept(a, later)) <= Cardinality(Kept(a, early))
<1>1. \A s \in starts[a] : s.at \in Nat
  BY DEF Basics, LimiterTypeOK, Start
<1>2. Kept(a, later) \subseteq Kept(a, early)
  BY <1>1 DEF Kept
<1>3. QED
  BY <1>2, KeptFinite, FS_Subset

LEMMA RoomAheadSuffices == Basics /\ RoomAhead => WaitingMakesRoom
<1>1. SUFFICES ASSUME Basics, RoomAhead, NEW c \in Callers, call[c].pc = "waiting",
                      tickets[call[c].account] = call[c].ticket, clock >= call[c].due
               PROVE  Cardinality(Kept(call[c].account, clock)) < call[c].room
  BY DEF WaitingMakesRoom
<1>2. PICK a : a = call[c].account
  OBVIOUS
<1>3. /\ a \in Accounts /\ clock \in Nat /\ call[c].due \in Nat /\ call[c].room \in Nat
  BY <1>1, <1>2, CallFields
<1>4. Cardinality(Kept(a, call[c].due)) < call[c].room
  BY <1>1, <1>2 DEF RoomAhead
<1>5. Cardinality(Kept(a, clock)) <= Cardinality(Kept(a, call[c].due))
  BY <1>1, <1>3, KeptShrinks
<1>6. QED
  BY <1>1, <1>2, <1>3, <1>4, <1>5, KeptFinite

\* Pruning by others does not take room away from a waiting caller.
LEMMA RoomStays ==
  ASSUME Basics, RoomAhead, NEW d \in Callers, call[d].pc = "waiting", call'[d] = call[d],
         \A b \in Accounts :
           \/ tickets'[b] = tickets[b] /\ starts'[b] \subseteq starts[b]
           \/ tickets'[b] = tickets[b] + 1
  PROVE  /\ call'[d].ticket <= tickets'[call'[d].account]
         /\ call'[d].ticket = tickets'[call'[d].account]
              => Cardinality(Kept(call[d].account, call[d].due)') < call'[d].room
<1>1. PICK a : a = call[d].account
  OBVIOUS
<1>2. /\ a \in Accounts /\ call[d].due \in Nat /\ call[d].room \in Nat
      /\ call[d].ticket \in Nat /\ tickets[a] \in Nat
  BY <1>1, CallFields DEF Basics, LimiterTypeOK
<1>3. call[d].ticket <= tickets[a]
  BY <1>1 DEF RoomAhead
<1>4. CASE tickets'[a] = tickets[a] + 1
  BY <1>1, <1>2, <1>3, <1>4
<1>5. CASE tickets'[a] = tickets[a] /\ starts'[a] \subseteq starts[a]
  <2>1. Kept(call[d].account, call[d].due)' \subseteq Kept(a, call[d].due)
    BY <1>1, <1>5 DEF Kept
  <2>2. /\ Cardinality(Kept(call[d].account, call[d].due)') <= Cardinality(Kept(a, call[d].due))
        /\ Cardinality(Kept(call[d].account, call[d].due)') \in Nat
        /\ Cardinality(Kept(a, call[d].due)) \in Nat
    BY <1>2, <2>1, KeptFinite, FS_Subset, FS_CardinalityType
  <2>3. call[d].ticket = tickets[a] => Cardinality(Kept(a, call[d].due)) < call[d].room
    BY <1>1 DEF RoomAhead
  <2>4. QED
    BY <1>1, <1>2, <1>3, <1>5, <2>2, <2>3
<1>6. QED
  BY <1>2, <1>4, <1>5

\* The caller that is turned away by the rate limit has room ahead: when it may
\* try again, at least the first start is too old.
LEMMA ToldHasRoom ==
  ASSUME Basics, NEW c \in Callers, RejectRate(c)
  PROVE  /\ call'[c].pc = "waiting"
         /\ call'[c].ticket <= tickets'[call'[c].account]
         /\ Cardinality(Kept(call[c].account, call[c].due)') < call'[c].room
<1>1. /\ call[c].account \in Accounts /\ call[c].now \in Nat /\ call[c].pc = "clocked"
  BY CallFields DEF RejectRate
<1>2. PICK first \in Kept(call[c].account, call[c].now) :
         call' = [call EXCEPT ![c] = Told(c, first)]
  BY ZenonT(60) DEF RejectRate, Told, Basics, LimiterTypeOK
<1>3. PICK a, due, kept : /\ a = call[c].account
                          /\ due = Told(c, first).due
                          /\ kept = Kept(a, call[c].now)
  OBVIOUS
<1>4. call'[c] = Told(c, first)
  BY <1>2 DEF Basics, LimiterTypeOK
<1>5. /\ call'[c].pc = "waiting" /\ call'[c].account = a /\ call'[c].due = due
      /\ call'[c].room = Cardinality(kept) /\ call'[c].ticket = tickets[a]
      /\ due >= first.at + Window /\ due \in Nat
  BY <1>1, <1>3, <1>4, ToldType DEF Call
<1>6. tickets'[a] = tickets[a] /\ tickets[a] \in Nat
  BY <1>1, <1>3 DEF RejectRate, Basics, LimiterTypeOK
<1>7. starts'[a] = kept /\ first \in kept /\ first.at \in Nat /\ IsFiniteSet(kept)
  <2>1. starts' = [starts EXCEPT ![a] = kept]
    BY <1>3 DEF RejectRate
  <2>2. starts'[a] = kept
    BY <1>1, <1>3, <2>1, Pruned
  <2>3. IsFiniteSet(kept) /\ first \in Start
    BY <1>1, <1>2, <1>3, KeptFinite
  <2>4. QED
    BY <1>2, <1>3, <2>2, <2>3 DEF Start
<1>8. Kept(call[c].account, call[c].due)' \subseteq kept \ {first}
  BY <1>5, <1>7 DEF Kept
<1>9. Cardinality(kept \ {first}) = Cardinality(kept) - 1 /\ IsFiniteSet(kept \ {first})
  BY <1>7, FS_RemoveElement
<1>10. /\ Cardinality(Kept(call[c].account, call[c].due)') <= Cardinality(kept) - 1
       /\ Cardinality(Kept(call[c].account, call[c].due)') \in Nat
       /\ Cardinality(kept) \in Nat
  BY <1>7, <1>8, <1>9, FS_Subset, FS_CardinalityType
<1>11. QED
  BY <1>5, <1>6, <1>10

LEMMA RoomInductive == Basics /\ RoomAhead /\ [LimiterNext]_limiterVars => RoomAhead'
<1>1. SUFFICES ASSUME Basics, RoomAhead, [LimiterNext]_limiterVars,
                      NEW d \in Callers, call'[d].pc = "waiting"
               PROVE  /\ call'[d].ticket <= tickets'[call'[d].account]
                      /\ call'[d].ticket = tickets'[call'[d].account]
                           => Cardinality(Kept(call[d].account, call[d].due)') < call'[d].room
  BY DEF RoomAhead
<1>2. CASE UNCHANGED limiterVars \/ Tick
  BY <1>1, <1>2, RoomStays DEF limiterVars, Tick
<1>3. ASSUME NEW c \in Callers, NEW a \in Accounts, NEW limits \in Limits,
             ReadClock(c, a, limits)
      PROVE  call'[d] = call[d] /\ UNCHANGED <<starts, tickets>>
  BY <1>1, <1>3 DEF ReadClock, Basics, LimiterTypeOK, IdleCall
<1>4. ASSUME NEW c \in Callers, RejectBusy(c)
      PROVE  call'[d] = call[d]
             /\ tickets' = tickets /\ \A b \in Accounts : starts'[b] \subseteq starts[b]
  BY <1>1, <1>4, IdleCallType, CallFields, Pruned, ZenonT(60) DEF RejectBusy, Basics, LimiterTypeOK
<1>5. ASSUME NEW c \in Callers, c # d, RejectRate(c)
      PROVE  call'[d] = call[d]
             /\ tickets' = tickets /\ \A b \in Accounts : starts'[b] \subseteq starts[b]
  BY <1>1, <1>5, CallFields, Pruned, ZenonT(60) DEF RejectRate, Basics, LimiterTypeOK
<1>6. ASSUME NEW c \in Callers, Release(c)
      PROVE  call'[d] = call[d] /\ UNCHANGED <<starts, tickets>>
  BY <1>1, <1>6, ReleaseSlots DEF Release
<1>7. ASSUME NEW c \in Callers, Admit(c)
      PROVE  /\ call'[d] = call[d]
             /\ \A b \in Accounts : \/ tickets'[b] = tickets[b] /\ starts'[b] \subseteq starts[b]
                                    \/ tickets'[b] = tickets[b] + 1
  BY <1>1, <1>7, AdmitSlots DEF Admit, Basics, LimiterTypeOK
<1>8. CASE RejectRate(d)
  BY <1>1, <1>8, ToldHasRoom
<1>9. QED
  BY <1>1, <1>2, <1>3, <1>4, <1>5, <1>6, <1>7, <1>8, RoomStays DEF LimiterNext

\* A caller that waits as long as it was told to finds fewer starts counted
\* against it, unless the account admitted others meanwhile.
THEOREM WaitingHelps == LimiterSpec => []WaitingMakesRoom
<1>1. LimiterInit => RoomAhead
  BY IdleCallType DEF LimiterInit, RoomAhead
<1>2. QED
  BY <1>1, AlwaysBasics, RoomInductive, RoomAheadSuffices, PTL DEF LimiterSpec
=============================================================================
