----------------------------- MODULE TokenFiles -----------------------------
(***************************************************************************)
(* The token files of kiro-admin (main.go): one JSON file per account,     *)
(* which admin handlers, proxy requests and the refresh scheduler read,    *)
(* take with them through a call of the network, and write back whole.     *)
(* No lock guards them.                                                    *)
(*                                                                         *)
(* os.WriteFile truncates the file in one step and writes it in another.   *)
(* A reader in between finds no account; a file deleted in between is      *)
(* written where no name leads; and two writers that have both truncated   *)
(* the file may leave a mix of what they write.                            *)
(*                                                                         *)
(* The auth server may give a new refresh token with a new access token,   *)
(* and then takes the old one no longer.  Tokens are numbered as issued.   *)
(* The directory is one that the admin page wrote: every token in it has   *)
(* its proxy key, limits, group and expiry.                                *)
(***************************************************************************)
EXTENDS Integers, FiniteSets

CONSTANTS
  Accounts,
  Handlers,     \* goroutines of the admin page and the proxy
  HandlerOps,   \* what they do
  Scheduler,    \* the goroutine of startKASTokenRefreshScheduler
  NoAccount,
  NoFile,       \* the file does not exist
  Torn,         \* it was truncated and not written again: no JSON
  Mixed,        \* two writers overlapped: no JSON
  MaxIssued,    \* bound: access tokens issued for an account
  MaxFaults     \* bound: crashes, failed writes and lost answers

ASSUME TokenFilesAssumption ==
  /\ Scheduler \notin Handlers
  /\ NoAccount \notin Accounts
  /\ HandlerOps \subseteq {"save", "delete", "toggle", "check", "credits", "models", "refresh"}
  /\ MaxIssued \in Nat \ {0}
  /\ MaxFaults \in Nat

VARIABLES
  file,       \* the token file of each account
  proc,       \* the goroutines
  unread,     \* refreshExpiredKASTokens: accounts listTokenAccounts has yet to read
  scan,       \* its list
  session,    \* auth server: the refresh tokens it takes
  issued,     \* auth server: access tokens issued so far
  dueUpTo,    \* access tokens up to this one expire within tokenRefreshSkew
  granted,    \* history: refresh and access tokens the auth server gave together
  decided,    \* history: what was last decided about the account
  overlapped, \* history: two read-modify-writes of the account overlapped
  lost,       \* history: a session the auth server replaced never reached the file
  faults

fileVars == <<file, proc, unread, scan, session, issued, dueUpTo, granted,
              decided, overlapped, lost, faults>>

-----------------------------------------------------------------------------
Token == [refresh : 1..MaxIssued, access : 1..MaxIssued, disabled : BOOLEAN]

NoToken == [refresh |-> 0, access |-> 0, disabled |-> FALSE]

Tokens == Token \cup {NoToken}

FileState == Token \cup {NoFile, Torn, Mixed}

ASSUME FileStateAssumption == {NoFile, Torn, Mixed} \cap Token = {}

Procs == Handlers \cup {Scheduler}

Operations == HandlerOps \cup {"none", "refresh"}

\* snap: the token the goroutine read.  next: the token it will write.
\* wish: what its request decides about the account.  linked: the file it has
\* opened still has its name.  again: it writes twice.
Proc == [pc      : {"idle", "deleting", "calling", "persisting", "opened"},
         op      : Operations,
         account : Accounts \cup {NoAccount},
         snap    : Tokens,
         next    : Tokens,
         wish    : {"keep", "enabled", "disabled"},
         linked  : BOOLEAN,
         again   : BOOLEAN]

IdleProc == [pc |-> "idle", op |-> "none", account |-> NoAccount, snap |-> NoToken,
             next |-> NoToken, wish |-> "keep", linked |-> FALSE, again |-> FALSE]

Decisions == {"enabled", "disabled", "deleted", "unknown"}

FilesTypeOK ==
  /\ file \in [Accounts -> FileState]
  /\ proc \in [Procs -> Proc]
  /\ unread \in SUBSET Accounts
  /\ scan \in [Accounts -> Tokens]
  /\ session \in [Accounts -> SUBSET (1..MaxIssued)]
  /\ issued \in [Accounts -> 1..MaxIssued]
  /\ dueUpTo \in [Accounts -> 0..MaxIssued]
  /\ granted \in [Accounts -> SUBSET ((1..MaxIssued) \X (1..MaxIssued))]
  /\ decided \in [Accounts -> Decisions]
  /\ overlapped \in [Accounts -> BOOLEAN]
  /\ lost \in [Accounts -> BOOLEAN]
  /\ faults \in 0..MaxFaults

Decision(t) == IF t.disabled THEN "disabled" ELSE "enabled"

\* Each account as the admin page saved it, enabled or disabled.
FilesInit ==
  /\ file \in [Accounts -> {[refresh |-> 1, access |-> 1, disabled |-> d] : d \in BOOLEAN}]
  /\ proc = [p \in Procs |-> IdleProc]
  /\ unread = {}
  /\ scan = [a \in Accounts |-> NoToken]
  /\ session = [a \in Accounts |-> {1}]
  /\ issued = [a \in Accounts |-> 1]
  /\ dueUpTo = [a \in Accounts |-> 0]
  /\ granted = [a \in Accounts |-> {<<1, 1>>}]
  /\ decided = [a \in Accounts |-> Decision(file[a])]
  /\ overlapped = [a \in Accounts |-> FALSE]
  /\ lost = [a \in Accounts |-> FALSE]
  /\ faults = 0

-----------------------------------------------------------------------------
(* What goroutines hold of an account, and how they let go of it.          *)

\* loadTokenFromFile.
Readable(a) == file[a] \in Token

\* A goroutine that has read the account and may still write it; the scheduler
\* holds all the accounts of its list.
Busy(p, a) ==
  \/ proc[p].account = a
  \/ p = Scheduler /\ scan[a] # NoToken

\* p changes the account while another goroutine works on it.
NoteOverlap(p, a) ==
  overlapped' = [overlapped EXCEPT ![a] = @ \/ \E q \in Procs \ {p} : Busy(q, a)]

Finish(p) == proc' = [proc EXCEPT ![p] = IdleProc]

\* The auth server gives a new access token, with this refresh token, and
\* takes those of old no longer.
Grant(a, refresh, old) ==
  /\ issued[a] < MaxIssued
  /\ issued' = [issued EXCEPT ![a] = @ + 1]
  /\ session' = [session EXCEPT ![a] = (@ \ old) \cup {refresh}]
  /\ granted' = [granted EXCEPT ![a] = @ \cup {<<refresh, issued[a] + 1>>}]

-----------------------------------------------------------------------------
(* The handlers.                                                           *)

\* handleAdminAccountAction, selectTokenAccount before a request, and all else
\* that finds its account in listTokenAccounts and then works on that copy.
Start(p, op, a) ==
  /\ proc[p] = IdleProc
  /\ Readable(a)
  /\ LET t == file[a]
     IN  proc' = [proc EXCEPT ![p] =
           [IdleProc EXCEPT
              !.pc = CASE op = "delete" -> "deleting"
                       [] op = "toggle" -> "persisting"
                       [] OTHER -> "calling",
              !.op = op,
              !.account = a,
              !.snap = t,
              !.next = IF op = "toggle" THEN [t EXCEPT !.disabled = ~@] ELSE t,
              !.wish = IF op # "toggle" THEN "keep"
                       ELSE IF t.disabled THEN "enabled" ELSE "disabled"]]
  /\ UNCHANGED <<file, unread, scan, session, issued, dueUpTo, granted, decided,
                 overlapped, lost, faults>>

\* Bug: an account that is saved again is enabled again.
Bug_SavedDisabled(a, enabled) == enabled = "off"

\* What a saved account is, if the request says that it is on or off, or
\* nothing; then it stays what it is, and one that cannot be read is enabled.
SavedDisabled(a, enabled) ==
  \/ enabled = "off"
  \/ enabled = "keep" /\ Readable(a) /\ file[a].disabled

\* handleAdminAccounts, POST: the admin has logged in at the auth server and
\* pastes the token it got.
Save(p, a, enabled) ==
  LET new == issued[a] + 1
  IN  /\ proc[p] = IdleProc
      /\ Grant(a, new, {})
      /\ proc' = [proc EXCEPT ![p] =
           [IdleProc EXCEPT
              !.pc = "persisting", !.op = "save", !.account = a,
              !.snap = IF Readable(a) THEN file[a] ELSE NoToken,
              !.next = [refresh |-> new, access |-> new,
                        disabled |-> SavedDisabled(a, enabled)],
              !.wish = CASE enabled = "off" -> "disabled"
                         [] enabled = "keep" /\ Readable(a) -> "keep"
                         [] OTHER -> "enabled"]]
      /\ UNCHANGED <<file, unread, scan, dueUpTo, decided, overlapped, lost, faults>>

\* os.Remove: whoever has the file open goes on writing to it, unseen.
Delete(p) ==
  LET a == proc[p].account
  IN  /\ proc[p].pc = "deleting"
      /\ file' = [file EXCEPT ![a] = NoFile]
      /\ decided' = [decided EXCEPT ![a] = "deleted"]
      /\ NoteOverlap(p, a)
      /\ proc' = [q \in Procs |->
           IF q = p THEN IdleProc
           ELSE IF proc[q].account = a THEN [proc[q] EXCEPT !.linked = FALSE]
           ELSE proc[q]]
      /\ UNCHANGED <<unread, scan, session, issued, dueUpTo, granted, lost, faults>>

\* Bug: the scheduler gives up the rest of its list with this account.
Bug_GiveUp(p) ==
  /\ proc[p].pc = "calling"
  /\ Finish(p)
  /\ scan' = IF p = Scheduler THEN [a \in Accounts |-> NoToken] ELSE scan
  /\ UNCHANGED <<file, unread, session, issued, dueUpTo, granted, decided,
                 overlapped, lost, faults>>

\* A call whose answer changes nothing, or an error: nothing is written.
GiveUp(p) ==
  /\ proc[p].pc = "calling"
  /\ Finish(p)
  /\ UNCHANGED <<file, unread, scan, session, issued, dueUpTo, granted, decided,
                 overlapped, lost, faults>>

\* Credits, a check: the answer is written with the token as it was read.
Answered(p) ==
  /\ proc[p].pc = "calling"
  /\ proc[p].op \in {"credits", "check"}
  /\ proc' = [proc EXCEPT ![p].pc = "persisting"]
  /\ UNCHANGED <<file, unread, scan, session, issued, dueUpTo, granted, decided,
                 overlapped, lost, faults>>

\* Kiro says that the account is blocked: disableBlockedAccount, and after a
\* check that asked for the models to find out why, the check writes as well.
Blocked(p) ==
  /\ proc[p].pc = "calling"
  /\ proc[p].op \in {"models", "check"}
  /\ \E again \in BOOLEAN :
       /\ again => proc[p].op = "check"
       /\ proc' = [proc EXCEPT ![p].pc = "persisting", ![p].again = again,
                               ![p].wish = "disabled",
                               ![p].next = [proc[p].snap EXCEPT !.disabled = TRUE]]
  /\ UNCHANGED <<file, unread, scan, session, issued, dueUpTo, granted, decided,
                 overlapped, lost, faults>>

-----------------------------------------------------------------------------
(* refreshKASToken.                                                        *)

\* Bug: the refresh token that was stored is kept.
Bug_Refreshed(snap, refresh, access) ==
  [refresh |-> snap.refresh, access |-> access, disabled |-> snap.disabled]

\* Bug: nothing of the old token is carried over.
Bug_RefreshedEnabled(snap, refresh, access) ==
  [refresh |-> refresh, access |-> access, disabled |-> FALSE]

\* Bug: an answer without an access token is taken.
Bug_RefreshedEmpty(snap, refresh, access) ==
  [refresh |-> refresh, access |-> 0, disabled |-> snap.disabled]

\* The new tokens with the metadata of the token that was read.
Refreshed(snap, refresh, access) ==
  [refresh |-> refresh, access |-> access, disabled |-> snap.disabled]

\* The auth server takes the refresh token and answers, with a new refresh
\* token or without one: then the old one stays.
RefreshAnswered(p) ==
  LET a    == proc[p].account
      snap == proc[p].snap
  IN  /\ proc[p].pc = "calling"
      /\ proc[p].op = "refresh"
      /\ snap.refresh \in session[a]
      /\ \E refresh \in {snap.refresh, issued[a] + 1} :
           /\ Grant(a, refresh, {snap.refresh})
           /\ proc' = [proc EXCEPT ![p].pc = "persisting",
                                   ![p].next = Refreshed(snap, refresh, issued[a] + 1)]
      /\ UNCHANGED <<file, unread, scan, dueUpTo, decided, overlapped, lost, faults>>

\* It gave a new refresh token, but the answer is lost, or refused here: no
\* access token in it, or another profile.
RefreshLost(p) ==
  LET a == proc[p].account
  IN  /\ proc[p].pc = "calling"
      /\ proc[p].op = "refresh"
      /\ proc[p].snap.refresh \in session[a]
      /\ faults < MaxFaults
      /\ faults' = faults + 1
      /\ Grant(a, issued[a] + 1, {proc[p].snap.refresh})
      /\ lost' = [lost EXCEPT ![a] = TRUE]
      /\ Finish(p)
      /\ UNCHANGED <<file, unread, scan, dueUpTo, decided, overlapped>>

-----------------------------------------------------------------------------
(* os.WriteFile.                                                           *)

Open(p) ==
  LET a == proc[p].account
  IN  /\ proc[p].pc = "persisting"
      /\ file' = [file EXCEPT ![a] = Torn]
      /\ proc' = [proc EXCEPT ![p].pc = "opened", ![p].linked = TRUE]
      /\ NoteOverlap(p, a)
      /\ UNCHANGED <<unread, scan, session, issued, dueUpTo, granted, decided, lost, faults>>

\* What the file holds when p has written it: nothing of it if the file has
\* lost its name, and perhaps a mix if another has written since p opened it.
Contents(p) ==
  LET a == proc[p].account
  IN  IF ~proc[p].linked THEN {file[a]}
      ELSE {proc[p].next} \cup (IF file[a] = Torn THEN {} ELSE {Mixed})

\* The session that p got is stored nowhere if p ends now.
LosesSession(p) ==
  /\ proc[p].op = "refresh"
  /\ proc[p].next.refresh # proc[p].snap.refresh

Write(p) ==
  LET a == proc[p].account
  IN  /\ proc[p].pc = "opened"
      /\ \E c \in Contents(p) : file' = [file EXCEPT ![a] = c]
      /\ decided' = [decided EXCEPT ![a] =
           IF proc[p].wish = "keep" THEN @ ELSE proc[p].wish]
      /\ NoteOverlap(p, a)
      /\ IF proc[p].again
           THEN proc' = [proc EXCEPT ![p].pc = "persisting", ![p].again = FALSE]
           ELSE Finish(p)
      /\ UNCHANGED <<unread, scan, session, issued, dueUpTo, granted, lost, faults>>

\* Opening the file fails and it is as it was, or writing it fails and it
\* stays truncated.
WriteFails(p) ==
  LET a == proc[p].account
  IN  /\ proc[p].pc \in {"persisting", "opened"}
      /\ faults < MaxFaults
      /\ faults' = faults + 1
      /\ lost' = [lost EXCEPT ![a] = @ \/ LosesSession(p)]
      /\ decided' = [decided EXCEPT ![a] = IF proc[p].pc = "opened" THEN "unknown" ELSE @]
      /\ Finish(p)
      /\ UNCHANGED <<file, unread, scan, session, issued, dueUpTo, granted, overlapped>>

-----------------------------------------------------------------------------
(* The scheduler: refreshExpiredKASTokens, once a minute.                  *)

shouldRefreshKASToken(a, t) == t.access <= dueUpTo[a]

ScanStart ==
  /\ proc[Scheduler] = IdleProc
  /\ unread = {}
  /\ \A a \in Accounts : scan[a] = NoToken
  /\ unread' = Accounts
  /\ UNCHANGED <<file, proc, scan, session, issued, dueUpTo, granted, decided,
                 overlapped, lost, faults>>

\* listTokenAccounts, file by file; it skips the files it cannot read.  Then the
\* clock is read, and the accounts that are not due are of no more interest.
ScanRead(a) ==
  LET list == [scan EXCEPT ![a] = IF Readable(a) THEN file[a] ELSE NoToken]
  IN  /\ a \in unread
      /\ unread' = unread \ {a}
      /\ scan' = IF unread = {a}
                   THEN [b \in Accounts |->
                          IF list[b] # NoToken /\ shouldRefreshKASToken(b, list[b])
                            THEN list[b] ELSE NoToken]
                   ELSE list
      /\ UNCHANGED <<file, proc, session, issued, dueUpTo, granted, decided,
                     overlapped, lost, faults>>

\* The next account of the list that is due, with the token that was read then.
RefreshNext(a) ==
  /\ proc[Scheduler] = IdleProc
  /\ unread = {}
  /\ scan[a] # NoToken
  /\ proc' = [proc EXCEPT ![Scheduler] =
       [IdleProc EXCEPT !.pc = "calling", !.op = "refresh", !.account = a,
                        !.snap = scan[a], !.next = scan[a]]]
  /\ scan' = [scan EXCEPT ![a] = NoToken]
  /\ UNCHANGED <<file, unread, session, issued, dueUpTo, granted, decided,
                 overlapped, lost, faults>>

-----------------------------------------------------------------------------
(* Time and crashes.                                                       *)

\* The tokens of an account come within tokenRefreshSkew of their expiry.
Age(a) ==
  /\ dueUpTo[a] < issued[a]
  /\ dueUpTo' = [dueUpTo EXCEPT ![a] = issued[a]]
  /\ UNCHANGED <<file, proc, unread, scan, session, issued, granted, decided,
                 overlapped, lost, faults>>

\* The process dies and starts again.
Crash ==
  /\ faults < MaxFaults
  /\ faults' = faults + 1
  /\ decided' = [a \in Accounts |->
       IF \E p \in Procs : proc[p].account = a /\ proc[p].pc = "opened"
         THEN "unknown" ELSE decided[a]]
  /\ lost' = [a \in Accounts |->
       lost[a] \/ \E p \in Procs : proc[p].account = a /\ LosesSession(p)]
  /\ proc' = [p \in Procs |-> IdleProc]
  /\ unread' = {}
  /\ scan' = [a \in Accounts |-> NoToken]
  /\ UNCHANGED <<file, session, issued, dueUpTo, granted, overlapped>>

-----------------------------------------------------------------------------
HandlerStep(p) ==
  \E a \in Accounts :
    \/ \E op \in HandlerOps \ {"save"} : Start(p, op, a)
    \/ "save" \in HandlerOps /\ \E enabled \in {"on", "off", "keep"} : Save(p, a, enabled)

CallStep(p) ==
  \/ GiveUp(p) \/ Answered(p) \/ Blocked(p)
  \/ RefreshAnswered(p) \/ RefreshLost(p)

WriteStep(p) == Delete(p) \/ Open(p) \/ Write(p) \/ WriteFails(p)

SchedulerStep ==
  \/ ScanStart
  \/ \E a \in Accounts : ScanRead(a) \/ RefreshNext(a)

FilesNext ==
  \/ \E p \in Handlers : HandlerStep(p)
  \/ \E p \in Procs : CallStep(p) \/ WriteStep(p)
  \/ SchedulerStep
  \/ \E a \in Accounts : Age(a)
  \/ Crash

FilesSpec == FilesInit /\ [][FilesNext]_fileVars

\* The scheduler's goroutine runs on, and an auth server that is asked again
\* and again answers at last.
FilesFairness ==
  /\ WF_fileVars(SchedulerStep)
  /\ WF_fileVars(CallStep(Scheduler) \/ Open(Scheduler) \/ Write(Scheduler))
  /\ \A a \in Accounts :
       SF_fileVars(proc[Scheduler].account = a /\ RefreshAnswered(Scheduler))

FilesFairSpec == FilesSpec /\ FilesFairness

-----------------------------------------------------------------------------
(* Properties.                                                             *)

BeingWritten(a) == \E p \in Procs : proc[p].account = a /\ proc[p].pc = "opened"

\* An account is what the admin, or a block, last made it - enabled, disabled
\* or gone - unless two goroutines that had read it overlapped: neither a
\* refresh nor a save, a check or a crash decides otherwise, and its file is
\* whole.
DecisionsStick ==
  \A a \in Accounts :
    ~overlapped[a] /\ ~BeingWritten(a) /\ decided[a] # "unknown" =>
      IF decided[a] = "deleted" THEN file[a] = NoFile
      ELSE file[a] \in Token /\ Decision(file[a]) = decided[a]

Renewing(a) ==
  \E p \in Procs : /\ proc[p].account = a /\ proc[p].op = "refresh"
                   /\ proc[p].pc \in {"persisting", "opened"}

\* The stored refresh token is one that the auth server takes, unless
\* read-modify-writes overlapped or an answer was lost: otherwise the account
\* could not be refreshed ever again.
SessionsSurvive ==
  \A a \in Accounts :
    ~overlapped[a] /\ ~lost[a] /\ ~Renewing(a) /\ file[a] \in Token =>
      file[a].refresh \in session[a]

\* The auth server gave the two tokens of t together.
Together(a, t) == <<t.refresh, t.access>> \in granted[a]

\* However the writes of an account overlap, a file that can be read never mixes
\* two sessions: its refresh token and its access token came together.
TokensBelongTogether ==
  \A a \in Accounts : file[a] \in Token => Together(a, file[a])

IsDue(a) == file[a] \in Token /\ shouldRefreshKASToken(a, file[a])

LeftAlone(a) == \A p \in Handlers : proc[p].account # a

\* The scheduler refreshes every account that is due, if handlers leave it
\* alone from some time on, whatever happens to the other accounts: also if
\* their refresh tokens are dead, or their files unreadable.
DueTokensAreRefreshed ==
  \A a \in Accounts :
    <>[]LeftAlone(a) =>
      (IsDue(a) /\ issued[a] < MaxIssued ~>
         \/ file[a] \in Token /\ ~shouldRefreshKASToken(a, file[a])
         \/ issued[a] = MaxIssued
         \/ overlapped[a] \/ lost[a] \/ decided[a] \in {"deleted", "unknown"})

\* README.md: the scheduler reads the accounts every minute and refreshes those
\* whose token has expired or is about to.
EveryDueTokenIsRefreshed ==
  \A a \in Accounts :
    IsDue(a) ~> ~IsDue(a) \/ issued[a] = MaxIssued

\* README.md: an account that was deleted is not seen by the scheduler, and no
\* task for it remains.
NoOrphanedRefresh ==
  [][\A a \in Accounts :
       file[a] = NoFile /\ file'[a] # NoFile =>
         ~(proc[Scheduler].account = a /\ proc'[Scheduler].pc = "opened")]_fileVars
=============================================================================
