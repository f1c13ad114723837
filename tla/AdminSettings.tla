--------------------------- MODULE AdminSettings ---------------------------
(***************************************************************************)
(* The settings file of kiro-admin (main.go): the hash of the admin        *)
(* password and the groups of accounts with their proxy keys, with the     *)
(* sessions of the admin page and the groups that accounts are in.         *)
(*                                                                         *)
(* Every handler loads the file, changes its copy and saves it whole; no   *)
(* lock guards the file, and os.WriteFile truncates it in one step and     *)
(* writes it in another.  Not only the admin page saves it: each proxy     *)
(* request with an sk- key does (ensureAdminSettings).  A file that cannot *)
(* be read counts as default settings: no hash, so that the password of    *)
(* the environment is valid, and a default group with a new key.           *)
(*                                                                         *)
(* Password hashes and keys are numbered as they are generated; 0 is none. *)
(* KIRO_ADMIN_PASSWORD is set.  StatsResetAt, which decides nothing here,  *)
(* is left out.  So are logging out and the expiry of sessions: both only  *)
(* take a cookie away, and what is said of sessions is said of each.       *)
(***************************************************************************)
EXTENDS Integers, FiniteSets

CONSTANTS
  Handlers,     \* goroutines of the admin page and the proxy
  Names,        \* names of groups
  Default,      \* defaultAccountGroup
  Accounts,
  NoAccount,
  NoGroup,      \* the account does not exist
  Unclear,      \* which password a session was obtained with
  NoFile,       \* the settings file does not exist
  Torn,         \* it was truncated and not written again
  Mixed,        \* two writers overlapped: no JSON
  MaxHashes,    \* bound: passwords set
  MaxKeys,      \* bound: keys generated
  MaxFaults     \* bound: crashes, failed writes and account files not read

ASSUME AdminSettingsAssumption ==
  /\ Default \in Names
  /\ NoGroup \notin Names
  /\ NoAccount \notin Accounts
  /\ MaxHashes \in Nat
  /\ MaxKeys \in Nat
  /\ MaxFaults \in Nat

VARIABLES
  settings,   \* the settings file
  group,      \* the group in the token file of each account
  proc,       \* the goroutines
  sessions,   \* the cookies that browsers hold
  hashes,     \* password hashes made so far
  keys,       \* proxy keys generated so far
  decided,    \* history: what was last decided about the settings
  spoiled,    \* history: settings were saved from a stale copy, or lost
  stray,      \* history: accounts whose group was looked up in stale data
  faults

settingsVars == <<settings, group, proc, sessions, hashes, keys, decided,
                  spoiled, stray, faults>>

-----------------------------------------------------------------------------
\* AdminSettings.  key[n] = 0: there is no group n.
Settings == [hash : 0..MaxHashes, key : [Names -> 0..MaxKeys]]

NoKeys == [n \in Names |-> 0]

defaultAdminSettings == [hash |-> 0, key |-> NoKeys]

ASSUME SettingsFileAssumption == {NoFile, Torn, Mixed} \cap Settings = {}

EnsureOps == {"proxy", "addGroup", "newKey", "deleteGroup", "saveAccount"}

PasswordOps == {"login", "password", "reset"}

\* name, account: what the request is about.  given: the password in it.
\* next: what the handler has loaded, or is about to save.  own: it saves what
\* its request asks for.  stale: the file has changed since it was loaded.
Proc == [pc      : {"idle", "verified", "persisting", "opened", "ensured", "saved"},
         op      : EnsureOps \cup PasswordOps \cup {"none", "rewrite"},
         name    : Names,
         account : Accounts \cup {NoAccount},
         given   : 0..MaxHashes,
         next    : Settings,
         own     : BOOLEAN,
         stale   : BOOLEAN]

IdleProc == [pc |-> "idle", op |-> "none", name |-> Default, account |-> NoAccount,
             given |-> 0, next |-> defaultAdminSettings, own |-> FALSE, stale |-> FALSE]

\* fingerprint: the secret that signs the cookie.  by: the password with which
\* it was obtained, unclear if settings were saved meanwhile.
Session == [fingerprint : 0..MaxHashes, by : 0..MaxHashes \cup {Unclear}]

SettingsTypeOK ==
  /\ settings \in Settings \cup {NoFile, Torn, Mixed}
  /\ group \in [Accounts -> Names \cup {NoGroup}]
  /\ proc \in [Handlers -> Proc]
  /\ sessions \subseteq Session
  /\ hashes \in 0..MaxHashes
  /\ keys \in 0..MaxKeys
  /\ decided \in Settings
  /\ spoiled \in BOOLEAN
  /\ stray \subseteq Accounts
  /\ faults \in 0..MaxFaults

\* A new installation, whose admin has logged in with the environment's password.
SettingsInit ==
  /\ settings = NoFile
  /\ group = [a \in Accounts |-> NoGroup]
  /\ proc = [p \in Handlers |-> IdleProc]
  /\ sessions = {[fingerprint |-> 0, by |-> 0]}
  /\ hashes = 0
  /\ keys = 0
  /\ decided = defaultAdminSettings
  /\ spoiled = FALSE
  /\ stray = {}
  /\ faults = 0

-----------------------------------------------------------------------------
(* Loading.                                                                *)

\* generateAPIKey yields the next key.
NewKey == keys + 1

\* Bug: every load gives the default group a new key.
Bug_normalizeAdminSettings(s) == [s EXCEPT !.key[Default] = NewKey]

\* There is always a group.
normalizeAdminSettings(s) ==
  IF s.key = NoKeys THEN [s EXCEPT !.key[Default] = NewKey] ELSE s

Readable == settings \in Settings

loadAdminSettings ==
  IF Readable THEN normalizeAdminSettings(settings) ELSE defaultAdminSettings

\* Bug: the secret that signs the cookies is the same under every password.
Bug_currentAdminPasswordFingerprint == 0

\* 0 stands for the password of the environment.
currentAdminPasswordFingerprint == IF Readable THEN settings.hash ELSE 0

BeingWritten == \E p \in Handlers : proc[p].pc = "opened"

\* Some browser has a cookie that validAdminSession accepts.
Authorized == \E s \in sessions : s.fingerprint = currentAdminPasswordFingerprint

\* p is now busy with s in its hands; if the new key is in s, it was generated.
TakeUp(p, state) ==
  /\ proc' = [proc EXCEPT ![p] = state]
  /\ keys' = IF \E n \in Names : state.next.key[n] = NewKey THEN NewKey ELSE keys
  /\ keys' <= MaxKeys

Finish(p) == proc' = [proc EXCEPT ![p] = IdleProc]

-----------------------------------------------------------------------------
(* What handlers do before they save.                                      *)

\* ensureAdminSettings, the first thing many handlers do.
Ensure(p, op, n, a) ==
  /\ proc[p] = IdleProc
  /\ op # "proxy" => Authorized
  /\ TakeUp(p, [IdleProc EXCEPT
       !.pc = "persisting", !.op = op, !.name = n, !.account = a, !.stale = BeingWritten,
       !.next = normalizeAdminSettings(loadAdminSettings)])
  /\ UNCHANGED <<settings, group, sessions, hashes, decided, spoiled, stray, faults>>

\* PUT of the settings and the reset of the statistics: the hash and the groups
\* are saved as they were loaded.
Rewrite(p) ==
  /\ proc[p] = IdleProc
  /\ Authorized
  /\ TakeUp(p, [IdleProc EXCEPT !.pc = "persisting", !.op = "rewrite",
                                !.stale = BeingWritten, !.next = loadAdminSettings])
  /\ UNCHANGED <<settings, group, sessions, hashes, decided, spoiled, stray, faults>>

\* verifyAdminPassword, if the right password was given.
Verify(p, op) ==
  /\ proc[p] = IdleProc
  /\ op # "login" => Authorized
  /\ proc' = [proc EXCEPT ![p] =
       [IdleProc EXCEPT !.pc = "verified", !.op = op, !.stale = BeingWritten,
                        !.given = currentAdminPasswordFingerprint]]
  /\ UNCHANGED <<settings, group, sessions, hashes, keys, decided, spoiled, stray, faults>>

\* handleAdminLogin.  The cookie follows, from the settings as they are then.
Login(p) == Verify(p, "login")

\* handleAdminPassword and handleAdminPasswordReset, up to the check of the old password.
ConfirmPassword(p) == Verify(p, "password") \/ Verify(p, "reset")

\* A password is set, or that of the environment is made valid again.
ChangePassword(p) ==
  LET hash == IF proc[p].op = "password" THEN hashes + 1 ELSE 0
  IN  /\ proc[p].pc = "verified"
      /\ proc[p].op \in {"password", "reset"}
      /\ hash <= MaxHashes
      /\ hashes' = IF hash = 0 THEN hashes ELSE hash
      /\ TakeUp(p, [proc[p] EXCEPT !.pc = "persisting", !.stale = BeingWritten,
                                   !.given = 0, !.own = TRUE,
                                   !.next = [loadAdminSettings EXCEPT !.hash = hash]])
      /\ UNCHANGED <<settings, group, sessions, decided, spoiled, stray, faults>>

\* setAdminSessionCookie loads the settings once more.
SetCookie(p) ==
  /\ \/ proc[p].pc = "verified" /\ proc[p].op = "login"
     \/ proc[p].pc = "saved"
  /\ sessions' = sessions \cup
       {[fingerprint |-> currentAdminPasswordFingerprint,
         by |-> IF proc[p].stale THEN Unclear
                ELSE IF proc[p].op = "login" THEN proc[p].given
                ELSE proc[p].next.hash]}
  /\ Finish(p)
  /\ UNCHANGED <<settings, group, hashes, keys, decided, spoiled, stray, faults>>

Exists(p) == proc[p].next.key[proc[p].name] # 0

\* The handler saves what its request asks for, after what it has ensured.
SaveOwn(p, s) ==
  /\ TakeUp(p, [proc[p] EXCEPT !.pc = "persisting", !.own = TRUE, !.next = s])
  /\ UNCHANGED <<settings, group, sessions, hashes, decided, spoiled, faults>>

\* handleAdminGroups, POST; and handleAdminGroupAction, a new key.
AddGroup(p) ==
  /\ proc[p].pc = "ensured"
  /\ \/ proc[p].op = "addGroup" /\ ~Exists(p)
     \/ proc[p].op = "newKey" /\ Exists(p)
  /\ SaveOwn(p, [proc[p].next EXCEPT !.key[proc[p].name] = NewKey])
  /\ UNCHANGED stray

\* Bug: a group is deleted with the accounts in it.
Bug_HasAccounts(n, missed) == FALSE

\* Some account that listTokenAccounts has read is in the group.
HasAccounts(n, missed) == \E a \in Accounts \ missed : group[a] = n

\* Bug: the group stays in the list, marked as deleted.
Bug_WithoutGroup(s, n) == [s EXCEPT !.key[n] = -1]

WithoutGroup(s, n) == normalizeAdminSettings([s EXCEPT !.key[n] = 0])

\* missed: accounts whose files are being written now, or damaged.
DeleteGroup(p) ==
  LET n == proc[p].name
  IN  /\ proc[p].pc = "ensured"
      /\ proc[p].op = "deleteGroup"
      /\ Exists(p)
      /\ \E missed \in SUBSET Accounts :
           /\ missed # {} => faults < MaxFaults
           /\ ~HasAccounts(n, missed)
           /\ stray' = stray \cup missed
           /\ faults' = IF missed = {} THEN faults ELSE faults + 1
      /\ TakeUp(p, [proc[p] EXCEPT
           !.pc = "persisting", !.own = TRUE,
           !.next = WithoutGroup(proc[p].next, n)])
      /\ UNCHANGED <<settings, group, sessions, hashes, decided, spoiled>>

\* handleAdminAccounts, POST, for an account of an existing group.
SaveAccount(p) ==
  /\ proc[p].pc = "ensured"
  /\ proc[p].op = "saveAccount"
  /\ Exists(p)
  /\ group' = [group EXCEPT ![proc[p].account] = proc[p].name]
  /\ stray' = IF proc[p].stale THEN stray \cup {proc[p].account} ELSE stray
  /\ Finish(p)
  /\ UNCHANGED <<settings, sessions, hashes, keys, decided, spoiled, faults>>

\* The request is refused: the group exists, does not exist, or has accounts, or
\* the account cannot be saved.
Refuse(p) ==
  /\ proc[p].pc = "ensured"
  /\ \/ proc[p].op = "addGroup" /\ Exists(p)
     \/ proc[p].op \in {"newKey", "deleteGroup"} /\ ~Exists(p)
     \/ proc[p].op = "saveAccount"
     \/ proc[p].op = "deleteGroup" /\ HasAccounts(proc[p].name, {})
  /\ Finish(p)
  /\ UNCHANGED <<settings, group, sessions, hashes, keys, decided, spoiled, stray, faults>>

\* handleAdminAccountAction, DELETE.
DeleteAccount(a) ==
  /\ Authorized
  /\ group' = [group EXCEPT ![a] = NoGroup]
  /\ UNCHANGED <<settings, proc, sessions, hashes, keys, decided, spoiled, stray, faults>>

-----------------------------------------------------------------------------
(* saveAdminSettings.                                                      *)

\* p has changed the file, and is now in this state; what others have loaded
\* is stale.
Touched(p, state) ==
  proc' = [q \in Handlers |->
             IF q = p THEN state
             ELSE IF proc[q] = IdleProc THEN IdleProc
             ELSE [proc[q] EXCEPT !.stale = TRUE]]

Open(p) ==
  /\ proc[p].pc = "persisting"
  /\ settings' = Torn
  /\ Touched(p, [proc[p] EXCEPT !.pc = "opened"])
  /\ spoiled' = (spoiled \/ proc[p].stale)
  /\ UNCHANGED <<group, sessions, hashes, keys, decided, stray, faults>>

\* Perhaps a mix, if another has written since p opened the file.
Contents(p) == {proc[p].next} \cup (IF settings = Torn THEN {} ELSE {Mixed})

\* What is decided when p has saved: what its request asks for, or nothing but
\* the default group, if there was none.
Decide(p) ==
  LET n    == proc[p].name
      next == proc[p].next
      key  == IF proc[p].own /\ proc[p].op \in {"addGroup", "newKey", "deleteGroup"}
                THEN [decided.key EXCEPT ![n] =
                        IF proc[p].op = "deleteGroup" THEN 0 ELSE next.key[n]]
                ELSE decided.key
  IN  [hash |-> IF proc[p].op \in {"password", "reset"} THEN next.hash ELSE decided.hash,
       key  |-> IF key = NoKeys THEN next.key ELSE key]

\* What p does next.
Saved(p) ==
  IF proc[p].op \in {"password", "reset"} THEN [proc[p] EXCEPT !.pc = "saved"]
  ELSE IF proc[p].own \/ proc[p].op \in {"proxy", "rewrite"} THEN IdleProc
  ELSE [proc[p] EXCEPT !.pc = "ensured"]

Write(p) ==
  /\ proc[p].pc = "opened"
  /\ settings' \in Contents(p)
  /\ Touched(p, Saved(p))
  /\ decided' = Decide(p)
  /\ spoiled' = (spoiled \/ proc[p].stale)
  /\ UNCHANGED <<group, sessions, hashes, keys, stray, faults>>

\* Opening the file fails and it is as it was, or writing it fails.
WriteFails(p) ==
  /\ proc[p].pc \in {"persisting", "opened"}
  /\ faults < MaxFaults
  /\ faults' = faults + 1
  /\ spoiled' = (spoiled \/ proc[p].pc = "opened")
  /\ Finish(p)
  /\ UNCHANGED <<settings, group, sessions, hashes, keys, decided, stray>>

\* The process dies and starts again.
Crash ==
  /\ faults < MaxFaults
  /\ faults' = faults + 1
  /\ spoiled' = (spoiled \/ BeingWritten)
  /\ proc' = [p \in Handlers |-> IdleProc]
  /\ UNCHANGED <<settings, group, sessions, hashes, keys, decided, stray>>

-----------------------------------------------------------------------------
Request(p) ==
  \/ Ensure(p, "proxy", Default, NoAccount)
  \/ \E op \in {"addGroup", "newKey", "deleteGroup"}, n \in Names :
       Ensure(p, op, n, NoAccount)
  \/ \E n \in Names, a \in Accounts : Ensure(p, "saveAccount", n, a)
  \/ Rewrite(p)
  \/ Login(p) \/ ConfirmPassword(p)

Continue(p) ==
  \/ ChangePassword(p) \/ SetCookie(p)
  \/ AddGroup(p) \/ DeleteGroup(p) \/ SaveAccount(p) \/ Refuse(p)
  \/ Open(p) \/ Write(p) \/ WriteFails(p)

SettingsNext ==
  \/ \E p \in Handlers : Request(p) \/ Continue(p)
  \/ \E a \in Accounts : DeleteAccount(a)
  \/ Crash

SettingsSpec == SettingsInit /\ [][SettingsNext]_settingsVars

-----------------------------------------------------------------------------
(* Properties.                                                             *)

\* The settings file holds the password last set, and the groups and keys last
\* given out, whatever proxy requests, saved settings, logins and crashes come
\* in between - as long as no handler saves a copy that another has outdated,
\* and no save is cut off.
SettingsStick ==
  ~spoiled /\ ~BeingWritten =>
    IF Readable THEN settings = decided
    ELSE settings = NoFile /\ decided = defaultAdminSettings

\* A cookie is accepted exactly while the password that it was obtained with is
\* valid, unless settings were saved while it was obtained: after a change the
\* sessions of the old password end, after a reset to the environment's those
\* that were obtained with it are valid again.
SessionsFollowPassword ==
  ~spoiled /\ ~BeingWritten =>
    \A s \in sessions :
      s.by # Unclear => (s.fingerprint = currentAdminPasswordFingerprint <=> s.by = decided.hash)

\* No account is left in a group that does not exist, where no group key would
\* reach it, although groups are deleted by one handler and accounts saved by
\* another - unless the settings or the account were read while they changed.
AccountsHaveGroups ==
  ~spoiled /\ ~BeingWritten =>
    \A a \in Accounts \ stray :
      group[a] # NoGroup => Readable /\ settings.key[group[a]] # 0
=============================================================================
