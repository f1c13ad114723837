------------------------- MODULE AdminSettings_proofs -------------------------
(***************************************************************************)
(* Proofs about AdminSettings, for any handlers, groups, accounts and      *)
(* bounds.  The argument is about the handlers whose copy of the settings  *)
(* is not stale: what they are about to save is what is then decided       *)
(* (Loaded), only such a handler has opened the file, and every other is   *)
(* stale then (OpenedAlone).  While no settings are spoiled a stale        *)
(* handler does not save, so that the file follows what is decided.        *)
(***************************************************************************)
EXTENDS AdminSettings, TLAPS

USE AdminSettingsAssumption, SettingsFileAssumption DEF AdminSettingsAssumption

\* A handler that nobody has overtaken holds what is decided, or will be once it has
\* saved.
Loaded ==
  \A p \in Handlers : ~proc[p].stale =>
    /\ proc[p].pc \in {"persisting", "opened"} => proc[p].next = Decide(p)
    /\ proc[p].pc \in {"ensured", "saved"} => proc[p].next = decided
    /\ proc[p].pc = "verified" => proc[p].given = decided.hash

\* The file is torn while it is opened, by one handler that is not stale; the others
\* with settings in their hands have to find out.
OpenedAlone ==
  \A p \in Handlers : proc[p].pc = "opened" =>
    /\ settings = Torn
    /\ ~proc[p].stale
    /\ \A q \in Handlers \ {p} : proc[q] = IdleProc \/ proc[q].stale

FileFollows == ~spoiled => Loaded /\ OpenedAlone /\ SettingsStick

\* A cookie is signed with the password it was obtained with.
CookiesFollow ==
  /\ ~spoiled => \A s \in sessions : s.by # Unclear => s.fingerprint = s.by
  /\ \A p \in Handlers : proc[p].pc = "saved" => proc[p].op # "login"

\* p is sure of its group: it has saved what it had loaded, and now saves its own.
Sure(p) ==
  \/ proc[p].pc = "ensured"
  \/ proc[p].own /\ proc[p].op \in {"addGroup", "newKey", "deleteGroup"}

\* Of two handlers that are sure of their groups one has been overtaken.
OneIsSure ==
  \A p, q \in Handlers : p # q /\ Sure(p) /\ Sure(q) => proc[p].stale \/ proc[q].stale

\* A group about to be saved has a key, one about to be deleted no account.
OwnSaves ==
  \A p \in Handlers :
    proc[p].own /\ proc[p].pc \in {"persisting", "opened"} =>
      /\ proc[p].op \in {"addGroup", "newKey"} => proc[p].next.key[proc[p].name] # 0
      /\ proc[p].op = "deleteGroup" /\ ~proc[p].stale /\ ~spoiled =>
           \A a \in Accounts \ stray : group[a] # proc[p].name

\* The groups of accounts are among those decided.
GroupsDecided ==
  ~spoiled =>
    \A a \in Accounts \ stray : group[a] # NoGroup => decided.key[group[a]] # 0

GroupsFollow == OneIsSure /\ OwnSaves /\ GroupsDecided

-----------------------------------------------------------------------------
(* Records.                                                                *)

\* Settings that may hold the key that is generated next.
Drafts == [hash : 0..MaxHashes, key : [Names -> 0..MaxKeys \cup {NewKey}]]

DraftProc == [pc      : {"idle", "verified", "persisting", "opened", "ensured", "saved"},
              op      : EnsureOps \cup PasswordOps \cup {"none", "rewrite"},
              name    : Names,
              account : Accounts \cup {NoAccount},
              given   : 0..MaxHashes,
              next    : Drafts,
              own     : BOOLEAN,
              stale   : BOOLEAN]

LEMMA DefaultTypes ==
  /\ NoKeys \in [Names -> 0..MaxKeys]
  /\ defaultAdminSettings \in Settings
  /\ defaultAdminSettings.hash = 0 /\ defaultAdminSettings.key = NoKeys
  /\ IdleProc \in Proc
  /\ IdleProc.pc = "idle" /\ IdleProc.stale = FALSE /\ IdleProc.own = FALSE
  /\ Settings \subseteq Drafts /\ Proc \subseteq DraftProc
<1>1. NoKeys \in [Names -> 0..MaxKeys]
  BY DEF NoKeys
<1>2. /\ defaultAdminSettings \in Settings
      /\ defaultAdminSettings.hash = 0 /\ defaultAdminSettings.key = NoKeys
  BY <1>1 DEF defaultAdminSettings, Settings
<1>3. Settings \subseteq Drafts
  BY DEF Settings, Drafts
<1>4. Proc \subseteq DraftProc
  BY <1>3 DEF Proc, DraftProc
<1>5. IdleProc \in Proc
  BY <1>2 DEF IdleProc, Proc, EnsureOps, PasswordOps
<1>6. IdleProc.pc = "idle" /\ IdleProc.stale = FALSE /\ IdleProc.own = FALSE
  BY DEF IdleProc
<1>7. QED
  BY <1>1, <1>2, <1>3, <1>4, <1>5, <1>6

\* One key of some settings is replaced.
LEMMA KeyReplaced ==
  ASSUME NEW H, NEW K, NEW s \in [hash : H, key : [Names -> K]], NEW n \in Names, NEW k
  PROVE  /\ [s EXCEPT !.key[n] = k].hash = s.hash
         /\ [s EXCEPT !.key[n] = k].key = [s.key EXCEPT ![n] = k]
         /\ [s EXCEPT !.key[n] = k] = [hash |-> s.hash, key |-> [s.key EXCEPT ![n] = k]]
OBVIOUS

\* The hash stays, and there is a group; a list that has a group stays as it is.
LEMMA Normalized ==
  ASSUME SettingsTypeOK, NEW s \in Drafts
  PROVE  /\ normalizeAdminSettings(s) \in Drafts
         /\ normalizeAdminSettings(s).hash = s.hash
         /\ normalizeAdminSettings(s).key # NoKeys
         /\ s.key # NoKeys => normalizeAdminSettings(s) = s
         /\ s.key = NoKeys => normalizeAdminSettings(s).key[Default] = NewKey
<1>1. s \in [hash : 0..MaxHashes, key : [Names -> 0..MaxKeys \cup {NewKey}]]
  BY DEF Drafts
<1>2. NewKey \in Nat \ {0}
  BY DEF SettingsTypeOK, NewKey
<1>3. CASE s.key # NoKeys
  BY <1>3 DEF normalizeAdminSettings
<1>4. CASE s.key = NoKeys
  <2>1. normalizeAdminSettings(s) =
          [hash |-> s.hash, key |-> [s.key EXCEPT ![Default] = NewKey]]
    BY <1>1, <1>4, KeyReplaced DEF normalizeAdminSettings
  <2>2. [s.key EXCEPT ![Default] = NewKey] \in [Names -> 0..MaxKeys \cup {NewKey}]
    BY <1>1
  <2>3. [s.key EXCEPT ![Default] = NewKey][Default] = NewKey
    BY <1>1
  <2>4. NoKeys[Default] = 0
    BY DEF NoKeys
  <2>5. QED
    BY <1>1, <1>2, <1>4, <2>1, <2>2, <2>3, <2>4 DEF Drafts
<1>5. QED
  BY <1>3, <1>4

LEMMA LoadedType ==
  ASSUME SettingsTypeOK
  PROVE  loadAdminSettings \in Drafts
BY Normalized, DefaultTypes DEF loadAdminSettings, Readable

\* What p takes up is of its type: the next key is in it only if it was generated.
LEMMA TakeUpType ==
  ASSUME SettingsTypeOK, NEW p \in Handlers, NEW state \in DraftProc, TakeUp(p, state)
  PROVE  proc' \in [Handlers -> Proc] /\ keys' \in 0..MaxKeys
<1>1. keys \in 0..MaxKeys /\ proc \in [Handlers -> Proc]
  BY DEF SettingsTypeOK
<1>2. state.next \in Drafts
  BY DEF DraftProc
<1>3. keys' \in 0..MaxKeys
  BY <1>1 DEF TakeUp, NewKey
<1>4. state.next.key \in [Names -> 0..MaxKeys]
  BY <1>1, <1>2 DEF TakeUp, NewKey, Drafts
<1>5. state.next \in Settings
  BY <1>2, <1>4 DEF Drafts, Settings
<1>6. state \in Proc
  BY <1>5 DEF DraftProc, Proc
<1>7. QED
  BY <1>1, <1>3, <1>6 DEF TakeUp

-----------------------------------------------------------------------------
(* What handlers take up.                                                  *)

\* The state of a handler that has begun a request.
LEMMA Begins ==
  ASSUME SettingsTypeOK, NEW p \in Handlers, Request(p)
  PROVE  \E new \in DraftProc :
           /\ proc[p] = IdleProc
           /\ proc' = [proc EXCEPT ![p] = new]
           /\ TakeUp(p, new) \/ (new \in Proc /\ keys' = keys)
           /\ new.own = FALSE /\ new.stale = BeingWritten
           /\ \/ /\ new.pc = "persisting" /\ new.op \in EnsureOps
                 /\ new.next = normalizeAdminSettings(loadAdminSettings)
              \/ /\ new.pc = "persisting" /\ new.op = "rewrite"
                 /\ new.next = loadAdminSettings
              \/ /\ new.pc = "verified" /\ new.op \in PasswordOps
                 /\ new.given = currentAdminPasswordFingerprint
           /\ UNCHANGED <<settings, group, sessions, hashes, decided, spoiled, stray, faults>>
<1>. DEFINE load == loadAdminSettings
            norm == normalizeAdminSettings(loadAdminSettings)
            now  == currentAdminPasswordFingerprint
            busy == BeingWritten
<1>0. IdleProc \in DraftProc /\ IdleProc.own = FALSE
  BY DefaultTypes
<1>1. load \in Drafts /\ norm \in Drafts /\ now \in 0..MaxHashes /\ busy \in BOOLEAN
  <2>1. load \in Drafts /\ norm \in Drafts
    BY LoadedType, Normalized
  <2>2. now \in 0..MaxHashes
    BY DEF currentAdminPasswordFingerprint, Readable, Settings
  <2>3. busy \in BOOLEAN
    BY DEF BeingWritten
  <2>4. QED
    BY <2>1, <2>2, <2>3
<1>2. ASSUME NEW op \in EnsureOps, NEW n \in Names, NEW a \in Accounts \cup {NoAccount},
             Ensure(p, op, n, a)
      PROVE  \E new \in DraftProc :
               /\ proc[p] = IdleProc
               /\ proc' = [proc EXCEPT ![p] = new] /\ TakeUp(p, new)
               /\ new.own = FALSE /\ new.stale = busy
               /\ new.pc = "persisting" /\ new.op \in EnsureOps /\ new.next = norm
               /\ UNCHANGED <<settings, group, sessions, hashes, decided, spoiled, stray,
                              faults>>
  <2>. DEFINE new == [IdleProc EXCEPT !.pc = "persisting", !.op = op, !.name = n,
                        !.account = a, !.stale = busy, !.next = norm]
  <2>1. HIDE DEF norm, busy
  <2>2. new \in DraftProc
    BY <1>0, <1>1, <1>2 DEF DraftProc
  <2>3. /\ new.own = FALSE /\ new.stale = busy
        /\ new.pc = "persisting" /\ new.op \in EnsureOps /\ new.next = norm
    BY <1>0, <1>2 DEF DraftProc
  <2>4. TakeUp(p, new)
    BY <1>2 DEF Ensure, norm, busy
  <2>5. proc' = [proc EXCEPT ![p] = new]
    BY <2>4 DEF TakeUp
  <2>6. HIDE DEF new
  <2>7. QED
    BY <1>2, <2>2, <2>3, <2>4, <2>5 DEF Ensure
<1>3. ASSUME Rewrite(p)
      PROVE  \E new \in DraftProc :
               /\ proc[p] = IdleProc
               /\ proc' = [proc EXCEPT ![p] = new] /\ TakeUp(p, new)
               /\ new.own = FALSE /\ new.stale = busy
               /\ new.pc = "persisting" /\ new.op = "rewrite" /\ new.next = load
               /\ UNCHANGED <<settings, group, sessions, hashes, decided, spoiled, stray,
                              faults>>
  <2>. DEFINE new == [IdleProc EXCEPT !.pc = "persisting", !.op = "rewrite",
                                      !.stale = busy, !.next = load]
  <2>1. HIDE DEF load, busy
  <2>2. new \in DraftProc
    BY <1>0, <1>1 DEF DraftProc
  <2>3. /\ new.own = FALSE /\ new.stale = busy
        /\ new.pc = "persisting" /\ new.op = "rewrite" /\ new.next = load
    BY <1>0 DEF DraftProc
  <2>4. TakeUp(p, new)
    BY <1>3 DEF Rewrite, load, busy
  <2>5. proc' = [proc EXCEPT ![p] = new]
    BY <2>4 DEF TakeUp
  <2>6. HIDE DEF new
  <2>7. QED
    BY <1>3, <2>2, <2>3, <2>4, <2>5 DEF Rewrite
<1>4. ASSUME NEW op \in PasswordOps, Verify(p, op)
      PROVE  \E new \in DraftProc :
               /\ proc[p] = IdleProc
               /\ proc' = [proc EXCEPT ![p] = new] /\ new \in Proc /\ keys' = keys
               /\ new.own = FALSE /\ new.stale = busy
               /\ new.pc = "verified" /\ new.op \in PasswordOps /\ new.given = now
               /\ UNCHANGED <<settings, group, sessions, hashes, decided, spoiled, stray,
                              faults>>
  <2>. DEFINE new == [IdleProc EXCEPT !.pc = "verified", !.op = op, !.stale = busy,
                                      !.given = now]
  <2>1. HIDE DEF now, busy
  <2>2. new \in DraftProc
    BY <1>0, <1>1, <1>4 DEF DraftProc
  <2>3. new \in Proc
    BY <1>1, <1>4, DefaultTypes DEF Proc
  <2>4. /\ new.own = FALSE /\ new.stale = busy
        /\ new.pc = "verified" /\ new.op \in PasswordOps /\ new.given = now
    BY <1>0, <1>4 DEF DraftProc
  <2>5. proc' = [proc EXCEPT ![p] = new]
    BY <1>4 DEF Verify, now, busy
  <2>6. HIDE DEF new
  <2>7. QED
    BY <1>4, <2>2, <2>3, <2>4, <2>5 DEF Verify
<1>5. QED
  BY <1>2, <1>3, <1>4 DEF Request, EnsureOps, PasswordOps, Login, ConfirmPassword

\* The state of a handler that is about to save what its request asks for.
LEMMA TakesUpOwn ==
  ASSUME SettingsTypeOK, NEW p \in Handlers, NEW s \in Drafts, SaveOwn(p, s)
  PROVE  \E new \in DraftProc :
           /\ proc' = [proc EXCEPT ![p] = new] /\ TakeUp(p, new)
           /\ new.pc = "persisting" /\ new.own = TRUE /\ new.next = s
           /\ new.op = proc[p].op /\ new.name = proc[p].name /\ new.stale = proc[p].stale
<1>. DEFINE new == [proc[p] EXCEPT !.pc = "persisting", !.own = TRUE, !.next = s]
<1>1. proc[p] \in DraftProc
  BY DefaultTypes DEF SettingsTypeOK
<1>2. new \in DraftProc
  BY <1>1 DEF DraftProc
<1>3. /\ new.pc = "persisting" /\ new.own = TRUE /\ new.next = s
      /\ new.op = proc[p].op /\ new.name = proc[p].name /\ new.stale = proc[p].stale
  BY <1>1 DEF DraftProc
<1>4. TakeUp(p, new)
  BY DEF SaveOwn
<1>5. QED
  BY <1>2, <1>3, <1>4 DEF TakeUp

\* The state of a handler that is about to save another password.
LEMMA TakesUpPassword ==
  ASSUME SettingsTypeOK, NEW p \in Handlers, ChangePassword(p)
  PROVE  \E new \in DraftProc :
           /\ proc' = [proc EXCEPT ![p] = new] /\ TakeUp(p, new)
           /\ new.pc = "persisting" /\ new.own = TRUE /\ new.stale = BeingWritten
           /\ new.op = proc[p].op /\ new.op \in {"password", "reset"}
           /\ new.next.key = loadAdminSettings.key
<1>. DEFINE hash == IF proc[p].op = "password" THEN hashes + 1 ELSE 0
            load == loadAdminSettings
            next == [load EXCEPT !.hash = hash]
            busy == BeingWritten
            new  == [proc[p] EXCEPT !.pc = "persisting", !.stale = busy, !.given = 0,
                                    !.own = TRUE, !.next = next]
<1>1. load \in Drafts /\ busy \in BOOLEAN /\ hash \in 0..MaxHashes /\ 0 \in 0..MaxHashes
  <2>1. hash \in 0..MaxHashes
    BY DEF ChangePassword, SettingsTypeOK
  <2>2. QED
    BY <2>1, LoadedType DEF BeingWritten
<1>2. TakeUp(p, new) /\ proc[p].op \in {"password", "reset"}
  BY DEF ChangePassword
<1>3. proc[p] \in DraftProc
  BY DefaultTypes DEF SettingsTypeOK
<1>4. HIDE DEF hash, load, busy
<1>5. next \in Drafts /\ next.key = load.key
  BY <1>1 DEF Drafts
<1>6. HIDE DEF next
<1>7. new \in DraftProc
  BY <1>1, <1>3, <1>5 DEF DraftProc
<1>8. /\ new.pc = "persisting" /\ new.own = TRUE /\ new.stale = busy
      /\ new.op = proc[p].op /\ new.next = next
  BY <1>3 DEF DraftProc
<1>9. proc' = [proc EXCEPT ![p] = new]
  BY <1>2 DEF TakeUp
<1>10. HIDE DEF new
<1>11. QED
  BY <1>2, <1>5, <1>7, <1>8, <1>9 DEF load, busy

\* A new key, for a new group or for an old one.
LEMMA TakesUpGroup ==
  ASSUME SettingsTypeOK, NEW p \in Handlers, AddGroup(p)
  PROVE  \E new \in DraftProc :
           /\ proc' = [proc EXCEPT ![p] = new] /\ TakeUp(p, new)
           /\ new.pc = "persisting" /\ new.own = TRUE /\ new.stale = proc[p].stale
           /\ new.op = proc[p].op /\ new.op \in {"addGroup", "newKey"}
           /\ new.name = proc[p].name
           /\ new.next.hash = proc[p].next.hash
           /\ new.next.key = [proc[p].next.key EXCEPT ![proc[p].name] = NewKey]
           /\ new.next.key[proc[p].name] # 0
<1>. DEFINE next == [proc[p].next EXCEPT !.key[proc[p].name] = NewKey]
<1>1. proc[p].next \in Settings /\ proc[p].name \in Names
  BY DEF SettingsTypeOK, Proc
<1>2. NewKey \in Nat /\ NewKey # 0
  BY DEF SettingsTypeOK, NewKey
<1>3. next = [hash |-> proc[p].next.hash,
              key |-> [proc[p].next.key EXCEPT ![proc[p].name] = NewKey]]
  BY <1>1, KeyReplaced DEF Settings
<1>4. /\ [proc[p].next.key EXCEPT ![proc[p].name] = NewKey]
            \in [Names -> 0..MaxKeys \cup {NewKey}]
      /\ [proc[p].next.key EXCEPT ![proc[p].name] = NewKey][proc[p].name] = NewKey
  BY <1>1 DEF Settings
<1>5. next \in Drafts
  BY <1>1, <1>3, <1>4 DEF Settings, Drafts
<1>6. SaveOwn(p, next)
  BY DEF AddGroup
<1>7. proc[p].op \in {"addGroup", "newKey"}
  BY DEF AddGroup
<1>8. HIDE DEF next
<1>9. PICK new \in DraftProc :
        /\ proc' = [proc EXCEPT ![p] = new] /\ TakeUp(p, new)
        /\ new.pc = "persisting" /\ new.own = TRUE /\ new.next = next
        /\ new.op = proc[p].op /\ new.name = proc[p].name /\ new.stale = proc[p].stale
  BY <1>5, <1>6, TakesUpOwn
<1>10. /\ new.next.hash = proc[p].next.hash
      /\ new.next.key = [proc[p].next.key EXCEPT ![proc[p].name] = NewKey]
      /\ new.next.key[proc[p].name] # 0
  <2>1. /\ next.hash = proc[p].next.hash
        /\ next.key = [proc[p].next.key EXCEPT ![proc[p].name] = NewKey]
    BY <1>3
  <2>2. next.key[proc[p].name] # 0
    BY <1>2, <1>4, <2>1
  <2>3. new.next = next
    BY <1>9
  <2>4. QED
    BY <2>1, <2>2, <2>3
<1>11. QED
  BY <1>9, <1>10, <1>7

\* A group is deleted; the last one is replaced by the default group.
LEMMA TakesUpDeletion ==
  ASSUME SettingsTypeOK, NEW p \in Handlers, DeleteGroup(p)
  PROVE  \E new \in DraftProc :
           /\ proc' = [proc EXCEPT ![p] = new] /\ TakeUp(p, new)
           /\ new.pc = "persisting" /\ new.own = TRUE /\ new.stale = proc[p].stale
           /\ new.op = "deleteGroup" /\ new.op = proc[p].op /\ new.name = proc[p].name
           /\ new.next.hash = proc[p].next.hash
           /\ LET rest == [proc[p].next.key EXCEPT ![proc[p].name] = 0]
              IN  rest # NoKeys => new.next.key = rest
<1>. DEFINE left == [proc[p].next EXCEPT !.key[proc[p].name] = 0]
            rest == [proc[p].next.key EXCEPT ![proc[p].name] = 0]
            next == normalizeAdminSettings(left)
            new  == [proc[p] EXCEPT !.pc = "persisting", !.own = TRUE, !.next = next]
<1>1. proc[p] \in DraftProc /\ proc[p].next \in Settings /\ proc[p].name \in Names
  BY DefaultTypes DEF SettingsTypeOK, Proc
<1>2. left = [hash |-> proc[p].next.hash, key |-> rest]
  BY <1>1, KeyReplaced DEF Settings
<1>3. rest \in [Names -> 0..MaxKeys]
  BY <1>1 DEF Settings
<1>4. left \in Drafts
  BY <1>1, <1>2, <1>3 DEF Settings, Drafts
<1>5. TakeUp(p, new) /\ proc[p].op = "deleteGroup"
  BY DEF DeleteGroup, WithoutGroup
<1>6. next \in Drafts /\ next.hash = left.hash /\ (left.key # NoKeys => next = left)
  BY <1>4, Normalized
<1>7. HIDE DEF left, rest, next
<1>8. new \in DraftProc
  BY <1>1, <1>6 DEF DraftProc
<1>9. /\ new.pc = "persisting" /\ new.own = TRUE /\ new.next = next
      /\ new.op = proc[p].op /\ new.name = proc[p].name /\ new.stale = proc[p].stale
  BY <1>1 DEF DraftProc
<1>10. proc' = [proc EXCEPT ![p] = new]
  BY <1>5 DEF TakeUp
<1>11. HIDE DEF new
<1>12. left.hash = proc[p].next.hash /\ left.key = rest
  BY <1>2
<1>13. QED
  BY <1>5, <1>6, <1>8, <1>9, <1>10, <1>12 DEF rest

-----------------------------------------------------------------------------
(* What handlers save.                                                     *)

LEMMA DecideType ==
  ASSUME SettingsTypeOK, NEW p \in Handlers
  PROVE  Decide(p) \in Settings
<1>1. /\ proc[p] \in Proc /\ proc[p].next.hash \in 0..MaxHashes /\ proc[p].name \in Names
      /\ proc[p].next.key \in [Names -> 0..MaxKeys]
      /\ decided.hash \in 0..MaxHashes /\ decided.key \in [Names -> 0..MaxKeys]
  BY DEF SettingsTypeOK, Proc, Settings
<1>2. \A k \in 0..MaxKeys : [decided.key EXCEPT ![proc[p].name] = k] \in [Names -> 0..MaxKeys]
  BY <1>1
<1>3. 0 \in 0..MaxKeys /\ proc[p].next.key[proc[p].name] \in 0..MaxKeys
  BY <1>1
<1>4. QED
  BY <1>1, <1>2, <1>3 DEF Decide, Settings

LEMMA SavedType ==
  ASSUME SettingsTypeOK, NEW p \in Handlers
  PROVE  /\ Saved(p) \in Proc
         /\ [proc[p] EXCEPT !.pc = "opened"] \in Proc
         /\ [proc[p] EXCEPT !.stale = TRUE] \in Proc
<1>1. proc[p] \in Proc
  BY DEF SettingsTypeOK
<1>2. \A state \in {"opened", "saved", "ensured"} : [proc[p] EXCEPT !.pc = state] \in Proc
  BY <1>1 DEF Proc
<1>3. [proc[p] EXCEPT !.stale = TRUE] \in Proc
  BY <1>1 DEF Proc
<1>4. Saved(p) \in Proc
  BY <1>2, DefaultTypes DEF Saved
<1>5. QED
  BY <1>2, <1>3, <1>4

LEMMA TouchedType ==
  ASSUME SettingsTypeOK, NEW p \in Handlers, NEW state \in Proc, Touched(p, state)
  PROVE  proc' \in [Handlers -> Proc]
BY SavedType, DefaultTypes DEF Touched, SettingsTypeOK

-----------------------------------------------------------------------------
(* Types.                                                                  *)

LEMMA CookieType ==
  ASSUME SettingsTypeOK, NEW p \in Handlers, SetCookie(p)
  PROVE  sessions' \subseteq Session
<1>1. /\ proc[p].given \in 0..MaxHashes /\ proc[p].next.hash \in 0..MaxHashes
      /\ sessions \subseteq Session
  BY DEF SettingsTypeOK, Proc, Settings
<1>2. currentAdminPasswordFingerprint \in 0..MaxHashes
  BY DEF currentAdminPasswordFingerprint, Readable, Settings
<1>3. QED
  BY <1>1, <1>2 DEF SetCookie, Session

LEMMA SettingsTyped ==
  SettingsTypeOK /\ [SettingsNext]_settingsVars => SettingsTypeOK'
<1> SUFFICES ASSUME SettingsTypeOK, [SettingsNext]_settingsVars
             PROVE  SettingsTypeOK'
  OBVIOUS
<1>1. ASSUME NEW p \in Handlers, Request(p) PROVE SettingsTypeOK'
  <2>1. PICK new \in DraftProc :
          /\ proc' = [proc EXCEPT ![p] = new]
          /\ TakeUp(p, new) \/ (new \in Proc /\ keys' = keys)
          /\ UNCHANGED <<settings, group, sessions, hashes, decided, spoiled, stray, faults>>
    BY <1>1, Begins
  <2>2. proc' \in [Handlers -> Proc] /\ keys' \in 0..MaxKeys
    BY <2>1, TakeUpType DEF SettingsTypeOK
  <2>3. QED
    BY <2>1, <2>2 DEF SettingsTypeOK
<1>2. ASSUME NEW p \in Handlers, ChangePassword(p) PROVE SettingsTypeOK'
  <2>1. proc' \in [Handlers -> Proc] /\ keys' \in 0..MaxKeys
    BY <1>2, TakesUpPassword, TakeUpType
  <2>2. hashes' \in 0..MaxHashes
    BY <1>2 DEF ChangePassword, SettingsTypeOK
  <2>3. QED
    BY <1>2, <2>1, <2>2 DEF ChangePassword, SettingsTypeOK
<1>3. ASSUME NEW p \in Handlers, SetCookie(p) PROVE SettingsTypeOK'
  BY <1>3, CookieType, DefaultTypes DEF SetCookie, Finish, SettingsTypeOK
<1>4. ASSUME NEW p \in Handlers, AddGroup(p) PROVE SettingsTypeOK'
  <2>1. proc' \in [Handlers -> Proc] /\ keys' \in 0..MaxKeys
    BY <1>4, TakesUpGroup, TakeUpType
  <2>2. QED
    BY <1>4, <2>1 DEF AddGroup, SaveOwn, SettingsTypeOK
<1>5. ASSUME NEW p \in Handlers, DeleteGroup(p) PROVE SettingsTypeOK'
  <2>1. proc' \in [Handlers -> Proc] /\ keys' \in 0..MaxKeys
    BY <1>5, TakesUpDeletion, TakeUpType
  <2>2. stray' \subseteq Accounts /\ faults' \in 0..MaxFaults
    BY <1>5 DEF DeleteGroup, SettingsTypeOK
  <2>3. QED
    BY <1>5, <2>1, <2>2 DEF DeleteGroup, SettingsTypeOK
<1>6. ASSUME NEW p \in Handlers, SaveAccount(p) PROVE SettingsTypeOK'
  <2>1. proc[p].name \in Names
    BY DEF SettingsTypeOK, Proc
  <2>2. proc' \in [Handlers -> Proc]
    BY <1>6, DefaultTypes DEF SaveAccount, Finish, SettingsTypeOK
  <2>3. group' \in [Accounts -> Names \cup {NoGroup}]
    BY <1>6, <2>1 DEF SaveAccount, SettingsTypeOK
  <2>4. QED
    BY <1>6, <2>2, <2>3 DEF SaveAccount, SettingsTypeOK
<1>7. ASSUME NEW p \in Handlers, Refuse(p) PROVE SettingsTypeOK'
  BY <1>7, DefaultTypes DEF Refuse, Finish, SettingsTypeOK
<1>8. ASSUME NEW p \in Handlers, Open(p) PROVE SettingsTypeOK'
  BY <1>8, SavedType, TouchedType DEF Open, SettingsTypeOK
<1>9. ASSUME NEW p \in Handlers, Write(p) PROVE SettingsTypeOK'
  <2>1. proc' \in [Handlers -> Proc]
    BY <1>9, SavedType, TouchedType DEF Write
  <2>2. decided' \in Settings
    BY <1>9, DecideType DEF Write
  <2>3. settings' \in Settings \cup {Mixed}
    BY <1>9 DEF Write, Contents, SettingsTypeOK, Proc
  <2>4. QED
    BY <1>9, <2>1, <2>2, <2>3 DEF Write, SettingsTypeOK
<1>10. ASSUME NEW p \in Handlers, WriteFails(p) PROVE SettingsTypeOK'
  <2>1. proc' \in [Handlers -> Proc] /\ faults' \in 0..MaxFaults
    BY <1>10, DefaultTypes DEF WriteFails, Finish, SettingsTypeOK
  <2>2. QED
    BY <1>10, <2>1 DEF WriteFails, SettingsTypeOK
<1>11. ASSUME NEW a \in Accounts, DeleteAccount(a) PROVE SettingsTypeOK'
  BY <1>11 DEF DeleteAccount, SettingsTypeOK
<1>12. CASE Crash
  <2>1. proc' \in [Handlers -> Proc] /\ faults' \in 0..MaxFaults /\ spoiled' \in BOOLEAN
    BY <1>12, DefaultTypes DEF Crash, BeingWritten, SettingsTypeOK
  <2>2. QED
    BY <1>12, <2>1 DEF Crash, SettingsTypeOK
<1>13. CASE UNCHANGED settingsVars
  BY <1>13 DEF settingsVars, SettingsTypeOK
<1>14. QED
  BY <1>1, <1>2, <1>3, <1>4, <1>5, <1>6, <1>7, <1>8, <1>9, <1>10, <1>11, <1>12, <1>13
     DEF SettingsNext, Continue

\* The settings file holds settings, or is one of the three kinds of unreadable; every
\* handler, cookie and counter keeps its type, however the goroutines interleave.
THEOREM SettingsTypeCorrect == SettingsSpec => []SettingsTypeOK
<1>1. SettingsInit => SettingsTypeOK
  <2>1. 0 \in 0..MaxHashes /\ 0 \in 0..MaxKeys /\ 0 \in 0..MaxFaults
    OBVIOUS
  <2>2. {[fingerprint |-> 0, by |-> 0]} \subseteq Session
    BY <2>1 DEF Session
  <2>3. /\ [p \in Handlers |-> IdleProc] \in [Handlers -> Proc]
        /\ [a \in Accounts |-> NoGroup] \in [Accounts -> Names \cup {NoGroup}]
    BY DefaultTypes
  <2>4. QED
    BY <2>1, <2>2, <2>3, DefaultTypes DEF SettingsInit, SettingsTypeOK
<1>2. QED
  BY <1>1, SettingsTyped, PTL DEF SettingsSpec

-----------------------------------------------------------------------------
(* The file follows what is decided.                                       *)

LEMMA DraftIs ==
  ASSUME NEW s \in Drafts, NEW h, NEW k, s.hash = h, s.key = k
  PROVE  s = [hash |-> h, key |-> k]
BY DEF Drafts

\* While nobody writes, the settings that are loaded are those decided, and perhaps a
\* first group.
LEMMA LoadsDecided ==
  ASSUME SettingsTypeOK, SettingsStick, ~spoiled, ~BeingWritten
  PROVE  /\ loadAdminSettings.hash = decided.hash
         /\ decided.key # NoKeys => loadAdminSettings = decided
         /\ currentAdminPasswordFingerprint = decided.hash
<1>1. CASE Readable
  <2>1. settings = decided /\ settings \in Drafts
    BY <1>1, DefaultTypes DEF SettingsStick, Readable
  <2>2. QED
    BY <1>1, <2>1, Normalized DEF loadAdminSettings, currentAdminPasswordFingerprint
<1>2. CASE ~Readable
  <2>1. decided = defaultAdminSettings
    BY <1>2 DEF SettingsStick
  <2>2. QED
    BY <1>2, <2>1, DefaultTypes DEF loadAdminSettings, currentAdminPasswordFingerprint
<1>3. QED
  BY <1>1, <1>2

\* What p decides depends on what it holds and on what was decided.
LEMMA DecidesAlike ==
  ASSUME NEW q \in Handlers, proc'[q] = proc[q], decided' = decided
  PROVE  Decide(q)' = Decide(q)
BY DEF Decide

\* One handler takes up something, and the file stays as it is.
LEMMA FileStep ==
  ASSUME SettingsTypeOK, FileFollows, NEW p \in Handlers, NEW new,
         proc' = [proc EXCEPT ![p] = new],
         settings' = settings, decided' = decided, spoiled' = spoiled,
         proc[p].pc # "opened", new.pc # "opened",
         ~spoiled =>
           /\ BeingWritten => new = IdleProc \/ new.stale
           /\ ~new.stale =>
                /\ new.pc = "persisting" => new.next = Decide(p)'
                /\ new.pc \in {"ensured", "saved"} => new.next = decided
                /\ new.pc = "verified" => new.given = decided.hash
  PROVE  FileFollows'
<1>1. SUFFICES ASSUME ~spoiled
               PROVE  Loaded' /\ OpenedAlone' /\ SettingsStick'
  BY DEF FileFollows
<1>2. proc'[p] = new /\ \A q \in Handlers \ {p} : proc'[q] = proc[q]
  BY DEF SettingsTypeOK
<1>3. Loaded /\ OpenedAlone /\ SettingsStick
  BY <1>1 DEF FileFollows
<1>4. BeingWritten' <=> BeingWritten
  BY <1>2 DEF BeingWritten
<1>5. ASSUME NEW q \in Handlers, ~proc'[q].stale
      PROVE  /\ proc'[q].pc \in {"persisting", "opened"} => proc'[q].next = Decide(q)'
             /\ proc'[q].pc \in {"ensured", "saved"} => proc'[q].next = decided'
             /\ proc'[q].pc = "verified" => proc'[q].given = decided'.hash
  <2>1. CASE q = p
    BY <1>1, <1>2, <1>5, <2>1
  <2>2. CASE q # p
    <3>1. proc'[q] = proc[q] /\ Decide(q)' = Decide(q)
      BY <1>2, <2>2, DecidesAlike
    <3>2. QED
      BY <1>3, <1>5, <3>1 DEF Loaded
  <2>3. QED
    BY <2>1, <2>2
<1>6. ASSUME NEW q \in Handlers, proc'[q].pc = "opened"
      PROVE  /\ settings' = Torn /\ ~proc'[q].stale
             /\ \A r \in Handlers \ {q} : proc'[r] = IdleProc \/ proc'[r].stale
  <2>1. q # p /\ proc'[q] = proc[q]
    BY <1>2, <1>6
  <2>2. /\ settings = Torn /\ ~proc[q].stale
        /\ \A r \in Handlers \ {q} : proc[r] = IdleProc \/ proc[r].stale
    BY <1>3, <1>6, <2>1 DEF OpenedAlone
  <2>3. new = IdleProc \/ new.stale
    BY <1>1, <1>6, <2>1 DEF BeingWritten
  <2>4. QED
    BY <1>2, <2>1, <2>2, <2>3
<1>7. Loaded'
  BY <1>5 DEF Loaded
<1>8. OpenedAlone'
  BY <1>6 DEF OpenedAlone
<1>9. SettingsStick'
  BY <1>3, <1>4 DEF SettingsStick, Readable
<1>10. QED
  BY <1>7, <1>8, <1>9

\* A handler with settings in its hands is stale while another writes.
LEMMA StaleWhileWritten ==
  ASSUME FileFollows, ~spoiled, NEW p \in Handlers, proc[p].pc \notin {"idle", "opened"},
         BeingWritten
  PROVE  proc[p].stale
<1>1. PICK q \in Handlers : proc[q].pc = "opened"
  BY DEF BeingWritten
<1>2. q # p /\ proc[p] # IdleProc
  BY <1>1, DefaultTypes
<1>3. QED
  BY <1>1, <1>2 DEF FileFollows, OpenedAlone

LEMMA FileBegins ==
  ASSUME SettingsTypeOK, FileFollows, NEW p \in Handlers, Request(p)
  PROVE  FileFollows'
<1>1. PICK new \in DraftProc :
        /\ proc[p] = IdleProc
        /\ proc' = [proc EXCEPT ![p] = new]
        /\ new.own = FALSE /\ new.stale = BeingWritten
        /\ \/ /\ new.pc = "persisting" /\ new.op \in EnsureOps
              /\ new.next = normalizeAdminSettings(loadAdminSettings)
           \/ /\ new.pc = "persisting" /\ new.op = "rewrite"
              /\ new.next = loadAdminSettings
           \/ /\ new.pc = "verified" /\ new.op \in PasswordOps
              /\ new.given = currentAdminPasswordFingerprint
        /\ UNCHANGED <<settings, group, sessions, hashes, decided, spoiled, stray, faults>>
  BY Begins
<1>2. proc'[p] = new
  BY <1>1 DEF SettingsTypeOK
<1>3. ASSUME ~spoiled, ~new.stale
      PROVE  /\ new.pc = "persisting" => new.next = Decide(p)'
             /\ new.pc = "verified" => new.given = decided.hash
  <2>1. /\ loadAdminSettings.hash = decided.hash
        /\ decided.key # NoKeys => loadAdminSettings = decided
        /\ currentAdminPasswordFingerprint = decided.hash
    BY <1>1, <1>3, LoadsDecided DEF FileFollows
  <2>2. ASSUME new.pc = "persisting"
        PROVE  new.next = Decide(p)'
    <3>1. new.next.hash = decided.hash /\ (decided.key # NoKeys => new.next.key = decided.key)
      BY <1>1, <2>1, <2>2, Normalized, LoadedType
    <3>2. new.op \notin {"password", "reset"}
      BY <1>1, <2>2 DEF EnsureOps
    <3>3. Decide(p)' = [hash |-> decided.hash,
                        key |-> IF decided.key = NoKeys THEN new.next.key ELSE decided.key]
      BY <1>1, <1>2, <3>2 DEF Decide
    <3>4. new.next \in Drafts
      BY DEF DraftProc
    <3>5. QED
      BY <3>1, <3>3, <3>4, DraftIs
  <2>3. QED
    BY <1>1, <2>1, <2>2
<1>4. new.pc \in {"persisting", "verified"} /\ proc[p].pc # "opened"
  BY <1>1, DefaultTypes
<1>5. QED
  BY <1>1, <1>3, <1>4, FileStep

LEMMA FileChangesPassword ==
  ASSUME SettingsTypeOK, FileFollows, NEW p \in Handlers, ChangePassword(p)
  PROVE  FileFollows'
<1>1. PICK new \in DraftProc :
        /\ proc' = [proc EXCEPT ![p] = new]
        /\ new.pc = "persisting" /\ new.own = TRUE /\ new.stale = BeingWritten
        /\ new.op \in {"password", "reset"}
        /\ new.next.key = loadAdminSettings.key
  BY TakesUpPassword
<1>2. proc'[p] = new
  BY <1>1 DEF SettingsTypeOK
<1>3. proc[p].pc = "verified" /\ UNCHANGED <<settings, decided, spoiled>>
  BY DEF ChangePassword
<1>4. ASSUME ~spoiled, ~new.stale
      PROVE  new.next = Decide(p)'
  <2>1. decided.key # NoKeys => loadAdminSettings = decided
    BY <1>1, <1>4, LoadsDecided DEF FileFollows
  <2>2. Decide(p)' = [hash |-> new.next.hash,
                      key |-> IF decided.key = NoKeys THEN new.next.key ELSE decided.key]
    BY <1>1, <1>2, <1>3 DEF Decide
  <2>3. new.next \in Drafts
    BY DEF DraftProc
  <2>4. QED
    BY <1>1, <2>1, <2>2, <2>3, DraftIs
<1>5. QED
  BY <1>1, <1>3, <1>4, FileStep

\* A handler that has ensured the settings and now saves its own.
LEMMA FileTakesOwn ==
  ASSUME SettingsTypeOK, FileFollows, NEW p \in Handlers, AddGroup(p) \/ DeleteGroup(p)
  PROVE  FileFollows'
<1>1. proc[p].pc = "ensured" /\ UNCHANGED <<settings, decided, spoiled>>
  BY DEF AddGroup, DeleteGroup, SaveOwn
<1>2. PICK new \in DraftProc :
        /\ proc' = [proc EXCEPT ![p] = new]
        /\ new.pc = "persisting" /\ new.own = TRUE /\ new.stale = proc[p].stale
        /\ new.op \in {"addGroup", "newKey", "deleteGroup"}
        /\ new.name = proc[p].name
        /\ new.next.hash = proc[p].next.hash
        /\ LET key == [proc[p].next.key EXCEPT ![new.name] =
                         IF new.op = "deleteGroup" THEN 0 ELSE new.next.key[new.name]]
           IN  key # NoKeys => new.next.key = key
  <2>1. CASE AddGroup(p)
    <3>1. PICK new \in DraftProc :
            /\ proc' = [proc EXCEPT ![p] = new]
            /\ new.pc = "persisting" /\ new.own = TRUE /\ new.stale = proc[p].stale
            /\ new.op \in {"addGroup", "newKey"}
            /\ new.name = proc[p].name
            /\ new.next.hash = proc[p].next.hash
            /\ new.next.key = [proc[p].next.key EXCEPT ![proc[p].name] = NewKey]
      BY <2>1, TakesUpGroup
    <3>2. proc[p].name \in Names /\ proc[p].next.key \in [Names -> 0..MaxKeys]
      BY DEF SettingsTypeOK, Proc, Settings
    <3>3. new.next.key[new.name] = NewKey /\ new.op # "deleteGroup"
      BY <3>1, <3>2
    <3>4. QED
      BY <3>1, <3>3
  <2>2. CASE DeleteGroup(p)
    <3>1. PICK new \in DraftProc :
            /\ proc' = [proc EXCEPT ![p] = new]
            /\ new.pc = "persisting" /\ new.own = TRUE /\ new.stale = proc[p].stale
            /\ new.op = "deleteGroup" /\ new.name = proc[p].name
            /\ new.next.hash = proc[p].next.hash
            /\ LET rest == [proc[p].next.key EXCEPT ![proc[p].name] = 0]
               IN  rest # NoKeys => new.next.key = rest
      BY <2>2, TakesUpDeletion
    <3>2. new.op \in {"addGroup", "newKey", "deleteGroup"}
      BY <3>1
    <3>3. QED
      BY <3>1, <3>2
  <2>3. QED
    BY <2>1, <2>2
<1>3. proc'[p] = new
  BY <1>2 DEF SettingsTypeOK
<1>4. ASSUME ~spoiled, ~new.stale
      PROVE  new.next = Decide(p)'
  <2>1. proc[p].next = decided
    BY <1>1, <1>2, <1>4 DEF FileFollows, Loaded
  <2>2. Decide(p)' =
          [hash |-> decided.hash,
           key |-> LET key == [decided.key EXCEPT ![new.name] =
                                 IF new.op = "deleteGroup" THEN 0 ELSE new.next.key[new.name]]
                   IN  IF key = NoKeys THEN new.next.key ELSE key]
    BY <1>1, <1>2, <1>3 DEF Decide
  <2>3. new.next \in Drafts
    BY DEF DraftProc
  <2>4. QED
    BY <1>2, <2>1, <2>2, <2>3, DraftIs
<1>5. ~spoiled /\ BeingWritten => new.stale
  BY <1>1, <1>2, StaleWhileWritten
<1>6. QED
  BY <1>1, <1>2, <1>4, <1>5, FileStep

LEMMA FileFinish ==
  ASSUME SettingsTypeOK, FileFollows, NEW p \in Handlers, Finish(p), proc[p].pc # "opened",
         settings' = settings, decided' = decided, spoiled' = spoiled
  PROVE  FileFollows'
BY FileStep, DefaultTypes DEF Finish

\* The only handler that opens the file unspoiled is not stale, and leaves the others so.
LEMMA FileOpens ==
  ASSUME SettingsTypeOK, FileFollows, NEW p \in Handlers, Open(p)
  PROVE  FileFollows'
<1>1. SUFFICES ASSUME ~spoiled, ~proc[p].stale
               PROVE  Loaded' /\ OpenedAlone' /\ SettingsStick'
  BY DEF FileFollows, Open
<1>2. proc[p].pc = "persisting" /\ settings' = Torn /\ decided' = decided
  BY DEF Open
<1>3. /\ \A q \in Handlers \ {p} : proc'[q] = IdleProc \/ proc'[q].stale
      /\ proc'[p] = [proc[p] EXCEPT !.pc = "opened"]
  BY DEF Open, Touched, SettingsTypeOK, Proc
<1>4. /\ proc'[p].pc = "opened" /\ ~proc'[p].stale /\ proc'[p].next = proc[p].next
      /\ proc'[p].own = proc[p].own /\ proc'[p].op = proc[p].op
      /\ proc'[p].name = proc[p].name
  BY <1>1, <1>3 DEF SettingsTypeOK, Proc
<1>5. Decide(p)' = Decide(p)
  BY <1>2, <1>4 DEF Decide
<1>6. ASSUME NEW q \in Handlers, proc'[q].pc = "opened"
      PROVE  q = p \/ proc'[q].stale
  BY <1>3, <1>6, DefaultTypes
<1>7. ~BeingWritten
  BY <1>1, <1>2, StaleWhileWritten
<1>8. ASSUME NEW q \in Handlers, proc'[q].pc = "opened"
      PROVE  q = p
  BY <1>3, <1>7, <1>8, DefaultTypes DEF Open, Touched, BeingWritten, SettingsTypeOK, Proc
<1>9. Loaded'
  <2>1. proc[p].next = Decide(p)
    BY <1>1, <1>2 DEF FileFollows, Loaded
  <2>2. QED
    BY <1>3, <1>4, <1>5, <2>1, DefaultTypes DEF Loaded
<1>10. OpenedAlone'
  BY <1>2, <1>3, <1>4, <1>8 DEF OpenedAlone
<1>11. SettingsStick'
  BY <1>4 DEF SettingsStick, BeingWritten
<1>12. QED
  BY <1>9, <1>10, <1>11

\* What is written is what is then decided.
LEMMA FileWrites ==
  ASSUME SettingsTypeOK, FileFollows, NEW p \in Handlers, Write(p)
  PROVE  FileFollows'
<1>1. SUFFICES ASSUME ~spoiled, ~proc[p].stale
               PROVE  Loaded' /\ OpenedAlone' /\ SettingsStick'
  BY DEF FileFollows, Write
<1>2. proc[p].pc = "opened" /\ settings = Torn /\ proc[p].next = Decide(p)
  BY <1>1 DEF Write, FileFollows, Loaded, OpenedAlone
<1>3. settings' = proc[p].next /\ decided' = proc[p].next /\ settings' \in Settings
  BY <1>2 DEF Write, Contents, SettingsTypeOK, Proc
<1>4. /\ \A q \in Handlers \ {p} : proc'[q] = IdleProc \/ proc'[q].stale
      /\ proc'[p] = Saved(p)
  BY DEF Write, Touched, SettingsTypeOK, Proc
<1>5. /\ proc'[p].pc \in {"idle", "saved", "ensured"}
      /\ proc'[p].pc \in {"saved", "ensured"} => proc'[p].next = proc[p].next
  BY <1>4, DefaultTypes DEF Saved, SettingsTypeOK, Proc
<1>6. ASSUME NEW q \in Handlers
      PROVE  proc'[q].pc # "opened"
  <2>1. CASE q = p
    BY <1>5, <2>1
  <2>2. CASE q # p
    <3>1. proc[q] = IdleProc \/ proc[q].stale
      BY <1>1, <1>2, <2>2 DEF FileFollows, OpenedAlone
    <3>2. proc[q].pc # "opened"
      BY <1>1, <3>1, DefaultTypes DEF FileFollows, OpenedAlone
    <3>3. QED
      BY <2>2, <3>2, DefaultTypes DEF Write, Touched, SettingsTypeOK, Proc
  <2>3. QED
    BY <2>1, <2>2
<1>7. Loaded'
  BY <1>3, <1>4, <1>5, DefaultTypes DEF Loaded
<1>8. OpenedAlone'
  BY <1>6 DEF OpenedAlone
<1>9. SettingsStick'
  BY <1>3 DEF SettingsStick, Readable
<1>10. QED
  BY <1>7, <1>8, <1>9

LEMMA FileFollowsInductive ==
  SettingsTypeOK /\ FileFollows /\ [SettingsNext]_settingsVars => FileFollows'
<1> SUFFICES ASSUME SettingsTypeOK, FileFollows, [SettingsNext]_settingsVars
             PROVE  FileFollows'
  OBVIOUS
<1>1. ASSUME NEW p \in Handlers, Request(p) PROVE FileFollows'
  BY <1>1, FileBegins
<1>2. ASSUME NEW p \in Handlers, ChangePassword(p) PROVE FileFollows'
  BY <1>2, FileChangesPassword
<1>3. ASSUME NEW p \in Handlers, SetCookie(p) \/ SaveAccount(p) \/ Refuse(p)
      PROVE  FileFollows'
  BY <1>3, FileFinish DEF SetCookie, SaveAccount, Refuse
<1>4. ASSUME NEW p \in Handlers, AddGroup(p) \/ DeleteGroup(p) PROVE FileFollows'
  BY <1>4, FileTakesOwn
<1>5. ASSUME NEW p \in Handlers, Open(p) PROVE FileFollows'
  BY <1>5, FileOpens
<1>6. ASSUME NEW p \in Handlers, Write(p) PROVE FileFollows'
  BY <1>6, FileWrites
<1>7. ASSUME NEW p \in Handlers, WriteFails(p) PROVE FileFollows'
  <2>1. CASE proc[p].pc = "opened"
    BY <1>7, <2>1 DEF WriteFails, FileFollows
  <2>2. CASE proc[p].pc # "opened"
    <3>1. spoiled' = spoiled
      BY <1>7, <2>2 DEF WriteFails, SettingsTypeOK
    <3>2. QED
      BY <1>7, <2>2, <3>1, FileFinish DEF WriteFails
  <2>3. QED
    BY <2>1, <2>2
<1>8. CASE Crash
  <2>1. SUFFICES ASSUME ~spoiled, ~BeingWritten
                 PROVE  FileFollows'
    BY <1>8 DEF Crash, FileFollows
  <2>2. \A p \in Handlers : proc'[p] = IdleProc
    BY <1>8 DEF Crash
  <2>3. Loaded' /\ OpenedAlone'
    BY <2>2, DefaultTypes DEF Loaded, OpenedAlone
  <2>4. SettingsStick'
    BY <1>8, <2>1 DEF Crash, FileFollows, SettingsStick, Readable
  <2>5. QED
    BY <2>3, <2>4 DEF FileFollows
<1>9. CASE UNCHANGED settingsVars \/ \E a \in Accounts : DeleteAccount(a)
  <2>1. UNCHANGED <<settings, proc, decided, spoiled>>
    BY <1>9 DEF settingsVars, DeleteAccount
  <2>2. \A p \in Handlers : Decide(p)' = Decide(p)
    BY <2>1 DEF Decide
  <2>3. QED
    BY <2>1, <2>2 DEF FileFollows, Loaded, OpenedAlone, SettingsStick, BeingWritten, Readable
<1>10. QED
  BY <1>1, <1>2, <1>3, <1>4, <1>5, <1>6, <1>7, <1>8, <1>9 DEF SettingsNext, Continue

LEMMA FileFollowsFromStart == SettingsInit => FileFollows
<1> SUFFICES ASSUME SettingsInit
             PROVE  FileFollows
  OBVIOUS
<1>1. \A p \in Handlers : proc[p] = IdleProc
  BY DEF SettingsInit
<1>2. settings = NoFile /\ decided = defaultAdminSettings
  BY DEF SettingsInit
<1>3. QED
  BY <1>1, <1>2, DefaultTypes DEF FileFollows, Loaded, OpenedAlone, SettingsStick, Readable

LEMMA AlwaysFollows == SettingsSpec => []FileFollows
BY SettingsTypeCorrect, FileFollowsFromStart, FileFollowsInductive, PTL DEF SettingsSpec

\* Whatever handlers, proxy requests, failing writes and crashes come in between, the
\* settings file holds the password, the groups and the keys last decided, as long as
\* no handler has saved a copy that another had outdated and no save was cut off.
THEOREM SettingsKept == SettingsSpec => []SettingsStick
<1>1. FileFollows => SettingsStick
  BY DEF FileFollows, SettingsStick
<1>2. QED
  BY <1>1, AlwaysFollows, PTL

-----------------------------------------------------------------------------
(* Cookies.                                                                *)

\* A cookie that was not obtained while others wrote is signed with the password that
\* was given for it.
LEMMA CookieOf ==
  ASSUME SettingsTypeOK, FileFollows, ~spoiled, NEW p \in Handlers, SetCookie(p),
         ~proc[p].stale
  PROVE  currentAdminPasswordFingerprint =
           IF proc[p].op = "login" /\ proc[p].pc = "verified"
             THEN proc[p].given ELSE proc[p].next.hash
<1>1. proc[p].pc \in {"verified", "saved"}
  BY DEF SetCookie
<1>2. ~BeingWritten
  BY <1>1, StaleWhileWritten
<1>3. currentAdminPasswordFingerprint = decided.hash
  BY <1>2, LoadsDecided DEF FileFollows
<1>4. CASE proc[p].pc = "verified"
  BY <1>3, <1>4 DEF FileFollows, Loaded, SetCookie
<1>5. CASE proc[p].pc = "saved"
  BY <1>3, <1>5 DEF FileFollows, Loaded
<1>6. QED
  BY <1>1, <1>4, <1>5

\* Spoiled settings stay so, and an account that was looked up in vain stays so.
LEMMA NothingMended ==
  ASSUME SettingsTypeOK, [SettingsNext]_settingsVars
  PROVE  (spoiled => spoiled') /\ stray \subseteq stray'
<1>1. ASSUME NEW p \in Handlers, Request(p)
      PROVE  spoiled' = spoiled /\ stray' = stray
  BY <1>1, Begins
<1>2. ASSUME NEW p \in Handlers,
             ChangePassword(p) \/ SetCookie(p) \/ AddGroup(p) \/ Refuse(p)
      PROVE  spoiled' = spoiled /\ stray' = stray
  BY <1>2 DEF ChangePassword, SetCookie, AddGroup, Refuse, SaveOwn
<1>3. ASSUME NEW p \in Handlers, Open(p) \/ Write(p) \/ WriteFails(p)
      PROVE  (spoiled => spoiled') /\ stray' = stray
  <2>1. /\ \E more : spoiled' = (spoiled \/ more)
        /\ stray' = stray
    BY <1>3, Zenon DEF Open, Write, WriteFails
  <2>2. QED
    BY <2>1
<1>4. CASE Crash
  BY <1>4 DEF Crash
<1>5. ASSUME NEW p \in Handlers, DeleteGroup(p) \/ SaveAccount(p)
      PROVE  spoiled' = spoiled /\ stray \subseteq stray'
  BY <1>5 DEF DeleteGroup, SaveAccount
<1>6. CASE UNCHANGED settingsVars \/ \E a \in Accounts : DeleteAccount(a)
  BY <1>6 DEF settingsVars, DeleteAccount
<1>7. QED
  BY <1>1, <1>2, <1>3, <1>4, <1>5, <1>6 DEF SettingsNext, Continue

LEMMA SavedAfterPassword ==
  ASSUME SettingsTypeOK, [SettingsNext]_settingsVars,
         \A p \in Handlers : proc[p].pc = "saved" => proc[p].op # "login"
  PROVE  \A p \in Handlers : proc'[p].pc = "saved" => proc'[p].op # "login"
<1>1. ASSUME NEW p \in Handlers, NEW new, proc' = [proc EXCEPT ![p] = new],
             new.pc = "saved" => new.op # "login"
      PROVE  \A q \in Handlers : proc'[q].pc = "saved" => proc'[q].op # "login"
  BY <1>1 DEF SettingsTypeOK
<1>2. ASSUME NEW p \in Handlers, NEW state, Touched(p, state),
             state.pc = "saved" => state.op # "login"
      PROVE  \A q \in Handlers : proc'[q].pc = "saved" => proc'[q].op # "login"
  BY <1>2, DefaultTypes DEF Touched, SettingsTypeOK, Proc
<1>3. ASSUME NEW p \in Handlers, Request(p)
      PROVE  \A q \in Handlers : proc'[q].pc = "saved" => proc'[q].op # "login"
  BY <1>1, <1>3, Begins
<1>4. ASSUME NEW p \in Handlers, ChangePassword(p) \/ AddGroup(p) \/ DeleteGroup(p)
      PROVE  \A q \in Handlers : proc'[q].pc = "saved" => proc'[q].op # "login"
  <2>1. \E new \in DraftProc : proc' = [proc EXCEPT ![p] = new] /\ new.pc = "persisting"
    <3>1. CASE ChangePassword(p)
      BY <3>1, TakesUpPassword
    <3>2. CASE AddGroup(p)
      BY <3>2, TakesUpGroup
    <3>3. CASE DeleteGroup(p)
      BY <3>3, TakesUpDeletion
    <3>4. QED
      BY <1>4, <3>1, <3>2, <3>3
  <2>2. QED
    BY <1>1, <2>1
<1>5. ASSUME NEW p \in Handlers, Finish(p)
      PROVE  \A q \in Handlers : proc'[q].pc = "saved" => proc'[q].op # "login"
  BY <1>1, <1>5, DefaultTypes DEF Finish
<1>6. ASSUME NEW p \in Handlers, Open(p)
      PROVE  \A q \in Handlers : proc'[q].pc = "saved" => proc'[q].op # "login"
  <2>1. [proc[p] EXCEPT !.pc = "opened"].pc = "opened"
    BY DEF SettingsTypeOK, Proc
  <2>2. QED
    BY <1>2, <1>6, <2>1 DEF Open
<1>7. ASSUME NEW p \in Handlers, Write(p)
      PROVE  \A q \in Handlers : proc'[q].pc = "saved" => proc'[q].op # "login"
  <2>1. Saved(p).pc = "saved" => Saved(p).op # "login"
    BY DefaultTypes DEF Saved, SettingsTypeOK, Proc
  <2>2. QED
    BY <1>2, <1>7, <2>1 DEF Write
<1>8. CASE Crash
  BY <1>8, DefaultTypes DEF Crash
<1>9. CASE UNCHANGED settingsVars \/ \E a \in Accounts : DeleteAccount(a)
  BY <1>9 DEF settingsVars, DeleteAccount
<1>10. QED
  BY <1>3, <1>4, <1>5, <1>6, <1>7, <1>8, <1>9
     DEF SettingsNext, Continue, SetCookie, SaveAccount, Refuse, WriteFails

LEMMA CookiesInductive ==
  SettingsTypeOK /\ FileFollows /\ CookiesFollow /\ [SettingsNext]_settingsVars
    => CookiesFollow'
<1> SUFFICES ASSUME SettingsTypeOK, FileFollows, CookiesFollow, [SettingsNext]_settingsVars
             PROVE  CookiesFollow'
  OBVIOUS
<1>1. spoiled => spoiled'
  BY NothingMended
<1>2. ASSUME NEW p \in Handlers, SetCookie(p), ~spoiled
      PROVE  \A s \in sessions' : s.by # Unclear => s.fingerprint = s.by
  <2>1. ASSUME ~proc[p].stale
        PROVE  currentAdminPasswordFingerprint =
                 IF proc[p].op = "login" THEN proc[p].given ELSE proc[p].next.hash
    BY <1>2, <2>1, CookieOf DEF CookiesFollow, SetCookie
  <2>2. PICK by : /\ sessions' = sessions \cup
                       {[fingerprint |-> currentAdminPasswordFingerprint, by |-> by]}
                  /\ by = IF proc[p].stale THEN Unclear
                          ELSE IF proc[p].op = "login" THEN proc[p].given
                          ELSE proc[p].next.hash
    BY <1>2 DEF SetCookie
  <2>3. by # Unclear => currentAdminPasswordFingerprint = by
    BY <2>1, <2>2
  <2>4. QED
    BY <1>2, <2>2, <2>3 DEF CookiesFollow
<1>3. sessions' = sessions \/ \E p \in Handlers : SetCookie(p)
  <2>1. CASE \E p \in Handlers : Request(p)
    BY <2>1, Begins
  <2>2. CASE ~ \E p \in Handlers : Request(p)
    BY <2>2 DEF SettingsNext, Continue, ChangePassword, AddGroup, DeleteGroup,
                SaveAccount, Refuse, SaveOwn, Open, Write, WriteFails, DeleteAccount, Crash,
                settingsVars
  <2>3. QED
    BY <2>1, <2>2
<1>4. QED
  BY <1>1, <1>2, <1>3, SavedAfterPassword DEF CookiesFollow

\* A cookie is accepted exactly while the password it was obtained with is valid, over
\* any changes and resets of the password, unless it was obtained while others saved.
THEOREM CookiesAccepted == SettingsSpec => []SessionsFollowPassword
<1>1. SettingsInit => CookiesFollow
  BY DefaultTypes DEF SettingsInit, CookiesFollow
<1>2. SettingsTypeOK /\ FileFollows /\ CookiesFollow => SessionsFollowPassword
  BY LoadsDecided DEF FileFollows, CookiesFollow, SessionsFollowPassword
<1>3. QED
  BY <1>1, <1>2, SettingsTypeCorrect, AlwaysFollows, CookiesInductive, PTL DEF SettingsSpec

-----------------------------------------------------------------------------
(* Groups.                                                                 *)

\* One handler takes up something, and is not sure of its group if it was not before.
LEMMA SureStep ==
  ASSUME SettingsTypeOK, OneIsSure, NEW p \in Handlers, NEW new,
         proc' = [proc EXCEPT ![p] = new],
         Sure(p)' => Sure(p) /\ new.stale = proc[p].stale
  PROVE  OneIsSure'
<1>1. proc'[p] = new /\ \A q \in Handlers \ {p} : proc'[q] = proc[q]
  BY DEF SettingsTypeOK
<1>2. \A q \in Handlers : Sure(q)' => Sure(q) /\ proc'[q].stale = proc[q].stale
  BY <1>1 DEF Sure
<1>3. QED
  BY <1>2 DEF OneIsSure

\* Who touches the file leaves nobody else sure.
LEMMA SureTouched ==
  ASSUME SettingsTypeOK, NEW p \in Handlers, NEW state, Touched(p, state)
  PROVE  OneIsSure'
<1>1. \A q \in Handlers \ {p} : proc'[q] = IdleProc \/ proc'[q].stale
  BY DEF Touched, SettingsTypeOK, Proc
<1>2. \A q \in Handlers \ {p} : Sure(q)' => proc'[q].stale
  BY <1>1, DefaultTypes DEF Sure
<1>3. QED
  BY <1>2 DEF OneIsSure

\* One handler takes up something that it is not about to delete a group with; the
\* groups and what was decided stay as they are.
LEMMA GroupsStep ==
  ASSUME SettingsTypeOK, GroupsFollow, [SettingsNext]_settingsVars,
         NEW p \in Handlers, NEW new,
         proc' = [proc EXCEPT ![p] = new],
         group' = group, decided' = decided,
         Sure(p)' => Sure(p) /\ new.stale = proc[p].stale,
         new.own /\ new.pc \in {"persisting", "opened"} =>
           new.op \in {"password", "reset"}
  PROVE  GroupsFollow'
<1>1. proc'[p] = new /\ \A q \in Handlers \ {p} : proc'[q] = proc[q]
  BY DEF SettingsTypeOK
<1>2. OneIsSure'
  BY SureStep DEF GroupsFollow
<1>3. OwnSaves'
  <2>1. ASSUME NEW q \in Handlers \ {p}, proc'[q].own,
               proc'[q].pc \in {"persisting", "opened"}
        PROVE  /\ proc'[q].op \in {"addGroup", "newKey"} => proc'[q].next.key[proc'[q].name] # 0
               /\ proc'[q].op = "deleteGroup" /\ ~proc'[q].stale /\ ~spoiled' =>
                    \A a \in Accounts \ stray' : group'[a] # proc'[q].name
    BY <1>1, <2>1, NothingMended DEF GroupsFollow, OwnSaves
  <2>2. QED
    BY <1>1, <2>1 DEF OwnSaves
<1>4. GroupsDecided'
  BY NothingMended DEF GroupsFollow, GroupsDecided
<1>5. QED
  BY <1>2, <1>3, <1>4 DEF GroupsFollow

\* The handler that adds a group, renews a key or deletes a group without accounts.
LEMMA GroupsTakeOwn ==
  ASSUME SettingsTypeOK, GroupsFollow, [SettingsNext]_settingsVars,
         NEW p \in Handlers, AddGroup(p) \/ DeleteGroup(p)
  PROVE  GroupsFollow'
<1>1. PICK new \in DraftProc :
        /\ proc' = [proc EXCEPT ![p] = new]
        /\ new.stale = proc[p].stale /\ new.name = proc[p].name /\ new.op = proc[p].op
        /\ new.op \in {"addGroup", "newKey"} => new.next.key[proc[p].name] # 0
        /\ new.op = "deleteGroup" => DeleteGroup(p)
  <2>1. CASE AddGroup(p)
    <3>1. PICK new \in DraftProc :
            /\ proc' = [proc EXCEPT ![p] = new]
            /\ new.stale = proc[p].stale /\ new.name = proc[p].name /\ new.op = proc[p].op
            /\ new.op \in {"addGroup", "newKey"} /\ new.next.key[proc[p].name] # 0
      BY <2>1, TakesUpGroup
    <3>2. QED
      BY <3>1
  <2>2. CASE DeleteGroup(p)
    <3>1. PICK new \in DraftProc :
            /\ proc' = [proc EXCEPT ![p] = new]
            /\ new.stale = proc[p].stale /\ new.name = proc[p].name /\ new.op = proc[p].op
            /\ new.op = "deleteGroup"
      BY <2>2, TakesUpDeletion
    <3>2. QED
      BY <2>2, <3>1
  <2>3. QED
    BY <2>1, <2>2
<1>2. proc'[p] = new /\ \A q \in Handlers \ {p} : proc'[q] = proc[q]
  BY <1>1 DEF SettingsTypeOK
<1>3. proc[p].pc = "ensured" /\ UNCHANGED <<group, decided, spoiled>>
  BY DEF AddGroup, DeleteGroup, SaveOwn
<1>4. OneIsSure'
  BY <1>1, <1>3, SureStep DEF GroupsFollow, Sure
<1>5. new.op = "deleteGroup" => \A a \in Accounts \ stray' : group[a] # proc[p].name
  <2>1. SUFFICES ASSUME DeleteGroup(p)
                 PROVE  \A a \in Accounts \ stray' : group[a] # proc[p].name
    BY <1>1
  <2>2. PICK missed \in SUBSET Accounts :
          ~HasAccounts(proc[p].name, missed) /\ stray' = stray \cup missed
    BY <2>1 DEF DeleteGroup
  <2>3. QED
    BY <2>2 DEF HasAccounts
<1>6. OwnSaves'
  <2>1. ASSUME NEW q \in Handlers, proc'[q].own, proc'[q].pc \in {"persisting", "opened"}
        PROVE  /\ proc'[q].op \in {"addGroup", "newKey"} => proc'[q].next.key[proc'[q].name] # 0
               /\ proc'[q].op = "deleteGroup" /\ ~proc'[q].stale /\ ~spoiled' =>
                    \A a \in Accounts \ stray' : group'[a] # proc'[q].name
    <3>1. CASE q = p
      BY <1>1, <1>2, <1>3, <1>5, <3>1
    <3>2. CASE q # p
      BY <1>2, <1>3, <2>1, <3>2, NothingMended DEF GroupsFollow, OwnSaves
    <3>3. QED
      BY <3>1, <3>2
  <2>2. QED
    BY <2>1 DEF OwnSaves
<1>7. GroupsDecided'
  BY <1>3, NothingMended DEF GroupsFollow, GroupsDecided
<1>8. QED
  BY <1>4, <1>6, <1>7 DEF GroupsFollow

\* The handler that puts an account in a group knows of no deletion under way.
LEMMA GroupsSaveAccount ==
  ASSUME SettingsTypeOK, FileFollows, GroupsFollow, NEW p \in Handlers, SaveAccount(p)
  PROVE  GroupsFollow'
<1>1. /\ proc' = [proc EXCEPT ![p] = IdleProc] /\ proc[p].pc = "ensured"
      /\ group' = [group EXCEPT ![proc[p].account] = proc[p].name]
      /\ stray' = IF proc[p].stale THEN stray \cup {proc[p].account} ELSE stray
      /\ proc[p].next.key[proc[p].name] # 0
      /\ UNCHANGED <<decided, spoiled>>
  BY DEF SaveAccount, Finish, Exists
<1>2. proc'[p] = IdleProc /\ \A q \in Handlers \ {p} : proc'[q] = proc[q]
  BY <1>1 DEF SettingsTypeOK
<1>3. \A a \in Accounts :
        group'[a] = group[a] \/ (a = proc[p].account /\ group'[a] = proc[p].name)
  BY <1>1 DEF SettingsTypeOK
<1>4. OneIsSure'
  BY <1>1, <1>2, SureStep, DefaultTypes DEF GroupsFollow, Sure
<1>5. OwnSaves'
  <2>1. ASSUME NEW q \in Handlers, proc'[q].own, proc'[q].pc \in {"persisting", "opened"}
        PROVE  q # p /\ proc'[q] = proc[q]
    BY <1>2, <2>1, DefaultTypes
  <2>2. ASSUME NEW q \in Handlers, proc'[q].own, proc'[q].pc \in {"persisting", "opened"},
               proc'[q].op = "deleteGroup", ~proc'[q].stale, ~spoiled',
               NEW a \in Accounts \ stray'
        PROVE  group'[a] # proc'[q].name
    <3>1. q # p /\ proc'[q] = proc[q] /\ Sure(q) /\ Sure(p)
      BY <1>1, <2>1, <2>2 DEF Sure
    <3>2. proc[p].stale
      BY <2>2, <3>1 DEF GroupsFollow, OneIsSure
    <3>3. group'[a] = group[a] /\ a \notin stray
      BY <1>1, <1>3, <2>2, <3>2
    <3>4. QED
      BY <1>1, <2>2, <3>1, <3>3 DEF GroupsFollow, OwnSaves
  <2>3. QED
    BY <2>1, <2>2 DEF GroupsFollow, OwnSaves
<1>6. GroupsDecided'
  <2>1. ASSUME ~spoiled, NEW a \in Accounts \ stray', group'[a] # NoGroup
        PROVE  decided.key[group'[a]] # 0
    <3>1. CASE group'[a] = group[a]
      BY <1>1, <2>1, <3>1 DEF GroupsFollow, GroupsDecided
    <3>2. CASE a = proc[p].account /\ group'[a] = proc[p].name
      <4>1. ~proc[p].stale
        BY <1>1, <2>1, <3>2
      <4>2. proc[p].next = decided
        BY <1>1, <2>1, <4>1 DEF FileFollows, Loaded
      <4>3. QED
        BY <1>1, <3>2, <4>2
    <3>3. QED
      BY <1>3, <3>1, <3>2
  <2>2. QED
    BY <1>1, <2>1 DEF GroupsDecided
<1>7. QED
  BY <1>4, <1>5, <1>6 DEF GroupsFollow

\* What is decided anew has a key for each group that has accounts.
LEMMA DecidedForGroups ==
  ASSUME SettingsTypeOK, GroupsFollow, ~spoiled, NEW p \in Handlers,
         proc[p].pc = "opened", ~proc[p].stale,
         NEW a \in Accounts \ stray, group[a] # NoGroup
  PROVE  Decide(p).key[group[a]] # 0
<1>. DEFINE n == proc[p].name
            next == proc[p].next
            changed == [decided.key EXCEPT ![n] =
                          IF proc[p].op = "deleteGroup" THEN 0 ELSE next.key[n]]
            key == IF proc[p].own /\ proc[p].op \in {"addGroup", "newKey", "deleteGroup"}
                     THEN changed ELSE decided.key
<1>1. group[a] \in Names /\ decided.key[group[a]] # 0
  BY DEF GroupsFollow, GroupsDecided, SettingsTypeOK
<1>2. n \in Names /\ decided.key \in [Names -> 0..MaxKeys] /\ next.key \in [Names -> 0..MaxKeys]
  BY DEF SettingsTypeOK, Proc, Settings
<1>3. ASSUME proc[p].own, proc[p].op \in {"addGroup", "newKey", "deleteGroup"}
      PROVE  changed[group[a]] # 0
  <2>1. CASE group[a] # n
    <3>1. changed[group[a]] = decided.key[group[a]]
      BY <1>1, <1>2, <2>1
    <3>2. QED
      BY <1>1, <3>1
  <2>2. CASE group[a] = n
    <3>1. proc[p].op # "deleteGroup"
      BY <1>3, <2>2 DEF GroupsFollow, OwnSaves
    <3>2. next.key[n] # 0
      BY <1>3, <3>1 DEF GroupsFollow, OwnSaves
    <3>3. changed[n] = next.key[n]
      BY <1>2, <3>1
    <3>4. QED
      BY <2>2, <3>2, <3>3
  <2>3. QED
    BY <2>1, <2>2
<1>4. HIDE DEF changed
<1>5. key[group[a]] # 0
  BY <1>1, <1>3
<1>6. key # NoKeys
  BY <1>1, <1>5 DEF NoKeys
<1>7. Decide(p).key = key
  BY <1>6 DEF Decide, changed
<1>8. QED
  BY <1>5, <1>7

\* Saving leaves what a handler asks for as it is, and outdates the others.
LEMMA GroupsTouched ==
  ASSUME SettingsTypeOK, FileFollows, GroupsFollow, [SettingsNext]_settingsVars,
         NEW p \in Handlers, Open(p) \/ Write(p)
  PROVE  GroupsFollow'
<1>. DEFINE new == IF Open(p) THEN [proc[p] EXCEPT !.pc = "opened"] ELSE Saved(p)
<1>1. Touched(p, new) /\ group' = group /\ stray' = stray
  BY DEF Open, Write
<1>2. /\ new.own /\ new.pc \in {"persisting", "opened"} => Open(p)
      /\ Open(p) => /\ new.own = proc[p].own /\ new.op = proc[p].op
                    /\ new.name = proc[p].name /\ new.next = proc[p].next
                    /\ new.stale = proc[p].stale /\ proc[p].pc = "persisting"
  BY DefaultTypes DEF Open, Saved, SettingsTypeOK, Proc
<1>3. HIDE DEF new
<1>4. /\ proc'[p] = new
      /\ \A q \in Handlers \ {p} :
           \/ proc'[q] = IdleProc
           \/ /\ proc'[q].stale /\ proc'[q].own = proc[q].own /\ proc'[q].op = proc[q].op
              /\ proc'[q].name = proc[q].name /\ proc'[q].next = proc[q].next
              /\ proc'[q].pc = proc[q].pc
  BY <1>1 DEF Touched, SettingsTypeOK, Proc
<1>5. OneIsSure'
  BY <1>1, SureTouched
<1>6. OwnSaves'
  <2>1. ASSUME NEW q \in Handlers, proc'[q].own, proc'[q].pc \in {"persisting", "opened"}
        PROVE  /\ proc[q].own /\ proc[q].pc \in {"persisting", "opened"}
               /\ proc'[q].op = proc[q].op /\ proc'[q].name = proc[q].name
               /\ proc'[q].next = proc[q].next
               /\ ~proc'[q].stale => ~proc[q].stale
    <3>1. CASE q = p
      BY <1>2, <1>4, <2>1, <3>1
    <3>2. CASE q # p
      BY <1>4, <2>1, <3>2, DefaultTypes
    <3>3. QED
      BY <3>1, <3>2
  <2>2. spoiled => spoiled'
    BY NothingMended
  <2>3. QED
    BY <1>1, <2>1, <2>2 DEF GroupsFollow, OwnSaves
<1>7. GroupsDecided'
  <2>1. CASE Open(p)
    BY <1>1, <2>1, NothingMended DEF Open, GroupsFollow, GroupsDecided
  <2>2. CASE Write(p)
    <3>1. SUFFICES ASSUME ~spoiled, ~proc[p].stale, NEW a \in Accounts \ stray,
                          group[a] # NoGroup
                   PROVE  decided'.key[group[a]] # 0
      BY <1>1, <2>2 DEF GroupsDecided, Write
    <3>2. QED
      BY <2>2, <3>1, DecidedForGroups DEF Write
  <2>3. QED
    BY <2>1, <2>2
<1>8. QED
  BY <1>5, <1>6, <1>7 DEF GroupsFollow

LEMMA GroupsInductive ==
  SettingsTypeOK /\ FileFollows /\ GroupsFollow /\ [SettingsNext]_settingsVars
    => GroupsFollow'
<1> SUFFICES ASSUME SettingsTypeOK, FileFollows, GroupsFollow, [SettingsNext]_settingsVars
             PROVE  GroupsFollow'
  OBVIOUS
<1>1. ASSUME NEW p \in Handlers, Request(p) PROVE GroupsFollow'
  <2>1. PICK new \in DraftProc :
          /\ proc' = [proc EXCEPT ![p] = new]
          /\ new.own = FALSE /\ new.pc \in {"persisting", "verified"}
          /\ UNCHANGED <<group, decided>>
    BY <1>1, Begins
  <2>2. ~Sure(p)'
    BY <2>1 DEF Sure, SettingsTypeOK
  <2>3. QED
    BY <2>1, <2>2, GroupsStep
<1>2. ASSUME NEW p \in Handlers, ChangePassword(p) PROVE GroupsFollow'
  <2>1. PICK new \in DraftProc :
          /\ proc' = [proc EXCEPT ![p] = new]
          /\ new.pc = "persisting" /\ new.op \in {"password", "reset"}
    BY <1>2, TakesUpPassword
  <2>2. ~Sure(p)'
    BY <2>1 DEF Sure, SettingsTypeOK
  <2>3. QED
    BY <1>2, <2>1, <2>2, GroupsStep DEF ChangePassword
<1>3. ASSUME NEW p \in Handlers, Finish(p), group' = group, decided' = decided
      PROVE  GroupsFollow'
  <2>1. ~Sure(p)'
    BY <1>3, DefaultTypes DEF Finish, Sure, SettingsTypeOK
  <2>2. QED
    BY <1>3, <2>1, GroupsStep, DefaultTypes DEF Finish
<1>4. ASSUME NEW p \in Handlers, AddGroup(p) \/ DeleteGroup(p) PROVE GroupsFollow'
  BY <1>4, GroupsTakeOwn
<1>5. ASSUME NEW p \in Handlers, SaveAccount(p) PROVE GroupsFollow'
  BY <1>5, GroupsSaveAccount
<1>6. ASSUME NEW p \in Handlers, Open(p) \/ Write(p) PROVE GroupsFollow'
  BY <1>6, GroupsTouched
<1>7. ASSUME NEW a \in Accounts, DeleteAccount(a) PROVE GroupsFollow'
  <2>1. /\ \A b \in Accounts : group'[b] \in {group[b], NoGroup}
        /\ UNCHANGED <<proc, decided, spoiled, stray>>
    BY <1>7 DEF DeleteAccount, SettingsTypeOK
  <2>2. \A p \in Handlers : proc[p].name # NoGroup
    BY DEF SettingsTypeOK, Proc
  <2>3. QED
    BY <2>1, <2>2 DEF GroupsFollow, OneIsSure, Sure, OwnSaves, GroupsDecided
<1>8. CASE Crash
  <2>1. \A p \in Handlers : proc'[p] = IdleProc
    BY <1>8 DEF Crash
  <2>2. OneIsSure' /\ OwnSaves'
    BY <2>1, DefaultTypes DEF OneIsSure, Sure, OwnSaves
  <2>3. QED
    BY <1>8, <2>2, NothingMended DEF Crash, GroupsFollow, GroupsDecided
<1>9. CASE UNCHANGED settingsVars
  BY <1>9 DEF settingsVars, GroupsFollow, OneIsSure, Sure, OwnSaves, GroupsDecided
<1>10. QED
  BY <1>1, <1>2, <1>3, <1>4, <1>5, <1>6, <1>7, <1>8, <1>9
     DEF SettingsNext, Continue, SetCookie, Refuse, WriteFails

\* No account is left in a group that does not exist: a group is deleted, and an account
\* saved, only by a handler that nobody has overtaken, and of two such handlers one is.
THEOREM GroupsOfAccountsExist == SettingsSpec => []AccountsHaveGroups
<1>1. SettingsInit => GroupsFollow
  BY DefaultTypes DEF SettingsInit, GroupsFollow, OneIsSure, Sure, OwnSaves, GroupsDecided
<1>2. SettingsTypeOK /\ FileFollows /\ GroupsFollow => AccountsHaveGroups
  <2> SUFFICES ASSUME SettingsTypeOK, FileFollows, GroupsFollow, ~spoiled, ~BeingWritten,
                      NEW a \in Accounts \ stray, group[a] # NoGroup
               PROVE  Readable /\ settings.key[group[a]] # 0
    BY DEF AccountsHaveGroups
  <2>1. group[a] \in Names /\ decided.key[group[a]] # 0
    BY DEF GroupsFollow, GroupsDecided, SettingsTypeOK
  <2>2. decided # defaultAdminSettings
    BY <2>1, DefaultTypes DEF NoKeys
  <2>3. QED
    BY <2>1, <2>2 DEF FileFollows, SettingsStick
<1>3. QED
  BY <1>1, <1>2, SettingsTypeCorrect, AlwaysFollows, GroupsInductive, PTL DEF SettingsSpec
===============================================================================
