-------------------------- MODULE TokenFiles_proofs --------------------------
(***************************************************************************)
(* Proofs about TokenFiles, for any accounts, handlers and bounds: types,  *)
(* and that no file ever mixes two sessions.  The latter holds of the      *)
(* files because it holds of every copy a goroutine takes with it: a copy  *)
(* is written whole, never field by field.                                 *)
(***************************************************************************)
EXTENDS TokenFiles, TLAPS

USE TokenFilesAssumption, FileStateAssumption DEF TokenFilesAssumption

\* What holds of a goroutine between two steps.
FrameOK(f) ==
  /\ f.pc # "idle" => f.account \in Accounts
  /\ f.pc = "calling" => /\ f.snap \in Token /\ Together(f.account, f.snap)
                         /\ f.next = f.snap
  /\ f.pc \in {"persisting", "opened"} => f.next \in Token /\ Together(f.account, f.next)

FramesOK == \A p \in Procs : FrameOK(proc[p])

ScanOK == \A a \in Accounts : scan[a] \in Token => Together(a, scan[a])

Copies == FilesTypeOK /\ FramesOK /\ ScanOK /\ TokensBelongTogether

-----------------------------------------------------------------------------
(* Records.                                                                *)

LEMMA TokenTypes ==
  /\ 1 \in 1..MaxIssued
  /\ NoToken \in Tokens /\ NoToken \notin Token
  /\ IdleProc \in Proc /\ IdleProc.pc = "idle"
  /\ Token \subseteq Tokens
<1>1. 1 \in 1..MaxIssued
  OBVIOUS
<1>2. NoToken \in Tokens /\ NoToken \notin Token /\ Token \subseteq Tokens
  BY DEF NoToken, Tokens, Token
<1>3. IdleProc \in Proc /\ IdleProc.pc = "idle"
  BY <1>2 DEF IdleProc, Proc, Operations
<1>4. QED
  BY <1>1, <1>2, <1>3

LEMMA ProcFields ==
  ASSUME Copies, NEW p \in Procs
  PROVE  /\ proc[p] \in Proc
         /\ proc[p].snap \in Tokens /\ proc[p].next \in Tokens
         /\ FrameOK(proc[p])
BY DEF Copies, FilesTypeOK, FramesOK, Proc

-----------------------------------------------------------------------------
(* One goroutine takes a step, and what was granted stays granted.          *)

LEMMA FrameStep ==
  ASSUME Copies, NEW p \in Procs, NEW new \in Proc,
         proc' = [proc EXCEPT ![p] = new],
         \A a \in Accounts : granted[a] \subseteq granted'[a],
         FrameOK(new)'
  PROVE  proc' \in [Procs -> Proc] /\ FramesOK'
<1>1. proc \in [Procs -> Proc]
  BY DEF Copies, FilesTypeOK
<1>2. proc' \in [Procs -> Proc]
  BY <1>1
<1>3. ASSUME NEW q \in Procs PROVE FrameOK(proc[q])'
  <2>1. CASE q = p
    BY <1>1, <2>1
  <2>2. CASE q # p
    <3>1. proc'[q] = proc[q]
      BY <1>1, <2>2
    <3>2. FrameOK(proc[q])
      BY ProcFields
    <3>3. QED
      BY <3>1, <3>2 DEF FrameOK, Together
  <2>3. QED
    BY <2>1, <2>2
<1>4. QED
  BY <1>2, <1>3 DEF FramesOK

\* The step leaves the files and the list alone.
LEMMA QuietStep ==
  ASSUME Copies, NEW p \in Procs, NEW new \in Proc,
         proc' = [proc EXCEPT ![p] = new],
         FrameOK(new)',
         UNCHANGED <<file, unread, scan, session, issued, dueUpTo, granted, decided,
                     overlapped, lost, faults>>
  PROVE  Copies'
<1>1. proc' \in [Procs -> Proc] /\ FramesOK'
  BY FrameStep
<1>2. FilesTypeOK'
  BY <1>1 DEF Copies, FilesTypeOK
<1>3. ScanOK' /\ TokensBelongTogether'
  BY DEF Copies, ScanOK, TokensBelongTogether, Together
<1>4. QED
  BY <1>1, <1>2, <1>3 DEF Copies

LEMMA IdleFrame == FrameOK(IdleProc)'
BY TokenTypes DEF FrameOK

LEMMA GrantStep ==
  ASSUME Copies, NEW a \in Accounts, NEW refresh \in 1..MaxIssued, NEW old,
         Grant(a, refresh, old)
  PROVE  /\ issued' \in [Accounts -> 1..MaxIssued]
         /\ session' \in [Accounts -> SUBSET (1..MaxIssued)]
         /\ granted' \in [Accounts -> SUBSET ((1..MaxIssued) \X (1..MaxIssued))]
         /\ \A b \in Accounts : granted[b] \subseteq granted'[b]
         /\ issued[a] + 1 \in 1..MaxIssued
         /\ <<refresh, issued[a] + 1>> \in granted'[a]
<1>1. /\ issued \in [Accounts -> 1..MaxIssued]
      /\ session \in [Accounts -> SUBSET (1..MaxIssued)]
      /\ granted \in [Accounts -> SUBSET ((1..MaxIssued) \X (1..MaxIssued))]
  BY DEF Copies, FilesTypeOK
<1>2. issued[a] + 1 \in 1..MaxIssued
  BY <1>1 DEF Grant
<1>3. issued' \in [Accounts -> 1..MaxIssued]
  BY <1>1, <1>2 DEF Grant
<1>4. session' \in [Accounts -> SUBSET (1..MaxIssued)]
  BY <1>1 DEF Grant
<1>5. <<refresh, issued[a] + 1>> \in (1..MaxIssued) \X (1..MaxIssued)
  BY <1>2
<1>6. granted' = [granted EXCEPT ![a] = @ \cup {<<refresh, issued[a] + 1>>}]
  BY DEF Grant
<1>7. granted' \in [Accounts -> SUBSET ((1..MaxIssued) \X (1..MaxIssued))]
  BY <1>1, <1>5, <1>6
<1>8. /\ \A b \in Accounts : granted[b] \subseteq granted'[b]
      /\ <<refresh, issued[a] + 1>> \in granted'[a]
  BY <1>1, <1>6
<1>9. QED
  BY <1>2, <1>3, <1>4, <1>7, <1>8

\* The step adds to what was granted, and leaves the files and the list alone.
LEMMA GrantingStep ==
  ASSUME Copies, NEW p \in Procs, NEW new \in Proc,
         proc' = [proc EXCEPT ![p] = new],
         FrameOK(new)',
         NEW a \in Accounts, NEW refresh \in 1..MaxIssued, NEW old,
         Grant(a, refresh, old),
         lost' \in [Accounts -> BOOLEAN], faults' \in 0..MaxFaults,
         UNCHANGED <<file, unread, scan, dueUpTo, decided, overlapped>>
  PROVE  Copies'
<1>1. /\ issued' \in [Accounts -> 1..MaxIssued]
      /\ session' \in [Accounts -> SUBSET (1..MaxIssued)]
      /\ granted' \in [Accounts -> SUBSET ((1..MaxIssued) \X (1..MaxIssued))]
      /\ \A b \in Accounts : granted[b] \subseteq granted'[b]
  BY GrantStep
<1>2. proc' \in [Procs -> Proc] /\ FramesOK'
  BY <1>1, FrameStep
<1>3. FilesTypeOK'
  BY <1>1, <1>2 DEF Copies, FilesTypeOK
<1>4. ScanOK' /\ TokensBelongTogether'
  BY <1>1 DEF Copies, ScanOK, TokensBelongTogether, Together
<1>5. QED
  BY <1>2, <1>3, <1>4 DEF Copies

-----------------------------------------------------------------------------
(* Reading, calling.                                                       *)

LEMMA StartCopies ==
  ASSUME Copies, NEW p \in Procs, NEW op \in HandlerOps, NEW a \in Accounts,
         Start(p, op, a)
  PROVE  Copies'
<1>1. file[a] \in Token /\ Together(a, file[a]) /\ file[a] \in Tokens
  BY TokenTypes DEF Start, Readable, Copies, TokensBelongTogether
<1> DEFINE t == file[a]
           flipped == [t EXCEPT !.disabled = ~@]
           pc == CASE op = "delete" -> "deleting"
                   [] op = "toggle" -> "persisting"
                   [] OTHER -> "calling"
           next == IF op = "toggle" THEN flipped ELSE t
           wish == IF op # "toggle" THEN "keep"
                   ELSE IF t.disabled THEN "enabled" ELSE "disabled"
           new == [IdleProc EXCEPT !.pc = pc, !.op = op, !.account = a, !.snap = t,
                                   !.next = next, !.wish = wish]
<1>2. proc' = [proc EXCEPT ![p] = new]
  BY DEF Start
<1>3. flipped \in Token /\ Together(a, flipped) /\ flipped \in Tokens
  BY <1>1, TokenTypes DEF Token, Together
<1>4. pc \in {"deleting", "persisting", "calling"}
  OBVIOUS
<1>5. wish \in {"keep", "enabled", "disabled"}
  <2>1. t.disabled \in BOOLEAN
    BY <1>1 DEF Token
  <2>2. QED
    BY <2>1, Zenon
<1>6. /\ next \in Token /\ Together(a, next) /\ next \in Tokens
      /\ pc = "calling" => next = t
  BY <1>1, <1>3
<1> HIDE DEF pc, wish, next
<1>7. new \in Proc /\ new.pc = pc /\ new.account = a /\ new.snap = t /\ new.next = next
  BY <1>1, <1>4, <1>5, <1>6 DEF Proc, IdleProc, Operations
<1> HIDE DEF new
<1>8. PICK f \in Proc : f = new
  BY <1>7
<1>9. FrameOK(f)'
  BY <1>1, <1>4, <1>6, <1>7, <1>8 DEF FrameOK, Together, Start
<1>10. QED
  BY <1>2, <1>8, <1>9, QuietStep DEF Start

LEMMA SaveCopies ==
  ASSUME Copies, NEW p \in Procs, NEW a \in Accounts, NEW enabled, Save(p, a, enabled),
         "save" \in HandlerOps
  PROVE  Copies'
<1>1. PICK n : n = issued[a] + 1
  OBVIOUS
<1>2. Grant(a, n, {}) /\ n \in 1..MaxIssued /\ <<n, n>> \in granted'[a]
  <2>1. Grant(a, n, {}) /\ n \in 1..MaxIssued
    BY <1>1 DEF Save, Grant, Copies, FilesTypeOK
  <2>2. QED
    BY <1>1, <2>1, GrantStep
<1> DEFINE snap == IF Readable(a) THEN file[a] ELSE NoToken
           next == [refresh |-> n, access |-> n, disabled |-> SavedDisabled(a, enabled)]
           wish == CASE enabled = "off" -> "disabled"
                     [] enabled = "keep" /\ Readable(a) -> "keep"
                     [] OTHER -> "enabled"
           new == [IdleProc EXCEPT !.pc = "persisting", !.op = "save", !.account = a,
                                   !.snap = snap, !.next = next, !.wish = wish]
<1>3. proc' = [proc EXCEPT ![p] = new]
  BY <1>1 DEF Save
<1>4. snap \in Tokens
  BY TokenTypes DEF Readable
<1>5. SavedDisabled(a, enabled) \in BOOLEAN
  BY DEF SavedDisabled
<1>6. next \in Token /\ next \in Tokens /\ next.refresh = n /\ next.access = n
  BY <1>2, <1>5, TokenTypes DEF Token
<1>7. wish \in {"keep", "enabled", "disabled"}
  BY Zenon
<1> HIDE DEF snap, next, wish
<1>8. new \in Proc /\ new.pc = "persisting" /\ new.account = a /\ new.next = next
  BY <1>4, <1>6, <1>7 DEF Proc, IdleProc, Operations
<1> HIDE DEF new
<1>9. PICK f \in Proc : f = new
  BY <1>8
<1>10. FrameOK(f)'
  BY <1>2, <1>6, <1>8, <1>9 DEF FrameOK, Together
<1>11. lost' \in [Accounts -> BOOLEAN] /\ faults' \in 0..MaxFaults
  BY DEF Save, Copies, FilesTypeOK
<1>12. QED
  BY <1>2, <1>3, <1>9, <1>10, <1>11, GrantingStep DEF Save

LEMMA GiveUpCopies ==
  ASSUME Copies, NEW p \in Procs, GiveUp(p)
  PROVE  Copies'
BY TokenTypes, IdleFrame, QuietStep DEF GiveUp, Finish

LEMMA AnsweredCopies ==
  ASSUME Copies, NEW p \in Procs, Answered(p)
  PROVE  Copies'
<1>1. PICK f : f = [proc[p] EXCEPT !.pc = "persisting"]
  OBVIOUS
<1>2. proc' = [proc EXCEPT ![p] = f]
  BY <1>1, ProcFields DEF Answered, Copies, FilesTypeOK
<1>3. f \in Proc /\ f.pc = "persisting" /\ f.account = proc[p].account
      /\ f.next = proc[p].next
  BY <1>1, ProcFields DEF Proc
<1>4. FrameOK(f)'
  BY <1>3, ProcFields DEF Answered, FrameOK, Together
<1>5. QED
  BY <1>2, <1>3, <1>4, QuietStep DEF Answered

LEMMA BlockedCopies ==
  ASSUME Copies, NEW p \in Procs, Blocked(p)
  PROVE  Copies'
<1>1. PICK again \in BOOLEAN :
        proc' = [proc EXCEPT ![p].pc = "persisting", ![p].again = again,
                             ![p].wish = "disabled",
                             ![p].next = [proc[p].snap EXCEPT !.disabled = TRUE]]
  BY DEF Blocked
<1>2. proc[p].snap \in Token /\ Together(proc[p].account, proc[p].snap)
      /\ proc[p].account \in Accounts
  BY ProcFields DEF Blocked, FrameOK
<1>3. PICK next : next = [proc[p].snap EXCEPT !.disabled = TRUE]
  OBVIOUS
<1>4. next \in Token /\ Together(proc[p].account, next) /\ next \in Tokens
  BY <1>2, <1>3, TokenTypes DEF Token, Together
<1>5. PICK f : f = [proc[p] EXCEPT !.pc = "persisting", !.again = again,
                                   !.wish = "disabled", !.next = next]
  OBVIOUS
<1>6. proc' = [proc EXCEPT ![p] = f]
  BY <1>1, <1>3, <1>5, ProcFields DEF Copies, FilesTypeOK
<1>7. f \in Proc /\ f.pc = "persisting" /\ f.account = proc[p].account /\ f.next = next
  BY <1>4, <1>5, ProcFields, ZenonT(60) DEF Proc
<1>8. FrameOK(f)'
  BY <1>2, <1>4, <1>7 DEF Blocked, FrameOK, Together
<1>9. QED
  BY <1>6, <1>7, <1>8, QuietStep DEF Blocked

LEMMA RefreshAnsweredCopies ==
  ASSUME Copies, NEW p \in Procs, RefreshAnswered(p)
  PROVE  Copies'
<1>1. PICK a, snap : a = proc[p].account /\ snap = proc[p].snap
  OBVIOUS
<1>2. a \in Accounts /\ snap \in Token
  BY <1>1, ProcFields DEF RefreshAnswered, FrameOK
<1>3. PICK refresh \in {snap.refresh, issued[a] + 1} :
        /\ Grant(a, refresh, {snap.refresh})
        /\ proc' = [proc EXCEPT ![p].pc = "persisting",
                                ![p].next = Refreshed(snap, refresh, issued[a] + 1)]
  BY <1>1 DEF RefreshAnswered
<1>4. refresh \in 1..MaxIssued
  BY <1>2, <1>3 DEF Grant, Copies, FilesTypeOK, Token
<1>5. PICK next : next = Refreshed(snap, refresh, issued[a] + 1)
  OBVIOUS
<1>6. /\ issued[a] + 1 \in 1..MaxIssued
      /\ <<refresh, issued[a] + 1>> \in granted'[a]
  BY <1>2, <1>3, <1>4, GrantStep
<1>7. /\ next \in Token /\ next \in Tokens
      /\ next.refresh = refresh /\ next.access = issued[a] + 1
  BY <1>2, <1>4, <1>5, <1>6, TokenTypes DEF Refreshed, Token
<1>8. PICK f : f = [proc[p] EXCEPT !.pc = "persisting", !.next = next]
  OBVIOUS
<1>9. proc' = [proc EXCEPT ![p] = f]
  BY <1>3, <1>5, <1>8, ProcFields DEF Copies, FilesTypeOK
<1>10. f \in Proc /\ f.pc = "persisting" /\ f.account = a /\ f.next = next
  BY <1>1, <1>7, <1>8, ProcFields, ZenonT(60) DEF Proc
<1>11. FrameOK(f)'
  BY <1>2, <1>6, <1>7, <1>10 DEF FrameOK, Together
<1>12. lost' \in [Accounts -> BOOLEAN] /\ faults' \in 0..MaxFaults
  BY DEF RefreshAnswered, Copies, FilesTypeOK
<1>13. QED
  BY <1>2, <1>3, <1>4, <1>9, <1>10, <1>11, <1>12, GrantingStep DEF RefreshAnswered

LEMMA RefreshLostCopies ==
  ASSUME Copies, NEW p \in Procs, RefreshLost(p)
  PROVE  Copies'
<1>1. PICK a : a = proc[p].account
  OBVIOUS
<1>2. a \in Accounts
  BY <1>1, ProcFields DEF RefreshLost, FrameOK
<1>3. /\ Grant(a, issued[a] + 1, {proc[p].snap.refresh})
      /\ proc' = [proc EXCEPT ![p] = IdleProc]
      /\ lost' = [lost EXCEPT ![a] = TRUE]
  BY <1>1 DEF RefreshLost, Finish
<1>4. issued[a] + 1 \in 1..MaxIssued
  BY <1>2, <1>3 DEF Grant, Copies, FilesTypeOK
<1>5. lost' \in [Accounts -> BOOLEAN]
  BY <1>3 DEF Copies, FilesTypeOK
<1>6. faults' \in 0..MaxFaults
  BY DEF RefreshLost, Copies, FilesTypeOK
<1>7. QED
  BY <1>2, <1>3, <1>4, <1>5, <1>6, IdleFrame, TokenTypes, GrantingStep DEF RefreshLost

-----------------------------------------------------------------------------
(* Writing.                                                                *)

\* The step leaves a file or writes a copy, and grants nothing.
LEMMA FileStep ==
  ASSUME Copies, proc' \in [Procs -> Proc], FramesOK',
         NEW a \in Accounts, NEW c \in FileState,
         file' = [file EXCEPT ![a] = c],
         c \in Token => Together(a, c),
         decided' \in [Accounts -> Decisions],
         overlapped' \in [Accounts -> BOOLEAN],
         UNCHANGED <<unread, scan, session, issued, dueUpTo, granted, lost, faults>>
  PROVE  Copies'
<1>1. FilesTypeOK'
  BY DEF Copies, FilesTypeOK
<1>2. ScanOK'
  BY DEF Copies, ScanOK, Together
<1>3. TokensBelongTogether'
  BY DEF Copies, FilesTypeOK, TokensBelongTogether, Together
<1>4. QED
  BY <1>1, <1>2, <1>3 DEF Copies

LEMMA OverlapType ==
  ASSUME Copies, NEW p, NEW a, NoteOverlap(p, a)
  PROVE  overlapped' \in [Accounts -> BOOLEAN]
<1>1. overlapped \in [Accounts -> BOOLEAN]
  BY DEF Copies, FilesTypeOK
<1>2. PICK b \in BOOLEAN : b = (\E q \in Procs \ {p} : Busy(q, a))
  OBVIOUS
<1>3. overlapped' = [overlapped EXCEPT ![a] = @ \/ b]
  BY <1>2 DEF NoteOverlap
<1>4. QED
  BY <1>1, <1>2, <1>3

LEMMA DeleteCopies ==
  ASSUME Copies, NEW p \in Procs, Delete(p)
  PROVE  Copies'
<1>1. PICK a : a = proc[p].account
  OBVIOUS
<1>2. a \in Accounts
  BY <1>1, ProcFields DEF Delete, FrameOK
<1>3. /\ file' = [file EXCEPT ![a] = NoFile]
      /\ decided' = [decided EXCEPT ![a] = "deleted"]
      /\ NoteOverlap(p, a)
      /\ proc' = [q \in Procs |->
           IF q = p THEN IdleProc
           ELSE IF proc[q].account = a THEN [proc[q] EXCEPT !.linked = FALSE]
           ELSE proc[q]]
      /\ granted' = granted
  BY <1>1 DEF Delete
<1>4. ASSUME NEW q \in Procs
      PROVE  proc'[q] \in Proc /\ FrameOK(proc[q])'
  <2>1. PICK f : f = [proc[q] EXCEPT !.linked = FALSE]
    OBVIOUS
  <2>2. f \in Proc /\ f.pc = proc[q].pc /\ f.account = proc[q].account
        /\ f.snap = proc[q].snap /\ f.next = proc[q].next
    BY <2>1, ProcFields, ZenonT(60) DEF Proc
  <2>3. FrameOK(f)' /\ (\A g : g = proc[q] => FrameOK(g)')
    BY <1>3, <2>2, ProcFields DEF FrameOK, Together
  <2>4. proc'[q] \in {IdleProc, f, proc[q]}
    BY <1>3, <2>1
  <2>5. QED
    BY <2>2, <2>3, <2>4, IdleFrame, TokenTypes, ProcFields
<1>5. proc' \in [Procs -> Proc] /\ FramesOK'
  BY <1>3, <1>4 DEF FramesOK
<1>6. decided' \in [Accounts -> Decisions]
  BY <1>3 DEF Copies, FilesTypeOK, Decisions
<1>7. NoFile \in FileState /\ NoFile \notin Token
  BY DEF FileState
<1>8. QED
  BY <1>2, <1>3, <1>5, <1>6, <1>7, OverlapType, FileStep DEF Delete

LEMMA OpenCopies ==
  ASSUME Copies, NEW p \in Procs, Open(p)
  PROVE  Copies'
<1>1. PICK a : a = proc[p].account
  OBVIOUS
<1>2. a \in Accounts /\ proc[p].next \in Token /\ Together(a, proc[p].next)
  BY <1>1, ProcFields DEF Open, FrameOK
<1>3. PICK f : f = [proc[p] EXCEPT !.pc = "opened", !.linked = TRUE]
  OBVIOUS
<1>4. proc' = [proc EXCEPT ![p] = f]
  BY <1>3, ProcFields DEF Open, Copies, FilesTypeOK
<1>5. f \in Proc /\ f.pc = "opened" /\ f.account = a /\ f.next = proc[p].next
  BY <1>1, <1>3, ProcFields, ZenonT(60) DEF Proc
<1>6. FrameOK(f)'
  BY <1>2, <1>5 DEF Open, FrameOK, Together
<1>7. proc' \in [Procs -> Proc] /\ FramesOK'
  BY <1>4, <1>5, <1>6, FrameStep DEF Open
<1>8. Torn \in FileState /\ Torn \notin Token
  BY DEF FileState
<1>9. file' = [file EXCEPT ![a] = Torn] /\ NoteOverlap(p, a)
  BY <1>1 DEF Open
<1>10. decided' \in [Accounts -> Decisions]
  BY DEF Open, Copies, FilesTypeOK
<1>11. QED
  BY <1>2, <1>7, <1>8, <1>9, <1>10, OverlapType, FileStep DEF Open

LEMMA WriteCopies ==
  ASSUME Copies, NEW p \in Procs, Write(p)
  PROVE  Copies'
<1>1. PICK a : a = proc[p].account
  OBVIOUS
<1>2. a \in Accounts /\ proc[p].next \in Token /\ Together(a, proc[p].next)
  BY <1>1, ProcFields DEF Write, FrameOK
<1>3. PICK c \in Contents(p) : file' = [file EXCEPT ![a] = c]
  BY <1>1 DEF Write
<1>4. c \in {file[a], proc[p].next, Mixed}
  BY <1>1, <1>3 DEF Contents
<1>5. c \in FileState /\ (c \in Token => Together(a, c))
  BY <1>2, <1>4 DEF Copies, FilesTypeOK, FileState, TokensBelongTogether
<1>6. proc' \in [Procs -> Proc] /\ FramesOK'
  <2>1. CASE proc[p].again
    <3>1. PICK f : f = [proc[p] EXCEPT !.pc = "persisting", !.again = FALSE]
      OBVIOUS
    <3>2. proc' = [proc EXCEPT ![p] = f]
      BY <2>1, <3>1, ProcFields DEF Write, Copies, FilesTypeOK
    <3>3. f \in Proc /\ f.pc = "persisting" /\ f.account = a /\ f.next = proc[p].next
      BY <1>1, <3>1, ProcFields, ZenonT(60) DEF Proc
    <3>4. FrameOK(f)'
      BY <1>2, <3>3 DEF Write, FrameOK, Together
    <3>5. QED
      BY <3>2, <3>3, <3>4, FrameStep DEF Write
  <2>2. CASE ~proc[p].again
    BY <2>2, IdleFrame, TokenTypes, FrameStep DEF Write, Finish
  <2>3. QED
    BY <2>1, <2>2
<1>7. proc[p].wish \in {"keep", "enabled", "disabled"}
  BY ProcFields DEF Proc
<1>8. decided' \in [Accounts -> Decisions]
  BY <1>7 DEF Write, Copies, FilesTypeOK, Decisions
<1>9. overlapped' \in [Accounts -> BOOLEAN]
  BY OverlapType DEF Write
<1>10. QED
  BY <1>2, <1>3, <1>5, <1>6, <1>8, <1>9, FileStep DEF Write

LEMMA WriteFailsCopies ==
  ASSUME Copies, NEW p \in Procs, WriteFails(p)
  PROVE  Copies'
<1>1. proc' \in [Procs -> Proc] /\ FramesOK'
  BY IdleFrame, TokenTypes, FrameStep DEF WriteFails, Finish
<1>2. PICK b \in BOOLEAN : b = LosesSession(p)
  BY DEF LosesSession
<1>3. lost' = [lost EXCEPT ![proc[p].account] = @ \/ b]
  BY <1>2 DEF WriteFails
<1>4. lost' \in [Accounts -> BOOLEAN]
  <2>1. lost \in [Accounts -> BOOLEAN]
    BY DEF Copies, FilesTypeOK
  <2>2. QED
    BY <1>3, <2>1
<1>5. decided' \in [Accounts -> Decisions] /\ faults' \in 0..MaxFaults
  <2>1. faults' \in 0..MaxFaults
    BY DEF WriteFails, Copies, FilesTypeOK
  <2>2. "unknown" \in Decisions /\ decided \in [Accounts -> Decisions]
    BY DEF Copies, FilesTypeOK, Decisions
  <2>3. QED
    BY <2>1, <2>2 DEF WriteFails
<1>6. FilesTypeOK'
  BY <1>1, <1>4, <1>5 DEF WriteFails, Copies, FilesTypeOK
<1>7. ScanOK' /\ TokensBelongTogether'
  BY DEF WriteFails, Copies, ScanOK, TokensBelongTogether, Together
<1>8. QED
  BY <1>1, <1>6, <1>7 DEF Copies

-----------------------------------------------------------------------------
(* The scheduler, time and crashes.                                        *)

LEMMA ScanCopies ==
  ASSUME Copies, ScanStart \/ \E a \in Accounts : ScanRead(a)
  PROVE  Copies'
<1>1. UNCHANGED <<file, proc, session, issued, dueUpTo, granted, decided,
                  overlapped, lost, faults>>
  BY DEF ScanStart, ScanRead
<1>2. unread' \in SUBSET Accounts
  BY DEF ScanStart, ScanRead, Copies, FilesTypeOK
<1>3. /\ \A a \in Accounts : scan'[a] \in Token => Together(a, scan'[a])
      /\ scan' \in [Accounts -> Tokens]
  <2>1. CASE ScanStart
    BY <2>1 DEF ScanStart, Copies, FilesTypeOK, ScanOK
  <2>2. ASSUME NEW b \in Accounts, ScanRead(b)
        PROVE  /\ \A a \in Accounts : scan'[a] \in Token => Together(a, scan'[a])
               /\ scan' \in [Accounts -> Tokens]
    <3> DEFINE read == IF Readable(b) THEN file[b] ELSE NoToken
               list == [scan EXCEPT ![b] = read]
    <3>1. read \in Tokens /\ (read \in Token => Together(b, read))
      BY TokenTypes DEF Readable, Copies, TokensBelongTogether
    <3> HIDE DEF read
    <3>2. list \in [Accounts -> Tokens]
          /\ \A a \in Accounts : list[a] \in Token => Together(a, list[a])
      BY <3>1 DEF Copies, FilesTypeOK, ScanOK
    <3>3. scan' = IF unread = {b}
                    THEN [a \in Accounts |->
                           IF list[a] # NoToken /\ shouldRefreshKASToken(a, list[a])
                             THEN list[a] ELSE NoToken]
                    ELSE list
      BY <2>2 DEF ScanRead, read
    <3> HIDE DEF list
    <3>4. QED
      BY <3>2, <3>3, TokenTypes
  <2>3. QED
    BY <2>1, <2>2
<1>4. FilesTypeOK'
  BY <1>1, <1>2, <1>3 DEF Copies, FilesTypeOK
<1>5. FramesOK' /\ ScanOK' /\ TokensBelongTogether'
  BY <1>1, <1>3 DEF Copies, FramesOK, FrameOK, ScanOK, TokensBelongTogether, Together
<1>6. QED
  BY <1>4, <1>5 DEF Copies

LEMMA RefreshNextCopies ==
  ASSUME Copies, NEW a \in Accounts, RefreshNext(a)
  PROVE  Copies'
<1>1. scan[a] \in Token /\ Together(a, scan[a]) /\ scan[a] \in Tokens
  BY DEF RefreshNext, Copies, FilesTypeOK, ScanOK, Tokens
<1>2. PICK f : f = [IdleProc EXCEPT !.pc = "calling", !.op = "refresh", !.account = a,
                                    !.snap = scan[a], !.next = scan[a]]
  OBVIOUS
<1>3. f \in Proc /\ f.pc = "calling" /\ f.account = a /\ f.snap = scan[a] /\ f.next = scan[a]
  BY <1>1, <1>2 DEF Proc, IdleProc, Operations
<1>4. proc' = [proc EXCEPT ![Scheduler] = f] /\ Scheduler \in Procs
  BY <1>2 DEF RefreshNext, Procs
<1>5. FrameOK(f)'
  BY <1>1, <1>3 DEF RefreshNext, FrameOK, Together
<1>6. proc' \in [Procs -> Proc] /\ FramesOK'
  BY <1>3, <1>4, <1>5, FrameStep DEF RefreshNext
<1>7. scan' \in [Accounts -> Tokens]
      /\ \A b \in Accounts : scan'[b] \in Token => scan'[b] = scan[b]
  BY TokenTypes DEF RefreshNext, Copies, FilesTypeOK
<1>8. FilesTypeOK'
  BY <1>6, <1>7 DEF RefreshNext, Copies, FilesTypeOK
<1>9. ScanOK' /\ TokensBelongTogether'
  BY <1>7 DEF RefreshNext, Copies, ScanOK, TokensBelongTogether, Together
<1>10. QED
  BY <1>6, <1>8, <1>9 DEF Copies

LEMMA AgeCopies ==
  ASSUME Copies, NEW a \in Accounts, Age(a)
  PROVE  Copies'
<1>1. dueUpTo' \in [Accounts -> 0..MaxIssued]
  BY DEF Age, Copies, FilesTypeOK
<1>2. FilesTypeOK'
  BY <1>1 DEF Age, Copies, FilesTypeOK
<1>3. FramesOK' /\ ScanOK' /\ TokensBelongTogether'
  BY DEF Age, Copies, FramesOK, FrameOK, ScanOK, TokensBelongTogether, Together
<1>4. QED
  BY <1>2, <1>3 DEF Copies

LEMMA CrashCopies ==
  ASSUME Copies, Crash
  PROVE  Copies'
<1>1. decided' \in [Accounts -> Decisions]
  BY DEF Crash, Copies, FilesTypeOK, Decisions
<1>2. lost' \in [Accounts -> BOOLEAN]
  BY DEF Crash, Copies, FilesTypeOK
<1>3. proc' \in [Procs -> Proc] /\ unread' \in SUBSET Accounts
      /\ scan' \in [Accounts -> Tokens] /\ faults' \in 0..MaxFaults
  BY TokenTypes DEF Crash, Copies, FilesTypeOK
<1>4. FilesTypeOK'
  BY <1>1, <1>2, <1>3 DEF Crash, Copies, FilesTypeOK
<1>5. FramesOK'
  BY TokenTypes DEF Crash, FramesOK, FrameOK
<1>6. ScanOK' /\ TokensBelongTogether'
  BY TokenTypes DEF Crash, Copies, ScanOK, TokensBelongTogether, Together
<1>7. QED
  BY <1>4, <1>5, <1>6 DEF Copies

-----------------------------------------------------------------------------
LEMMA CopiesInit == FilesInit => Copies
<1>1. SUFFICES ASSUME FilesInit PROVE Copies
  OBVIOUS
<1>2. \A a \in Accounts : file[a] \in Token /\ file[a].refresh = 1 /\ file[a].access = 1
  BY <1>1, TokenTypes DEF FilesInit, Token
<1>3. file \in [Accounts -> FileState]
  BY <1>1, <1>2 DEF FilesInit, FileState
<1>4. decided \in [Accounts -> Decisions]
  BY <1>1 DEF FilesInit, Decision, Decisions
<1>5. FilesTypeOK
  BY <1>1, <1>3, <1>4, TokenTypes DEF FilesInit, FilesTypeOK
<1>6. FramesOK /\ ScanOK
  BY <1>1, TokenTypes DEF FilesInit, FramesOK, FrameOK, ScanOK
<1>7. TokensBelongTogether
  BY <1>1, <1>2 DEF FilesInit, TokensBelongTogether, Together
<1>8. QED
  BY <1>5, <1>6, <1>7 DEF Copies

LEMMA CopiesInductive == Copies /\ [FilesNext]_fileVars => Copies'
<1>1. SUFFICES ASSUME Copies, [FilesNext]_fileVars PROVE Copies'
  OBVIOUS
<1>2. CASE UNCHANGED fileVars
  BY <1>1, <1>2 DEF fileVars, Copies, FilesTypeOK, FramesOK, FrameOK, ScanOK,
                    TokensBelongTogether, Together
<1>3. ASSUME NEW p \in Handlers, HandlerStep(p) PROVE Copies'
  BY <1>1, <1>3, StartCopies, SaveCopies DEF HandlerStep, Procs
<1>4. ASSUME NEW p \in Procs, CallStep(p) PROVE Copies'
  BY <1>1, <1>4, GiveUpCopies, AnsweredCopies, BlockedCopies, RefreshAnsweredCopies,
     RefreshLostCopies DEF CallStep
<1>5. ASSUME NEW p \in Procs, WriteStep(p) PROVE Copies'
  BY <1>1, <1>5, DeleteCopies, OpenCopies, WriteCopies, WriteFailsCopies DEF WriteStep
<1>6. CASE SchedulerStep
  BY <1>1, <1>6, ScanCopies, RefreshNextCopies DEF SchedulerStep
<1>7. ASSUME NEW a \in Accounts, Age(a) PROVE Copies'
  BY <1>1, <1>7, AgeCopies
<1>8. CASE Crash
  BY <1>1, <1>8, CrashCopies
<1>9. QED
  BY <1>1, <1>2, <1>3, <1>4, <1>5, <1>6, <1>7, <1>8 DEF FilesNext

\* Files, goroutines and the scheduler's list keep their types.
THEOREM FilesTypeCorrect == FilesSpec => []FilesTypeOK
<1>1. FilesInit => Copies
  BY CopiesInit
<1>2. Copies /\ [FilesNext]_fileVars => Copies'
  BY CopiesInductive
<1>3. Copies => FilesTypeOK
  BY DEF Copies
<1>4. QED
  BY <1>1, <1>2, <1>3, PTL DEF FilesSpec

\* However many goroutines overwrite an account's file with what they once read
\* of it, a file that can be read holds two tokens that were issued together.
THEOREM SessionsAreNeverMixed == FilesSpec => []TokensBelongTogether
<1>1. FilesInit => Copies
  BY CopiesInit
<1>2. Copies /\ [FilesNext]_fileVars => Copies'
  BY CopiesInductive
<1>3. Copies => TokensBelongTogether
  BY DEF Copies
<1>4. QED
  BY <1>1, <1>2, <1>3, PTL DEF FilesSpec


-----------------------------------------------------------------------------
(* Decisions.                                                              *)
(*                                                                         *)
(* An account that nobody has overlapped on agrees with what was decided   *)
(* about it wherever it is held: in its file, in the scheduler's list, and *)
(* in each goroutine that may write it, which either keeps the decision    *)
(* or brings its own.  Whoever writes, or removes, the file is alone: an   *)
(* older copy that is held meanwhile would be an overlap.                  *)

Holding == {"calling", "persisting", "opened"}

Agrees(a, t) == decided[a] = "unknown" \/ Decision(t) = decided[a]

Opened(a, f) == f.account = a /\ f.pc = "opened"

Stored(a) ==
  decided[a] # "unknown" =>
    IF decided[a] = "deleted" THEN file[a] = NoFile
    ELSE file[a] \in Token /\ Decision(file[a]) = decided[a]

FrameAgrees(a, f) ==
  f.account = a =>
    /\ f.pc = "calling" => f.wish = "keep"
    /\ f.pc \in Holding => IF f.wish = "keep" THEN Agrees(a, f.next)
                           ELSE Decision(f.next) = f.wish
    /\ f.pc = "opened" => f.linked /\ file[a] = Torn

DecisionOK(a) ==
  /\ (\A p \in Procs : ~Opened(a, proc[p])) => Stored(a)
  /\ scan[a] # NoToken => Agrees(a, scan[a])
  /\ \A p \in Procs : FrameAgrees(a, proc[p])
  /\ \A p, q \in Procs : Opened(a, proc[p]) /\ Opened(a, proc[q]) => p = q

\* The account that the scheduler works on is no longer in its list.
SchedulerAlone ==
  proc[Scheduler].pc # "idle" => unread = {} /\ scan[proc[Scheduler].account] = NoToken

\* p's frame is all that changes.
OnlyFrame(p) == \A q \in Procs \ {p} : proc'[q] = proc[q]

-----------------------------------------------------------------------------
(* What each step makes of the goroutine that takes it.                    *)

LEMMA FinishFrame ==
  ASSUME Copies, NEW p \in Procs, Finish(p)
  PROVE  proc'[p] = IdleProc /\ OnlyFrame(p)
BY DEF Finish, OnlyFrame, Copies, FilesTypeOK

LEMMA IdleFields ==
  /\ IdleProc.pc = "idle" /\ IdleProc.account = NoAccount /\ IdleProc.op = "none"
  /\ IdleProc.wish = "keep" /\ ~IdleProc.again
BY DEF IdleProc

LEMMA StartFrame ==
  ASSUME Copies, NEW p \in Procs, NEW op \in HandlerOps, NEW a \in Accounts,
         Start(p, op, a)
  PROVE  /\ OnlyFrame(p) /\ file[a] \in Token
         /\ proc'[p].account = a /\ proc'[p].op = op /\ proc'[p].snap = file[a]
         /\ op = "delete" => proc'[p].pc = "deleting"
         /\ op = "toggle" => /\ proc'[p].pc = "persisting"
                             /\ proc'[p].wish = Decision(proc'[p].next)
                             /\ proc'[p].next.refresh = file[a].refresh
         /\ op \notin {"delete", "toggle"} => /\ proc'[p].pc = "calling"
                                              /\ proc'[p].wish = "keep"
                                              /\ proc'[p].next = file[a]
         /\ ~proc'[p].again
<1>1. file[a] \in Token
  BY DEF Start, Readable
<1> DEFINE t == file[a]
           flipped == [t EXCEPT !.disabled = ~@]
           pc == CASE op = "delete" -> "deleting"
                   [] op = "toggle" -> "persisting"
                   [] OTHER -> "calling"
           next == IF op = "toggle" THEN flipped ELSE t
           wish == IF op # "toggle" THEN "keep"
                   ELSE IF t.disabled THEN "enabled" ELSE "disabled"
           new == [IdleProc EXCEPT !.pc = pc, !.op = op, !.account = a, !.snap = t,
                                   !.next = next, !.wish = wish]
<1>2. proc' = [proc EXCEPT ![p] = new]
  BY DEF Start
<1>3. proc'[p] = new /\ OnlyFrame(p)
  BY <1>2 DEF OnlyFrame, Copies, FilesTypeOK
<1>4. flipped.disabled = ~t.disabled /\ flipped.refresh = t.refresh
  BY <1>1 DEF Token
<1>5. op = "toggle" => wish = Decision(next) /\ next.refresh = file[a].refresh
  <2>1. t.disabled \in BOOLEAN
    BY <1>1 DEF Token
  <2>2. QED
    BY <2>1, <1>4 DEF Decision
<1>6. /\ op = "delete" => pc = "deleting"
      /\ op = "toggle" => pc = "persisting"
      /\ op \notin {"delete", "toggle"} => pc = "calling" /\ wish = "keep" /\ next = t
  OBVIOUS
<1> HIDE DEF pc, wish, next
<1>7. /\ new.account = a /\ new.op = op /\ new.snap = t /\ new.pc = pc /\ new.next = next
      /\ new.wish = wish /\ ~new.again
  BY DEF IdleProc
<1> HIDE DEF new
<1>8. QED
  BY <1>1, <1>3, <1>5, <1>6, <1>7

LEMMA SaveFrame ==
  ASSUME Copies, NEW p \in Procs, NEW a \in Accounts, NEW enabled \in {"on", "off", "keep"},
         Save(p, a, enabled)
  PROVE  /\ OnlyFrame(p)
         /\ proc'[p].account = a /\ proc'[p].op = "save" /\ proc'[p].pc = "persisting"
         /\ proc'[p].next.refresh = issued[a] + 1
         /\ IF proc'[p].wish = "keep"
              THEN file[a] \in Token /\ Decision(proc'[p].next) = Decision(file[a])
              ELSE Decision(proc'[p].next) = proc'[p].wish
         /\ ~proc'[p].again
<1>1. PICK n : n = issued[a] + 1
  OBVIOUS
<1> DEFINE snap == IF Readable(a) THEN file[a] ELSE NoToken
           off == SavedDisabled(a, enabled)
           next == [refresh |-> n, access |-> n, disabled |-> off]
           wish == CASE enabled = "off" -> "disabled"
                     [] enabled = "keep" /\ Readable(a) -> "keep"
                     [] OTHER -> "enabled"
           new == [IdleProc EXCEPT !.pc = "persisting", !.op = "save", !.account = a,
                                   !.snap = snap, !.next = next, !.wish = wish]
<1>2. proc' = [proc EXCEPT ![p] = new]
  BY <1>1 DEF Save
<1>3. proc'[p] = new /\ OnlyFrame(p)
  BY <1>2 DEF OnlyFrame, Copies, FilesTypeOK
<1>4. next.refresh = n /\ Decision(next) = IF off THEN "disabled" ELSE "enabled"
  BY DEF Decision
<1>5. IF wish = "keep" THEN file[a] \in Token /\ Decision(next) = Decision(file[a])
      ELSE Decision(next) = wish
  <2>1. CASE enabled = "off"
    <3>1. wish = "disabled" /\ off
      BY <2>1 DEF SavedDisabled
    <3>2. QED
      BY <1>4, <3>1
  <2>2. CASE enabled = "keep" /\ Readable(a)
    <3>1. wish = "keep" /\ (off <=> file[a].disabled)
      BY <2>2 DEF SavedDisabled
    <3>2. QED
      BY <1>4, <2>2, <3>1 DEF Readable, Decision
  <2>3. CASE enabled # "off" /\ ~(enabled = "keep" /\ Readable(a))
    <3>1. wish = "enabled" /\ ~off
      BY <2>3 DEF SavedDisabled
    <3>2. QED
      BY <1>4, <3>1
  <2>4. QED
    BY <2>1, <2>2, <2>3
<1> HIDE DEF snap, next, wish
<1>6. /\ new.account = a /\ new.op = "save" /\ new.pc = "persisting" /\ new.next = next
      /\ new.wish = wish /\ ~new.again
  BY DEF IdleProc
<1> HIDE DEF new
<1>7. QED
  BY <1>1, <1>3, <1>4, <1>5, <1>6


LEMMA AnsweredFrame ==
  ASSUME Copies, NEW p \in Procs, Answered(p)
  PROVE  /\ OnlyFrame(p)
         /\ proc'[p].account = proc[p].account /\ proc'[p].op = proc[p].op
         /\ proc'[p].pc = "persisting"
         /\ proc'[p].snap = proc[p].snap /\ proc'[p].next = proc[p].next
         /\ proc'[p].wish = proc[p].wish /\ proc'[p].again = proc[p].again
<1>1. proc' = [proc EXCEPT ![p].pc = "persisting"] /\ proc \in [Procs -> Proc]
  BY DEF Answered, Copies, FilesTypeOK
<1>2. OnlyFrame(p) /\ proc'[p] = [proc[p] EXCEPT !.pc = "persisting"]
  BY <1>1 DEF OnlyFrame
<1>3. QED
  BY <1>2, ProcFields DEF Proc

LEMMA BlockedFrame ==
  ASSUME Copies, NEW p \in Procs, Blocked(p)
  PROVE  /\ OnlyFrame(p)
         /\ proc'[p].account = proc[p].account /\ proc'[p].op = proc[p].op
         /\ proc'[p].pc = "persisting" /\ proc'[p].snap = proc[p].snap
         /\ proc'[p].next.refresh = proc[p].next.refresh
         /\ proc'[p].wish = "disabled" /\ Decision(proc'[p].next) = "disabled"
         /\ proc'[p].again => proc[p].op = "check"
<1>1. PICK again \in BOOLEAN :
        /\ again => proc[p].op = "check"
        /\ proc' = [proc EXCEPT ![p].pc = "persisting", ![p].again = again,
                                ![p].wish = "disabled",
                                ![p].next = [proc[p].snap EXCEPT !.disabled = TRUE]]
  BY DEF Blocked
<1>2. proc[p].snap \in Token /\ proc[p].next = proc[p].snap
  BY ProcFields DEF Blocked, FrameOK
<1>3. PICK next : next = [proc[p].snap EXCEPT !.disabled = TRUE]
  OBVIOUS
<1>4. next.refresh = proc[p].next.refresh /\ Decision(next) = "disabled"
  BY <1>2, <1>3 DEF Token, Decision
<1>5. PICK f : f = [proc[p] EXCEPT !.pc = "persisting", !.again = again,
                                   !.wish = "disabled", !.next = next]
  OBVIOUS
<1>6. proc' = [proc EXCEPT ![p] = f]
  BY <1>1, <1>3, <1>5, ProcFields DEF Copies, FilesTypeOK
<1>7. proc'[p] = f /\ OnlyFrame(p)
  BY <1>6 DEF OnlyFrame, Copies, FilesTypeOK
<1>8. /\ f.account = proc[p].account /\ f.op = proc[p].op /\ f.pc = "persisting"
      /\ f.snap = proc[p].snap /\ f.next = next /\ f.wish = "disabled" /\ f.again = again
  BY <1>5, ProcFields DEF Proc
<1>9. QED
  BY <1>1, <1>4, <1>7, <1>8

LEMMA RefreshAnsweredFrame ==
  ASSUME Copies, NEW p \in Procs, RefreshAnswered(p)
  PROVE  /\ OnlyFrame(p) /\ proc[p].account \in Accounts
         /\ proc'[p].account = proc[p].account /\ proc'[p].op = proc[p].op
         /\ proc'[p].pc = "persisting" /\ proc'[p].snap = proc[p].snap
         /\ proc'[p].wish = proc[p].wish /\ proc'[p].again = proc[p].again
         /\ Decision(proc'[p].next) = Decision(proc[p].next)
         /\ proc'[p].next.refresh \in {proc[p].snap.refresh, issued[proc[p].account] + 1}
         /\ Grant(proc[p].account, proc'[p].next.refresh, {proc[p].snap.refresh})
<1>1. PICK a, snap : a = proc[p].account /\ snap = proc[p].snap
  OBVIOUS
<1>2. a \in Accounts /\ snap \in Token /\ proc[p].next = snap
  BY <1>1, ProcFields DEF RefreshAnswered, FrameOK
<1>3. PICK refresh \in {snap.refresh, issued[a] + 1} :
        /\ Grant(a, refresh, {snap.refresh})
        /\ proc' = [proc EXCEPT ![p].pc = "persisting",
                                ![p].next = Refreshed(snap, refresh, issued[a] + 1)]
  BY <1>1 DEF RefreshAnswered
<1>4. PICK next : next = Refreshed(snap, refresh, issued[a] + 1)
  OBVIOUS
<1>5. next.refresh = refresh /\ Decision(next) = Decision(snap)
  BY <1>4 DEF Refreshed, Decision
<1>6. PICK f : f = [proc[p] EXCEPT !.pc = "persisting", !.next = next]
  OBVIOUS
<1>7. proc' = [proc EXCEPT ![p] = f]
  BY <1>3, <1>4, <1>6, ProcFields DEF Copies, FilesTypeOK
<1>8. proc'[p] = f /\ OnlyFrame(p)
  BY <1>7 DEF OnlyFrame, Copies, FilesTypeOK
<1>9. /\ f.account = a /\ f.op = proc[p].op /\ f.pc = "persisting" /\ f.snap = snap
      /\ f.next = next /\ f.wish = proc[p].wish /\ f.again = proc[p].again
  BY <1>1, <1>6, ProcFields DEF Proc
<1>10. QED
  BY <1>1, <1>2, <1>3, <1>5, <1>8, <1>9

LEMMA OpenFrame ==
  ASSUME Copies, NEW p \in Procs, Open(p)
  PROVE  /\ OnlyFrame(p) /\ proc[p].account \in Accounts
         /\ proc'[p].account = proc[p].account /\ proc'[p].op = proc[p].op
         /\ proc'[p].pc = "opened" /\ proc'[p].linked
         /\ proc'[p].snap = proc[p].snap /\ proc'[p].next = proc[p].next
         /\ proc'[p].wish = proc[p].wish /\ proc'[p].again = proc[p].again
<1>1. PICK f : f = [proc[p] EXCEPT !.pc = "opened", !.linked = TRUE]
  OBVIOUS
<1>2. proc' = [proc EXCEPT ![p] = f]
  BY <1>1, ProcFields DEF Open, Copies, FilesTypeOK
<1>3. proc'[p] = f /\ OnlyFrame(p)
  BY <1>2 DEF OnlyFrame, Copies, FilesTypeOK
<1>4. /\ f.account = proc[p].account /\ f.op = proc[p].op /\ f.pc = "opened" /\ f.linked
      /\ f.snap = proc[p].snap /\ f.next = proc[p].next
      /\ f.wish = proc[p].wish /\ f.again = proc[p].again
  BY <1>1, ProcFields DEF Proc
<1>5. proc[p].account \in Accounts
  BY ProcFields DEF Open, FrameOK
<1>6. QED
  BY <1>3, <1>4, <1>5

LEMMA WriteFrame ==
  ASSUME Copies, NEW p \in Procs, Write(p)
  PROVE  /\ OnlyFrame(p) /\ proc[p].account \in Accounts
         /\ IF proc[p].again
              THEN /\ proc'[p].account = proc[p].account /\ proc'[p].op = proc[p].op
                   /\ proc'[p].pc = "persisting" /\ ~proc'[p].again
                   /\ proc'[p].snap = proc[p].snap /\ proc'[p].next = proc[p].next
                   /\ proc'[p].wish = proc[p].wish
              ELSE proc'[p] = IdleProc
<1>1. proc[p].account \in Accounts
  BY ProcFields DEF Write, FrameOK
<1>2. CASE proc[p].again
  <2>1. PICK f : f = [proc[p] EXCEPT !.pc = "persisting", !.again = FALSE]
    OBVIOUS
  <2>2. proc' = [proc EXCEPT ![p] = f]
    BY <1>2, <2>1, ProcFields DEF Write, Copies, FilesTypeOK
  <2>3. proc'[p] = f /\ OnlyFrame(p)
    BY <2>2 DEF OnlyFrame, Copies, FilesTypeOK
  <2>4. /\ f.account = proc[p].account /\ f.op = proc[p].op /\ f.pc = "persisting" /\ ~f.again
        /\ f.snap = proc[p].snap /\ f.next = proc[p].next /\ f.wish = proc[p].wish
    BY <2>1, ProcFields DEF Proc
  <2>5. QED
    BY <1>1, <1>2, <2>3, <2>4
<1>3. CASE ~proc[p].again
  BY <1>1, <1>3, FinishFrame DEF Write
<1>4. QED
  BY <1>2, <1>3

LEMMA DeleteFrame ==
  ASSUME Copies, NEW p \in Procs, Delete(p)
  PROVE  /\ proc'[p] = IdleProc /\ proc[p].account \in Accounts
         /\ \A q \in Procs \ {p} : proc[q].account # proc[p].account => proc'[q] = proc[q]
         /\ \A q \in Procs \ {p} : proc[q].account = proc[p].account =>
              /\ proc'[q].account = proc[p].account /\ proc'[q].pc = proc[q].pc
              /\ proc'[q].op = proc[q].op /\ proc'[q].again = proc[q].again
<1>1. proc[p].account \in Accounts
  BY ProcFields DEF Delete, FrameOK
<1>2. proc' = [q \in Procs |->
         IF q = p THEN IdleProc
         ELSE IF proc[q].account = proc[p].account THEN [proc[q] EXCEPT !.linked = FALSE]
         ELSE proc[q]]
  BY DEF Delete
<1>3. ASSUME NEW q \in Procs \ {p}, proc[q].account = proc[p].account
      PROVE  /\ proc'[q].account = proc[p].account /\ proc'[q].pc = proc[q].pc
             /\ proc'[q].op = proc[q].op /\ proc'[q].again = proc[q].again
  <2>1. PICK f : f = [proc[q] EXCEPT !.linked = FALSE]
    OBVIOUS
  <2>2. proc'[q] = f
    BY <1>2, <1>3, <2>1
  <2>3. QED
    BY <1>3, <2>1, <2>2, ProcFields DEF Proc
<1>4. QED
  BY <1>1, <1>2, <1>3

LEMMA RefreshNextFrame ==
  ASSUME Copies, NEW a \in Accounts, RefreshNext(a)
  PROVE  /\ OnlyFrame(Scheduler) /\ Scheduler \in Procs
         /\ proc'[Scheduler].account = a /\ proc'[Scheduler].op = "refresh"
         /\ proc'[Scheduler].pc = "calling" /\ proc'[Scheduler].wish = "keep"
         /\ proc'[Scheduler].snap = scan[a] /\ proc'[Scheduler].next = scan[a]
         /\ ~proc'[Scheduler].again
         /\ scan'[a] = NoToken /\ \A b \in Accounts \ {a} : scan'[b] = scan[b]
<1>1. PICK f : f = [IdleProc EXCEPT !.pc = "calling", !.op = "refresh", !.account = a,
                                    !.snap = scan[a], !.next = scan[a]]
  OBVIOUS
<1>2. /\ f.account = a /\ f.op = "refresh" /\ f.pc = "calling" /\ f.wish = "keep"
      /\ f.snap = scan[a] /\ f.next = scan[a] /\ ~f.again
  BY <1>1 DEF IdleProc
<1>3. proc' = [proc EXCEPT ![Scheduler] = f] /\ Scheduler \in Procs
  BY <1>1 DEF RefreshNext, Procs
<1>4. proc'[Scheduler] = f /\ OnlyFrame(Scheduler)
  BY <1>3 DEF OnlyFrame, Copies, FilesTypeOK
<1>5. scan'[a] = NoToken /\ \A b \in Accounts \ {a} : scan'[b] = scan[b]
  BY DEF RefreshNext, Copies, FilesTypeOK
<1>6. QED
  BY <1>2, <1>3, <1>4, <1>5

\* The account that the scheduler reads is in its list as in its file, or not
\* at all; the others may drop out of the list.
LEMMA ScanReadList ==
  ASSUME Copies, NEW a \in Accounts, NEW b \in Accounts, ScanRead(b)
  PROVE  \/ scan'[a] \in {scan[a], NoToken}
         \/ scan'[a] = file[a] /\ file[a] \in Token
<1> DEFINE read == IF Readable(b) THEN file[b] ELSE NoToken
           list == [scan EXCEPT ![b] = read]
<1>1. list[a] = (IF a = b THEN read ELSE scan[a])
  BY DEF Copies, FilesTypeOK
<1>2. scan' = IF unread = {b}
                THEN [c \in Accounts |->
                       IF list[c] # NoToken /\ shouldRefreshKASToken(c, list[c])
                         THEN list[c] ELSE NoToken]
                ELSE list
  BY DEF ScanRead
<1> HIDE DEF list
<1>3. scan'[a] \in {list[a], NoToken}
  BY <1>2
<1>4. QED
  BY <1>1, <1>3 DEF Readable


-----------------------------------------------------------------------------
(* The scheduler works on one account at a time.                           *)

LEMMA SchedulerKept ==
  ASSUME SchedulerAlone, UNCHANGED <<unread, scan>>,
         proc'[Scheduler].pc # "idle" =>
           /\ proc[Scheduler].pc # "idle"
           /\ proc'[Scheduler].account = proc[Scheduler].account
  PROVE  SchedulerAlone'
BY DEF SchedulerAlone

LEMMA SchedulerAloneInit == FilesInit => SchedulerAlone
BY IdleFields DEF FilesInit, SchedulerAlone, Procs

LEMMA SchedulerAloneInductive ==
  Copies /\ SchedulerAlone /\ [FilesNext]_fileVars => SchedulerAlone'
<1>1. SUFFICES ASSUME Copies, SchedulerAlone, [FilesNext]_fileVars PROVE SchedulerAlone'
  OBVIOUS
<1>2. CASE UNCHANGED fileVars
  BY <1>1, <1>2 DEF fileVars, SchedulerAlone
<1>3. ASSUME NEW p \in Handlers, HandlerStep(p) PROVE SchedulerAlone'
  <2>1. OnlyFrame(p) /\ p \in Procs
    BY <1>1, <1>3, StartFrame, SaveFrame DEF HandlerStep, Procs
  <2>2. proc'[Scheduler] = proc[Scheduler]
    BY <2>1 DEF OnlyFrame, Procs
  <2>3. UNCHANGED <<unread, scan>>
    BY <1>3 DEF HandlerStep, Start, Save
  <2>4. QED
    BY <1>1, <2>2, <2>3, SchedulerKept
<1>4. ASSUME NEW p \in Procs, CallStep(p) PROVE SchedulerAlone'
  <2>1. UNCHANGED <<unread, scan>> /\ proc[p].pc = "calling"
    BY <1>4 DEF CallStep, GiveUp, Answered, Blocked, RefreshAnswered, RefreshLost
  <2>2. OnlyFrame(p) /\ (proc'[p] = IdleProc \/ proc'[p].account = proc[p].account)
    BY <1>1, <1>4, FinishFrame, AnsweredFrame, BlockedFrame, RefreshAnsweredFrame
       DEF CallStep, GiveUp, RefreshLost
  <2>3. QED
    BY <1>1, <2>1, <2>2, IdleFields, SchedulerKept DEF OnlyFrame, Procs
<1>5. ASSUME NEW p \in Procs, WriteStep(p) PROVE SchedulerAlone'
  <2>1. UNCHANGED <<unread, scan>> /\ proc[p].pc # "idle"
    BY <1>5 DEF WriteStep, Delete, Open, Write, WriteFails
  <2>2. proc'[p] = IdleProc \/ proc'[p].account = proc[p].account
    BY <1>1, <1>5, FinishFrame, DeleteFrame, OpenFrame, WriteFrame DEF WriteStep, WriteFails
  <2>3. \A q \in Procs \ {p} : proc'[q].pc = proc[q].pc /\ proc'[q].account = proc[q].account
    BY <1>1, <1>5, FinishFrame, DeleteFrame, OpenFrame, WriteFrame
       DEF WriteStep, WriteFails, OnlyFrame
  <2>4. QED
    BY <1>1, <2>1, <2>2, <2>3, IdleFields, SchedulerKept DEF Procs
<1>6. CASE SchedulerStep
  <2>1. CASE ScanStart
    BY <2>1, IdleFields DEF ScanStart, SchedulerAlone
  <2>2. ASSUME NEW a \in Accounts, ScanRead(a) PROVE SchedulerAlone'
    BY <1>1, <2>2 DEF ScanRead, SchedulerAlone
  <2>3. ASSUME NEW a \in Accounts, RefreshNext(a) PROVE SchedulerAlone'
    BY <1>1, <2>3, RefreshNextFrame DEF RefreshNext, SchedulerAlone
  <2>4. QED
    BY <1>6, <2>1, <2>2, <2>3 DEF SchedulerStep
<1>7. ASSUME NEW a \in Accounts, Age(a) PROVE SchedulerAlone'
  BY <1>1, <1>7, SchedulerKept DEF Age
<1>8. CASE Crash
  BY <1>8, IdleFields DEF Crash, SchedulerAlone, Procs
<1>9. QED
  BY <1>1, <1>2, <1>3, <1>4, <1>5, <1>6, <1>7, <1>8 DEF FilesNext

\* Whoever changes a file that is not overlapped on is alone with it.
LEMMA WriterAlone ==
  ASSUME Copies, SchedulerAlone, NEW p \in Procs, NEW a \in Accounts,
         proc[p].account = a, proc[p].pc # "idle", NoteOverlap(p, a), ~overlapped'[a]
  PROVE  /\ \A q \in Procs \ {p} : proc[q].account # a
         /\ scan[a] = NoToken
         /\ ~overlapped[a]
<1>1. overlapped' = [overlapped EXCEPT ![a] = @ \/ \E q \in Procs \ {p} : Busy(q, a)]
  BY DEF NoteOverlap
<1>2. overlapped'[a] = (overlapped[a] \/ \E q \in Procs \ {p} : Busy(q, a))
  BY <1>1 DEF Copies, FilesTypeOK
<1>3. ~overlapped[a] /\ \A q \in Procs \ {p} : ~Busy(q, a)
  BY <1>2
<1>4. scan[a] = NoToken
  <2>1. CASE p = Scheduler
    BY <2>1 DEF SchedulerAlone
  <2>2. CASE p # Scheduler
    BY <1>3, <2>2 DEF Busy, Procs
  <2>3. QED
    BY <2>1, <2>2
<1>5. QED
  BY <1>3, <1>4 DEF Busy

LEMMA OverlapsStay ==
  ASSUME Copies, NEW p \in Procs, NEW a \in Accounts, NEW b, NoteOverlap(p, b),
         ~overlapped'[a]
  PROVE  ~overlapped[a]
<1>1. PICK o : o = (overlapped[b] \/ \E q \in Procs \ {p} : Busy(q, b))
  OBVIOUS
<1>2. overlapped' = [overlapped EXCEPT ![b] = o]
  BY <1>1 DEF NoteOverlap
<1>3. overlapped'[a] = (IF a = b THEN o ELSE overlapped[a])
  BY <1>2 DEF Copies, FilesTypeOK
<1>4. QED
  BY <1>1, <1>3


-----------------------------------------------------------------------------
(* Decisions stick.                                                        *)

\* The account's file and its decision stay, and no goroutine opens or closes it.
LEMMA DecisionStays ==
  ASSUME NEW a \in Accounts, DecisionOK(a),
         file'[a] = file[a], decided'[a] = decided[a], scan'[a] \in {scan[a], NoToken},
         \A q \in Procs :
           \/ proc'[q] = proc[q]
           \/ ~Opened(a, proc[q]) /\ ~Opened(a, proc[q])' /\ FrameAgrees(a, proc[q])'
  PROVE  DecisionOK(a)'
<1>1. \A q \in Procs : Opened(a, proc[q])' <=> Opened(a, proc[q])
  BY DEF Opened
<1>2. Stored(a)' <=> Stored(a)
  BY DEF Stored
<1>3. \A q \in Procs : FrameAgrees(a, proc[q])'
  BY DEF DecisionOK, FrameAgrees, Agrees
<1>4. (scan[a] # NoToken => Agrees(a, scan[a]))'
  BY DEF DecisionOK, Agrees
<1>5. QED
  BY <1>1, <1>2, <1>3, <1>4 DEF DecisionOK

\* The same for the step of one goroutine.
LEMMA DecisionStaysOne ==
  ASSUME NEW a \in Accounts, DecisionOK(a), NEW p \in Procs, OnlyFrame(p),
         file'[a] = file[a], decided'[a] = decided[a], scan'[a] \in {scan[a], NoToken},
         ~Opened(a, proc[p]), ~Opened(a, proc[p])', FrameAgrees(a, proc[p])'
  PROVE  DecisionOK(a)'
BY DecisionStays DEF OnlyFrame

\* A file that can be read is not being written, and holds what was decided.
LEMMA ReadAgrees ==
  ASSUME NEW a \in Accounts, DecisionOK(a), file[a] \in Token
  PROVE  Agrees(a, file[a])
<1>1. file[a] # Torn /\ file[a] # NoFile
  OBVIOUS
<1>2. \A p \in Procs : ~Opened(a, proc[p])
  BY <1>1 DEF DecisionOK, FrameAgrees, Opened
<1>3. QED
  BY <1>1, <1>2 DEF DecisionOK, Stored, Agrees

LEMMA IdleAgrees ==
  ASSUME NEW a \in Accounts, NEW p \in Procs, proc'[p] = IdleProc
  PROVE  ~Opened(a, proc[p])' /\ FrameAgrees(a, proc[p])'
BY IdleFields DEF Opened, FrameAgrees

LEMMA StartDecision ==
  ASSUME Copies, NEW a \in Accounts, DecisionOK(a),
         NEW p \in Procs, NEW op \in HandlerOps, NEW b \in Accounts, Start(p, op, b)
  PROVE  DecisionOK(a)'
<1>1. UNCHANGED <<file, decided, scan>> /\ OnlyFrame(p) /\ proc'[p].account = b
  BY StartFrame DEF Start
<1>2. ~Opened(a, proc[p]) /\ ~Opened(a, proc[p])'
  <2>1. proc[p].pc = "idle"
    BY IdleFields DEF Start
  <2>2. proc'[p].pc # "opened"
    BY StartFrame
  <2>3. QED
    BY <2>1, <2>2 DEF Opened
<1>3. FrameAgrees(a, proc[p])'
  <2>1. CASE a # b
    BY <1>1, <2>1 DEF FrameAgrees
  <2>2. CASE a = b
    <3>1. Agrees(a, file[a])
      BY <2>2, StartFrame, ReadAgrees
    <3>2. CASE op = "delete"
      BY <3>2, StartFrame DEF FrameAgrees, Holding
    <3>3. CASE op = "toggle"
      <4>1. PICK w : w = proc'[p].wish
        OBVIOUS
      <4>2. proc'[p].pc = "persisting" /\ Decision(proc'[p].next) = w /\ w # "keep"
        BY <3>3, <4>1, StartFrame DEF Decision
      <4>3. QED
        BY <4>1, <4>2 DEF FrameAgrees, Decision
    <3>4. CASE op \notin {"delete", "toggle"}
      <4>1. proc'[p].pc = "calling" /\ proc'[p].wish = "keep" /\ proc'[p].next = file[a]
        BY <2>2, <3>4, StartFrame
      <4>2. QED
        BY <1>1, <3>1, <4>1 DEF FrameAgrees, Agrees
    <3>5. QED
      BY <3>2, <3>3, <3>4
  <2>3. QED
    BY <2>1, <2>2
<1>4. QED
  BY <1>1, <1>2, <1>3, DecisionStaysOne

LEMMA SaveDecision ==
  ASSUME Copies, NEW a \in Accounts, DecisionOK(a), NEW p \in Procs, NEW b \in Accounts,
         NEW enabled \in {"on", "off", "keep"}, Save(p, b, enabled)
  PROVE  DecisionOK(a)'
<1>1. /\ UNCHANGED <<file, decided, scan>> /\ OnlyFrame(p)
      /\ proc'[p].account = b /\ proc'[p].pc = "persisting"
  <2>1. UNCHANGED <<file, decided, scan>>
    BY DEF Save
  <2>2. OnlyFrame(p) /\ proc'[p].account = b /\ proc'[p].pc = "persisting"
    BY SaveFrame
  <2>3. QED
    BY <2>1, <2>2
<1>2. ~Opened(a, proc[p]) /\ ~Opened(a, proc[p])'
  BY <1>1, IdleFields DEF Save, Opened
<1>3. FrameAgrees(a, proc[p])'
  <2>1. CASE a # b
    BY <1>1, <2>1 DEF FrameAgrees
  <2>2. CASE a = b
    <3>1. IF proc'[p].wish = "keep"
            THEN file[a] \in Token /\ Decision(proc'[p].next) = Decision(file[a])
            ELSE Decision(proc'[p].next) = proc'[p].wish
      BY <2>2, SaveFrame
    <3>2. CASE proc'[p].wish = "keep"
      BY <1>1, <3>1, <3>2, ReadAgrees DEF FrameAgrees, Agrees
    <3>3. CASE proc'[p].wish # "keep"
      BY <1>1, <3>1, <3>3 DEF FrameAgrees
    <3>4. QED
      BY <3>2, <3>3
  <2>3. QED
    BY <2>1, <2>2
<1>4. QED
  BY <1>1, <1>2, <1>3, DecisionStaysOne

LEMMA CallDecision ==
  ASSUME Copies, NEW a \in Accounts, DecisionOK(a), NEW p \in Procs, CallStep(p)
  PROVE  DecisionOK(a)'
<1>1. UNCHANGED <<file, decided, scan>> /\ proc[p].pc = "calling"
  BY DEF CallStep, GiveUp, Answered, Blocked, RefreshAnswered, RefreshLost
<1>2. ~Opened(a, proc[p]) /\ FrameAgrees(a, proc[p])
  BY <1>1 DEF Opened, DecisionOK
<1>3. CASE GiveUp(p) \/ RefreshLost(p)
  <2>1. OnlyFrame(p) /\ proc'[p] = IdleProc
    BY <1>3, FinishFrame DEF GiveUp, RefreshLost
  <2>2. QED
    BY <1>1, <1>2, <2>1, IdleAgrees, DecisionStaysOne
<1>4. CASE Answered(p) \/ RefreshAnswered(p)
  <2>1. /\ OnlyFrame(p) /\ proc'[p].account = proc[p].account /\ proc'[p].pc = "persisting"
        /\ proc'[p].wish = proc[p].wish
        /\ Decision(proc'[p].next) = Decision(proc[p].next)
    BY <1>4, AnsweredFrame, RefreshAnsweredFrame
  <2>2. ~Opened(a, proc[p])'
    BY <2>1 DEF Opened
  <2>3. FrameAgrees(a, proc[p])'
    BY <1>1, <1>2, <2>1 DEF FrameAgrees, Agrees, Holding
  <2>4. QED
    BY <1>1, <1>2, <2>1, <2>2, <2>3, DecisionStaysOne
<1>5. CASE Blocked(p)
  <2>1. /\ OnlyFrame(p) /\ proc'[p].pc = "persisting"
        /\ proc'[p].wish = "disabled" /\ Decision(proc'[p].next) = "disabled"
    BY <1>5, BlockedFrame
  <2>2. ~Opened(a, proc[p])' /\ FrameAgrees(a, proc[p])'
    BY <2>1 DEF Opened, FrameAgrees
  <2>3. QED
    BY <1>1, <1>2, <2>1, <2>2, DecisionStaysOne
<1>6. QED
  BY <1>3, <1>4, <1>5 DEF CallStep


LEMMA DeleteDecision ==
  ASSUME Copies, SchedulerAlone, NEW a \in Accounts, DecisionOK(a), ~overlapped'[a],
         NEW p \in Procs, Delete(p)
  PROVE  DecisionOK(a)'
<1>1. UNCHANGED scan /\ proc[p].pc = "deleting" /\ proc'[p] = IdleProc
  BY DeleteFrame DEF Delete
<1>2. CASE proc[p].account # a
  <2>1. file'[a] = file[a] /\ decided'[a] = decided[a]
    BY <1>2 DEF Delete, Copies, FilesTypeOK
  <2>2. ASSUME NEW q \in Procs
        PROVE  \/ proc'[q] = proc[q]
               \/ ~Opened(a, proc[q]) /\ ~Opened(a, proc[q])' /\ FrameAgrees(a, proc[q])'
    <3>1. CASE q = p
      BY <1>1, <1>2, <3>1, IdleAgrees DEF Opened
    <3>2. CASE q # p /\ proc[q].account = proc[p].account
      <4>1. proc'[q].account # a
        BY <1>2, <3>2, DeleteFrame
      <4>2. QED
        BY <1>2, <3>2, <4>1 DEF Opened, FrameAgrees
    <3>3. CASE q # p /\ proc[q].account # proc[p].account
      BY <3>3, DeleteFrame
    <3>4. QED
      BY <3>1, <3>2, <3>3
  <2>3. QED
    BY <1>1, <2>1, <2>2, DecisionStays
<1>3. CASE proc[p].account = a
  <2>1. file'[a] = NoFile /\ decided'[a] = "deleted" /\ NoteOverlap(p, a)
    BY <1>3 DEF Delete, Copies, FilesTypeOK
  <2>2. scan[a] = NoToken /\ \A q \in Procs \ {p} : proc[q].account # a
    BY <1>1, <1>3, <2>1, WriterAlone
  <2>3. \A q \in Procs : proc'[q].account # a
    BY <1>1, <1>3, <2>2, IdleFields, DeleteFrame
  <2>4. (\A q \in Procs : ~Opened(a, proc[q]) /\ FrameAgrees(a, proc[q]))'
    BY <2>3 DEF Opened, FrameAgrees
  <2>5. Stored(a)'
    BY <2>1 DEF Stored
  <2>6. QED
    BY <1>1, <2>2, <2>4, <2>5 DEF DecisionOK
<1>4. QED
  BY <1>2, <1>3

LEMMA OpenDecision ==
  ASSUME Copies, SchedulerAlone, NEW a \in Accounts, DecisionOK(a), ~overlapped'[a],
         NEW p \in Procs, Open(p)
  PROVE  DecisionOK(a)'
<1>1. /\ UNCHANGED <<scan, decided>> /\ OnlyFrame(p) /\ proc[p].pc = "persisting"
      /\ proc'[p].account = proc[p].account
  BY OpenFrame DEF Open
<1>2. CASE proc[p].account # a
  <2>1. file'[a] = file[a]
    BY <1>2 DEF Open, Copies, FilesTypeOK
  <2>2. ~Opened(a, proc[p]) /\ ~Opened(a, proc[p])' /\ FrameAgrees(a, proc[p])'
    BY <1>1, <1>2 DEF Opened, FrameAgrees
  <2>3. QED
    BY <1>1, <2>1, <2>2, DecisionStaysOne
<1>3. CASE proc[p].account = a
  <2>1. file'[a] = Torn /\ NoteOverlap(p, a)
    BY <1>3 DEF Open, Copies, FilesTypeOK
  <2>2. scan[a] = NoToken /\ \A q \in Procs \ {p} : proc[q].account # a
    BY <1>1, <1>3, <2>1, WriterAlone
  <2>3. \A q \in Procs \ {p} : proc'[q].account # a
    BY <1>1, <2>2 DEF OnlyFrame
  <2>4. FrameAgrees(a, proc[p])
    BY DEF DecisionOK
  <2>5. FrameAgrees(a, proc[p])'
    <3>1. /\ proc'[p].wish = proc[p].wish /\ proc'[p].next = proc[p].next
          /\ proc'[p].pc = "opened" /\ proc'[p].linked
      BY OpenFrame
    <3>2. QED
      BY <1>1, <1>3, <2>1, <2>4, <3>1 DEF FrameAgrees, Agrees, Holding
  <2>6. \A q \in Procs : FrameAgrees(a, proc[q])' /\ (Opened(a, proc[q])' <=> q = p)
    BY <1>1, <1>3, <2>3, <2>5, OpenFrame DEF FrameAgrees, Opened
  <2>7. QED
    BY <1>1, <2>2, <2>6 DEF DecisionOK
<1>4. QED
  BY <1>2, <1>3

LEMMA WriteDecision ==
  ASSUME Copies, SchedulerAlone, NEW a \in Accounts, DecisionOK(a), ~overlapped'[a],
         NEW p \in Procs, Write(p)
  PROVE  DecisionOK(a)'
<1>1. /\ UNCHANGED scan /\ OnlyFrame(p) /\ proc[p].pc = "opened"
      /\ proc'[p].account \in {proc[p].account, NoAccount} /\ proc'[p].pc # "opened"
  BY WriteFrame, IdleFields DEF Write
<1>2. CASE proc[p].account # a
  <2>1. PICK c, d : /\ file' = [file EXCEPT ![proc[p].account] = c]
                    /\ decided' = [decided EXCEPT ![proc[p].account] = d]
    BY DEF Write
  <2>2. file'[a] = file[a] /\ decided'[a] = decided[a]
    BY <1>2, <2>1 DEF Copies, FilesTypeOK
  <2>3. ~Opened(a, proc[p]) /\ ~Opened(a, proc[p])' /\ FrameAgrees(a, proc[p])'
    BY <1>1, <1>2 DEF Opened, FrameAgrees
  <2>4. QED
    BY <1>1, <2>2, <2>3, DecisionStaysOne
<1>3. CASE proc[p].account = a
  <2>1. PICK t, wish : t = proc[p].next /\ wish = proc[p].wish
    OBVIOUS
  <2>2. /\ proc[p].linked /\ file[a] = Torn
        /\ IF wish = "keep" THEN Agrees(a, t) ELSE Decision(t) = wish
    BY <1>1, <1>3, <2>1 DEF DecisionOK, FrameAgrees, Holding
  <2>3. PICK c \in Contents(p) : file' = [file EXCEPT ![a] = c]
    BY <1>3 DEF Write
  <2>4. c = t
    BY <1>3, <2>1, <2>2, <2>3 DEF Contents
  <2>5. file'[a] = t /\ t \in Token
    BY <1>1, <2>1, <2>3, <2>4, ProcFields DEF Copies, FilesTypeOK, FrameOK
  <2>6. decided'[a] = (IF wish = "keep" THEN decided[a] ELSE wish)
    BY <1>3, <2>1 DEF Write, Copies, FilesTypeOK
  <2>7. scan[a] = NoToken /\ \A q \in Procs \ {p} : proc[q].account # a
    BY <1>1, <1>3, WriterAlone DEF Write
  <2>8. \A q \in Procs \ {p} : proc'[q].account # a
    BY <1>1, <2>7 DEF OnlyFrame
  <2>9. decided'[a] = "unknown" \/ decided'[a] = Decision(t)
    BY <2>2, <2>6 DEF Agrees
  <2>10. Stored(a)'
    BY <2>5, <2>9 DEF Stored, Decision
  <2>11. FrameAgrees(a, proc[p])'
    <3>1. CASE proc[p].again
      <4>1. /\ proc'[p].pc = "persisting" /\ proc'[p].wish = wish /\ proc'[p].next = t
        BY <2>1, <3>1, WriteFrame
      <4>2. IF wish = "keep" THEN Agrees(a, t)' ELSE Decision(t) = wish
        BY <2>2, <2>9 DEF Agrees
      <4>3. QED
        BY <2>2, <2>9, <4>1, <4>2 DEF FrameAgrees, Agrees
    <3>2. CASE ~proc[p].again
      BY <3>2, WriteFrame, IdleAgrees
    <3>3. QED
      BY <3>1, <3>2
  <2>12. (\A q \in Procs : ~Opened(a, proc[q]) /\ FrameAgrees(a, proc[q]))'
    BY <1>1, <2>8, <2>11 DEF Opened, FrameAgrees
  <2>13. QED
    BY <1>1, <2>7, <2>10, <2>12 DEF DecisionOK
<1>4. QED
  BY <1>2, <1>3

LEMMA WriteFailsDecision ==
  ASSUME Copies, NEW a \in Accounts, DecisionOK(a), NEW p \in Procs, WriteFails(p)
  PROVE  DecisionOK(a)'
<1>1. UNCHANGED <<file, scan>> /\ OnlyFrame(p) /\ proc'[p] = IdleProc
  BY FinishFrame DEF WriteFails
<1>2. ~Opened(a, proc[p])' /\ FrameAgrees(a, proc[p])'
  BY <1>1, IdleAgrees
<1>3. proc[p].account \in Accounts
  BY ProcFields DEF WriteFails, FrameOK
<1>4. decided' = [decided EXCEPT ![proc[p].account] =
                    IF proc[p].pc = "opened" THEN "unknown" ELSE @]
  BY DEF WriteFails
<1>5. CASE ~Opened(a, proc[p])
  <2>1. decided'[a] = decided[a]
    BY <1>4, <1>5 DEF Opened, Copies, FilesTypeOK
  <2>2. QED
    BY <1>1, <1>2, <1>5, <2>1, DecisionStaysOne
<1>6. CASE Opened(a, proc[p])
  <2>1. decided'[a] = "unknown"
    BY <1>3, <1>4, <1>6 DEF Opened, Copies, FilesTypeOK
  <2>2. ASSUME NEW q \in Procs PROVE ~Opened(a, proc[q])' /\ FrameAgrees(a, proc[q])'
    <3>1. CASE q = p
      BY <1>2, <3>1
    <3>2. CASE q # p
      <4>1. proc'[q] = proc[q] /\ ~Opened(a, proc[q]) /\ FrameAgrees(a, proc[q])
        BY <1>1, <1>6, <3>2 DEF OnlyFrame, DecisionOK
      <4>2. QED
        BY <1>1, <2>1, <4>1 DEF Opened, FrameAgrees, Agrees
    <3>3. QED
      BY <3>1, <3>2
  <2>3. (Stored(a) /\ (scan[a] # NoToken => Agrees(a, scan[a])))'
    BY <2>1 DEF Stored, Agrees
  <2>4. QED
    BY <2>2, <2>3 DEF DecisionOK
<1>7. QED
  BY <1>5, <1>6

LEMMA SchedulerDecision ==
  ASSUME Copies, SchedulerAlone, NEW a \in Accounts, DecisionOK(a), SchedulerStep
  PROVE  DecisionOK(a)'
<1>1. UNCHANGED <<file, decided>>
  BY DEF SchedulerStep, ScanStart, ScanRead, RefreshNext
<1>2. CASE ScanStart
  BY <1>1, <1>2, DecisionStays DEF ScanStart
<1>3. ASSUME NEW b \in Accounts, ScanRead(b) PROVE DecisionOK(a)'
  <2>1. UNCHANGED proc
    BY <1>3 DEF ScanRead
  <2>2. CASE scan'[a] \in {scan[a], NoToken}
    BY <1>1, <2>1, <2>2, DecisionStays
  <2>3. CASE scan'[a] = file[a] /\ file[a] \in Token
    <3>1. Agrees(a, file[a])
      BY <2>3, ReadAgrees
    <3>2. (scan[a] # NoToken => Agrees(a, scan[a]))'
      BY <1>1, <2>3, <3>1 DEF Agrees
    <3>3. QED
      BY <1>1, <2>1, <3>2 DEF DecisionOK, Stored, Opened, FrameAgrees, Agrees
  <2>4. QED
    BY <1>3, <2>2, <2>3, ScanReadList
<1>4. ASSUME NEW b \in Accounts, RefreshNext(b) PROVE DecisionOK(a)'
  <2>1. OnlyFrame(Scheduler) /\ Scheduler \in Procs /\ scan'[a] \in {scan[a], NoToken}
    BY <1>4, RefreshNextFrame
  <2>2. ~Opened(a, proc[Scheduler]) /\ ~Opened(a, proc[Scheduler])'
    BY <1>4, RefreshNextFrame, IdleFields DEF RefreshNext, Opened
  <2>3. FrameAgrees(a, proc[Scheduler])'
    <3>1. proc'[Scheduler].account = b /\ proc'[Scheduler].pc = "calling"
          /\ proc'[Scheduler].wish = "keep" /\ proc'[Scheduler].next = scan[b]
      BY <1>4, RefreshNextFrame
    <3>2. b = a => Agrees(a, scan[a])
      BY <1>4 DEF RefreshNext, DecisionOK
    <3>3. QED
      BY <1>1, <3>1, <3>2 DEF FrameAgrees, Agrees
  <2>4. QED
    BY <1>1, <2>1, <2>2, <2>3, DecisionStaysOne
<1>5. QED
  BY <1>2, <1>3, <1>4 DEF SchedulerStep

LEMMA CrashDecision ==
  ASSUME Copies, NEW a \in Accounts, DecisionOK(a), Crash
  PROVE  DecisionOK(a)'
<1>1. /\ file' = file /\ scan'[a] = NoToken
      /\ \A q \in Procs : proc'[q] = IdleProc
  BY DEF Crash
<1>2. \A q \in Procs : ~Opened(a, proc[q])' /\ FrameAgrees(a, proc[q])'
  BY <1>1, IdleAgrees
<1>3. Stored(a)'
  <2>1. CASE \E q \in Procs : Opened(a, proc[q])
    <3>1. decided'[a] = "unknown"
      BY <2>1 DEF Crash, Opened
    <3>2. QED
      BY <3>1 DEF Stored
  <2>2. CASE ~\E q \in Procs : Opened(a, proc[q])
    <3>1. decided'[a] = decided[a]
      BY <2>2 DEF Crash, Opened
    <3>2. QED
      BY <1>1, <2>2, <3>1 DEF DecisionOK, Stored
  <2>3. QED
    BY <2>1, <2>2
<1>4. QED
  BY <1>1, <1>2, <1>3 DEF DecisionOK


LEMMA OverlapsKept ==
  ASSUME Copies, [FilesNext]_fileVars, NEW a \in Accounts, ~overlapped'[a]
  PROVE  ~overlapped[a]
<1>1. CASE UNCHANGED overlapped
  BY <1>1
<1>2. ASSUME NEW p \in Procs, Delete(p) \/ Open(p) \/ Write(p) PROVE ~overlapped[a]
  <2>1. NoteOverlap(p, proc[p].account)
    BY <1>2 DEF Delete, Open, Write
  <2>2. QED
    BY <2>1, OverlapsStay
<1>3. CASE UNCHANGED fileVars
  BY <1>1, <1>3 DEF fileVars
<1>4. ASSUME NEW p \in Handlers, HandlerStep(p) PROVE ~overlapped[a]
  BY <1>1, <1>4 DEF HandlerStep, Start, Save
<1>5. ASSUME NEW p \in Procs, CallStep(p) PROVE ~overlapped[a]
  BY <1>1, <1>5 DEF CallStep, GiveUp, Answered, Blocked, RefreshAnswered, RefreshLost
<1>6. ASSUME NEW p \in Procs, WriteStep(p) PROVE ~overlapped[a]
  BY <1>1, <1>2, <1>6 DEF WriteStep, WriteFails
<1>7. CASE SchedulerStep
  BY <1>1, <1>7 DEF SchedulerStep, ScanStart, ScanRead, RefreshNext
<1>8. ASSUME NEW b \in Accounts, Age(b) PROVE ~overlapped[a]
  BY <1>1, <1>8 DEF Age
<1>9. CASE Crash
  BY <1>1, <1>9 DEF Crash
<1>10. QED
  BY <1>3, <1>4, <1>5, <1>6, <1>7, <1>8, <1>9 DEF FilesNext

Decided == \A a \in Accounts : ~overlapped[a] => DecisionOK(a)

LEMMA DecidedInit == FilesInit => Decided
<1>1. SUFFICES ASSUME FilesInit, NEW a \in Accounts PROVE DecisionOK(a)
  BY DEF Decided
<1>2. /\ scan[a] = NoToken /\ decided[a] = Decision(file[a])
      /\ \A p \in Procs : proc[p] = IdleProc
  BY <1>1 DEF FilesInit
<1>3. \A p \in Procs : ~Opened(a, proc[p]) /\ FrameAgrees(a, proc[p])
  BY <1>2, IdleFields DEF Opened, FrameAgrees
<1>4. file[a] \in Token
  BY <1>1, TokenTypes DEF FilesInit, Token
<1>5. Stored(a)
  BY <1>2, <1>4 DEF Stored, Decision
<1>6. QED
  BY <1>2, <1>3, <1>5 DEF DecisionOK

LEMMA DecidedInductive ==
  Copies /\ SchedulerAlone /\ Decided /\ [FilesNext]_fileVars => Decided'
<1>1. SUFFICES ASSUME Copies, SchedulerAlone, Decided, [FilesNext]_fileVars,
                      NEW a \in Accounts, ~overlapped'[a]
               PROVE  DecisionOK(a)'
  BY DEF Decided
<1>2. DecisionOK(a)
  BY <1>1, OverlapsKept DEF Decided
<1>3. CASE UNCHANGED <<file, proc, scan, decided>>
  BY <1>2, <1>3, DecisionStays
<1>4. CASE UNCHANGED fileVars
  BY <1>3, <1>4 DEF fileVars
<1>5. ASSUME NEW p \in Handlers, HandlerStep(p) PROVE DecisionOK(a)'
  BY <1>1, <1>2, <1>5, StartDecision, SaveDecision DEF HandlerStep, Procs
<1>6. ASSUME NEW p \in Procs, CallStep(p) PROVE DecisionOK(a)'
  BY <1>1, <1>2, <1>6, CallDecision
<1>7. ASSUME NEW p \in Procs, WriteStep(p) PROVE DecisionOK(a)'
  BY <1>1, <1>2, <1>7, DeleteDecision, OpenDecision, WriteDecision, WriteFailsDecision
     DEF WriteStep
<1>8. CASE SchedulerStep
  BY <1>1, <1>2, <1>8, SchedulerDecision
<1>9. ASSUME NEW b \in Accounts, Age(b) PROVE DecisionOK(a)'
  BY <1>3, <1>9 DEF Age
<1>10. CASE Crash
  BY <1>1, <1>2, <1>10, CrashDecision
<1>11. QED
  BY <1>1, <1>4, <1>5, <1>6, <1>7, <1>8, <1>9, <1>10 DEF FilesNext

\* An account stays enabled, disabled or gone as it was last decided, whatever
\* refreshes, checks, saves, failures and crashes come after, unless two
\* goroutines that had read its file overlapped.
THEOREM DecisionsAreKept == FilesSpec => []DecisionsStick
<1>1. FilesInit => Copies /\ SchedulerAlone /\ Decided
  BY CopiesInit, SchedulerAloneInit, DecidedInit
<1>2. Copies /\ SchedulerAlone /\ Decided /\ [FilesNext]_fileVars
        => Copies' /\ SchedulerAlone' /\ Decided'
  BY CopiesInductive, SchedulerAloneInductive, DecidedInductive
<1>3. Decided => DecisionsStick
  BY DEF Decided, DecisionOK, Stored, Opened, DecisionsStick, BeingWritten
<1>4. QED
  BY <1>1, <1>2, <1>3, PTL DEF FilesSpec


-----------------------------------------------------------------------------
(* Sessions.                                                               *)
(*                                                                         *)
(* The refresh tokens that are held as they once were read - in the file,  *)
(* in the scheduler's list, in a call - are taken by the auth server until *)
(* a call replaces one of them: then whoever writes the new one back is    *)
(* the only one to have it.                                                *)

Calls(a, f) == f.account = a /\ f.pc = "calling"

Holds(a, f) == f.account = a /\ f.pc \in Holding

\* f is about to write a refresh token that replaces the one it has read.
Replaces(a, f) ==
  /\ f.account = a
  /\ f.pc \in {"persisting", "opened"}
  /\ f.op = "refresh"
  /\ f.next.refresh # f.snap.refresh

Replacing(a) == \E p \in Procs : Replaces(a, proc[p])

\* f is about to write a refresh token that is new.
Brings(a, f) ==
  \/ Replaces(a, f)
  \/ f.account = a /\ f.pc \in {"persisting", "opened"} /\ f.op = "save"

\* The refresh token r is held as it was read from the file.
OldCopy(a, r) ==
  \/ file[a] \in Token /\ r = file[a].refresh
  \/ scan[a] # NoToken /\ r = scan[a].refresh
  \/ \E p \in Procs : Calls(a, proc[p]) /\ r = proc[p].next.refresh

CopyOf(a, r) ==
  \/ file[a] \in Token /\ r = file[a].refresh
  \/ scan[a] # NoToken /\ r = scan[a].refresh
  \/ \E p \in Procs : Holds(a, proc[p]) /\ r = proc[p].next.refresh

FreshOK(a) ==
  \A p \in Procs : Brings(a, proc[p]) =>
    proc[p].next.refresh \in session[a] /\ ~OldCopy(a, proc[p].next.refresh)

LiveOK(a) ==
  ~lost[a] /\ ~Replacing(a) =>
    \A r \in 1..MaxIssued : CopyOf(a, r) => r \in session[a]

\* A refresh token was issued before the tokens it was granted with.
GrantedOK ==
  \A a \in Accounts : \A g \in granted[a] : g[1] <= issued[a]

\* Only a check writes twice.
WrittenTwice == \A p \in Procs : proc[p].again => proc[p].op = "check"

\* p's frame is all that changes about the account a.
OnlyFrameOn(p, a) ==
  \A q \in Procs \ {p} :
    proc'[q] = proc[q] \/ (proc[q].account # a /\ proc'[q].account # a)

\* The scheduler's list keeps its copy of the account's token, drops it, or
\* takes it from the file.
ListOf(a) ==
  \/ scan'[a] \in {scan[a], NoToken}
  \/ scan'[a] = file[a] /\ file[a] \in Token

-----------------------------------------------------------------------------
(* What was granted, and who writes twice.                                 *)

LEMMA CopyTypes ==
  ASSUME Copies, NEW a \in Accounts, NEW r, CopyOf(a, r)
  PROVE  r \in 1..MaxIssued /\ \E n \in 1..MaxIssued : <<r, n>> \in granted[a]
<1>1. ASSUME NEW t \in Token, Together(a, t), r = t.refresh
      PROVE  r \in 1..MaxIssued /\ \E n \in 1..MaxIssued : <<r, n>> \in granted[a]
  BY <1>1 DEF Token, Together
<1>2. CASE file[a] \in Token /\ r = file[a].refresh
  BY <1>1, <1>2 DEF Copies, TokensBelongTogether
<1>3. CASE scan[a] # NoToken /\ r = scan[a].refresh
  <2>1. scan[a] \in Token
    BY <1>3 DEF Copies, FilesTypeOK, Tokens
  <2>2. QED
    BY <1>1, <1>3, <2>1 DEF Copies, ScanOK
<1>4. ASSUME NEW p \in Procs, Holds(a, proc[p]), r = proc[p].next.refresh
      PROVE  r \in 1..MaxIssued /\ \E n \in 1..MaxIssued : <<r, n>> \in granted[a]
  <2>1. proc[p].next \in Token /\ Together(a, proc[p].next)
    BY <1>4, ProcFields DEF Holds, Holding, FrameOK
  <2>2. QED
    BY <1>1, <1>4, <2>1
<1>5. QED
  BY <1>2, <1>3, <1>4 DEF CopyOf

LEMMA OldCopies ==
  ASSUME NEW a, NEW r, OldCopy(a, r)
  PROVE  CopyOf(a, r)
BY DEF OldCopy, CopyOf, Calls, Holds, Holding

\* A refresh token that the auth server is about to issue is held nowhere.
LEMMA NewTokenIsNew ==
  ASSUME Copies, GrantedOK, NEW a \in Accounts
  PROVE  ~OldCopy(a, issued[a] + 1)
<1>1. SUFFICES ASSUME OldCopy(a, issued[a] + 1) PROVE FALSE
  OBVIOUS
<1>2. PICK n \in 1..MaxIssued : <<issued[a] + 1, n>> \in granted[a]
  BY <1>1, OldCopies, CopyTypes
<1>3. issued[a] \in 1..MaxIssued
  BY DEF Copies, FilesTypeOK
<1>4. <<issued[a] + 1, n>>[1] <= issued[a]
  BY <1>2 DEF GrantedOK
<1>5. QED
  BY <1>3, <1>4

LEMMA GrantOf ==
  ASSUME Copies, NEW b \in Accounts, NEW refresh, NEW old, Grant(b, refresh, old)
  PROVE  /\ session'[b] = (session[b] \ old) \cup {refresh}
         /\ issued'[b] = issued[b] + 1
         /\ granted'[b] = granted[b] \cup {<<refresh, issued[b] + 1>>}
         /\ \A a \in Accounts \ {b} : /\ session'[a] = session[a]
                                      /\ issued'[a] = issued[a]
                                      /\ granted'[a] = granted[a]
<1>1. session'[b] = (session[b] \ old) \cup {refresh}
      /\ \A a \in Accounts \ {b} : session'[a] = session[a]
  BY DEF Grant, Copies, FilesTypeOK
<1>2. issued'[b] = issued[b] + 1 /\ \A a \in Accounts \ {b} : issued'[a] = issued[a]
  BY DEF Grant, Copies, FilesTypeOK
<1>3. granted'[b] = granted[b] \cup {<<refresh, issued[b] + 1>>}
      /\ \A a \in Accounts \ {b} : granted'[a] = granted[a]
  BY DEF Grant, Copies, FilesTypeOK
<1>4. QED
  BY <1>1, <1>2, <1>3

LEMMA GrantKeepsOrder ==
  ASSUME Copies, GrantedOK, NEW b \in Accounts, NEW refresh, NEW old,
         Grant(b, refresh, old), refresh = issued[b] + 1 \/ CopyOf(b, refresh)
  PROVE  GrantedOK'
<1>1. issued[b] \in 1..MaxIssued
  BY DEF Copies, FilesTypeOK
<1>2. refresh \in Int /\ refresh <= issued[b] + 1
  <2>1. CASE refresh = issued[b] + 1
    BY <1>1, <2>1
  <2>2. CASE CopyOf(b, refresh)
    <3>1. refresh \in 1..MaxIssued
      BY <2>2, CopyTypes
    <3>2. PICK n : <<refresh, n>> \in granted[b]
      BY <2>2, CopyTypes
    <3>3. <<refresh, n>>[1] <= issued[b]
      BY <3>2 DEF GrantedOK
    <3>4. QED
      BY <1>1, <3>1, <3>3
  <2>3. QED
    BY <2>1, <2>2
<1>3. ASSUME NEW a \in Accounts, NEW g \in granted'[a] PROVE g[1] <= issued'[a]
  <2>1. CASE a # b
    BY <1>3, <2>1, GrantOf DEF GrantedOK
  <2>2. CASE a = b /\ g \in granted[b]
    <3>1. g[1] <= issued[b] /\ g[1] \in Int
      BY <2>2 DEF GrantedOK, Copies, FilesTypeOK
    <3>2. QED
      BY <1>1, <2>2, <3>1, GrantOf
  <2>3. CASE a = b /\ g = <<refresh, issued[b] + 1>>
    BY <1>2, <2>3, GrantOf
  <2>4. QED
    BY <1>3, <2>1, <2>2, <2>3, GrantOf
<1>4. QED
  BY <1>3 DEF GrantedOK

\* The refresh token of a call is a copy.
LEMMA CallIsCopy ==
  ASSUME Copies, NEW p \in Procs, proc[p].pc = "calling"
  PROVE  /\ proc[p].account \in Accounts /\ proc[p].snap = proc[p].next
         /\ OldCopy(proc[p].account, proc[p].next.refresh)
         /\ CopyOf(proc[p].account, proc[p].next.refresh)
<1>1. proc[p].account \in Accounts /\ proc[p].snap = proc[p].next
  BY ProcFields DEF FrameOK
<1>2. QED
  BY <1>1, OldCopies DEF OldCopy, Calls

LEMMA GrantedInductive == Copies /\ GrantedOK /\ [FilesNext]_fileVars => GrantedOK'
<1>1. SUFFICES ASSUME Copies, GrantedOK, [FilesNext]_fileVars PROVE GrantedOK'
  OBVIOUS
<1>2. CASE UNCHANGED <<issued, granted>>
  BY <1>1, <1>2 DEF GrantedOK
<1>3. CASE UNCHANGED fileVars
  BY <1>2, <1>3 DEF fileVars
<1>4. ASSUME NEW p \in Handlers, HandlerStep(p) PROVE GrantedOK'
  <2>1. ASSUME NEW a \in Accounts, NEW op, Start(p, op, a) PROVE GrantedOK'
    BY <1>2, <2>1 DEF Start
  <2>2. ASSUME NEW a \in Accounts, NEW enabled, Save(p, a, enabled) PROVE GrantedOK'
    BY <1>1, <2>2, GrantKeepsOrder DEF Save
  <2>3. QED
    BY <1>4, <2>1, <2>2 DEF HandlerStep
<1>5. ASSUME NEW p \in Procs, CallStep(p) PROVE GrantedOK'
  <2>1. CASE GiveUp(p) \/ Answered(p) \/ Blocked(p)
    BY <1>2, <2>1 DEF GiveUp, Answered, Blocked
  <2>2. CASE RefreshAnswered(p)
    <3>1. PICK a, r : a = proc[p].account /\ r = proc'[p].next.refresh
      OBVIOUS
    <3>2. /\ a \in Accounts /\ Grant(a, r, {proc[p].snap.refresh})
          /\ r \in {proc[p].snap.refresh, issued[a] + 1}
      BY <1>1, <2>2, <3>1, RefreshAnsweredFrame
    <3>3. CopyOf(a, proc[p].snap.refresh)
      BY <1>1, <2>2, <3>1, CallIsCopy DEF RefreshAnswered
    <3>4. QED
      BY <1>1, <3>2, <3>3, GrantKeepsOrder
  <2>3. CASE RefreshLost(p)
    BY <1>1, <2>3, CallIsCopy, GrantKeepsOrder DEF RefreshLost
  <2>4. QED
    BY <1>5, <2>1, <2>2, <2>3 DEF CallStep
<1>6. ASSUME NEW p \in Procs, WriteStep(p) PROVE GrantedOK'
  BY <1>2, <1>6 DEF WriteStep, Delete, Open, Write, WriteFails
<1>7. CASE SchedulerStep
  BY <1>2, <1>7 DEF SchedulerStep, ScanStart, ScanRead, RefreshNext
<1>8. ASSUME NEW a \in Accounts, Age(a) PROVE GrantedOK'
  BY <1>2, <1>8 DEF Age
<1>9. CASE Crash
  BY <1>2, <1>9 DEF Crash
<1>10. QED
  BY <1>1, <1>3, <1>4, <1>5, <1>6, <1>7, <1>8, <1>9 DEF FilesNext


LEMMA WrittenTwiceInductive == Copies /\ WrittenTwice /\ [FilesNext]_fileVars => WrittenTwice'
<1>1. SUFFICES ASSUME Copies, WrittenTwice, [FilesNext]_fileVars PROVE WrittenTwice'
  OBVIOUS
<1>2. CASE UNCHANGED proc
  BY <1>1, <1>2 DEF WrittenTwice
<1>3. CASE UNCHANGED fileVars
  BY <1>2, <1>3 DEF fileVars
<1>4. ASSUME NEW p \in Procs, OnlyFrame(p), proc'[p].again => proc'[p].op = "check"
      PROVE  WrittenTwice'
  BY <1>1, <1>4 DEF WrittenTwice, OnlyFrame
<1>5. ASSUME NEW p \in Handlers, HandlerStep(p) PROVE WrittenTwice'
  BY <1>1, <1>4, <1>5, StartFrame, SaveFrame DEF HandlerStep, Procs
<1>6. ASSUME NEW p \in Procs, CallStep(p) PROVE WrittenTwice'
  <2>1. CASE GiveUp(p) \/ RefreshLost(p)
    BY <1>1, <1>4, <2>1, FinishFrame, IdleFields DEF GiveUp, RefreshLost
  <2>2. CASE Answered(p) \/ RefreshAnswered(p)
    <3>1. OnlyFrame(p) /\ proc'[p].again = proc[p].again /\ proc'[p].op = proc[p].op
      BY <1>1, <2>2, AnsweredFrame, RefreshAnsweredFrame
    <3>2. QED
      BY <1>1, <1>4, <3>1 DEF WrittenTwice
  <2>3. CASE Blocked(p)
    BY <1>1, <1>4, <2>3, BlockedFrame
  <2>4. QED
    BY <1>6, <2>1, <2>2, <2>3 DEF CallStep
<1>7. ASSUME NEW p \in Procs, WriteStep(p) PROVE WrittenTwice'
  <2>1. CASE Delete(p)
    <3>1. \A q \in Procs : \/ proc'[q] = proc[q] \/ proc'[q] = IdleProc
                           \/ proc'[q].op = proc[q].op /\ proc'[q].again = proc[q].again
      BY <1>1, <2>1, DeleteFrame
    <3>2. QED
      BY <1>1, <3>1, IdleFields DEF WrittenTwice
  <2>2. CASE Open(p)
    BY <1>1, <1>4, <2>2, OpenFrame DEF WrittenTwice
  <2>3. CASE Write(p)
    BY <1>1, <1>4, <2>3, WriteFrame, IdleFields
  <2>4. CASE WriteFails(p)
    BY <1>1, <1>4, <2>4, FinishFrame, IdleFields DEF WriteFails
  <2>5. QED
    BY <1>7, <2>1, <2>2, <2>3, <2>4 DEF WriteStep
<1>8. CASE SchedulerStep
  BY <1>1, <1>2, <1>4, <1>8, RefreshNextFrame DEF SchedulerStep, ScanStart, ScanRead
<1>9. ASSUME NEW a \in Accounts, Age(a) PROVE WrittenTwice'
  BY <1>2, <1>9 DEF Age
<1>10. CASE Crash
  BY <1>10, IdleFields DEF Crash, WrittenTwice
<1>11. QED
  BY <1>1, <1>3, <1>5, <1>6, <1>7, <1>8, <1>9, <1>10 DEF FilesNext

-----------------------------------------------------------------------------
(* The step of one goroutine that leaves the account's file alone.         *)

LEMMA OldCopiesShrink ==
  ASSUME NEW a, NEW p \in Procs, OnlyFrameOn(p, a),
         file'[a] = file[a], ListOf(a),
         Calls(a, proc[p])' => OldCopy(a, proc'[p].next.refresh),
         NEW r, OldCopy(a, r)'
  PROVE  OldCopy(a, r)
<1>1. CASE file'[a] \in Token /\ r = file'[a].refresh
  BY <1>1 DEF OldCopy
<1>2. CASE scan'[a] # NoToken /\ r = scan'[a].refresh
  BY <1>2 DEF OldCopy, ListOf
<1>3. ASSUME NEW q \in Procs, Calls(a, proc[q])', r = proc'[q].next.refresh
      PROVE  OldCopy(a, r)
  <2>1. CASE q = p
    BY <1>3, <2>1
  <2>2. CASE q # p
    <3>1. proc'[q] = proc[q]
      BY <1>3, <2>2 DEF OnlyFrameOn, Calls
    <3>2. QED
      BY <1>3, <3>1 DEF Calls, OldCopy
  <2>3. QED
    BY <2>1, <2>2
<1>4. QED
  BY <1>1, <1>2, <1>3 DEF OldCopy

LEMMA FreshStays ==
  ASSUME NEW a, FreshOK(a), NEW p \in Procs, OnlyFrameOn(p, a),
         file'[a] = file[a], ListOf(a),
         Calls(a, proc[p])' => OldCopy(a, proc'[p].next.refresh),
         \A q \in Procs \ {p} :
           Brings(a, proc[q]) => proc[q].next.refresh \in session'[a],
         Brings(a, proc[p])' => /\ proc'[p].next.refresh \in session'[a]
                                /\ ~OldCopy(a, proc'[p].next.refresh)
  PROVE  FreshOK(a)'
<1>1. ASSUME NEW q \in Procs, Brings(a, proc[q])'
      PROVE  proc'[q].next.refresh \in session'[a] /\ ~OldCopy(a, proc'[q].next.refresh)
  <2>1. CASE q = p
    BY <1>1, <2>1
  <2>2. CASE q # p
    <3>1. proc'[q] = proc[q]
      BY <1>1, <2>2 DEF OnlyFrameOn, Brings, Replaces
    <3>2. Brings(a, proc[q])
      BY <1>1, <3>1 DEF Brings, Replaces
    <3>3. QED
      BY <2>2, <3>1, <3>2 DEF FreshOK
  <2>3. QED
    BY <2>1, <2>2
<1>2. ASSUME NEW q \in Procs, OldCopy(a, proc[q].next.refresh)'
      PROVE  OldCopy(a, proc'[q].next.refresh)
  <2>1. PICK r : r = proc'[q].next.refresh
    OBVIOUS
  <2>2. OldCopy(a, r)'
    BY <1>2, <2>1 DEF OldCopy
  <2>3. QED
    BY <2>1, <2>2, OldCopiesShrink
<1>3. QED
  BY <1>1, <1>2 DEF FreshOK

LEMMA LiveStays ==
  ASSUME NEW a, LiveOK(a), NEW p \in Procs, OnlyFrameOn(p, a),
         file'[a] = file[a], ListOf(a),
         session[a] \subseteq session'[a], lost[a] => lost'[a],
         Replaces(a, proc[p]) => lost'[a] \/ Replaces(a, proc[p])',
         Holds(a, proc[p])' => \/ proc'[p].next.refresh \in session'[a]
                               \/ CopyOf(a, proc'[p].next.refresh)
  PROVE  LiveOK(a)'
<1>1. SUFFICES ASSUME ~lost'[a], ~Replacing(a)', NEW r \in 1..MaxIssued, CopyOf(a, r)'
               PROVE  r \in session'[a]
  BY DEF LiveOK
<1>2. ~Replacing(a)
  <2>1. ASSUME NEW q \in Procs, Replaces(a, proc[q]) PROVE FALSE
    <3>1. CASE q = p
      BY <1>1, <2>1, <3>1 DEF Replacing
    <3>2. CASE q # p
      <4>1. proc'[q] = proc[q]
        BY <2>1, <3>2 DEF OnlyFrameOn, Replaces
      <4>2. QED
        BY <1>1, <2>1, <4>1 DEF Replacing, Replaces
    <3>3. QED
      BY <3>1, <3>2
  <2>2. QED
    BY <2>1 DEF Replacing
<1>3. \A s \in 1..MaxIssued : CopyOf(a, s) => s \in session[a]
  BY <1>1, <1>2 DEF LiveOK
<1>4. CopyOf(a, r) \/ r \in session'[a]
  <2>1. CASE file'[a] \in Token /\ r = file'[a].refresh
    BY <2>1 DEF CopyOf
  <2>2. CASE scan'[a] # NoToken /\ r = scan'[a].refresh
    BY <2>2 DEF CopyOf, ListOf
  <2>3. ASSUME NEW q \in Procs, Holds(a, proc[q])', r = proc'[q].next.refresh
        PROVE  CopyOf(a, r) \/ r \in session'[a]
    <3>1. CASE q = p
      BY <2>3, <3>1
    <3>2. CASE q # p
      <4>1. proc'[q] = proc[q]
        BY <2>3, <3>2 DEF OnlyFrameOn, Holds
      <4>2. QED
        BY <2>3, <4>1 DEF Holds, CopyOf
    <3>3. QED
      BY <3>1, <3>2
  <2>4. QED
    BY <1>1, <2>1, <2>2, <2>3 DEF CopyOf
<1>5. QED
  BY <1>3, <1>4

SessionOK(a) == FreshOK(a) /\ LiveOK(a)

\* p's step is about another account, or ends its work on this one.
LEMMA SessionElsewhere ==
  ASSUME NEW a, SessionOK(a), NEW p \in Procs, OnlyFrameOn(p, a),
         file'[a] = file[a], ListOf(a), proc'[p].account # a \/ proc'[p] = IdleProc,
         session'[a] = session[a], lost[a] => lost'[a],
         Replaces(a, proc[p]) => lost'[a]
  PROVE  SessionOK(a)'
<1>1. ~Calls(a, proc[p])' /\ ~Brings(a, proc[p])' /\ ~Holds(a, proc[p])'
  BY IdleFields DEF Calls, Brings, Replaces, Holds, Holding
<1>2. FreshOK(a)'
  BY <1>1, FreshStays DEF SessionOK, FreshOK
<1>3. LiveOK(a)'
  BY <1>1, LiveStays DEF SessionOK
<1>4. QED
  BY <1>2, <1>3 DEF SessionOK

LEMMA OnlyFrameIsEnough ==
  ASSUME NEW a, NEW p \in Procs, OnlyFrame(p)
  PROVE  OnlyFrameOn(p, a)
BY DEF OnlyFrame, OnlyFrameOn


LEMMA StartSession ==
  ASSUME Copies, NEW a \in Accounts, SessionOK(a),
         NEW p \in Procs, NEW op \in HandlerOps, NEW b \in Accounts, Start(p, op, b)
  PROVE  SessionOK(a)'
<1>1. /\ UNCHANGED <<file, scan, session, lost>> /\ OnlyFrameOn(p, a)
      /\ ListOf(a) /\ proc'[p].account = b
  BY StartFrame, OnlyFrameIsEnough DEF Start, ListOf
<1>2. ~Replaces(a, proc[p])
  BY IdleFields DEF Start, Replaces
<1>3. CASE a # b
  BY <1>1, <1>2, <1>3, SessionElsewhere
<1>4. CASE a = b
  <2>1. /\ file[a] \in Token /\ proc'[p].op = op
        /\ proc'[p].pc \in {"deleting", "persisting", "calling"}
        /\ proc'[p].pc = "calling" => proc'[p].next = file[a]
        /\ proc'[p].pc = "persisting" =>
             op = "toggle" /\ proc'[p].next.refresh = file[a].refresh
    BY <1>4, StartFrame
  <2>2. Calls(a, proc[p])' => OldCopy(a, proc'[p].next.refresh)
    BY <2>1 DEF Calls, OldCopy
  <2>3. ~Brings(a, proc[p])'
    BY <2>1 DEF Brings, Replaces
  <2>4. Holds(a, proc[p])' => CopyOf(a, proc'[p].next.refresh)
    BY <2>1 DEF Holds, Holding, CopyOf
  <2>5. FreshOK(a)'
    BY <1>1, <2>2, <2>3, FreshStays DEF SessionOK, FreshOK
  <2>6. LiveOK(a)'
    BY <1>1, <1>2, <2>4, LiveStays DEF SessionOK
  <2>7. QED
    BY <2>5, <2>6 DEF SessionOK
<1>5. QED
  BY <1>3, <1>4

LEMMA SaveSession ==
  ASSUME Copies, GrantedOK, NEW a \in Accounts, SessionOK(a), NEW p \in Procs,
         NEW b \in Accounts, NEW enabled \in {"on", "off", "keep"}, Save(p, b, enabled)
  PROVE  SessionOK(a)'
<1>1. /\ UNCHANGED <<file, scan, lost>> /\ OnlyFrameOn(p, a) /\ ListOf(a)
      /\ proc'[p].account = b /\ proc'[p].pc = "persisting"
      /\ proc'[p].next.refresh = issued[b] + 1
  <2>1. UNCHANGED <<file, scan, lost>> /\ ListOf(a)
    BY DEF Save, ListOf
  <2>2. /\ OnlyFrame(p) /\ proc'[p].account = b /\ proc'[p].pc = "persisting"
        /\ proc'[p].next.refresh = issued[b] + 1
    BY SaveFrame
  <2>3. QED
    BY <2>1, <2>2, OnlyFrameIsEnough
<1>2. ~Replaces(a, proc[p])
  BY IdleFields DEF Save, Replaces
<1>3. Grant(b, issued[b] + 1, {})
  BY DEF Save
<1>4. CASE a # b
  <2>1. session'[a] = session[a]
    BY <1>3, <1>4, GrantOf
  <2>2. QED
    BY <1>1, <1>2, <1>4, <2>1, SessionElsewhere
<1>5. CASE a = b
  <2>1. session'[a] = session[a] \cup {issued[a] + 1}
    BY <1>3, <1>5, GrantOf
  <2>2. ~Calls(a, proc[p])'
    BY <1>1 DEF Calls
  <2>3. proc'[p].next.refresh \in session'[a] /\ ~OldCopy(a, proc'[p].next.refresh)
    BY <1>1, <1>5, <2>1, NewTokenIsNew
  <2>4. FreshOK(a)'
    BY <1>1, <2>1, <2>2, <2>3, FreshStays DEF SessionOK, FreshOK
  <2>5. LiveOK(a)'
    BY <1>1, <1>2, <2>1, <2>3, LiveStays DEF SessionOK
  <2>6. QED
    BY <2>4, <2>5 DEF SessionOK
<1>6. QED
  BY <1>4, <1>5

LEMMA QuietCallSession ==
  ASSUME Copies, NEW a \in Accounts, SessionOK(a), NEW p \in Procs,
         GiveUp(p) \/ Answered(p) \/ Blocked(p)
  PROVE  SessionOK(a)'
<1>1. UNCHANGED <<file, scan, session, lost>> /\ ListOf(a) /\ proc[p].pc = "calling"
  BY DEF GiveUp, Answered, Blocked, ListOf
<1>2. ~Replaces(a, proc[p])
  BY <1>1 DEF Replaces
<1>3. CASE GiveUp(p)
  BY <1>1, <1>2, <1>3, FinishFrame, OnlyFrameIsEnough, SessionElsewhere DEF GiveUp
<1>4. CASE Answered(p) \/ Blocked(p)
  <2>1. /\ OnlyFrameOn(p, a) /\ proc[p].op \in {"credits", "check", "models"}
        /\ proc'[p].account = proc[p].account /\ proc'[p].op = proc[p].op
        /\ proc'[p].pc = "persisting" /\ proc'[p].next.refresh = proc[p].next.refresh
    BY <1>4, AnsweredFrame, BlockedFrame, OnlyFrameIsEnough DEF Answered, Blocked
  <2>2. ~Calls(a, proc[p])' /\ ~Brings(a, proc[p])'
    BY <2>1 DEF Calls, Brings, Replaces
  <2>3. Holds(a, proc[p])' => CopyOf(a, proc'[p].next.refresh)
    BY <1>1, <2>1, CallIsCopy DEF Holds
  <2>4. FreshOK(a)'
    BY <1>1, <2>1, <2>2, FreshStays DEF SessionOK, FreshOK
  <2>5. LiveOK(a)'
    BY <1>1, <1>2, <2>1, <2>3, LiveStays DEF SessionOK
  <2>6. QED
    BY <2>4, <2>5 DEF SessionOK
<1>5. QED
  BY <1>3, <1>4

LEMMA RefreshAnsweredSession ==
  ASSUME Copies, GrantedOK, NEW a \in Accounts, SessionOK(a), NEW p \in Procs,
         RefreshAnswered(p)
  PROVE  SessionOK(a)'
<1>1. /\ UNCHANGED <<file, scan, lost>> /\ OnlyFrameOn(p, a) /\ ListOf(a)
      /\ proc[p].pc = "calling" /\ proc[p].op = "refresh"
      /\ proc'[p].account = proc[p].account
  BY RefreshAnsweredFrame, OnlyFrameIsEnough DEF RefreshAnswered, ListOf
<1>2. ~Replaces(a, proc[p])
  BY <1>1 DEF Replaces
<1>3. PICK b, old, new : b = proc[p].account /\ old = proc[p].snap.refresh
                         /\ new = proc'[p].next.refresh
  OBVIOUS
<1>4. b \in Accounts /\ Grant(b, new, {old}) /\ new \in {old, issued[b] + 1}
  BY <1>3, RefreshAnsweredFrame
<1>5. CASE a # b
  <2>1. session'[a] = session[a]
    BY <1>4, <1>5, GrantOf
  <2>2. QED
    BY <1>1, <1>2, <1>3, <1>5, <2>1, SessionElsewhere
<1>6. CASE a = b
  <2>1. session'[a] = (session[a] \ {old}) \cup {new} /\ old \in session[a]
    BY <1>3, <1>4, <1>6, GrantOf DEF RefreshAnswered
  <2>2. /\ proc'[p].pc = "persisting" /\ proc'[p].op = "refresh"
        /\ proc'[p].snap.refresh = old /\ OldCopy(a, old)
    BY <1>1, <1>3, <1>6, RefreshAnsweredFrame, CallIsCopy
  <2>3. ~Calls(a, proc[p])'
    BY <2>2 DEF Calls
  <2>4. \A q \in Procs \ {p} : Brings(a, proc[q]) => proc[q].next.refresh \in session'[a]
    BY <2>1, <2>2 DEF SessionOK, FreshOK
  <2>5. Brings(a, proc[p])' => new # old
    BY <1>3, <2>2 DEF Brings, Replaces
  <2>6. Brings(a, proc[p])' => new \in session'[a] /\ ~OldCopy(a, new)
    BY <1>4, <1>6, <2>1, <2>5, NewTokenIsNew
  <2>7. FreshOK(a)'
    BY <1>1, <1>3, <2>3, <2>4, <2>6, FreshStays DEF SessionOK
  <2>8. CASE new = old
    <3>1. session'[a] = session[a] /\ new \in session'[a]
      BY <2>1, <2>8
    <3>2. QED
      BY <1>1, <1>2, <1>3, <2>7, <3>1, LiveStays DEF SessionOK
  <2>9. CASE new # old
    <3>1. Replaces(a, proc[p])'
      BY <1>1, <1>3, <1>6, <2>2, <2>9 DEF Replaces
    <3>2. Replacing(a)'
      BY <3>1 DEF Replacing
    <3>3. QED
      BY <2>7, <3>2 DEF SessionOK, LiveOK
  <2>10. QED
    BY <2>8, <2>9
<1>7. QED
  BY <1>5, <1>6

LEMMA RefreshLostSession ==
  ASSUME Copies, GrantedOK, NEW a \in Accounts, SessionOK(a), NEW p \in Procs,
         RefreshLost(p)
  PROVE  SessionOK(a)'
<1>1. /\ UNCHANGED <<file, scan>> /\ OnlyFrameOn(p, a) /\ ListOf(a)
      /\ proc[p].pc = "calling" /\ proc'[p] = IdleProc
  BY FinishFrame, OnlyFrameIsEnough DEF RefreshLost, ListOf
<1>2. ~Replaces(a, proc[p])
  BY <1>1 DEF Replaces
<1>3. PICK b, old : b = proc[p].account /\ old = proc[p].next.refresh
  OBVIOUS
<1>4. /\ b \in Accounts /\ Grant(b, issued[b] + 1, {old}) /\ OldCopy(b, old)
      /\ lost' = [lost EXCEPT ![b] = TRUE]
  BY <1>1, <1>3, CallIsCopy DEF RefreshLost
<1>5. CASE a # b
  <2>1. session'[a] = session[a] /\ lost'[a] = lost[a]
    BY <1>4, <1>5, GrantOf DEF Copies, FilesTypeOK
  <2>2. QED
    BY <1>1, <1>2, <2>1, SessionElsewhere
<1>6. CASE a = b
  <2>1. session'[a] = (session[a] \ {old}) \cup {issued[a] + 1} /\ lost'[a]
    BY <1>4, <1>6, GrantOf DEF Copies, FilesTypeOK
  <2>2. ~Calls(a, proc[p])' /\ ~Brings(a, proc[p])'
    BY <1>1, IdleFields DEF Calls, Brings, Replaces
  <2>3. \A q \in Procs \ {p} : Brings(a, proc[q]) => proc[q].next.refresh \in session'[a]
    BY <1>4, <1>6, <2>1 DEF SessionOK, FreshOK
  <2>4. FreshOK(a)'
    BY <1>1, <2>2, <2>3, FreshStays DEF SessionOK
  <2>5. QED
    BY <2>1, <2>4 DEF SessionOK, LiveOK
<1>7. QED
  BY <1>5, <1>6


-----------------------------------------------------------------------------
(* The steps that change the file.                                         *)

\* After p's step, no other goroutine holds the account.
LEMMA SessionAlone ==
  ASSUME NEW a, NEW p \in Procs, \A q \in Procs \ {p} : proc'[q].account # a,
         scan'[a] = NoToken, ~Calls(a, proc[p])',
         Brings(a, proc[p])' => /\ proc'[p].next.refresh \in session'[a]
                                /\ file'[a] \notin Token,
         ~lost'[a] /\ ~Replaces(a, proc[p])' =>
           /\ file'[a] \in Token => file'[a].refresh \in session'[a]
           /\ Holds(a, proc[p])' => proc'[p].next.refresh \in session'[a]
  PROVE  SessionOK(a)'
<1>1. \A q \in Procs \ {p} : /\ ~Calls(a, proc[q])' /\ ~Brings(a, proc[q])'
                             /\ ~Holds(a, proc[q])'
  BY DEF Calls, Brings, Replaces, Holds
<1>2. \A q \in Procs : ~Calls(a, proc[q])'
  BY <1>1
<1>3. ASSUME NEW r, OldCopy(a, r)' PROVE file'[a] \in Token
  BY <1>2, <1>3 DEF OldCopy
<1>4. FreshOK(a)'
  <2>1. ASSUME NEW q \in Procs, Brings(a, proc[q])'
        PROVE  proc'[q].next.refresh \in session'[a] /\ ~OldCopy(a, proc[q].next.refresh)'
    <3>1. q = p
      BY <1>1, <2>1
    <3>2. PICK r : r = proc'[p].next.refresh
      OBVIOUS
    <3>3. ~OldCopy(a, r)'
      BY <1>3, <2>1, <3>1
    <3>4. ~OldCopy(a, proc[q].next.refresh)'
      BY <3>1, <3>2, <3>3 DEF OldCopy
    <3>5. QED
      BY <2>1, <3>1, <3>4
  <2>2. QED
    BY <2>1 DEF FreshOK
<1>5. LiveOK(a)'
  <2>1. SUFFICES ASSUME ~lost'[a], ~Replacing(a)', NEW r \in 1..MaxIssued, CopyOf(a, r)'
                 PROVE  r \in session'[a]
    BY DEF LiveOK
  <2>2. ~Replaces(a, proc[p])'
    BY <2>1 DEF Replacing
  <2>3. \A q \in Procs : Holds(a, proc[q])' => q = p
    BY <1>1
  <2>4. QED
    BY <2>1, <2>2, <2>3 DEF CopyOf
<1>6. QED
  BY <1>4, <1>5 DEF SessionOK

\* What a writer that is alone is about to write is taken by the auth server.
LEMMA WriterIsLive ==
  ASSUME Copies, NEW a \in Accounts, SessionOK(a), NEW p \in Procs,
         proc[p].account = a, proc[p].pc \in {"persisting", "opened"},
         \A q \in Procs \ {p} : proc[q].account # a, ~lost[a] \/ Brings(a, proc[p])
  PROVE  proc[p].next.refresh \in session[a]
<1>1. CASE Brings(a, proc[p])
  BY <1>1 DEF SessionOK, FreshOK
<1>2. CASE ~Brings(a, proc[p])
  <2>1. ~Replacing(a)
    BY <1>2 DEF Replacing, Brings, Replaces
  <2>2. CopyOf(a, proc[p].next.refresh)
    BY DEF CopyOf, Holds, Holding
  <2>3. proc[p].next.refresh \in 1..MaxIssued
    BY <2>2, CopyTypes
  <2>4. QED
    BY <1>2, <2>1, <2>2, <2>3 DEF SessionOK, LiveOK
<1>3. QED
  BY <1>1, <1>2

LEMMA DeleteSession ==
  ASSUME Copies, SchedulerAlone, NEW a \in Accounts, SessionOK(a), ~overlapped'[a],
         NEW p \in Procs, Delete(p)
  PROVE  SessionOK(a)'
<1>1. UNCHANGED <<scan, session, lost>> /\ proc[p].pc = "deleting" /\ proc'[p] = IdleProc
  BY DeleteFrame DEF Delete
<1>2. CASE proc[p].account # a
  <2>1. file'[a] = file[a] /\ ListOf(a)
    BY <1>1, <1>2 DEF Delete, Copies, FilesTypeOK, ListOf
  <2>2. OnlyFrameOn(p, a) /\ ~Replaces(a, proc[p])
    BY <1>1, <1>2, DeleteFrame DEF OnlyFrameOn, Replaces
  <2>3. QED
    BY <1>1, <2>1, <2>2, SessionElsewhere
<1>3. CASE proc[p].account = a
  <2>1. file'[a] = NoFile /\ NoteOverlap(p, a)
    BY <1>3 DEF Delete, Copies, FilesTypeOK
  <2>2. scan[a] = NoToken /\ \A q \in Procs \ {p} : proc[q].account # a
    BY <1>1, <1>3, <2>1, WriterAlone
  <2>3. \A q \in Procs \ {p} : proc'[q].account # a
    BY <1>3, <2>2, DeleteFrame
  <2>4. ~Calls(a, proc[p])' /\ ~Brings(a, proc[p])' /\ ~Holds(a, proc[p])'
    BY <1>1, IdleFields DEF Calls, Brings, Replaces, Holds, Holding
  <2>5. QED
    BY <1>1, <2>1, <2>2, <2>3, <2>4, SessionAlone
<1>4. QED
  BY <1>2, <1>3

LEMMA OpenSession ==
  ASSUME Copies, SchedulerAlone, NEW a \in Accounts, SessionOK(a), ~overlapped'[a],
         NEW p \in Procs, Open(p)
  PROVE  SessionOK(a)'
<1>1. /\ UNCHANGED <<scan, session, lost>> /\ OnlyFrame(p) /\ OnlyFrameOn(p, a)
      /\ proc[p].pc = "persisting" /\ proc'[p].account = proc[p].account
  BY OpenFrame, OnlyFrameIsEnough DEF Open
<1>2. CASE proc[p].account # a
  <2>1. file'[a] = file[a] /\ ListOf(a) /\ ~Replaces(a, proc[p])
    BY <1>1, <1>2 DEF Open, Copies, FilesTypeOK, ListOf, Replaces
  <2>2. QED
    BY <1>1, <1>2, <2>1, SessionElsewhere
<1>3. CASE proc[p].account = a
  <2>1. file'[a] = Torn /\ NoteOverlap(p, a)
    BY <1>3 DEF Open, Copies, FilesTypeOK
  <2>2. scan[a] = NoToken /\ \A q \in Procs \ {p} : proc[q].account # a
    BY <1>1, <1>3, <2>1, WriterAlone
  <2>3. \A q \in Procs \ {p} : proc'[q].account # a
    BY <1>1, <2>2 DEF OnlyFrame
  <2>4. /\ proc'[p].pc = "opened" /\ proc'[p].op = proc[p].op
        /\ proc'[p].next = proc[p].next /\ proc'[p].snap = proc[p].snap
    BY OpenFrame
  <2>5. ~Calls(a, proc[p])' /\ (Brings(a, proc[p])' => Brings(a, proc[p]))
    BY <1>1, <2>4 DEF Calls, Brings, Replaces
  <2>6. ~lost[a] \/ Brings(a, proc[p]) => proc'[p].next.refresh \in session'[a]
    BY <1>1, <1>3, <2>2, <2>4, WriterIsLive
  <2>7. QED
    BY <1>1, <2>1, <2>2, <2>3, <2>5, <2>6, SessionAlone
<1>4. QED
  BY <1>2, <1>3

LEMMA WriteSession ==
  ASSUME Copies, SchedulerAlone, WrittenTwice, NEW a \in Accounts, SessionOK(a),
         DecisionOK(a), ~overlapped'[a], NEW p \in Procs, Write(p)
  PROVE  SessionOK(a)'
<1>1. /\ UNCHANGED <<scan, session, lost>> /\ OnlyFrame(p) /\ OnlyFrameOn(p, a)
      /\ proc[p].pc = "opened"
      /\ proc'[p].account = proc[p].account \/ proc'[p] = IdleProc
  BY WriteFrame, OnlyFrameIsEnough DEF Write
<1>2. CASE proc[p].account # a
  <2>1. PICK c : file' = [file EXCEPT ![proc[p].account] = c]
    BY DEF Write
  <2>2. file'[a] = file[a] /\ ListOf(a) /\ ~Replaces(a, proc[p])
    BY <1>1, <1>2, <2>1 DEF Copies, FilesTypeOK, ListOf, Replaces
  <2>3. QED
    BY <1>1, <1>2, <2>2, SessionElsewhere
<1>3. CASE proc[p].account = a
  <2>1. proc[p].linked /\ file[a] = Torn
    BY <1>1, <1>3 DEF DecisionOK, FrameAgrees
  <2>2. PICK c \in Contents(p) : file' = [file EXCEPT ![a] = c]
    BY <1>3 DEF Write
  <2>3. c = proc[p].next
    BY <1>3, <2>1, <2>2 DEF Contents
  <2>4. file'[a] = proc[p].next
    BY <2>2, <2>3 DEF Copies, FilesTypeOK
  <2>5. scan[a] = NoToken /\ \A q \in Procs \ {p} : proc[q].account # a
    BY <1>1, <1>3, WriterAlone DEF Write
  <2>6. \A q \in Procs \ {p} : proc'[q].account # a
    BY <1>1, <2>5 DEF OnlyFrame
  <2>7. ~lost[a] => proc[p].next.refresh \in session'[a]
    BY <1>1, <1>3, <2>5, WriterIsLive
  <2>8. CASE proc[p].again
    <3>1. proc[p].op = "check"
      BY <2>8 DEF WrittenTwice
    <3>2. /\ proc'[p].pc = "persisting" /\ proc'[p].op = "check"
          /\ proc'[p].next = proc[p].next
      BY <2>8, <3>1, WriteFrame
    <3>3. ~Calls(a, proc[p])' /\ ~Brings(a, proc[p])'
      BY <3>2 DEF Calls, Brings, Replaces
    <3>4. QED
      BY <1>1, <2>4, <2>5, <2>6, <2>7, <3>2, <3>3, SessionAlone
  <2>9. CASE ~proc[p].again
    <3>1. proc'[p] = IdleProc
      BY <2>9, WriteFrame
    <3>2. ~Calls(a, proc[p])' /\ ~Brings(a, proc[p])' /\ ~Holds(a, proc[p])'
      BY <3>1, IdleFields DEF Calls, Brings, Replaces, Holds, Holding
    <3>3. QED
      BY <1>1, <2>4, <2>5, <2>6, <2>7, <3>2, SessionAlone
  <2>10. QED
    BY <2>8, <2>9
<1>4. QED
  BY <1>2, <1>3

LEMMA WriteFailsSession ==
  ASSUME Copies, NEW a \in Accounts, SessionOK(a), NEW p \in Procs, WriteFails(p)
  PROVE  SessionOK(a)'
<1>1. /\ UNCHANGED <<file, scan, session>> /\ OnlyFrameOn(p, a) /\ proc'[p] = IdleProc
      /\ ListOf(a)
  BY FinishFrame, OnlyFrameIsEnough DEF WriteFails, ListOf
<1>2. PICK b : b = LosesSession(p)
  OBVIOUS
<1>3. lost' = [lost EXCEPT ![proc[p].account] = @ \/ b]
  BY <1>2 DEF WriteFails
<1>4. lost'[a] = (IF proc[p].account = a THEN lost[a] \/ b ELSE lost[a])
  BY <1>3 DEF Copies, FilesTypeOK
<1>5. lost[a] => lost'[a]
  BY <1>4
<1>6. Replaces(a, proc[p]) => lost'[a]
  BY <1>2, <1>4 DEF Replaces, LosesSession
<1>7. QED
  BY <1>1, <1>5, <1>6, SessionElsewhere


-----------------------------------------------------------------------------
(* The scheduler, crashes, and the invariant.                              *)

LEMMA SchedulerSession ==
  ASSUME Copies, NEW a \in Accounts, SessionOK(a), SchedulerStep
  PROVE  SessionOK(a)'
<1>1. UNCHANGED <<file, session, lost>>
  BY DEF SchedulerStep, ScanStart, ScanRead, RefreshNext
<1>2. CASE UNCHANGED proc /\ ListOf(a)
  <2>1. OnlyFrameOn(Scheduler, a) /\ Scheduler \in Procs
    BY <1>2 DEF OnlyFrameOn, Procs
  <2>2. /\ Calls(a, proc[Scheduler])' => OldCopy(a, proc'[Scheduler].next.refresh)
        /\ Brings(a, proc[Scheduler])' => Brings(a, proc[Scheduler])
        /\ Replaces(a, proc[Scheduler]) => Replaces(a, proc[Scheduler])'
        /\ Holds(a, proc[Scheduler])' => CopyOf(a, proc'[Scheduler].next.refresh)
    BY <1>2, <2>1 DEF Calls, Brings, Replaces, Holds, OldCopy, CopyOf
  <2>3. /\ \A q \in Procs \ {Scheduler} :
             Brings(a, proc[q]) => proc[q].next.refresh \in session'[a]
        /\ Brings(a, proc[Scheduler])' => /\ proc'[Scheduler].next.refresh \in session'[a]
                                          /\ ~OldCopy(a, proc'[Scheduler].next.refresh)
    BY <1>1, <1>2, <2>1, <2>2 DEF SessionOK, FreshOK
  <2>4. FreshOK(a)'
    BY <1>1, <1>2, <2>1, <2>2, <2>3, FreshStays DEF SessionOK
  <2>5. LiveOK(a)'
    BY <1>1, <1>2, <2>1, <2>2, LiveStays DEF SessionOK
  <2>6. QED
    BY <2>4, <2>5 DEF SessionOK
<1>3. CASE ScanStart
  BY <1>2, <1>3 DEF ScanStart, ListOf
<1>4. ASSUME NEW b \in Accounts, ScanRead(b) PROVE SessionOK(a)'
  BY <1>2, <1>4, ScanReadList DEF ScanRead, ListOf
<1>5. ASSUME NEW b \in Accounts, RefreshNext(b) PROVE SessionOK(a)'
  <2>1. /\ OnlyFrameOn(Scheduler, a) /\ Scheduler \in Procs /\ ListOf(a)
        /\ proc'[Scheduler].account = b /\ proc'[Scheduler].pc = "calling"
        /\ proc'[Scheduler].next = scan[b]
    BY <1>5, RefreshNextFrame, OnlyFrameIsEnough DEF ListOf
  <2>2. ~Replaces(a, proc[Scheduler])
    BY <1>5, IdleFields DEF RefreshNext, Replaces
  <2>3. CASE a # b
    BY <1>1, <2>1, <2>2, <2>3, SessionElsewhere
  <2>4. CASE a = b
    <3>1. scan[a] # NoToken
      BY <1>5, <2>4 DEF RefreshNext
    <3>2. /\ OldCopy(a, proc'[Scheduler].next.refresh)
          /\ CopyOf(a, proc'[Scheduler].next.refresh)
      BY <2>1, <2>4, <3>1 DEF OldCopy, CopyOf
    <3>3. ~Brings(a, proc[Scheduler])'
      BY <2>1 DEF Brings, Replaces
    <3>4. FreshOK(a)'
      BY <1>1, <2>1, <3>2, <3>3, FreshStays DEF SessionOK, FreshOK
    <3>5. LiveOK(a)'
      BY <1>1, <2>1, <2>2, <3>2, LiveStays DEF SessionOK
    <3>6. QED
      BY <3>4, <3>5 DEF SessionOK
  <2>5. QED
    BY <2>3, <2>4
<1>6. QED
  BY <1>3, <1>4, <1>5 DEF SchedulerStep

LEMMA CrashSession ==
  ASSUME Copies, NEW a \in Accounts, SessionOK(a), Crash
  PROVE  SessionOK(a)'
<1>1. /\ UNCHANGED <<file, session>> /\ scan'[a] = NoToken
      /\ \A q \in Procs : proc'[q] = IdleProc
      /\ lost'[a] = (lost[a] \/ \E q \in Procs : proc[q].account = a /\ LosesSession(q))
  BY DEF Crash
<1>2. \A q \in Procs : ~Brings(a, proc[q])' /\ ~Holds(a, proc[q])'
  BY <1>1, IdleFields DEF Brings, Replaces, Holds, Holding
<1>3. FreshOK(a)'
  BY <1>2 DEF FreshOK
<1>4. LiveOK(a)'
  <2>1. SUFFICES ASSUME ~lost'[a], NEW r \in 1..MaxIssued, CopyOf(a, r)'
                 PROVE  r \in session'[a]
    BY DEF LiveOK
  <2>2. ~lost[a] /\ ~Replacing(a)
    BY <1>1, <2>1 DEF Replacing, Replaces, LosesSession
  <2>3. CopyOf(a, r)
    BY <1>1, <1>2, <2>1 DEF CopyOf
  <2>4. QED
    BY <1>1, <2>1, <2>2, <2>3 DEF SessionOK, LiveOK
<1>5. QED
  BY <1>3, <1>4 DEF SessionOK

Taken == \A a \in Accounts : ~overlapped[a] => SessionOK(a)

LEMMA TakenInit == FilesInit => GrantedOK /\ WrittenTwice /\ Taken
<1>1. SUFFICES ASSUME FilesInit PROVE GrantedOK /\ WrittenTwice /\ Taken
  OBVIOUS
<1>2. GrantedOK
  BY <1>1 DEF FilesInit, GrantedOK
<1>3. WrittenTwice
  BY <1>1, IdleFields DEF FilesInit, WrittenTwice
<1>4. ASSUME NEW a \in Accounts PROVE SessionOK(a)
  <2>1. \A q \in Procs : ~Brings(a, proc[q]) /\ ~Holds(a, proc[q])
    BY <1>1, IdleFields DEF FilesInit, Brings, Replaces, Holds, Holding
  <2>2. file[a].refresh = 1 /\ scan[a] = NoToken /\ session[a] = {1}
    BY <1>1 DEF FilesInit
  <2>3. QED
    BY <2>1, <2>2 DEF SessionOK, FreshOK, LiveOK, CopyOf
<1>5. QED
  BY <1>2, <1>3, <1>4 DEF Taken

LEMMA TakenInductive ==
  /\ Copies /\ SchedulerAlone /\ Decided /\ GrantedOK /\ WrittenTwice /\ Taken
  /\ [FilesNext]_fileVars
  => Taken'
<1>1. SUFFICES ASSUME Copies, SchedulerAlone, Decided, GrantedOK, WrittenTwice, Taken,
                      [FilesNext]_fileVars, NEW a \in Accounts, ~overlapped'[a]
               PROVE  SessionOK(a)'
  BY DEF Taken
<1>2. SessionOK(a) /\ DecisionOK(a)
  BY <1>1, OverlapsKept DEF Taken, Decided
<1>3. CASE UNCHANGED <<file, proc, scan, session, lost>>
  BY <1>2, <1>3 DEF SessionOK, FreshOK, LiveOK, Brings, Replaces, Replacing, OldCopy,
                    CopyOf, Calls, Holds
<1>4. CASE UNCHANGED fileVars
  BY <1>3, <1>4 DEF fileVars
<1>5. ASSUME NEW p \in Handlers, HandlerStep(p) PROVE SessionOK(a)'
  BY <1>1, <1>2, <1>5, StartSession, SaveSession DEF HandlerStep, Procs
<1>6. ASSUME NEW p \in Procs, CallStep(p) PROVE SessionOK(a)'
  BY <1>1, <1>2, <1>6, QuietCallSession, RefreshAnsweredSession, RefreshLostSession
     DEF CallStep
<1>7. ASSUME NEW p \in Procs, WriteStep(p) PROVE SessionOK(a)'
  BY <1>1, <1>2, <1>7, DeleteSession, OpenSession, WriteSession, WriteFailsSession
     DEF WriteStep
<1>8. CASE SchedulerStep
  BY <1>1, <1>2, <1>8, SchedulerSession
<1>9. ASSUME NEW b \in Accounts, Age(b) PROVE SessionOK(a)'
  BY <1>3, <1>9 DEF Age
<1>10. CASE Crash
  BY <1>1, <1>2, <1>10, CrashSession
<1>11. QED
  BY <1>1, <1>4, <1>5, <1>6, <1>7, <1>8, <1>9, <1>10 DEF FilesNext

\* The refresh token in an account's file is one that the auth server takes,
\* however refreshes, saves, blocks and crashes follow each other, unless two
\* goroutines that had read the file overlapped, or an answer was lost.
THEOREM SessionsAreKept == FilesSpec => []SessionsSurvive
<1> DEFINE Inv == /\ Copies /\ SchedulerAlone /\ Decided
                  /\ GrantedOK /\ WrittenTwice /\ Taken
<1>1. FilesInit => Inv
  BY CopiesInit, SchedulerAloneInit, DecidedInit, TakenInit
<1>2. Inv /\ [FilesNext]_fileVars => Inv'
  BY CopiesInductive, SchedulerAloneInductive, DecidedInductive, GrantedInductive,
     WrittenTwiceInductive, TakenInductive
<1>3. Inv => SessionsSurvive
  <2>1. SUFFICES ASSUME Copies, Taken, NEW a \in Accounts, ~overlapped[a], ~lost[a],
                        ~Renewing(a), file[a] \in Token
                 PROVE  file[a].refresh \in session[a]
    BY DEF SessionsSurvive
  <2>2. ~Replacing(a)
    BY <2>1 DEF Renewing, Replacing, Replaces
  <2>3. CopyOf(a, file[a].refresh)
    BY <2>1 DEF CopyOf
  <2>4. file[a].refresh \in 1..MaxIssued
    BY <2>1, <2>3, CopyTypes
  <2>5. QED
    BY <2>1, <2>2, <2>3, <2>4 DEF Taken, SessionOK, LiveOK
<1>4. QED
  BY <1>1, <1>2, <1>3, PTL DEF FilesSpec
=============================================================================
