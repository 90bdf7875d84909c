----------------------------- MODULE FilesProofs ----------------------------
(***************************************************************************)
(* What FileTools checks of a chat, another agent and two files,           *)
(* proved for every number of agents, sessions, files and calls, whoever   *)
(* shares a session and whoever has a sink for checkpoints.                *)
(***************************************************************************)
EXTENDS Files, SequenceTheorems, TLAPS

-----------------------------------------------------------------------------
(* The parts of a state that steps are built from.                          *)

LEMMA EntriesGrow ==
  ASSUME NEW m \in Nat, NEW n \in Nat, n >= m
  PROVE  /\ Stamps(m) \subseteq Stamps(n) /\ Entries(m) \subseteq Entries(n)
<1>1. Stamps(m) \subseteq Stamps(n)
  BY DEF Stamps
<1>2. QED
  BY <1>1 DEF Entries

LEMMA NewEntry ==
  ASSUME count.changes \in Nat, NEW p \in Paths, NEW text \in Texts \ {NoText}
  PROVE  /\ File(p, text) \in Entries(count.changes + 1)
         /\ File(p, text).text = text
         /\ File(p, text).stamp \notin Stamps(count.changes)
  BY DEF File, Entries, Stamps

LEMMA BackTyped ==
  ASSUME count.changes \in Nat, NEW p \in Paths, NEW text \in Texts
  PROVE  Back(p, text) \in Entries(count.changes + 1) \cup {Absent}
  BY NewEntry DEF Back

LEMMA CallIs ==
  ASSUME TypeOK, NEW a \in Agents
  PROVE  /\ call[a] \in Calls /\ CallTyped(call[a])
         /\ call[a].text \in Texts /\ call[a].prev \in Texts
         /\ SessionOf[a] \in Sessions
  BY ConstantsAssumption DEF TypeOK, Calls

LEMMA RowIs ==
  ASSUME TypeOK, NEW i \in DOMAIN checkpoints
  PROVE  checkpoints[i].path \in Paths /\ checkpoints[i].was \in Texts
<1>1. checkpoints \in Seq([path : Paths, was : Texts])
  BY DEF TypeOK
<1>2. checkpoints[i] \in [path : Paths, was : Texts]
  BY <1>1, ElementOfSeq, LenProperties
<1>3. QED
  BY <1>2

UndoRows == [id : Texts, path : Paths, was : Texts, done : BOOLEAN]

LEMMA UndoRowIs ==
  ASSUME TypeOK, NEW i \in DOMAIN undo
  PROVE  /\ undo[i] \in UndoRows
         /\ undo[i].path \in Paths /\ undo[i].was \in Texts /\ undo[i].id \in Texts
<1>1. undo \in Seq(UndoRows)
  BY DEF TypeOK, UndoRows
<1>2. undo[i] \in UndoRows
  BY <1>1, ElementOfSeq, LenProperties
<1>3. QED
  BY <1>2 DEF UndoRows

LEMMA RemovedTyped ==
  ASSUME NEW S, NEW rows \in Seq(S), NEW i \in DOMAIN rows
  PROVE  Rows!RemoveAt(rows, i) \in Seq(S)
<1>1. Len(rows) \in Nat /\ i \in 1 .. Len(rows) /\ \A j \in 1 .. Len(rows) : rows[j] \in S
  OBVIOUS
<1>2. SubSeq(rows, 1, i - 1) \in Seq(S)
  BY <1>1, SubSeqProperties
<1>3. SubSeq(rows, i + 1, Len(rows)) \in Seq(S)
  BY <1>1, SubSeqProperties
<1>4. QED
  BY <1>2, <1>3, ConcatProperties DEF Rows!RemoveAt

LEMMA NextText ==
  ASSUME TypeOK, count.calls < MaxCalls
  PROVE  <<count.calls + 1>> \in Texts \ {NoText}
<1>1. count.calls + 1 \in 1 .. MaxCalls
  BY ConstantsAssumption DEF TypeOK
<1>2. QED
  BY <1>1 DEF Texts, NoText

LEMMA TextTyped ==
  ASSUME TypeOK, NEW p \in Paths
  PROVE  TextAt(p) \in Texts
  BY DEF TypeOK, TextAt, Entries, Texts

-----------------------------------------------------------------------------
(* What a step of each kind leaves alone.                                   *)

LEMMA CallFrame ==
  ASSUME NEW a \in Agents, ToolCall(a)
  PROVE  /\ UNCHANGED <<trash, undo, checkpoints, seen, known>>
         /\ UNCHANGED snapshot \/ TakeSnapshot(a)
         /\ UNCHANGED <<disk, placedBy, crossed>> \/ RestoreSnapshot(a)
         /\ UNCHANGED call \/ call[a].at = "idle"
  BY Zenon DEF ToolCall, ReadContent, Check, FindInTrash, PickUndo,
     TakeSnapshot, RestoreSnapshot, Start

LEMMA StepFrame ==
  ASSUME NEW a \in Agents, ToolStep(a)
  PROVE  /\ UNCHANGED snapshot
         /\ UNCHANGED trash \/ Remove(a) \/ \E e \in trash : TakeFromTrash(a, e)
         /\ UNCHANGED undo \/ Record(a) \/ FinishUndo(a)
         /\ UNCHANGED checkpoints \/ Save(a)
         /\ UNCHANGED <<seen, known>> \/ ReadStamp(a) \/ Settle(a)
         /\ \/ UNCHANGED <<disk, placedBy>>
            \/ Put(a) \/ Reject(a) \/ Remove(a) \/ Move(a) \/ ApplyUndo(a)
            \/ Copy(a) \/ Unlink(a)
            \/ \E e \in trash : TakeFromTrash(a, e)
         /\ \/ UNCHANGED <<disk, placedBy, crossed>>
            \/ ReadStamp(a)
            \/ Put(a) \/ Reject(a) \/ Remove(a) \/ Move(a) \/ ApplyUndo(a)
            \/ Copy(a) \/ Unlink(a)
            \/ \E e \in trash : TakeFromTrash(a, e)
<1>1. CASE ReadStamp(a) \/ Capture(a) \/ Save(a) \/ Record(a) \/ Accept(a)
  BY <1>1, Zenon DEF ReadStamp, Capture, Save, Record, Accept
<1>2. CASE \/ Put(a) \/ Reject(a) \/ Settle(a) \/ Remove(a) \/ Move(a)
           \/ Copy(a) \/ Unlink(a)
  BY <1>2, Zenon DEF Put, Reject, Settle, Remove, Move, Copy, Unlink
<1>3. CASE \E e \in trash : TakeFromTrash(a, e)
  BY <1>3, Zenon DEF TakeFromTrash
<1>4. CASE TrashIsGone(a) \/ ApplyUndo(a) \/ FinishUndo(a)
  BY <1>4, Zenon DEF TrashIsGone, ApplyUndo, FinishUndo
<1>5. QED
  BY <1>1, <1>2, <1>3, <1>4 DEF ToolStep

LEMMA OutsideFrame ==
  ASSUME \/ \E p \in Paths : PersonEdits(p)
         \/ \E i \in DOMAIN checkpoints : RestoreCheckpoint(i)
  PROVE  UNCHANGED <<trash, undo, snapshot, seen, call, known>>
  BY Zenon DEF PersonEdits, RestoreCheckpoint, PersonChanges

LEMMA CrashFrame ==
  ASSUME Crash
  PROVE  UNCHANGED <<disk, trash, undo, snapshot, checkpoints>>
  BY DEF Crash

-----------------------------------------------------------------------------
(* Type correctness, one lemma for each part of the state.                  *)

LEMMA CountStays ==
  ASSUME TypeOK, Next
  PROVE  /\ count' \in [calls : 0 .. MaxCalls, changes : Nat]
         /\ count'.changes \in Nat /\ count'.changes >= count.changes
<1>0. /\ count \in [calls : 0 .. MaxCalls, changes : Nat]
      /\ count.changes \in Nat /\ count.calls \in 0 .. MaxCalls
  BY DEF TypeOK
<1>1. CASE UNCHANGED count
  BY <1>0, <1>1
<1>2. CASE Tick
  BY <1>0, <1>2 DEF Tick
<1>3. CASE count.calls < MaxCalls /\ count' = [count EXCEPT !.calls = @ + 1]
  <2>1. count.calls + 1 \in 0 .. MaxCalls
    BY <1>0, <1>3, ConstantsAssumption
  <2>2. QED
    BY <1>0, <1>3, <2>1
<1>4. CASE /\ count.calls < MaxCalls
           /\ count' = [calls |-> count.calls + 1, changes |-> count.changes + 1]
  <2>1. count.calls + 1 \in 0 .. MaxCalls
    BY <1>0, <1>4, ConstantsAssumption
  <2>2. QED
    BY <1>0, <1>4, <2>1
<1>5. \/ UNCHANGED count \/ Tick
      \/ /\ count.calls < MaxCalls
         /\ \/ count' = [count EXCEPT !.calls = @ + 1]
            \/ count' = [calls |-> count.calls + 1, changes |-> count.changes + 1]
  <2>1. ASSUME NEW a \in Agents, ToolStep(a)
        PROVE  UNCHANGED count \/ Tick
    BY <2>1, Zenon DEF ToolStep, ReadStamp, Capture, Save, Record, Put, Accept,
       Reject, Settle, Remove, Move, Copy, Unlink, TakeFromTrash, TrashIsGone,
       ApplyUndo, FinishUndo
  <2>2. ASSUME NEW a \in Agents, ToolCall(a)
        PROVE  /\ count.calls < MaxCalls
               /\ \/ count' = [count EXCEPT !.calls = @ + 1]
                  \/ count' = [calls |-> count.calls + 1, changes |-> count.changes + 1]
    BY <2>2, Zenon DEF ToolCall, ReadContent, Check, FindInTrash, PickUndo,
       TakeSnapshot, RestoreSnapshot, Start, Begins, Event
  <2>3. QED
    BY <2>1, <2>2, Zenon DEF Next, PersonEdits, PersonChanges,
       RestoreCheckpoint, Crash, Begins, Event
<1>6. QED
  BY <1>1, <1>2, <1>3, <1>4, <1>5

(* A step leaves at a path what was there, a file that was elsewhere, or a  *)
(* new one.                                                                 *)
Around == ({disk[p] : p \in Paths} \ {Absent}) \cup {e.file : e \in trash}
New(q, f) ==
  \E text \in Texts \ {NoText} : f = File(q, text) /\ count'.changes = count.changes + 1
Became ==
  /\ disk' = [q \in Paths |-> disk'[q]]
  /\ \A q \in Paths : disk'[q] \in Around \cup {Absent} \/ New(q, disk'[q])

LEMMA DiskBecomes ==
  ASSUME TypeOK, Next
  PROVE  Became
<1>0. /\ count.changes \in Nat /\ disk = [q \in Paths |-> disk[q]]
      /\ \A q \in Paths : disk[q] \in Around \cup {Absent}
  BY DEF TypeOK, Around
<1>1. CASE UNCHANGED disk
  BY <1>0, <1>1 DEF Became
<1>2. ASSUME NEW p \in Paths, NEW f, f \in Around \cup {Absent} \/ New(p, f),
             disk' = [disk EXCEPT ![p] = f]
      PROVE  Became
  <2>1. disk' = [q \in Paths |-> IF q = p THEN f ELSE disk[q]]
    BY <1>0, <1>2
  <2>2. \A q \in Paths : disk'[q] = IF q = p THEN f ELSE disk[q]
    BY <2>1
  <2>3. disk' = [q \in Paths |-> disk'[q]]
    BY <2>1
  <2>4. QED
    BY <1>0, <1>2, <2>2, <2>3, Zenon DEF Became
<1>3. ASSUME NEW p \in Paths, NEW text \in Texts, count'.changes = count.changes + 1,
             disk' = [disk EXCEPT ![p] = Back(p, text)]
      PROVE  Became
  BY <1>2, <1>3 DEF New, Back
<1>4. Tick => count'.changes = count.changes + 1
  BY DEF Tick, TypeOK
<1>5. ASSUME NEW a \in Agents, Put(a)
      PROVE  Became
  <2>1. call[a].at \in {"recorded", "saved"}
    BY <1>5, Zenon DEF Put
  <2>2. call[a].path \in Paths /\ call[a].text \in Texts \ {NoText}
    <3>1. call[a].path \in Paths /\ call[a].at \in StepsOf(call[a].op)
      BY <2>1, CallIs DEF CallTyped
    <3>2. call[a].at = "recorded" => call[a].op \in Writers
      BY <3>1 DEF StepsOf, Removers
    <3>3. (call[a].at = "saved" /\ call[a].op = "todo") \/ call[a].at = "recorded"
      BY <1>5, Zenon DEF Put
    <3>4. QED
      BY <3>1, <3>2, <3>3, CallIs DEF CallTyped
  <2>3. /\ disk' = [disk EXCEPT ![call[a].path] = File(call[a].path, call[a].text)]
        /\ Tick
    BY <1>5, Zenon DEF Put, Changed
  <2>4. QED
    BY <1>2, <1>4, <2>2, <2>3 DEF New
<1>6. ASSUME NEW a \in Agents, Reject(a)
      PROVE  Became
  <2>1. call[a].at = "put" /\ Tick
        /\ disk' = [disk EXCEPT ![call[a].path] = Back(call[a].path, call[a].prev)]
    BY <1>6, Zenon DEF Reject, Changed
  <2>2. call[a].path \in Paths
    BY <2>1, CallIs DEF CallTyped
  <2>3. QED
    BY <1>3, <1>4, <2>1, <2>2, CallIs
<1>7. ASSUME NEW a \in Agents, ApplyUndo(a)
      PROVE  Became
  <2>1. call[a].at = "checked" /\ Tick
        /\ disk' = [disk EXCEPT ![call[a].path] = Back(call[a].path, call[a].text)]
    BY <1>7, Zenon DEF ApplyUndo, Changed
  <2>2. call[a].path \in Paths
    BY <2>1, CallIs DEF CallTyped
  <2>3. QED
    BY <1>3, <1>4, <2>1, <2>2, CallIs
<1>8. ASSUME NEW a \in Agents, Remove(a)
      PROVE  Became
  <2>1. call[a].at = "saved"
        /\ (UNCHANGED disk \/ disk' = [disk EXCEPT ![call[a].path] = Absent])
    BY <1>8, Zenon DEF Remove, Changed
  <2>2. call[a].path \in Paths
    BY <2>1, CallIs DEF CallTyped
  <2>3. QED
    BY <1>1, <1>2, <2>1, <2>2
<1>9. ASSUME NEW a \in Agents, Move(a)
      PROVE  Became
  <2> DEFINE p == call[a].path  q == call[a].to
  <2>1. call[a].at = "saved"
        /\ (UNCHANGED disk \/ disk' = [disk EXCEPT ![p] = Absent, ![q] = disk[p]])
    BY <1>9, Zenon DEF Move, Changed
  <2>2. p \in Paths
    BY <2>1, CallIs DEF CallTyped
  <2> HIDE DEF p, q
  <2>3. CASE disk' = [disk EXCEPT ![p] = Absent, ![q] = disk[p]]
    <3>1. disk' = [r \in Paths |-> IF r = q THEN disk[p] ELSE IF r = p THEN Absent ELSE disk[r]]
      BY <1>0, <2>3
    <3>2. QED
      BY <1>0, <2>2, <3>1 DEF Became
  <2>4. QED
    BY <1>1, <2>1, <2>3
<1>10. ASSUME NEW a \in Agents, NEW e \in trash, TakeFromTrash(a, e)
       PROVE  Became
  <2>1. disk' = [disk EXCEPT ![call[a].path] = e.file] /\ e.from = call[a].path
    BY <1>10, Zenon DEF TakeFromTrash, Changed
  <2>2. e.file \in Around /\ call[a].path \in Paths
    BY <2>1 DEF TypeOK, Around
  <2>3. QED
    BY <1>2, <2>1, <2>2
<1>11. ASSUME NEW a \in Agents, RestoreSnapshot(a)
       PROVE  Became
  <2> DEFINE ps == {p \in Paths : snapshot[1][p] # NoText}
  <2>1. /\ snapshot # <<>>
        /\ disk' = [p \in Paths |-> IF p \in ps THEN File(p, snapshot[1][p]) ELSE disk[p]]
        /\ count' = [calls |-> count.calls + 1, changes |-> count.changes + 1]
    BY <1>11, Zenon DEF RestoreSnapshot, Changed
  <2>2. snapshot[1] \in [Paths -> Texts] /\ count'.changes = count.changes + 1
    BY <2>1 DEF TypeOK
  <2>3. \A p \in ps : New(p, File(p, snapshot[1][p]))
    BY <2>2, Zenon DEF New
  <2> HIDE DEF ps
  <2>4. \A q \in Paths : disk'[q] = IF q \in ps THEN File(q, snapshot[1][q]) ELSE disk[q]
    BY <2>1
  <2>5. disk' = [q \in Paths |-> disk'[q]]
    BY <2>1
  <2>6. QED
    BY <1>0, <2>3, <2>4, <2>5, Zenon DEF Became
<1>12. ASSUME NEW p \in Paths, NEW f, PersonChanges(p, f),
              f = Absent \/ \E text \in Texts \ {NoText} : f = File(p, text)
       PROVE  Became
  <2>1. disk' = [disk EXCEPT ![p] = f] /\ count'.changes = count.changes + 1
    BY <1>12 DEF PersonChanges, Changed
  <2>2. QED
    BY <1>2, <1>12, <2>1 DEF New
<1>13. ASSUME NEW p \in Paths, PersonEdits(p)
       PROVE  Became
  <2>1. count.calls < MaxCalls
        /\ (PersonChanges(p, File(p, <<count.calls + 1>>)) \/ PersonChanges(p, Absent))
    BY <1>13, Zenon DEF PersonEdits, Begins
  <2>2. <<count.calls + 1>> \in Texts \ {NoText}
    BY <2>1, NextText
  <2>3. QED
    BY <1>12, <2>1, <2>2
<1>14. ASSUME NEW i \in DOMAIN checkpoints, RestoreCheckpoint(i)
       PROVE  Became
  <2>1. checkpoints[i].path \in Paths /\ checkpoints[i].was \in Texts
    BY RowIs
  <2>2. PersonChanges(checkpoints[i].path, Back(checkpoints[i].path, checkpoints[i].was))
    BY <1>14 DEF RestoreCheckpoint
  <2>3. QED
    BY <1>12, <2>1, <2>2 DEF Back
<1>15. ASSUME NEW a \in Agents, Copy(a)
       PROVE  Became
  <2> DEFINE p == call[a].path  q == call[a].to
  <2>1. /\ call[a].at = "saved" /\ call[a].op = "move" /\ disk[p] # Absent
        /\ disk' = [disk EXCEPT ![q] = File(q, disk[p].text)] /\ Tick
    BY <1>15, Zenon DEF Copy, Changed
  <2>2. p \in Paths /\ q \in Paths
    BY <2>1, CallIs DEF CallTyped
  <2>3. disk[p].text \in Texts \ {NoText}
    BY <2>1, <2>2 DEF TypeOK, Entries
  <2>4. QED
    BY <1>2, <1>4, <2>1, <2>2, <2>3 DEF New
<1>16. ASSUME NEW a \in Agents, Unlink(a)
       PROVE  Became
  <2>1. call[a].at = "copied"
        /\ (UNCHANGED disk \/ disk' = [disk EXCEPT ![call[a].path] = Absent])
    BY <1>16, Zenon DEF Unlink, Changed
  <2>2. call[a].path \in Paths
    BY <2>1, CallIs DEF CallTyped
  <2>3. QED
    BY <1>1, <1>2, <2>1, <2>2
<1>17. QED
  BY <1>1, <1>5, <1>6, <1>7, <1>8, <1>9, <1>10, <1>11, <1>13, <1>14, <1>15,
     <1>16, Zenon
  DEF Next, ToolCall, ToolStep, ReadContent, ReadStamp, Check, Capture, Save,
      Record, Accept, Settle, FindInTrash, TrashIsGone, PickUndo, FinishUndo,
      TakeSnapshot, Crash

LEMMA AroundTyped ==
  ASSUME TypeOK, NEW f \in Around
  PROVE  /\ f \in Entries(count.changes) /\ f.stamp \in Stamps(count.changes)
         /\ f.text \in Texts \ {NoText}
<1>1. f \in Entries(count.changes)
  BY DEF Around, TypeOK
<1>2. QED
  BY <1>1 DEF Entries

LEMMA DiskStays ==
  ASSUME TypeOK, Next
  PROVE  disk' \in [Paths -> Entries(count'.changes) \cup {Absent}]
<1>1. \A q \in Paths : disk'[q] \in Around \cup {Absent} \/ New(q, disk'[q])
  BY DiskBecomes DEF Became
<1>2. count.changes \in Nat /\ Entries(count.changes) \subseteq Entries(count'.changes)
  BY CountStays, EntriesGrow DEF TypeOK
<1>3. \A q \in Paths : disk'[q] \in Entries(count'.changes) \cup {Absent}
  <2> TAKE q \in Paths
  <2>1. CASE disk'[q] \in Around
    BY <1>2, <2>1, AroundTyped
  <2>2. CASE New(q, disk'[q])
    BY <1>2, <2>2, NewEntry DEF New
  <2>3. QED
    BY <1>1, <2>1, <2>2
<1>4. QED
  BY <1>3, DiskBecomes DEF Became

LEMMA TrashStays ==
  ASSUME TypeOK, Next
  PROVE  trash' \subseteq [from : Paths, file : Entries(count'.changes)]
<1>0. trash \subseteq [from : Paths, file : Entries(count'.changes)]
  <2>1. Entries(count.changes) \subseteq Entries(count'.changes)
    BY CountStays, EntriesGrow DEF TypeOK
  <2>2. QED
    BY <2>1 DEF TypeOK
<1>1. CASE trash' \subseteq trash
  BY <1>0, <1>1
<1>2. ASSUME NEW a \in Agents, Remove(a)
      PROVE  trash' \subseteq [from : Paths, file : Entries(count'.changes)]
  <2> DEFINE e == [from |-> call[a].path, file |-> disk[call[a].path]]
  <2>1. call[a].at = "saved" /\ UNCHANGED count
        /\ (trash' = trash \/ (disk[call[a].path] # Absent /\ trash' = trash \cup {e}))
    BY <1>2, Zenon DEF Remove
  <2>2. call[a].path \in Paths
    BY <2>1, CallIs DEF CallTyped
  <2>3. disk[call[a].path] # Absent => e \in [from : Paths, file : Entries(count.changes)]
    BY <2>2 DEF TypeOK
  <2>4. QED
    BY <1>0, <2>1, <2>3
<1>3. ASSUME NEW a \in Agents, NEW e \in trash, TakeFromTrash(a, e)
      PROVE  trash' \subseteq trash
  BY <1>3 DEF TakeFromTrash
<1>4. QED
  BY <1>1, <1>2, <1>3, CallFrame, StepFrame, OutsideFrame, CrashFrame DEF Next

LEMMA RowsStay ==
  ASSUME TypeOK, Next
  PROVE  /\ undo' \in Seq(UndoRows)
         /\ checkpoints' \in Seq([path : Paths, was : Texts])
         /\ snapshot' \in Seq([Paths -> Texts])
<1>0. /\ undo \in Seq(UndoRows)
      /\ checkpoints \in Seq([path : Paths, was : Texts])
      /\ snapshot \in Seq([Paths -> Texts])
  BY DEF TypeOK, UndoRows
<1>1. ASSUME NEW a \in Agents, Save(a)
      PROVE  checkpoints' \in Seq([path : Paths, was : Texts])
  <2>1. call[a].at \in {"captured", "checked"}
        /\ \/ UNCHANGED checkpoints
           \/ checkpoints' = Append(checkpoints, [path |-> call[a].path,
                                                 was |-> TextAt(call[a].path)])
    BY <1>1, Zenon DEF Save
  <2>2. call[a].path \in Paths
    BY <2>1, CallIs DEF CallTyped
  <2>3. [path |-> call[a].path, was |-> TextAt(call[a].path)] \in [path : Paths, was : Texts]
    BY <2>2, TextTyped
  <2>4. CASE checkpoints' = Append(checkpoints, [path |-> call[a].path,
                                                was |-> TextAt(call[a].path)])
    BY <1>0, <2>3, <2>4, AppendProperties
  <2>5. QED
    BY <1>0, <2>1, <2>4
<1>2. ASSUME NEW a \in Agents, Record(a)
      PROVE  undo' \in Seq(UndoRows)
  <2>1. call[a].at = "saved"
        /\ undo' = Append(undo, [id |-> call[a].text, path |-> call[a].path,
                                was |-> TextAt(call[a].path), done |-> FALSE])
    BY <1>2, Zenon DEF Record
  <2>2. call[a].path \in Paths
    BY <2>1, CallIs DEF CallTyped
  <2>3. QED
    BY <1>0, <2>1, <2>2, CallIs, TextTyped DEF UndoRows
<1>3. ASSUME NEW a \in Agents, FinishUndo(a)
      PROVE  undo' \in Seq(UndoRows)
  <2>1. undo' = [i \in DOMAIN undo |->
                  [undo[i] EXCEPT !.done = @ \/ undo[i].id = call[a].prev]]
    BY <1>3 DEF FinishUndo
  <2>2. \A i \in DOMAIN undo : undo'[i] \in UndoRows
    <3> TAKE i \in DOMAIN undo
    <3>1. undo[i] \in UndoRows
      BY UndoRowIs
    <3>2. PICK done \in BOOLEAN : done = (undo[i].done \/ undo[i].id = call[a].prev)
      OBVIOUS
    <3>3. [undo[i] EXCEPT !.done = done] \in UndoRows
      BY <3>1 DEF UndoRows
    <3>4. undo'[i] = [undo[i] EXCEPT !.done = undo[i].done \/ undo[i].id = call[a].prev]
      BY <2>1, Zenon
    <3>5. QED
      BY <3>2, <3>3, <3>4, Zenon
  <2>3. Len(undo) \in Nat /\ DOMAIN undo = 1 .. Len(undo)
    BY <1>0, LenProperties
  <2>4. undo' \in [1 .. Len(undo) -> UndoRows]
    BY <2>1, <2>2, <2>3
  <2>5. QED
    BY <2>3, <2>4, SeqDef
<1>4. ASSUME NEW i \in DOMAIN checkpoints, RestoreCheckpoint(i)
      PROVE  checkpoints' \in Seq([path : Paths, was : Texts])
  BY <1>0, <1>4, RemovedTyped DEF RestoreCheckpoint
<1>5. ASSUME NEW a \in Agents, TakeSnapshot(a)
      PROVE  snapshot' \in Seq([Paths -> Texts])
  <2>1. [p \in Paths |-> TextAt(p)] \in [Paths -> Texts]
    BY TextTyped
  <2>2. QED
    BY <1>5, <2>1 DEF TakeSnapshot
<1>6. UNCHANGED undo \/ \E a \in Agents : Record(a) \/ FinishUndo(a)
  BY CallFrame, StepFrame, OutsideFrame, CrashFrame DEF Next
<1>7. \/ UNCHANGED checkpoints \/ \E a \in Agents : Save(a)
      \/ \E i \in DOMAIN checkpoints : RestoreCheckpoint(i)
  BY CallFrame, StepFrame, CrashFrame DEF Next, PersonEdits
<1>8. UNCHANGED snapshot \/ \E a \in Agents : TakeSnapshot(a)
  BY CallFrame, StepFrame, OutsideFrame, CrashFrame DEF Next
<1>9. QED
  BY <1>0, <1>1, <1>2, <1>3, <1>4, <1>5, <1>6, <1>7, <1>8

(* The record of reads changes in one way, but for a crash.                 *)
Target(a) == IF call[a].op = "move" THEN call[a].to ELSE call[a].path
Marks(a) ==
  /\ Mark(SessionOf[a], Target(a), call[a].text)
  /\ ReadStamp(a) \/ Settle(a)

LEMMA RecordSteps ==
  ASSUME TypeOK, Next
  PROVE  \/ UNCHANGED <<seen, known>>
         \/ Crash
         \/ \E a \in Agents : Marks(a) /\ Target(a) \in Paths
<1>1. ASSUME NEW a \in Agents, ReadStamp(a)
      PROVE  Marks(a) /\ Target(a) \in Paths
  <2>1. call[a].op = "read" /\ Mark(SessionOf[a], call[a].path, call[a].text)
    BY <1>1, Zenon DEF ReadStamp
  <2>2. call[a].at # "idle"
    BY <2>1, CallIs DEF CallTyped, IdleCall
  <2>3. QED
    BY <1>1, <2>1, <2>2, CallIs DEF CallTyped, Marks, Target
<1>2. ASSUME NEW a \in Agents, Settle(a)
      PROVE  Marks(a) /\ Target(a) \in Paths
  <2>1. call[a].at = "settling"
    BY <1>2, Zenon DEF Settle
  <2>2. Mark(SessionOf[a], Target(a), call[a].text)
    BY <1>2, Zenon DEF Settle, Target
  <2>3. QED
    BY <1>2, <2>1, <2>2, CallIs DEF CallTyped, Marks, Target
<1>3. QED
  BY <1>1, <1>2, CallFrame, StepFrame, OutsideFrame DEF Next

LEMMA ReadsStay ==
  ASSUME TypeOK, Next
  PROVE  /\ seen' \in [Sessions -> [Paths -> Stamps(count'.changes) \cup {NoStamp}]]
         /\ known' \in [Sessions -> [Paths -> Texts]]
<1>0. /\ seen \in [Sessions -> [Paths -> Stamps(count'.changes) \cup {NoStamp}]]
      /\ known \in [Sessions -> [Paths -> Texts]]
      /\ \A p \in Paths : disk[p] # Absent => disk[p].stamp \in Stamps(count'.changes)
  <2>1. Stamps(count.changes) \subseteq Stamps(count'.changes)
    BY CountStays, EntriesGrow DEF TypeOK
  <2>2. \A p \in Paths : disk[p] # Absent => disk[p].stamp \in Stamps(count.changes)
    BY DEF TypeOK, Entries
  <2>3. QED
    BY <2>1, <2>2 DEF TypeOK
<1>1. CASE UNCHANGED <<seen, known>>
  BY <1>0, <1>1
<1>2. CASE Crash
  <2>1. NoText \in Texts
    BY DEF Texts
  <2>2. QED
    BY <1>2, <2>1 DEF Crash
<1>3. ASSUME NEW a \in Agents, Mark(SessionOf[a], Target(a), call[a].text),
             Target(a) \in Paths
      PROVE  /\ seen' \in [Sessions -> [Paths -> Stamps(count'.changes) \cup {NoStamp}]]
             /\ known' \in [Sessions -> [Paths -> Texts]]
  <2>1. CASE disk[Target(a)] = Absent
    BY <1>1, <1>3, <2>1 DEF Mark
  <2>2. CASE disk[Target(a)] # Absent
    <3>1. /\ seen'  = [seen EXCEPT ![SessionOf[a]][Target(a)] = disk[Target(a)].stamp]
          /\ known' = [known EXCEPT ![SessionOf[a]][Target(a)] = call[a].text]
      BY <1>3, <2>2, Zenon DEF Mark
    <3>2. /\ SessionOf[a] \in Sessions /\ call[a].text \in Texts
          /\ disk[Target(a)].stamp \in Stamps(count'.changes)
      BY <1>0, <1>3, <2>2, CallIs
    <3>3. QED
      BY <1>0, <1>3, <3>1, <3>2
  <2>3. QED
    BY <2>1, <2>2
<1>4. QED
  BY <1>1, <1>2, <1>3, RecordSteps DEF Marks

(* A change of files, in one way: who makes it comes to another step or has *)
(* no call, and every other session that uses such a file is told apart.    *)
Alters(x, ps) ==
  /\ \A p \in Paths \ ps : disk'[p] = disk[p]
  /\ crossed' = crossed \cup {r \in Sessions \X ps :
                  \E b \in AgentsOf(r[1]) \ {x} : r[2] \in UsedBy(b)}
  /\ \A p \in Paths \ ps : placedBy'[p] = placedBy[p]
  /\ placedBy' \in [Paths -> Sessions \cup {Nobody}]
  /\ x \in Agents => call'[x].at # call[x].at \/ call[x].at = "idle"

LEMMA PlacedAlters ==
  ASSUME TypeOK, NEW x, NEW ps \in SUBSET Paths, NEW d,
         NEW who \in Sessions \cup {Nobody}, Changed(x, ps, d), Placed(ps, who),
         \A p \in Paths \ ps : d[p] = disk[p],
         x \in Agents => call'[x].at # call[x].at \/ call[x].at = "idle"
  PROVE  Alters(x, ps)
<1>1. placedBy' \in [Paths -> Sessions \cup {Nobody}]
  BY DEF TypeOK, Placed
<1>2. \A p \in Paths \ ps : placedBy'[p] = placedBy[p]
  BY DEF Placed
<1>3. QED
  BY <1>1, <1>2 DEF Alters, Changed

LEMMA GoesTo ==
  ASSUME TypeOK, NEW a \in Agents
  PROVE  /\ \A at : Go(a, at) => call'[a].at = at
         /\ End(a) => call'[a] = IdleCall /\ call'[a].at = "idle"
  BY DEF TypeOK, Calls, Go, End, IdleCall

LEMMA DiskSteps ==
  ASSUME TypeOK, Next
  PROVE  \/ UNCHANGED <<disk, crossed>> /\ placedBy' \in [Paths -> Sessions \cup {Nobody}]
         \/ Crash
         \/ \E a \in Agents : ReadStamp(a)
         \/ \E x \in Agents \cup {Nobody}, ps \in SUBSET Paths : Alters(x, ps)
<1>1. ASSUME NEW a \in Agents, Put(a)
      PROVE  \E ps \in SUBSET Paths : Alters(a, ps)
  <2>1. /\ Changed(a, {call[a].path}, [disk EXCEPT ![call[a].path] =
                                         File(call[a].path, call[a].text)])
        /\ \/ call[a].at = "recorded" /\ Go(a, "put") /\ Placed({call[a].path}, SessionOf[a])
           \/ call[a].at = "saved" /\ End(a) /\ Placed({call[a].path}, Nobody)
    BY <1>1, Zenon DEF Put
  <2>2. call[a].path \in Paths /\ SessionOf[a] \in Sessions
    BY <2>1, CallIs DEF CallTyped
  <2>3. call'[a].at # call[a].at
    BY <2>1, GoesTo
  <2>4. \A p \in Paths \ {call[a].path} :
          [disk EXCEPT ![call[a].path] = File(call[a].path, call[a].text)][p] = disk[p]
    BY DEF TypeOK
  <2>5. QED
    BY <2>1, <2>2, <2>3, <2>4, PlacedAlters
<1>2. ASSUME NEW a \in Agents, Reject(a)
      PROVE  \E ps \in SUBSET Paths : Alters(a, ps)
  <2>1. /\ call[a].at = "put"
        /\ call' = [call EXCEPT ![a].at = "settling", ![a].text = call[a].prev]
        /\ Changed(a, {call[a].path}, [disk EXCEPT ![call[a].path] =
                                         Back(call[a].path, call[a].prev)])
        /\ Placed({call[a].path}, SessionOf[a])
    BY <1>2, Zenon DEF Reject
  <2>2. call[a].path \in Paths /\ SessionOf[a] \in Sessions
    BY <2>1, CallIs DEF CallTyped
  <2>3. call'[a].at # call[a].at
    BY <2>1 DEF TypeOK, Calls
  <2>4. \A p \in Paths \ {call[a].path} :
          [disk EXCEPT ![call[a].path] = Back(call[a].path, call[a].prev)][p] = disk[p]
    BY DEF TypeOK
  <2>5. QED
    BY <2>1, <2>2, <2>3, <2>4, PlacedAlters
<1>3. ASSUME NEW a \in Agents, ApplyUndo(a)
      PROVE  \E ps \in SUBSET Paths : Alters(a, ps)
  <2>1. /\ call[a].at = "checked" /\ Go(a, "settling")
        /\ Changed(a, {call[a].path}, [disk EXCEPT ![call[a].path] =
                                         Back(call[a].path, call[a].text)])
        /\ Placed({call[a].path}, SessionOf[a])
    BY <1>3, Zenon DEF ApplyUndo
  <2>2. call[a].path \in Paths /\ SessionOf[a] \in Sessions
    BY <2>1, CallIs DEF CallTyped
  <2>3. call'[a].at # call[a].at
    BY <2>1, GoesTo
  <2>4. \A p \in Paths \ {call[a].path} :
          [disk EXCEPT ![call[a].path] = Back(call[a].path, call[a].text)][p] = disk[p]
    BY DEF TypeOK
  <2>5. QED
    BY <2>1, <2>2, <2>3, <2>4, PlacedAlters
<1>4. ASSUME NEW a \in Agents, Remove(a)
      PROVE  UNCHANGED <<disk, placedBy, crossed>> \/ \E ps \in SUBSET Paths : Alters(a, ps)
  <2>1. /\ call[a].at = "saved" /\ End(a)
        /\ \/ UNCHANGED <<disk, placedBy, crossed>>
           \/ /\ Changed(a, {call[a].path}, [disk EXCEPT ![call[a].path] = Absent])
              /\ Placed({call[a].path}, Nobody)
    BY <1>4, Zenon DEF Remove
  <2>2. call[a].path \in Paths
    BY <2>1, CallIs DEF CallTyped
  <2>3. call'[a].at # call[a].at
    BY <2>1, GoesTo
  <2>4. \A p \in Paths \ {call[a].path} :
          [disk EXCEPT ![call[a].path] = Absent][p] = disk[p]
    BY DEF TypeOK
  <2>5. QED
    BY <2>1, <2>2, <2>3, <2>4, PlacedAlters
<1>5. ASSUME NEW a \in Agents, Move(a)
      PROVE  UNCHANGED <<disk, placedBy, crossed>> \/ \E ps \in SUBSET Paths : Alters(a, ps)
  <2> DEFINE p == call[a].path  q == call[a].to
  <2>1. /\ call[a].at = "saved" /\ call[a].op = "move"
        /\ \/ UNCHANGED <<disk, placedBy, crossed>>
           \/ /\ call' = [call EXCEPT ![a].at = "settling", ![a].text = disk[p].text]
              /\ Changed(a, {p, q}, [disk EXCEPT ![p] = Absent, ![q] = disk[p]])
              /\ placedBy' = [placedBy EXCEPT ![p] = Nobody, ![q] = SessionOf[a]]
    BY <1>5, Zenon DEF Move
  <2>2. p \in Paths /\ q \in Paths /\ SessionOf[a] \in Sessions
    <3>1. call[a].at = "saved" /\ call[a].op = "move"
      BY <2>1
    <3>2. QED
      BY <3>1, CallIs DEF CallTyped
  <2>3. ASSUME NEW text, call' = [call EXCEPT ![a].at = "settling", ![a].text = text]
        PROVE  call'[a].at # call[a].at
    <3>1. call \in [Agents -> Calls] /\ call[a].at = "saved"
      BY <2>1 DEF TypeOK
    <3>2. QED
      BY <2>3, <3>1 DEF Calls
  <2> HIDE DEF p, q
  <2>4. \A r \in Paths \ {p, q} :
          [disk EXCEPT ![p] = Absent, ![q] = disk[p]][r] = disk[r]
    BY DEF TypeOK
  <2>5. placedBy' = [placedBy EXCEPT ![p] = Nobody, ![q] = SessionOf[a]]
          => /\ placedBy' \in [Paths -> Sessions \cup {Nobody}]
             /\ \A r \in Paths \ {p, q} : placedBy'[r] = placedBy[r]
    BY <2>2 DEF TypeOK
  <2>6. ASSUME call' = [call EXCEPT ![a].at = "settling", ![a].text = disk[p].text],
               Changed(a, {p, q}, [disk EXCEPT ![p] = Absent, ![q] = disk[p]]),
               placedBy' = [placedBy EXCEPT ![p] = Nobody, ![q] = SessionOf[a]]
        PROVE  Alters(a, {p, q})
    <3>1. call'[a].at # call[a].at
      BY <2>3, <2>6
    <3>2. \A r \in Paths \ {p, q} : disk'[r] = disk[r]
      BY <2>4, <2>6, Zenon DEF Changed
    <3>3. crossed' = crossed \cup {r \in Sessions \X {p, q} :
                       \E b \in AgentsOf(r[1]) \ {a} : r[2] \in UsedBy(b)}
      BY <2>6, Zenon DEF Changed
    <3>4. QED
      BY <2>5, <2>6, <3>1, <3>2, <3>3, Zenon DEF Alters
  <2>7. {p, q} \in SUBSET Paths
    BY <2>2
  <2>8. QED
    BY <2>1, <2>6, <2>7, Zenon
<1>6. ASSUME NEW a \in Agents, NEW e \in trash, TakeFromTrash(a, e)
      PROVE  \E ps \in SUBSET Paths : Alters(a, ps)
  <2>1. /\ call[a].op = "untrash" /\ End(a) /\ Placed({call[a].path}, Nobody)
        /\ Changed(a, {call[a].path}, [disk EXCEPT ![call[a].path] = e.file])
    BY <1>6, Zenon DEF TakeFromTrash
  <2>2. call[a].at # "idle" /\ call[a].path \in Paths
    BY <2>1, CallIs DEF CallTyped, IdleCall
  <2>3. call'[a].at # call[a].at
    BY <2>1, <2>2, GoesTo
  <2>4. \A p \in Paths \ {call[a].path} :
          [disk EXCEPT ![call[a].path] = e.file][p] = disk[p]
    BY DEF TypeOK
  <2>5. QED
    BY <2>1, <2>2, <2>3, <2>4, PlacedAlters
<1>7. ASSUME NEW a \in Agents, RestoreSnapshot(a)
      PROVE  \E ps \in SUBSET Paths : Alters(a, ps)
  <2> DEFINE ps == {p \in Paths : snapshot[1][p] # NoText}
  <2> DEFINE d == [p \in Paths |-> IF p \in ps THEN File(p, snapshot[1][p]) ELSE disk[p]]
  <2>1. call[a].at = "idle" /\ Placed(ps, Nobody) /\ Changed(a, ps, d)
    BY <1>7, Zenon DEF RestoreSnapshot
  <2>2. ps \in SUBSET Paths /\ \A p \in Paths \ ps : d[p] = disk[p]
    OBVIOUS
  <2> HIDE DEF ps, d
  <2>3. QED
    BY <2>1, <2>2, PlacedAlters
<1>8. ASSUME NEW p \in Paths, NEW f, PersonChanges(p, f)
      PROVE  Alters(Nobody, {p})
  <2>1. Placed({p}, Nobody) /\ Changed(Nobody, {p}, [disk EXCEPT ![p] = f])
    BY <1>8, Zenon DEF PersonChanges
  <2>2. \A q \in Paths \ {p} : [disk EXCEPT ![p] = f][q] = disk[q]
    BY DEF TypeOK
  <2>3. QED
    BY <2>1, <2>2, PlacedAlters, ConstantsAssumption
<1>9. ASSUME \/ \E p \in Paths : PersonEdits(p)
             \/ \E i \in DOMAIN checkpoints : RestoreCheckpoint(i)
      PROVE  \E p \in Paths : Alters(Nobody, {p})
  BY <1>8, <1>9, RowIs, Zenon DEF PersonEdits, RestoreCheckpoint
<1>10. ASSUME NEW a \in Agents, Copy(a)
       PROVE  \E ps \in SUBSET Paths : Alters(a, ps)
  <2> DEFINE q == call[a].to  d == [disk EXCEPT ![q] = File(q, disk[call[a].path].text)]
  <2>1. /\ call[a].at = "saved" /\ call[a].op = "move"
        /\ call' = [call EXCEPT ![a].at = "copied", ![a].text = disk[call[a].path].text]
        /\ Changed(a, {q}, d) /\ Placed({q}, SessionOf[a])
    BY <1>10, Zenon DEF Copy
  <2>2. q \in Paths /\ SessionOf[a] \in Sessions
    BY <2>1, CallIs DEF CallTyped
  <2>3. call'[a].at # call[a].at
    BY <2>1 DEF TypeOK, Calls
  <2>4. \A p \in Paths \ {q} : d[p] = disk[p]
    BY DEF TypeOK
  <2> HIDE DEF q, d
  <2>5. QED
    BY <2>1, <2>2, <2>3, <2>4, PlacedAlters
<1>11. ASSUME NEW a \in Agents, Unlink(a)
       PROVE  \/ UNCHANGED <<disk, crossed>> /\ placedBy' \in [Paths -> Sessions \cup {Nobody}]
              \/ \E ps \in SUBSET Paths : Alters(a, ps)
  <2> DEFINE p == call[a].path  q == call[a].to  d == [disk EXCEPT ![p] = Absent]
  <2>1. /\ call[a].at = "copied"
        /\ \/ End(a) /\ Placed({q}, Nobody) /\ UNCHANGED <<disk, crossed>>
           \/ Go(a, "settling") /\ Placed({p}, Nobody) /\ Changed(a, {p}, d)
    BY <1>11, Zenon DEF Unlink
  <2>2. p \in Paths /\ q \in Paths
    <3>1. call[a].op = "move"
      BY <2>1, CallIs DEF CallTyped, StepsOf, Writers, Removers
    <3>2. QED
      BY <2>1, <3>1, CallIs DEF CallTyped
  <2>3. call'[a].at # call[a].at
    BY <2>1, GoesTo
  <2>4. \A r \in Paths \ {p} : d[r] = disk[r]
    BY DEF TypeOK
  <2> HIDE DEF p, q, d
  <2>5. CASE Go(a, "settling") /\ Placed({p}, Nobody) /\ Changed(a, {p}, d)
    BY <2>2, <2>3, <2>4, <2>5, PlacedAlters
  <2>6. CASE Placed({q}, Nobody) /\ UNCHANGED <<disk, crossed>>
    <3>1. placedBy' \in [Paths -> Sessions \cup {Nobody}]
      BY <2>6 DEF TypeOK, Placed
    <3>2. QED
      BY <2>6, <3>1
  <2>7. QED
    BY <2>1, <2>5, <2>6
<1>12. UNCHANGED placedBy => placedBy' \in [Paths -> Sessions \cup {Nobody}]
  BY DEF TypeOK
<1>13. QED
  BY <1>1, <1>2, <1>3, <1>4, <1>5, <1>6, <1>7, <1>9, <1>10, <1>11, <1>12,
     CallFrame, StepFrame DEF Next

LEMMA HistoryStays ==
  ASSUME TypeOK, Next
  PROVE  /\ crossed' \subseteq Sessions \X Paths
         /\ placedBy' \in [Paths -> Sessions \cup {Nobody}]
<1>0. /\ crossed \subseteq Sessions \X Paths
      /\ placedBy \in [Paths -> Sessions \cup {Nobody}]
  BY DEF TypeOK
<1>1. ASSUME NEW x, NEW ps \in SUBSET Paths, Alters(x, ps)
      PROVE  /\ crossed' \subseteq Sessions \X Paths
             /\ placedBy' \in [Paths -> Sessions \cup {Nobody}]
  BY <1>0, <1>1 DEF Alters
<1>2. ASSUME NEW a \in Agents, ReadStamp(a)
      PROVE  crossed' \subseteq crossed /\ UNCHANGED placedBy
  BY <1>2 DEF ReadStamp
<1>3. CASE Crash
  BY <1>3 DEF Crash
<1>4. QED
  BY <1>0, <1>1, <1>2, <1>3, DiskSteps

(* A call that steps keeps what it is about.                                *)
LEMMA ComesTyped ==
  ASSUME TypeOK, NEW a \in Agents, NEW c \in Calls, CallTyped(c),
         call' = [call EXCEPT ![a] = c]
  PROVE  call' \in [Agents -> Calls] /\ \A b \in Agents : CallTyped(call'[b])
<1>1. call \in [Agents -> Calls] /\ \A b \in Agents : CallTyped(call[b])
  BY DEF TypeOK
<1>2. call'[a] = c /\ \A b \in Agents \ {a} : call'[b] = call[b]
  BY <1>1
<1>3. \A b \in Agents : CallTyped(call'[b])
  <2> TAKE b \in Agents
  <2>1. CASE b = a
    BY <1>2, <2>1
  <2>2. CASE b # a
    BY <1>1, <1>2, <2>2
  <2>3. QED
    BY <2>1, <2>2
<1>4. QED
  BY <1>1, <1>3

LEMMA EndTyped ==
  ASSUME TypeOK, NEW a \in Agents, End(a)
  PROVE  call' \in [Agents -> Calls] /\ \A b \in Agents : CallTyped(call'[b])
<1>1. IdleCall \in Calls /\ CallTyped(IdleCall)
  BY DEF IdleCall, Calls, CallTyped, Texts, Writers
<1>2. QED
  BY <1>1, ComesTyped DEF End

LEMMA StartTyped ==
  ASSUME TypeOK, NEW a \in Agents, NEW op \in OpKinds, NEW p \in Paths, NEW to,
         NEW text \in Texts, Start(a, op, p, to, text),
         op \in {"read", "write", "edit", "delete", "hard", "todo", "move", "untrash"},
         op \in Writers \cup {"todo"} => text # NoText,
         IF op = "move" THEN to \in Paths \ {p} ELSE to = "none"
  PROVE  call' \in [Agents -> Calls] /\ \A b \in Agents : CallTyped(call'[b])
<1> DEFINE c == [at |-> "checked", op |-> op, path |-> p, to |-> to,
                 prev |-> NoText, text |-> text]
<1>1. c \in Calls
  BY DEF Calls, Texts
<1>2. "checked" \in StepsOf(op)
  BY DEF StepsOf, Writers, Removers
<1>3. CallTyped(c)
  BY <1>2 DEF CallTyped
<1>4. call' = [call EXCEPT ![a] = c]
  BY DEF Start
<1>5. QED
  BY <1>1, <1>3, <1>4, ComesTyped

LEMMA GoTyped ==
  ASSUME TypeOK, NEW a \in Agents, NEW at \in StepsOf(call[a].op), Go(a, at),
         call[a].at # "idle", call[a].op \in Writers => call[a].at # "settling"
  PROVE  call' \in [Agents -> Calls] /\ \A b \in Agents : CallTyped(call'[b])
<1> DEFINE c == [call[a] EXCEPT !.at = at]
<1>1. call[a] \in Calls /\ CallTyped(call[a])
  BY CallIs
<1>2. at \in {"checked", "captured", "saved", "recorded", "put", "copied", "settling",
            "settled"}
  BY DEF StepsOf, Writers, Removers
<1>3. c \in Calls /\ c.at = at /\ c.op = call[a].op /\ c.path = call[a].path
      /\ c.to = call[a].to /\ c.text = call[a].text
  BY <1>1, <1>2 DEF Calls
<1>4. CallTyped(c)
  BY <1>1, <1>2, <1>3 DEF CallTyped
<1>5. call' = [call EXCEPT ![a] = c]
  BY DEF Go
<1>6. QED
  BY <1>3, <1>4, <1>5, ComesTyped

(* Where a call is says which tool it is in.                                *)
LEMMA WhereItIs ==
  ASSUME TypeOK, NEW a \in Agents
  PROVE  /\ call[a].at # "idle" => call[a].path \in Paths
         /\ call[a].op # "none" => call[a].at # "idle"
         /\ call[a].at \in {"captured", "recorded", "put"} => call[a].op \in Writers
         /\ call[a].at = "saved" => call[a].op \in Writers \cup Removers \cup {"todo", "move"}
         /\ call[a].at = "settling" => call[a].op \in Writers \cup {"move", "undo"}
         /\ call[a].at = "settled" => call[a].op = "undo"
         /\ call[a].at = "copied" => call[a].op = "move"
         /\ call[a].op = "move" => call[a].to \in Paths \ {call[a].path}
         /\ call[a].op # "move" => call[a].to = "none"
<1>1. CallTyped(call[a])
  BY CallIs
<1>2. call[a].at # "idle" => call[a].at \in StepsOf(call[a].op)
  BY <1>1 DEF CallTyped
<1>3. call[a].op # "none" => call[a].at # "idle"
  BY <1>1 DEF CallTyped, IdleCall
<1>4. QED
  BY <1>1, <1>2, <1>3 DEF StepsOf, CallTyped, Writers, Removers

LEMMA CallsStay ==
  ASSUME TypeOK, Next
  PROVE  call' \in [Agents -> Calls] /\ \A b \in Agents : CallTyped(call'[b])
<1> DEFINE Good == call' \in [Agents -> Calls] /\ \A b \in Agents : CallTyped(call'[b])
<1>1. CASE UNCHANGED call
  BY <1>1 DEF TypeOK
<1>2. CASE Crash
  <2>1. IdleCall \in Calls /\ CallTyped(IdleCall)
    BY DEF IdleCall, Calls, CallTyped, Texts, Writers
  <2>2. call' = [b \in Agents |-> IdleCall]
    BY <1>2 DEF Crash
  <2>3. QED
    BY <2>1, <2>2
<1>3. ASSUME NEW a \in Agents, NEW p \in Paths, ReadContent(a, p)
      PROVE  Good
  <2>1. disk[p] # Absent /\ Start(a, "read", p, "none", disk[p].text)
    BY <1>3, Zenon DEF ReadContent
  <2>2. disk[p].text \in Texts /\ "read" \in OpKinds
    BY <2>1 DEF TypeOK, Entries, OpKinds
  <2>3. QED
    BY <2>1, <2>2, StartTyped DEF Writers
<1>4. ASSUME NEW a \in Agents, NEW op, NEW p \in Paths, NEW to, Check(a, op, p, to),
             op \in {"write", "edit", "delete", "hard", "todo", "move"},
             IF op = "move" THEN to \in Paths \ {p} ELSE to = "none"
      PROVE  Good
  <2>1. Start(a, op, p, to, <<count.calls + 1>>) /\ count.calls < MaxCalls
    BY <1>4, Zenon DEF Check, Start, Begins
  <2>2. <<count.calls + 1>> \in Texts \ {NoText} /\ op \in OpKinds
    BY <1>4, <2>1, NextText DEF OpKinds
  <2>3. QED
    BY <1>4, <2>1, <2>2, StartTyped
<1>5. ASSUME NEW a \in Agents, NEW e \in trash, FindInTrash(a, e)
      PROVE  Good
  <2>1. Start(a, "untrash", e.from, "none", e.file.text)
    BY <1>5, Zenon DEF FindInTrash
  <2>2. e.from \in Paths /\ e.file.text \in Texts /\ "untrash" \in OpKinds
    BY DEF TypeOK, Entries, OpKinds
  <2>3. QED
    BY <2>1, <2>2, StartTyped DEF Writers
<1>6. ASSUME NEW a \in Agents, NEW i \in DOMAIN undo, PickUndo(a, i)
      PROVE  Good
  <2> DEFINE c == [at |-> "checked", op |-> "undo", path |-> undo[i].path, to |-> "none",
                   prev |-> undo[i].id, text |-> undo[i].was]
  <2>1. call' = [call EXCEPT ![a] = c]
    BY <1>6, Zenon DEF PickUndo
  <2>2. undo[i].path \in Paths /\ undo[i].id \in Texts /\ undo[i].was \in Texts
    BY UndoRowIs
  <2>3. c \in Calls /\ CallTyped(c)
    BY <2>2 DEF Calls, CallTyped, StepsOf, OpKinds, Writers, Removers
  <2> HIDE DEF c
  <2>4. QED
    BY <2>1, <2>3, ComesTyped
<1>7. ASSUME NEW a \in Agents, ToolCall(a)
      PROVE  Good
  <2>1. ASSUME NEW p \in Paths, NEW op \in {"write", "edit", "delete", "hard", "todo"},
               Check(a, op, p, "none")
        PROVE  Good
    BY <1>4, <2>1
  <2>2. ASSUME NEW p \in Paths, NEW q \in Paths \ {p}, Check(a, "move", p, q)
        PROVE  Good
    BY <1>4, <2>2
  <2>3. CASE TakeSnapshot(a) \/ RestoreSnapshot(a)
    BY <1>1, <2>3 DEF TakeSnapshot, RestoreSnapshot
  <2> HIDE DEF Good
  <2>4. QED
    BY <1>3, <1>5, <1>6, <1>7, <2>1, <2>2, <2>3, Zenon DEF ToolCall
<1>8. ASSUME NEW a \in Agents, Capture(a)
      PROVE  Good
  <2>1. /\ call[a].at = "checked" /\ call[a].op \in Writers
        /\ \/ call' = [call EXCEPT ![a].at = "captured", ![a].prev = TextAt(call[a].path)]
           \/ End(a)
    BY <1>8, Zenon DEF Capture, Writers
  <2>2. CASE End(a)
    BY <2>2, EndTyped
  <2>3. CASE call' = [call EXCEPT ![a].at = "captured", ![a].prev = TextAt(call[a].path)]
    <3> DEFINE c == [call[a] EXCEPT !.at = "captured", !.prev = TextAt(call[a].path)]
    <3>1. call[a].path \in Paths /\ call[a] \in Calls /\ CallTyped(call[a])
      BY <2>1, CallIs, WhereItIs
    <3>2. c \in Calls /\ c.at = "captured" /\ c.op = call[a].op
          /\ c.path = call[a].path /\ c.to = call[a].to /\ c.text = call[a].text
      BY <3>1, TextTyped DEF Calls
    <3>3. "captured" \in StepsOf(call[a].op)
      BY <2>1 DEF StepsOf, Writers, Removers
    <3>4. CallTyped(c)
      BY <2>1, <3>1, <3>2, <3>3 DEF CallTyped, Writers
    <3>5. call' = [call EXCEPT ![a] = c]
      BY <2>3, <3>1 DEF TypeOK, Calls
    <3> HIDE DEF c
    <3>6. QED
      BY <3>2, <3>4, <3>5, ComesTyped
  <2>4. QED
    BY <2>1, <2>2, <2>3
<1>9. ASSUME NEW a \in Agents, Reject(a)
      PROVE  Good
  <2>1. /\ call[a].at = "put" /\ call[a].op \in Writers
        /\ call' = [call EXCEPT ![a].at = "settling", ![a].text = call[a].prev]
    BY <1>9, Zenon DEF Reject, Writers
  <2> DEFINE c == [call[a] EXCEPT !.at = "settling", !.text = call[a].prev]
  <2>2. call[a] \in Calls /\ CallTyped(call[a]) /\ call[a].prev \in Texts
    BY CallIs
  <2>3. c \in Calls /\ c.at = "settling" /\ c.op = call[a].op
        /\ c.path = call[a].path /\ c.to = call[a].to
    BY <2>2 DEF Calls
  <2>4. CallTyped(c)
    BY <2>1, <2>2, <2>3 DEF CallTyped, StepsOf, Writers
  <2>5. call' = [call EXCEPT ![a] = c]
    BY <2>1, <2>2 DEF TypeOK, Calls
  <2> HIDE DEF c
  <2>6. QED
    BY <2>3, <2>4, <2>5, ComesTyped
<1>10. ASSUME NEW a \in Agents, Move(a) \/ Copy(a)
       PROVE  Good
  <2>1. /\ call[a].at = "saved" /\ call[a].op = "move"
        /\ \/ End(a)
           \/ /\ disk[call[a].path] # Absent
              /\ \E at \in {"settling", "copied"} :
                   call' = [call EXCEPT ![a].at = at,
                                        ![a].text = disk[call[a].path].text]
    BY <1>10, Zenon DEF Move, Copy
  <2>2. CASE End(a)
    BY <2>2, EndTyped
  <2>3. ASSUME disk[call[a].path] # Absent, NEW at \in {"settling", "copied"},
               call' = [call EXCEPT ![a].at = at,
                                    ![a].text = disk[call[a].path].text]
        PROVE  Good
    <3> DEFINE c == [call[a] EXCEPT !.at = at, !.text = disk[call[a].path].text]
    <3>1. call[a].path \in Paths /\ call[a] \in Calls /\ CallTyped(call[a])
      BY <2>1, CallIs, WhereItIs
    <3>2. disk[call[a].path].text \in Texts
      BY <2>3, <3>1 DEF TypeOK, Entries
    <3>3. c \in Calls /\ c.at = at /\ c.op = call[a].op
          /\ c.path = call[a].path /\ c.to = call[a].to
      BY <3>1, <3>2 DEF Calls
    <3>4. at \in StepsOf(call[a].op)
      BY <2>1 DEF StepsOf, Writers, Removers
    <3>5. CallTyped(c)
      BY <2>1, <3>1, <3>3, <3>4 DEF CallTyped, Writers
    <3>6. call' = [call EXCEPT ![a] = c]
      BY <2>3, <3>1 DEF TypeOK, Calls
    <3> HIDE DEF c
    <3>7. QED
      BY <3>3, <3>5, <3>6, ComesTyped
  <2>4. QED
    BY <2>1, <2>2, <2>3
<1>11. ASSUME NEW a \in Agents, Save(a) \/ Record(a)
       PROVE  Good
  <2>1. \/ Go(a, "saved") /\ call[a].at \in {"captured", "checked"}
           /\ call[a].op \in {"write", "edit", "delete", "hard", "move", "todo"}
        \/ Go(a, "recorded") /\ call[a].at = "saved" /\ call[a].op \in Writers
    BY <1>11, Zenon DEF Save, Record, NeedsCapture, Writers
  <2>2. CASE Go(a, "saved") /\ call[a].at \in {"captured", "checked"}
             /\ call[a].op \in {"write", "edit", "delete", "hard", "move", "todo"}
    <3>1. "saved" \in StepsOf(call[a].op)
      BY <2>2 DEF StepsOf, Writers, Removers
    <3>2. QED
      BY <2>2, <3>1, GoTyped
  <2>3. CASE Go(a, "recorded") /\ call[a].at = "saved" /\ call[a].op \in Writers
    <3>1. "recorded" \in StepsOf(call[a].op)
      BY <2>3 DEF StepsOf, Writers, Removers
    <3>2. QED
      BY <2>3, <3>1, GoTyped
  <2>4. QED
    BY <2>1, <2>2, <2>3
<1>12. ASSUME NEW a \in Agents, Put(a)
       PROVE  Good
  <2>1. End(a) \/ (Go(a, "put") /\ call[a].at = "recorded")
    BY <1>12, Zenon DEF Put
  <2>2. CASE Go(a, "put") /\ call[a].at = "recorded"
    <3>1. "put" \in StepsOf(call[a].op)
      BY <2>2, WhereItIs DEF StepsOf, Writers, Removers
    <3>2. QED
      BY <2>2, <3>1, GoTyped
  <2>3. QED
    BY <2>1, <2>2, EndTyped
<1>13. ASSUME NEW a \in Agents, Accept(a) \/ ApplyUndo(a) \/ Unlink(a)
       PROVE  Good
  <2>1. \/ End(a)
        \/ /\ Go(a, "settling") /\ call[a].at \in {"put", "checked", "copied"}
           /\ call[a].op \in {"write", "edit", "undo"} \/ call[a].at = "copied"
    BY <1>13, Zenon DEF Accept, ApplyUndo, Unlink
  <2>2. CASE /\ Go(a, "settling") /\ call[a].at \in {"put", "checked", "copied"}
             /\ call[a].op \in {"write", "edit", "undo"} \/ call[a].at = "copied"
    <3>1. "settling" \in StepsOf(call[a].op)
      BY <2>2, WhereItIs DEF StepsOf, Writers, Removers
    <3>2. QED
      BY <2>2, <3>1, GoTyped
  <2>3. QED
    BY <2>1, <2>2, EndTyped
<1>14. ASSUME NEW a \in Agents, Settle(a)
       PROVE  Good
  <2>1. call[a].at = "settling" /\ (End(a) \/ (Go(a, "settled") /\ call[a].op = "undo"))
    BY <1>14, Zenon DEF Settle
  <2>2. CASE Go(a, "settled") /\ call[a].op = "undo"
    <3>1. "settled" \in StepsOf(call[a].op) /\ call[a].op \notin Writers
      BY <2>2 DEF StepsOf, Writers, Removers
    <3>2. QED
      BY <2>1, <2>2, <3>1, GoTyped
  <2>3. QED
    BY <2>1, <2>2, EndTyped
<1>15. ASSUME NEW a \in Agents, ToolStep(a)
       PROVE  Good
  <2>1. CASE ReadStamp(a) \/ Remove(a) \/ TrashIsGone(a) \/ FinishUndo(a)
             \/ \E e \in trash : TakeFromTrash(a, e)
    <3>1. End(a)
      BY <2>1, Zenon DEF ReadStamp, Remove, TrashIsGone, FinishUndo, TakeFromTrash
    <3>2. QED
      BY <3>1, EndTyped
  <2> HIDE DEF Good
  <2>2. QED
    BY <1>8, <1>9, <1>10, <1>11, <1>12, <1>13, <1>14, <1>15, <2>1, Zenon DEF ToolStep
<1>16. QED
  <2>1. UNCHANGED call \/ Crash \/ \E a \in Agents : ToolCall(a) \/ ToolStep(a)
    BY OutsideFrame DEF Next
  <2> HIDE DEF Good
  <2>2. Good
    BY <1>1, <1>2, <1>7, <1>15, <2>1 DEF Good
  <2>3. QED
    BY <2>2 DEF Good

(* Every variable has its type, no file is without a text, and a call is at *)
(* a step of its tool, whatever happens.                                    *)
LEMMA InitTyped == Init => TypeOK
<1>1. NoText \in Texts
  BY DEF Texts
<1>2. \A p \in Paths : [text |-> <<0, p>>, stamp |-> <<0, p>>] \in Entries(0)
  BY DEF Entries, Stamps, Texts, NoText
<1>3. IdleCall \in Calls /\ CallTyped(IdleCall)
  BY DEF IdleCall, Calls, CallTyped, Texts, Writers
<1>4. Init => count = [calls |-> 0, changes |-> 0] /\ count \in [calls : 0 .. MaxCalls, changes : Nat]
             /\ count.changes = 0
  BY ConstantsAssumption DEF Init
<1>5. Init => disk \in [Paths -> Entries(count.changes) \cup {Absent}]
  BY <1>2, <1>4 DEF Init
<1>6. Init => /\ trash = {} /\ undo = <<>> /\ snapshot = <<>> /\ checkpoints = <<>>
              /\ seen \in [Sessions -> [Paths -> Stamps(count.changes) \cup {NoStamp}]]
              /\ known \in [Sessions -> [Paths -> Texts]]
              /\ crossed = {} /\ placedBy \in [Paths -> Sessions \cup {Nobody}]
  BY <1>1 DEF Init
<1>7. Init => call \in [Agents -> Calls] /\ \A a \in Agents : CallTyped(call[a])
  BY <1>3 DEF Init
<1>8. QED
  BY <1>4, <1>5, <1>6, <1>7 DEF TypeOK

LEMMA StepTyped == TypeOK /\ [Next]_vars => TypeOK'
<1>1. TypeOK /\ UNCHANGED vars => TypeOK'
  BY DEF TypeOK, vars
<1>2. ASSUME TypeOK, Next PROVE TypeOK'
  BY <1>2, CountStays, DiskStays, TrashStays, RowsStay, ReadsStay, HistoryStays,
     CallsStay DEF TypeOK, UndoRows
<1>3. QED
  BY <1>1, <1>2

THEOREM TypeCorrect == Spec => []TypeOK
BY InitTyped, StepTyped, PTL DEF Spec

-----------------------------------------------------------------------------
(* What the guard rests on: equal stamps tell equal texts; what a session   *)
(* has a stamp of it knows; a call keeps what its checks have found; and a  *)
(* file that a session's tool has put there is stamped, or will be.  Each   *)
(* but for what is changed by another during the session's own calls.       *)

StampsTell ==
  \A f, g \in Around : f.stamp = g.stamp => f.text = g.text

Knows(s, p) ==
  disk[p] # Absent => disk[p].text = known[s][p] \/ <<s, p>> \in crossed
SeenIsKnown ==
  \A s \in Sessions, p \in Paths, f \in Around :
    seen[s][p] = f.stamp => f.text = known[s][p] \/ <<s, p>> \in crossed

Holds(a, p) ==
  disk[p] # Absent =>
    disk[p].text = call[a].text \/ <<SessionOf[a], p>> \in crossed
Saves(a, p) ==
  disk[p] # Absent =>
    \/ \E i \in DOMAIN checkpoints :
         checkpoints[i].path = p /\ checkpoints[i].was = disk[p].text
    \/ <<SessionOf[a], p>> \in crossed
Records(a, p) ==
  disk[p] # Absent =>
    \/ \E i \in DOMAIN undo : undo[i].path = p /\ undo[i].was = disk[p].text
    \/ <<SessionOf[a], p>> \in crossed

KnowsFirst(a) ==
  /\ call[a].op \in Writers /\ call[a].at \in {"checked", "captured", "saved", "recorded"}
       => Knows(SessionOf[a], call[a].path)
  /\ call[a].op = "move" /\ call[a].at \in {"checked", "saved"}
       => Knows(SessionOf[a], call[a].to)
SavesFirst(a) ==
  a \in Chats /\ call[a].op # "move" /\ call[a].at \in {"saved", "recorded"}
    => Saves(a, call[a].path)
RecordsFirst(a) == call[a].at = "recorded" => Records(a, call[a].path)
HoldsWhatItTells(a) ==
  call[a].op = "read" \/ call[a].at \in {"put", "copied", "settling"}
    => Holds(a, Target(a))
Fine(a) ==
  KnowsFirst(a) /\ SavesFirst(a) /\ RecordsFirst(a) /\ HoldsWhatItTells(a)
CallsKnow == \A a \in Agents : Fine(a)

Owes(a, p) == call[a].at \in {"put", "copied", "settling"} /\ p = Target(a)
PlacedIsSeen ==
  \A s \in Sessions, p \in Paths :
    placedBy[p] = s => ~Blocked(s, p) \/ \E a \in AgentsOf(s) : Owes(a, p)

-----------------------------------------------------------------------------
(* What steps of others leave to a call.                                    *)

LEMMA RemovedKeeps ==
  ASSUME NEW S, NEW rows \in Seq(S), NEW i \in DOMAIN rows,
         NEW j \in DOMAIN rows, j # i
  PROVE  \E k \in DOMAIN Rows!RemoveAt(rows, i) : Rows!RemoveAt(rows, i)[k] = rows[j]
<1> DEFINE before == SubSeq(rows, 1, i - 1)  after == SubSeq(rows, i + 1, Len(rows))
<1>1. /\ Len(rows) \in Nat /\ DOMAIN rows = 1 .. Len(rows)
      /\ i \in 1 .. Len(rows) /\ j \in 1 .. Len(rows)
      /\ \A k \in 1 .. Len(rows) : rows[k] \in S
  BY LenProperties
<1>2. /\ before \in Seq(S) /\ Len(before) = i - 1
      /\ \A k \in 1 .. i - 1 : before[k] = rows[k]
  BY <1>1, SubSeqProperties
<1>3. /\ after \in Seq(S) /\ Len(after) = Len(rows) - i
      /\ \A k \in 1 .. Len(rows) - i : after[k] = rows[i + k]
  BY <1>1, SubSeqProperties
<1>4. Rows!RemoveAt(rows, i) = before \o after
  BY DEF Rows!RemoveAt
<1> HIDE DEF before, after
<1>5. /\ Len(before \o after) = (i - 1) + (Len(rows) - i)
      /\ DOMAIN (before \o after) = 1 .. Len(before \o after)
      /\ \A k \in 1 .. (i - 1) + (Len(rows) - i) :
           (before \o after)[k] = IF k <= i - 1 THEN before[k] ELSE after[k - (i - 1)]
  <2>1. /\ before \o after \in Seq(S)
        /\ Len(before \o after) = Len(before) + Len(after)
        /\ \A k \in 1 .. Len(before) + Len(after) :
             (before \o after)[k] = IF k <= Len(before) THEN before[k]
                                   ELSE after[k - Len(before)]
    BY <1>2, <1>3, ConcatProperties
  <2>2. DOMAIN (before \o after) = 1 .. Len(before \o after)
    BY <2>1, LenProperties
  <2>3. QED
    BY <1>2, <1>3, <2>1, <2>2
<1>6. CASE j < i
  <2>1. j \in DOMAIN (before \o after) /\ (before \o after)[j] = rows[j]
    BY <1>1, <1>2, <1>5, <1>6
  <2>2. QED
    BY <1>4, <2>1
<1>7. CASE j > i
  <2>1. /\ j - 1 \in 1 .. (i - 1) + (Len(rows) - i) /\ ~(j - 1 <= i - 1)
        /\ (j - 1) - (i - 1) = j - i /\ j - i \in 1 .. Len(rows) - i /\ i + (j - i) = j
    BY <1>1, <1>7
  <2>2. (before \o after)[j - 1] = after[j - i] /\ j - 1 \in DOMAIN (before \o after)
    BY <1>5, <2>1
  <2>3. after[j - i] = rows[j]
    BY <1>3, <2>1
  <2>4. QED
    BY <1>4, <2>2, <2>3
<1>8. QED
  BY <1>1, <1>6, <1>7

LEMMA ChangesAreCrossed ==
  ASSUME TypeOK, Next, NEW a \in Agents, call[a].at # "idle", call'[a] = call[a],
         NEW p \in Paths, p \in UsedBy(a)
  PROVE  /\ disk'[p] # disk[p] => <<SessionOf[a], p>> \in crossed'
         /\ <<SessionOf[a], p>> \in crossed => <<SessionOf[a], p>> \in crossed'
         /\ ~Crash
<1>1. ~Crash
  BY DEF Crash, TypeOK, IdleCall
<1>2. ASSUME NEW x \in Agents \cup {Nobody}, NEW ps \in SUBSET Paths, Alters(x, ps)
      PROVE  /\ disk'[p] # disk[p] => <<SessionOf[a], p>> \in crossed'
             /\ crossed \subseteq crossed'
  <2>1. a # x
    BY <1>2, ConstantsAssumption DEF Alters
  <2>2. a \in AgentsOf(SessionOf[a]) \ {x} /\ SessionOf[a] \in Sessions
    BY <2>1, CallIs DEF AgentsOf
  <2>3. CASE p \in ps
    BY <1>2, <2>2, <2>3 DEF Alters
  <2>4. CASE p \notin ps
    BY <1>2, <2>4 DEF Alters
  <2>5. QED
    BY <2>3, <2>4
<1>3. ASSUME NEW b \in Agents, ReadStamp(b)
      PROVE  /\ UNCHANGED disk
             /\ <<SessionOf[a], p>> \in crossed => <<SessionOf[a], p>> \in crossed'
  <2>1. UNCHANGED disk /\ End(b)
        /\ \/ UNCHANGED crossed
           \/ /\ crossed' = crossed \ {<<SessionOf[b], call[b].path>>}
              /\ \A c \in AgentsOf(SessionOf[b]) \ {b} : call[b].path \notin UsedBy(c)
    BY <1>3, Zenon DEF ReadStamp
  <2>2. a # b
    BY <2>1, GoesTo
  <2>3. a \in AgentsOf(SessionOf[a]) \ {b}
    BY <2>2 DEF AgentsOf
  <2>4. QED
    BY <2>1, <2>3
<1>4. QED
  BY <1>1, <1>2, <1>3, DiskSteps

LEMMA RowsAreKept ==
  ASSUME TypeOK, Next, NEW a \in Agents, call[a].at # "idle", call'[a] = call[a],
         NEW p \in Paths, p \in UsedBy(a), NEW text,
         \E i \in DOMAIN checkpoints : checkpoints[i].path = p /\ checkpoints[i].was = text
  PROVE  \/ \E i \in DOMAIN checkpoints' :
              checkpoints'[i].path = p /\ checkpoints'[i].was = text
         \/ <<SessionOf[a], p>> \in crossed'
<1>1. checkpoints \in Seq([path : Paths, was : Texts])
  BY DEF TypeOK
<1>2. PICK j \in DOMAIN checkpoints : checkpoints[j].path = p /\ checkpoints[j].was = text
  OBVIOUS
<1>3. CASE UNCHANGED checkpoints
  BY <1>3
<1>4. ASSUME NEW row \in [path : Paths, was : Texts], checkpoints' = Append(checkpoints, row)
      PROVE  j \in DOMAIN checkpoints' /\ checkpoints'[j] = checkpoints[j]
  BY <1>1, <1>4
<1>5. ASSUME NEW b \in Agents, Save(b)
      PROVE  j \in DOMAIN checkpoints' /\ checkpoints'[j] = checkpoints[j]
  <2>1. call[b].at \in {"captured", "checked"}
        /\ \/ UNCHANGED checkpoints
           \/ checkpoints' = Append(checkpoints, [path |-> call[b].path,
                                                 was |-> TextAt(call[b].path)])
    BY <1>5, Zenon DEF Save
  <2>2. call[b].path \in Paths
    BY <2>1, WhereItIs
  <2>3. QED
    BY <1>4, <2>1, <2>2, TextTyped
<1>6. ASSUME NEW i \in DOMAIN checkpoints, RestoreCheckpoint(i)
      PROVE  \/ \E k \in DOMAIN checkpoints' : checkpoints'[k] = checkpoints[j]
             \/ <<SessionOf[a], p>> \in crossed'
  <2>1. /\ checkpoints' = Rows!RemoveAt(checkpoints, i)
        /\ PersonChanges(checkpoints[i].path, Back(checkpoints[i].path, checkpoints[i].was))
    BY <1>6 DEF RestoreCheckpoint
  <2>2. CASE i = j
    <3>1. crossed' = crossed \cup {r \in Sessions \X {p} :
                       \E b \in AgentsOf(r[1]) \ {Nobody} : r[2] \in UsedBy(b)}
      BY <1>2, <2>1, <2>2, Zenon DEF PersonChanges, Changed
    <3>2. a \in AgentsOf(SessionOf[a]) \ {Nobody} /\ SessionOf[a] \in Sessions
      BY ConstantsAssumption DEF AgentsOf
    <3>3. QED
      BY <3>1, <3>2
  <2>3. CASE i # j
    BY <1>1, <2>1, <2>3, RemovedKeeps
  <2>4. QED
    BY <2>2, <2>3
<1>7. \/ UNCHANGED checkpoints \/ \E b \in Agents : Save(b)
      \/ \E i \in DOMAIN checkpoints : RestoreCheckpoint(i)
  BY CallFrame, StepFrame, CrashFrame DEF Next, PersonEdits
<1>8. QED
  BY <1>2, <1>3, <1>5, <1>6, <1>7

(* No record is taken off the undo stack: undo_last marks those it has done. *)
LEMMA UndoIsKept ==
  ASSUME TypeOK, Next, NEW i \in DOMAIN undo
  PROVE  /\ i \in DOMAIN undo'
         /\ undo'[i].path = undo[i].path /\ undo'[i].was = undo[i].was
<1>1. undo \in Seq(UndoRows) /\ undo[i] \in UndoRows
  BY UndoRowIs DEF TypeOK, UndoRows
<1>2. ASSUME NEW b \in Agents, Record(b)
      PROVE  i \in DOMAIN undo' /\ undo'[i] = undo[i]
  <2> DEFINE row == [id |-> call[b].text, path |-> call[b].path,
                     was |-> TextAt(call[b].path), done |-> FALSE]
  <2>1. call[b].at = "saved" /\ undo' = Append(undo, row)
    BY <1>2, Zenon DEF Record
  <2>2. row \in UndoRows
    BY <2>1, CallIs, WhereItIs, TextTyped DEF UndoRows
  <2> HIDE DEF row
  <2>3. QED
    BY <1>1, <2>1, <2>2
<1>3. ASSUME NEW b \in Agents, FinishUndo(b)
      PROVE  /\ i \in DOMAIN undo'
             /\ undo'[i].path = undo[i].path /\ undo'[i].was = undo[i].was
  <2>1. undo' = [j \in DOMAIN undo |->
                  [undo[j] EXCEPT !.done = @ \/ undo[j].id = call[b].prev]]
    BY <1>3, Zenon DEF FinishUndo
  <2>2. QED
    BY <1>1, <2>1 DEF UndoRows
<1>4. UNCHANGED undo \/ \E b \in Agents : Record(b) \/ FinishUndo(b)
  BY CallFrame, StepFrame, OutsideFrame, CrashFrame DEF Next
<1>5. QED
  BY <1>2, <1>3, <1>4

LEMMA RecordIsTold ==
  ASSUME TypeOK, CallsKnow, Next, NEW a \in Agents, call[a].at # "idle",
         call'[a] = call[a], NEW p \in Paths, p \in UsedBy(a),
         known'[SessionOf[a]][p] # known[SessionOf[a]][p]
  PROVE  \/ disk'[p] # Absent /\ disk'[p].text = known'[SessionOf[a]][p]
         \/ <<SessionOf[a], p>> \in crossed'
<1>1. PICK b \in Agents : Marks(b) /\ Target(b) \in Paths
  BY RecordSteps, ChangesAreCrossed
<1>2. /\ disk[Target(b)] # Absent
      /\ known' = [known EXCEPT ![SessionOf[b]][Target(b)] = call[b].text]
      /\ call[b].op = "read" \/ call[b].at = "settling"
      /\ UNCHANGED disk
  <2>1. Mark(SessionOf[b], Target(b), call[b].text) /\ UNCHANGED disk
        /\ (call[b].op = "read" \/ call[b].at = "settling")
    BY <1>1, Zenon DEF Marks, ReadStamp, Settle
  <2>2. QED
    BY <2>1, Zenon DEF Mark
<1>3. SessionOf[b] = SessionOf[a] /\ Target(b) = p
      /\ known'[SessionOf[a]][p] = call[b].text
  <2>1. SessionOf[b] \in Sessions /\ SessionOf[a] \in Sessions /\ Target(b) \in Paths
    BY <1>1, CallIs
  <2>2. known \in [Sessions -> [Paths -> Texts]]
    BY DEF TypeOK
  <2> DEFINE s == SessionOf[b]  q == Target(b)  t == call[b].text  r == SessionOf[a]
  <2>3. /\ known' = [known EXCEPT ![s][q] = t] /\ s \in Sessions /\ r \in Sessions
        /\ q \in Paths /\ known'[r][p] # known[r][p]
    BY <1>2, <2>1
  <2> HIDE DEF s, q, t, r
  <2>4. s = r /\ q = p /\ known'[r][p] = t
    BY <2>2, <2>3
  <2>5. QED
    BY <2>4 DEF s, q, t, r
<1>4. Holds(b, p)
  BY <1>2, <1>3 DEF CallsKnow, Fine, HoldsWhatItTells
<1>5. QED
  BY <1>2, <1>3, <1>4, ChangesAreCrossed DEF Holds

-----------------------------------------------------------------------------
(* The stamps, and the record of reads.                                     *)

LEMMA AroundGrows ==
  ASSUME TypeOK, Next, NEW f \in Around'
  PROVE  \/ f \in Around
         \/ \E q \in Paths : f = disk'[q] /\ f.stamp = <<count.changes + 1, q>>
<1>1. ASSUME NEW q \in Paths, f = disk'[q], f # Absent
      PROVE  f \in Around \/ f.stamp = <<count.changes + 1, q>>
  <2>1. disk'[q] \in Around \cup {Absent} \/ New(q, disk'[q])
    BY DiskBecomes DEF Became
  <2>2. CASE New(q, disk'[q])
    BY <1>1, <2>2 DEF New, File
  <2>3. QED
    BY <1>1, <2>1, <2>2
<1>2. ASSUME NEW e \in trash', f = e.file
      PROVE  f \in Around
  <2>1. CASE e \in trash
    BY <1>2, <2>1 DEF Around
  <2>2. ASSUME NEW a \in Agents, Remove(a), e \notin trash
        PROVE  f \in Around
    <3>1. call[a].at = "saved" /\ disk[call[a].path] # Absent
          /\ e = [from |-> call[a].path, file |-> disk[call[a].path]]
      BY <2>2 DEF Remove
    <3>2. call[a].path \in Paths
      BY <3>1, WhereItIs
    <3>3. QED
      BY <1>2, <3>1, <3>2 DEF Around
  <2>3. ASSUME NEW a \in Agents, NEW x \in trash, TakeFromTrash(a, x)
        PROVE  trash' \subseteq trash
    BY <2>3 DEF TakeFromTrash
  <2>4. QED
    BY <1>2, <2>1, <2>2, <2>3, CallFrame, StepFrame, OutsideFrame, CrashFrame DEF Next
<1>3. QED
  BY <1>1, <1>2 DEF Around

LEMMA StampsStay ==
  ASSUME TypeOK, StampsTell, Next
  PROVE  StampsTell'
<1> SUFFICES ASSUME NEW f \in Around', NEW g \in Around', f.stamp = g.stamp
             PROVE  f.text = g.text
  BY DEF StampsTell
<1>1. count.changes \in Nat /\ \A q : <<count.changes + 1, q>> \notin Stamps(count.changes)
  BY DEF TypeOK, Stamps
<1>2. CASE f \in Around /\ g \in Around
  BY <1>2 DEF StampsTell
<1>3. \A x \in {f, g} : x \in Around => x.stamp \in Stamps(count.changes)
  BY AroundTyped
<1>4. \A x \in {f, g} : x \in Around \/ \E q \in Paths : x = disk'[q] /\ x.stamp = <<count.changes + 1, q>>
  BY AroundGrows
<1>5. CASE f \notin Around /\ g \notin Around
  BY <1>4, <1>5
<1>6. QED
  BY <1>1, <1>2, <1>3, <1>4, <1>5

(* Nobody takes a session's mark of a crossed change but its own reading.   *)
LEMMA CrossedStays ==
  ASSUME TypeOK, Next, NEW s \in Sessions, NEW p \in Paths, <<s, p>> \in crossed,
         <<s, p>> \notin crossed'
  PROVE  \/ Crash
         \/ \E a \in Agents : /\ ReadStamp(a) /\ SessionOf[a] = s /\ call[a].path = p
                              /\ disk[p] # Absent /\ disk[p].text = call[a].text
<1>1. ASSUME NEW x, NEW ps, Alters(x, ps) PROVE FALSE
  BY <1>1 DEF Alters
<1>2. ASSUME NEW a \in Agents, ReadStamp(a)
      PROVE  /\ SessionOf[a] = s /\ call[a].path = p
             /\ disk[p] # Absent /\ disk[p].text = call[a].text
  <2>1. \/ UNCHANGED crossed
        \/ /\ crossed' = crossed \ {<<SessionOf[a], call[a].path>>}
           /\ disk[call[a].path] # Absent /\ disk[call[a].path].text = call[a].text
    BY <1>2, Zenon DEF ReadStamp
  <2>2. QED
    BY <2>1
<1>3. QED
  BY <1>1, <1>2, DiskSteps

LEMMA MarksTell ==
  ASSUME TypeOK, NEW a \in Agents, Marks(a), Target(a) \in Paths
  PROVE  /\ UNCHANGED <<disk, trash>>
         /\ \/ UNCHANGED <<seen, known>> /\ disk[Target(a)] = Absent
            \/ /\ disk[Target(a)] # Absent
               /\ \A s \in Sessions, p \in Paths :
                    IF s = SessionOf[a] /\ p = Target(a)
                    THEN seen'[s][p] = disk[p].stamp /\ known'[s][p] = call[a].text
                    ELSE seen'[s][p] = seen[s][p] /\ known'[s][p] = known[s][p]
<1>1. UNCHANGED <<disk, trash>> /\ Mark(SessionOf[a], Target(a), call[a].text)
  BY Zenon DEF Marks, ReadStamp, Settle
<1> DEFINE s0 == SessionOf[a]  p0 == Target(a)  t == call[a].text  f == disk[p0]
<1>2. \/ UNCHANGED <<seen, known>> /\ f = Absent
      \/ /\ f # Absent /\ seen' = [seen EXCEPT ![s0][p0] = f.stamp]
         /\ known' = [known EXCEPT ![s0][p0] = t]
  BY <1>1, Zenon DEF Mark
<1>3. /\ s0 \in Sessions /\ p0 \in Paths
      /\ seen \in [Sessions -> [Paths -> Stamps(count.changes) \cup {NoStamp}]]
      /\ known \in [Sessions -> [Paths -> Texts]]
  BY CallIs DEF TypeOK
<1> HIDE DEF s0, p0, t
<1>4. ASSUME f # Absent, seen' = [seen EXCEPT ![s0][p0] = f.stamp],
             known' = [known EXCEPT ![s0][p0] = t],
             NEW s \in Sessions, NEW p \in Paths
      PROVE  IF s = s0 /\ p = p0
             THEN seen'[s][p] = disk[p].stamp /\ known'[s][p] = t
             ELSE seen'[s][p] = seen[s][p] /\ known'[s][p] = known[s][p]
  BY <1>3, <1>4
<1>5. \/ UNCHANGED <<seen, known>> /\ f = Absent
      \/ /\ f # Absent
         /\ \A s \in Sessions, p \in Paths :
              IF s = s0 /\ p = p0
              THEN seen'[s][p] = disk[p].stamp /\ known'[s][p] = t
              ELSE seen'[s][p] = seen[s][p] /\ known'[s][p] = known[s][p]
  BY <1>2, <1>4
<1>6. QED
  BY <1>1, <1>5 DEF s0, p0, t

LEMMA StampsAreNotNone ==
  ASSUME NEW n, NEW stamp \in Stamps(n)
  PROVE  stamp # NoStamp
<1>1. PICK m \in 0 .. n, p \in Paths : stamp = <<m, p>>
  BY DEF Stamps
<1>2. QED
  BY <1>1 DEF NoStamp

LEMMA SeenStays ==
  ASSUME TypeOK, StampsTell, SeenIsKnown, CallsKnow, Next
  PROVE  SeenIsKnown'
<1>1. CASE Crash
  <2>1. \A s \in Sessions, p \in Paths : seen'[s][p] = NoStamp
    BY <1>1 DEF Crash
  <2>2. \A f \in Around' : f.stamp # NoStamp
    <3>1. UNCHANGED <<disk, trash>>
      BY <1>1, CrashFrame
    <3>2. \A f \in Around : f.stamp # NoStamp
      BY AroundTyped, StampsAreNotNone
    <3>3. Around' = Around
      BY <3>1 DEF Around
    <3>4. QED
      BY <3>2, <3>3
  <2>3. QED
    BY <2>1, <2>2 DEF SeenIsKnown
<1> SUFFICES ASSUME NEW s \in Sessions, NEW p \in Paths, NEW f \in Around',
                    seen'[s][p] = f.stamp, ~Crash
             PROVE  f.text = known'[s][p] \/ <<s, p>> \in crossed'
  BY <1>1 DEF SeenIsKnown
<1>2. CASE UNCHANGED <<seen, known>> /\ ~\E a \in Agents : Marks(a)
  <2>1. f \in Around
    <3>1. seen[s][p] \in Stamps(count.changes) \cup {NoStamp} /\ seen[s][p] = f.stamp
      BY <1>2 DEF TypeOK
    <3>2. \A q : <<count.changes + 1, q>> \notin Stamps(count.changes) \cup {NoStamp}
      BY DEF TypeOK, Stamps, NoStamp
    <3>3. QED
      BY <3>1, <3>2, AroundGrows
  <2>2. f.text = known[s][p] \/ <<s, p>> \in crossed
    BY <1>2, <2>1 DEF SeenIsKnown
  <2>3. QED
    BY <1>2, <2>2, CrossedStays DEF Marks, Target, ReadStamp
<1>3. ASSUME NEW a \in Agents, Marks(a), Target(a) \in Paths
      PROVE  f.text = known'[s][p] \/ <<s, p>> \in crossed'
  <2>1. f \in Around /\ Around' = Around
    <3>1. Around' = Around
      BY <1>3, MarksTell DEF Around
    <3>2. QED
      BY <3>1
  <2>2. CASE s = SessionOf[a] /\ p = Target(a) /\ disk[p] # Absent
    <3>1. seen'[s][p] = disk[p].stamp /\ known'[s][p] = call[a].text
      BY <1>3, <2>2, MarksTell
    <3>2. f.text = disk[p].text
      BY <2>1, <2>2, <3>1 DEF StampsTell, Around
    <3>3. Holds(a, p)
      BY <1>3, <2>2 DEF CallsKnow, Fine, HoldsWhatItTells, Marks, ReadStamp, Settle
    <3>4. CASE disk[p].text = call[a].text
      BY <3>1, <3>2, <3>4
    <3>5. CASE disk[p].text # call[a].text
      <4>1. <<s, p>> \in crossed
        BY <2>2, <3>3, <3>5 DEF Holds
      <4>2. <<s, p>> \in crossed'
        <5>1. CASE Settle(a)
          BY <4>1, <5>1 DEF Settle
        <5>2. CASE ReadStamp(a)
          <6>1. call[a].op = "read"
            BY <5>2, Zenon DEF ReadStamp
          <6>2. p = call[a].path
            BY <2>2, <6>1 DEF Target
          <6>3. UNCHANGED crossed
            BY <3>5, <5>2, <6>2, Zenon DEF ReadStamp
          <6>4. QED
            BY <4>1, <6>3
        <5>3. QED
          BY <1>3, <5>1, <5>2 DEF Marks
      <4>3. QED
        BY <4>2
    <3>6. QED
      BY <3>4, <3>5
  <2>3. CASE ~(s = SessionOf[a] /\ p = Target(a) /\ disk[p] # Absent)
    <3>1. seen'[s][p] = seen[s][p] /\ known'[s][p] = known[s][p]
      BY <1>3, <2>3, MarksTell
    <3>2. f.text = known[s][p] \/ <<s, p>> \in crossed
      BY <2>1, <3>1 DEF SeenIsKnown
    <3>3. <<s, p>> \in crossed => <<s, p>> \in crossed'
      <4>1. CASE Settle(a)
        BY <4>1 DEF Settle
      <4>2. CASE ReadStamp(a)
        <5>1. /\ call[a].op = "read"
              /\ \/ UNCHANGED crossed
                 \/ /\ crossed' = crossed \ {<<SessionOf[a], call[a].path>>}
                    /\ disk[call[a].path] # Absent
          BY <4>2, Zenon DEF ReadStamp
        <5>2. QED
          BY <2>3, <5>1 DEF Target
      <4>3. QED
        BY <1>3, <4>1, <4>2 DEF Marks
    <3>4. QED
      BY <3>1, <3>2, <3>3
  <2>4. QED
    BY <2>2, <2>3
<1>4. QED
  <2>1. ASSUME NEW a \in Agents, Marks(a) PROVE Target(a) \in Paths
    <3>1. call[a].op = "read" \/ call[a].at = "settling"
      BY <2>1, Zenon DEF Marks, ReadStamp, Settle
    <3>2. QED
      BY <3>1, WhereItIs DEF Target
  <2>2. QED
    BY <1>2, <1>3, <2>1, RecordSteps

-----------------------------------------------------------------------------
(* The calls: what the others leave of a call's findings.                   *)

LEMMA OthersStay ==
  ASSUME TypeOK, CallsKnow, Next, NEW a \in Agents, call[a].at # "idle",
         call'[a] = call[a]
  PROVE  Fine(a)'
<1> DEFINE s == SessionOf[a]
<1>0. /\ KnowsFirst(a) /\ SavesFirst(a) /\ RecordsFirst(a) /\ HoldsWhatItTells(a)
      /\ call[a].path \in Paths /\ call[a].path \in UsedBy(a)
      /\ call[a].op = "move" => call[a].to \in Paths /\ call[a].to \in UsedBy(a)
      /\ Target(a) \in Paths /\ Target(a) \in UsedBy(a)
  BY WhereItIs DEF CallsKnow, Fine, UsedBy, Target
<1>1. ASSUME NEW p \in Paths, p \in UsedBy(a)
      PROVE  /\ disk'[p] = disk[p] \/ <<s, p>> \in crossed'
             /\ <<s, p>> \in crossed => <<s, p>> \in crossed'
  BY <1>1, ChangesAreCrossed
<1>2. ASSUME NEW p \in Paths, p \in UsedBy(a), Knows(s, p)
      PROVE  Knows(s, p)'
  BY <1>1, <1>2, RecordIsTold DEF Knows
<1>3. ASSUME NEW p \in Paths, p \in UsedBy(a), Saves(a, p)
      PROVE  Saves(a, p)'
  BY <1>1, <1>3, RowsAreKept DEF Saves
<1>4. ASSUME NEW p \in Paths, p \in UsedBy(a), Holds(a, p)
      PROVE  Holds(a, p)'
  BY <1>1, <1>4 DEF Holds
<1>5. Target(a)' = Target(a)
  BY DEF Target
<1>6. KnowsFirst(a)'
  BY <1>0, <1>2 DEF KnowsFirst
<1>7. SavesFirst(a)'
  BY <1>0, <1>3 DEF SavesFirst
<1>8. HoldsWhatItTells(a)'
  BY <1>0, <1>4, <1>5 DEF HoldsWhatItTells
<1>9. Records(a, call[a].path) => Records(a, call[a].path)'
  BY <1>0, <1>1, UndoIsKept DEF Records
<1>10. RecordsFirst(a)'
  BY <1>0, <1>9 DEF RecordsFirst
<1>11. QED
  BY <1>6, <1>7, <1>8, <1>10 DEF Fine

(* The calls: what a call's own steps find.                                 *)
LEMMA GoIs ==
  ASSUME TypeOK, NEW a \in Agents, NEW at, Go(a, at)
  PROVE  /\ call'[a].at = at /\ call'[a].op = call[a].op
         /\ call'[a].path = call[a].path /\ call'[a].to = call[a].to
         /\ call'[a].text = call[a].text
<1>1. call \in [Agents -> Calls] /\ call' = [call EXCEPT ![a].at = at]
  BY DEF TypeOK, Go
<1>2. QED
  BY <1>1 DEF Calls

LEMMA StartIs ==
  ASSUME TypeOK, NEW a \in Agents, NEW op, NEW p, NEW to, NEW text,
         Start(a, op, p, to, text)
  PROVE  /\ call'[a].at = "checked" /\ call'[a].op = op /\ call'[a].path = p
         /\ call'[a].to = to /\ call'[a].text = text
  BY DEF TypeOK, Start

LEMMA QuietCallIsFine ==
  ASSUME NEW a \in Agents,
         \/ call'[a].at \in {"idle", "settled"} /\ call'[a].op # "read"
         \/ call'[a].at = "checked" /\ call'[a].op \notin Writers \cup {"move", "read"}
  PROVE  Fine(a)'
  BY DEF Fine, KnowsFirst, SavesFirst, RecordsFirst,
       HoldsWhatItTells

LEMMA EndIsFine ==
  ASSUME TypeOK, NEW a \in Agents, End(a)
  PROVE  Fine(a)'
  BY GoesTo, QuietCallIsFine DEF IdleCall

LEMMA StartsAreFine ==
  ASSUME TypeOK, SeenIsKnown, NEW a \in Agents, ToolCall(a)
  PROVE  Fine(a)' \/ UNCHANGED call
<1>1. ASSUME NEW p \in Paths, ReadContent(a, p)
      PROVE  Fine(a)'
  <2>1. Start(a, "read", p, "none", disk[p].text) /\ UNCHANGED disk
    BY <1>1, Zenon DEF ReadContent
  <2>2. call'[a].at = "checked" /\ call'[a].op = "read" /\ call'[a].path = p
        /\ call'[a].text = disk'[p].text
    BY <2>1, StartIs
  <2>3. HoldsWhatItTells(a)'
    BY <2>2 DEF HoldsWhatItTells, Holds, Target
  <2>4. QED
    BY <2>2, <2>3 DEF Fine, KnowsFirst, SavesFirst, RecordsFirst, Writers
<1>2. ASSUME NEW op, NEW p \in Paths, NEW to, Check(a, op, p, to),
             op \in {"write", "edit", "delete", "hard", "todo", "move"},
             op = "move" => to \in Paths
      PROVE  Fine(a)'
  <2>1. /\ Start(a, op, p, to, <<count.calls + 1>>)
        /\ UNCHANGED <<disk, known, crossed>>
        /\ op \in Writers => ~Blocked(SessionOf[a], p)
        /\ op = "move" => ~Blocked(SessionOf[a], to)
    BY <1>2 DEF Check, Writers
  <2>2. call'[a].at = "checked" /\ call'[a].op = op /\ call'[a].path = p /\ call'[a].to = to
    BY <2>1, StartIs
  <2>3. ASSUME NEW q \in Paths, ~Blocked(SessionOf[a], q)
        PROVE  Knows(SessionOf[a], q)'
    <3>1. SessionOf[a] \in Sessions /\ (disk[q] # Absent => disk[q] \in Around)
      BY CallIs DEF Around
    <3>2. Knows(SessionOf[a], q)
      BY <2>3, <3>1 DEF Blocked, SeenIsKnown, Knows
    <3>3. QED
      BY <2>1, <3>2 DEF Knows
  <2>4. KnowsFirst(a)'
    BY <1>2, <2>1, <2>2, <2>3 DEF KnowsFirst
  <2>5. QED
    BY <1>2, <2>2, <2>4 DEF Fine, SavesFirst, RecordsFirst, HoldsWhatItTells
<1>3. ASSUME NEW e \in trash, FindInTrash(a, e)
      PROVE  Fine(a)'
  <2>1. Start(a, "untrash", e.from, "none", e.file.text)
    BY <1>3, Zenon DEF FindInTrash
  <2>2. call'[a].at = "checked" /\ call'[a].op = "untrash"
    BY <2>1, StartIs
  <2>3. QED
    BY <2>2, QuietCallIsFine DEF Writers
<1>4. ASSUME NEW i \in DOMAIN undo, PickUndo(a, i)
      PROVE  Fine(a)'
  <2>1. call'[a].at = "checked" /\ call'[a].op = "undo"
    BY <1>4 DEF PickUndo, TypeOK
  <2>2. QED
    BY <2>1, QuietCallIsFine DEF Writers
<1>5. CASE TakeSnapshot(a) \/ RestoreSnapshot(a)
  BY <1>5 DEF TakeSnapshot, RestoreSnapshot
<1>6. QED
  <2>1. ASSUME NEW p \in Paths, NEW op \in {"write", "edit", "delete", "hard", "todo"},
               Check(a, op, p, "none")
        PROVE  Fine(a)'
    BY <1>2, <2>1
  <2>2. ASSUME NEW p \in Paths, NEW q \in Paths \ {p}, Check(a, "move", p, q)
        PROVE  Fine(a)'
    BY <1>2, <2>2
  <2>3. QED
    BY <1>1, <1>3, <1>4, <1>5, <2>1, <2>2, Zenon DEF ToolCall

LEMMA StepsAreFine ==
  ASSUME TypeOK, CallsKnow, NEW a \in Agents, ToolStep(a)
  PROVE  Fine(a)'
<1>0. /\ KnowsFirst(a) /\ SavesFirst(a) /\ HoldsWhatItTells(a)
      /\ call[a].at # "idle" => call[a].path \in Paths
      /\ SessionOf[a] \in Sessions
  BY WhereItIs, CallIs DEF CallsKnow, Fine
<1> DEFINE s == SessionOf[a]  p == call[a].path
<1>1. CASE Capture(a)
  <2>1. /\ call[a].at = "checked" /\ call[a].op \in Writers
        /\ UNCHANGED <<disk, known, crossed>>
        /\ \/ call' = [call EXCEPT ![a].at = "captured", ![a].prev = TextAt(p)]
           \/ End(a)
    BY <1>1, Zenon DEF Capture, Writers
  <2>2. ASSUME NEW text, call' = [call EXCEPT ![a].at = "captured", ![a].prev = text]
        PROVE  call'[a].at = "captured" /\ call'[a].op = call[a].op /\ call'[a].path = p
    BY <2>2 DEF TypeOK, Calls
  <2>3. Knows(s, p)
    BY <1>0, <2>1 DEF KnowsFirst
  <2>4. ASSUME call'[a].path = p PROVE Knows(s, p)'
    BY <2>1, <2>3, <2>4 DEF Knows
  <2>5. ASSUME call'[a].at = "captured", call'[a].op = call[a].op, call'[a].path = p
        PROVE  Fine(a)'
    BY <2>1, <2>4, <2>5 DEF Fine, KnowsFirst, SavesFirst, RecordsFirst,
       HoldsWhatItTells, Writers
  <2>6. QED
    BY <2>1, <2>2, <2>5, EndIsFine
<1>2. CASE Save(a)
  <2>1. /\ call[a].at = (IF call[a].op \in Writers THEN "captured" ELSE "checked")
        /\ call[a].op \in {"write", "edit", "delete", "hard", "move", "todo"}
        /\ a \in Chats => checkpoints' = Append(checkpoints, [path |-> p, was |-> TextAt(p)])
        /\ Go(a, "saved")
        /\ UNCHANGED <<disk, known, crossed>>
    BY <1>2, Zenon DEF Save, NeedsCapture, Writers
  <2>2. /\ call'[a].at = "saved" /\ call'[a].op = call[a].op
        /\ call'[a].path = p /\ call'[a].to = call[a].to
    BY <2>1, GoIs
  <2>3. p \in Paths
    BY <1>0, <2>1
  <2>4. ASSUME a \in Chats
        PROVE  \E i \in DOMAIN checkpoints' :
                 checkpoints'[i].path = p /\ checkpoints'[i].was = TextAt(p)
    <3> DEFINE row == [path |-> p, was |-> TextAt(p)]
    <3>1. checkpoints \in Seq([path : Paths, was : Texts]) /\ row \in [path : Paths, was : Texts]
      BY <2>3, TextTyped DEF TypeOK
    <3>2. checkpoints' = Append(checkpoints, row) /\ row.path = p /\ row.was = TextAt(p)
      BY <2>1, <2>4
    <3> HIDE DEF row
    <3>3. Len(checkpoints) + 1 \in DOMAIN checkpoints' /\ checkpoints'[Len(checkpoints) + 1] = row
      BY <3>1, <3>2
    <3>4. QED
      BY <3>2, <3>3
  <2>5. a \in Chats => Saves(a, p)'
    BY <2>1, <2>2, <2>4 DEF Saves, TextAt
  <2>6. /\ call[a].op \in Writers => Knows(s, p)
        /\ call[a].op = "move" => Knows(s, call[a].to)
    BY <1>0, <2>1 DEF KnowsFirst, Writers
  <2>7. KnowsFirst(a)'
    BY <2>1, <2>2, <2>6 DEF KnowsFirst, Knows
  <2>8. QED
    BY <2>1, <2>2, <2>5, <2>7 DEF Fine, SavesFirst, RecordsFirst, HoldsWhatItTells
<1>3. CASE Record(a)
  <2> DEFINE row == [id |-> call[a].text, path |-> p, was |-> TextAt(p), done |-> FALSE]
  <2>1. /\ call[a].at = "saved" /\ call[a].op \in Writers /\ Go(a, "recorded")
        /\ undo' = Append(undo, row)
        /\ UNCHANGED <<disk, known, crossed, checkpoints>>
    BY <1>3, Zenon DEF Record, NeedsCapture, Writers
  <2>2. call'[a].at = "recorded" /\ call'[a].op = call[a].op /\ call'[a].path = p
    BY <2>1, GoIs
  <2>3. Knows(s, p) /\ (a \in Chats => Saves(a, p))
    BY <1>0, <2>1 DEF KnowsFirst, SavesFirst, Writers
  <2>4. Knows(s, p)' /\ (a \in Chats => Saves(a, p)')
    BY <2>1, <2>2, <2>3 DEF Knows, Saves
  <2>5. undo \in Seq(UndoRows) /\ row \in UndoRows /\ row.path = p /\ row.was = TextAt(p)
    BY <1>0, <2>1, CallIs, TextTyped DEF TypeOK, UndoRows
  <2> HIDE DEF row
  <2>6. Len(undo) + 1 \in DOMAIN undo' /\ undo'[Len(undo) + 1] = row
    BY <2>1, <2>5
  <2>7. \E i \in DOMAIN undo' : undo'[i].path = p /\ undo'[i].was = TextAt(p)
    BY <2>5, <2>6
  <2>8. ASSUME call'[a].path = p PROVE Records(a, p)'
    BY <2>1, <2>7, <2>8 DEF Records, TextAt
  <2>9. QED
    BY <2>1, <2>2, <2>4, <2>8 DEF Fine, KnowsFirst, SavesFirst, RecordsFirst,
       HoldsWhatItTells, Writers
<1>4. CASE Put(a)
  <2>1. /\ disk' = [disk EXCEPT ![p] = File(p, call[a].text)]
        /\ \/ call[a].at = "recorded" /\ Go(a, "put")
           \/ End(a)
    BY <1>4, Zenon DEF Put, Changed
  <2>2. CASE call[a].at = "recorded" /\ Go(a, "put")
    <3>1. call'[a].at = "put" /\ call'[a].op = call[a].op /\ call'[a].path = p
          /\ call'[a].text = call[a].text /\ call[a].op \in Writers /\ p \in Paths
      BY <2>2, GoIs, WhereItIs
    <3>2. disk'[p].text = call'[a].text
      BY <2>1, <3>1 DEF TypeOK, File
    <3>3. HoldsWhatItTells(a)'
      BY <3>1, <3>2 DEF HoldsWhatItTells, Holds, Target, Writers
    <3>4. QED
      BY <3>1, <3>3 DEF Fine, KnowsFirst, SavesFirst, RecordsFirst, Writers
  <2>3. QED
    BY <2>1, <2>2, EndIsFine
<1>5. ASSUME call'[a].at = "settling", call'[a].op \in Writers \cup {"undo", "move"},
             Holds(a, Target(a))'
      PROVE  Fine(a)'
  BY <1>5 DEF Fine, KnowsFirst, SavesFirst, RecordsFirst,
       HoldsWhatItTells, Writers
<1>6. CASE Accept(a)
  <2>1. call[a].at = "put" /\ call[a].op \in Writers /\ Go(a, "settling")
        /\ UNCHANGED <<disk, crossed>>
    BY <1>6, Zenon DEF Accept, Writers
  <2>2. call'[a].at = "settling" /\ call'[a].op = call[a].op /\ call'[a].path = p
        /\ call'[a].text = call[a].text
    BY <2>1, GoIs
  <2>3. Holds(a, p) /\ Target(a)' = p
    BY <1>0, <2>1, <2>2 DEF HoldsWhatItTells, Target, Writers
  <2>4. Holds(a, p)'
    BY <2>1, <2>2, <2>3 DEF Holds
  <2>5. QED
    BY <1>5, <2>1, <2>2, <2>3, <2>4
<1>7. ASSUME NEW text, p \in Paths, disk' = [disk EXCEPT ![p] = Back(p, text)],
             call'[a].text = text, call'[a].at = "settling",
             call'[a].op \in Writers \cup {"undo"}, call'[a].path = p
      PROVE  Fine(a)'
  <2>1. disk'[p] = Back(p, text) /\ Target(a)' = p
    BY <1>7 DEF TypeOK, Target, Writers
  <2>2. Holds(a, p)'
    BY <1>7, <2>1 DEF Holds, Back, File
  <2>3. QED
    BY <1>5, <1>7, <2>1, <2>2
<1>8. CASE Reject(a)
  <2>1. /\ call[a].at = "put" /\ call[a].op \in Writers
        /\ call' = [call EXCEPT ![a].at = "settling", ![a].text = call[a].prev]
        /\ disk' = [disk EXCEPT ![p] = Back(p, call[a].prev)]
    BY <1>8, Zenon DEF Reject, Changed, Writers
  <2>2. ASSUME NEW text, call' = [call EXCEPT ![a].at = "settling", ![a].text = text]
        PROVE  call'[a].at = "settling" /\ call'[a].op = call[a].op
               /\ call'[a].path = p /\ call'[a].text = text
    BY <2>2 DEF TypeOK, Calls
  <2>3. p \in Paths
    BY <1>0, <2>1
  <2>4. QED
    BY <1>7, <2>1, <2>2, <2>3
<1>9. CASE ApplyUndo(a)
  <2>1. call[a].at = "checked" /\ call[a].op = "undo" /\ Go(a, "settling")
        /\ disk' = [disk EXCEPT ![p] = Back(p, call[a].text)]
    BY <1>9, Zenon DEF ApplyUndo, Changed
  <2>2. QED
    BY <1>0, <1>7, <2>1, GoIs
<1>10. CASE Move(a)
  <2> DEFINE q == call[a].to
  <2>1. /\ call[a].at = "saved" /\ call[a].op = "move"
        /\ \/ End(a)
           \/ /\ call' = [call EXCEPT ![a].at = "settling", ![a].text = disk[p].text]
              /\ disk' = [disk EXCEPT ![p] = Absent, ![q] = disk[p]]
    BY <1>10, Zenon DEF Move, Changed
  <2>2. ASSUME NEW text, call' = [call EXCEPT ![a].at = "settling", ![a].text = text]
        PROVE  call'[a].at = "settling" /\ call'[a].op = call[a].op
               /\ call'[a].to = q /\ call'[a].text = text
    BY <2>2 DEF TypeOK, Calls
  <2>3. q \in Paths
    BY <2>1, WhereItIs
  <2>4. disk' = [disk EXCEPT ![p] = Absent, ![q] = disk[p]] => disk'[q] = disk[p]
    BY <2>3 DEF TypeOK
  <2>5. CASE /\ call' = [call EXCEPT ![a].at = "settling", ![a].text = disk[p].text]
             /\ disk' = [disk EXCEPT ![p] = Absent, ![q] = disk[p]]
    <3>1. call'[a].at = "settling" /\ call'[a].op = "move" /\ call'[a].to = q
          /\ call'[a].text = disk'[q].text
      BY <2>1, <2>2, <2>4, <2>5
    <3>2. Target(a)' = q
      BY <3>1 DEF Target
    <3>3. Holds(a, q)'
      BY <3>1 DEF Holds
    <3>4. QED
      BY <1>5, <3>1, <3>2, <3>3
  <2>6. QED
    BY <2>1, <2>5, EndIsFine
<1>11. CASE Copy(a)
  <2> DEFINE q == call[a].to  text == disk[p].text
  <2>1. /\ call[a].at = "saved" /\ call[a].op = "move"
        /\ call' = [call EXCEPT ![a].at = "copied", ![a].text = text]
        /\ disk' = [disk EXCEPT ![q] = File(q, text)]
    BY <1>11, Zenon DEF Copy, Changed
  <2>2. q \in Paths
    BY <2>1, WhereItIs
  <2> HIDE DEF q, text
  <2>3. /\ call'[a].at = "copied" /\ call'[a].op = "move" /\ call'[a].to = call[a].to
        /\ call'[a].text = text
    BY <2>1 DEF TypeOK, Calls
  <2>4. disk'[q].text = text
    BY <2>1, <2>2 DEF TypeOK, File
  <2>5. Holds(a, Target(a))'
    BY <2>3, <2>4 DEF Holds, Target, q
  <2>6. QED
    BY <2>3, <2>5 DEF Fine, KnowsFirst, SavesFirst, RecordsFirst, HoldsWhatItTells, Writers
<1>12. CASE Unlink(a)
  <2> DEFINE q == call[a].to
  <2>1. /\ call[a].at = "copied"
        /\ \/ End(a)
           \/ /\ Go(a, "settling") /\ disk' = [disk EXCEPT ![p] = Absent]
              /\ \E ps : Changed(a, ps, disk')
    BY <1>12, Zenon DEF Unlink, Changed
  <2>2. call[a].op = "move" /\ q \in Paths /\ q # p
    BY <2>1, WhereItIs
  <2>3. ASSUME Go(a, "settling"), disk' = [disk EXCEPT ![p] = Absent],
               \E ps : Changed(a, ps, disk')
        PROVE  Fine(a)'
    <3>1. /\ call'[a].at = "settling" /\ call'[a].op = "move" /\ call'[a].to = q
          /\ call'[a].text = call[a].text
      BY <2>2, <2>3, GoIs
    <3>2. disk'[q] = disk[q] /\ crossed \subseteq crossed'
      BY <2>2, <2>3 DEF TypeOK, Changed
    <3>3. Holds(a, q)
      BY <1>0, <2>1, <2>2 DEF HoldsWhatItTells, Target
    <3>4. Holds(a, Target(a))'
      BY <3>1, <3>2, <3>3 DEF Holds, Target
    <3>5. QED
      BY <1>5, <3>1, <3>4
  <2>4. QED
    BY <2>1, <2>3, EndIsFine
<1>13. CASE Settle(a)
  <2>1. End(a) \/ (Go(a, "settled") /\ call[a].op = "undo")
    BY <1>13, Zenon DEF Settle
  <2>2. CASE Go(a, "settled") /\ call[a].op = "undo"
    BY <2>2, GoIs, QuietCallIsFine
  <2>3. QED
    BY <2>1, <2>2, EndIsFine
<1>14. CASE ReadStamp(a) \/ Remove(a) \/ TrashIsGone(a) \/ FinishUndo(a)
            \/ \E e \in trash : TakeFromTrash(a, e)
  <2>1. End(a)
    BY <1>14, Zenon DEF ReadStamp, Remove, TrashIsGone, FinishUndo, TakeFromTrash
  <2>2. QED
    BY <2>1, EndIsFine
<1>15. QED
  BY <1>1, <1>2, <1>3, <1>4, <1>6, <1>8, <1>9, <1>10, <1>11, <1>12, <1>13, <1>14,
     Zenon DEF ToolStep

(* An agent's step is in its own call.                                      *)
LEMMA CallIsItsOwn ==
  ASSUME TypeOK, NEW b \in Agents, ToolCall(b) \/ ToolStep(b),
         NEW a \in Agents, call'[a] # call[a]
  PROVE  a = b
<1>0. call \in [Agents -> Calls]
  BY DEF TypeOK
<1>1. UNCHANGED call \/ \E c : call' = [call EXCEPT ![b] = c]
  <2>1. CASE ToolCall(b)
    BY <2>1, Zenon DEF ToolCall, ReadContent, Check, FindInTrash, PickUndo,
       TakeSnapshot, RestoreSnapshot, Start
  <2>2. CASE ToolStep(b)
    <3>1. \/ \E at : Go(b, at)
          \/ End(b)
          \/ \E text : call' = [call EXCEPT ![b].at = "captured", ![b].prev = text]
          \/ \E at, text : call' = [call EXCEPT ![b].at = at, ![b].text = text]
      <4>1. ASSUME NEW at, NEW text, call' = [call EXCEPT ![b].at = at, ![b].text = text]
            PROVE  \E x, y : call' = [call EXCEPT ![b].at = x, ![b].text = y]
        BY <4>1, Zenon
      <4>2. Move(b) \/ Copy(b) \/ Unlink(b) \/ Reject(b)
              => \/ \E at : Go(b, at)
                 \/ End(b)
                 \/ call' = [call EXCEPT ![b].at = "settling", ![b].text = call[b].prev]
                 \/ call' = [call EXCEPT ![b].at = "settling",
                                         ![b].text = disk[call[b].path].text]
                 \/ call' = [call EXCEPT ![b].at = "copied",
                                         ![b].text = disk[call[b].path].text]
        BY Zenon DEF Move, Copy, Unlink, Reject
      <4>3. CASE ~(Move(b) \/ Copy(b) \/ Unlink(b) \/ Reject(b))
        BY <2>2, <4>3, Zenon DEF ToolStep, ReadStamp, Capture, Save, Record, Put, Accept,
           Settle, Remove, TakeFromTrash, TrashIsGone, ApplyUndo, FinishUndo
      <4>4. QED
        BY <4>1, <4>2, <4>3, Zenon
    <3>2. ASSUME NEW at, Go(b, at) PROVE call' = [call EXCEPT ![b] = [call[b] EXCEPT !.at = at]]
      BY <3>2 DEF Go
    <3>3. ASSUME NEW text, call' = [call EXCEPT ![b].at = "captured", ![b].prev = text]
          PROVE  call' = [call EXCEPT ![b] = [call[b] EXCEPT !.at = "captured", !.prev = text]]
      BY <1>0, <3>3 DEF Calls
    <3>4. ASSUME NEW at, NEW text, call' = [call EXCEPT ![b].at = at, ![b].text = text]
          PROVE  call' = [call EXCEPT ![b] = [call[b] EXCEPT !.at = at, !.text = text]]
      BY <1>0, <3>4 DEF Calls
    <3>5. QED
      BY <3>1, <3>2, <3>3, <3>4 DEF End
  <2>3. QED
    BY <2>1, <2>2
<1>2. QED
  BY <1>0, <1>1

LEMMA CallsKnowStays ==
  ASSUME TypeOK, SeenIsKnown, CallsKnow, Next
  PROVE  CallsKnow'
<1> SUFFICES ASSUME NEW a \in Agents PROVE Fine(a)'
  BY DEF CallsKnow
<1>1. CASE call'[a] = call[a] /\ call[a].at # "idle"
  BY <1>1, OthersStay
<1>2. CASE call'[a] = call[a] /\ call[a].at = "idle"
  <2>1. call'[a] = IdleCall
    BY <1>2, CallIs DEF CallTyped
  <2>2. QED
    BY <2>1, QuietCallIsFine DEF IdleCall
<1>3. CASE Crash
  <2>1. call'[a] = IdleCall
    BY <1>3 DEF Crash
  <2>2. QED
    BY <2>1, QuietCallIsFine DEF IdleCall
<1>4. ASSUME NEW b \in Agents, ToolCall(b) \/ ToolStep(b), call'[a] # call[a]
      PROVE  a = b
  BY <1>4, CallIsItsOwn
<1>5. CASE call'[a] # call[a]
  <2>1. Crash \/ ToolCall(a) \/ ToolStep(a)
    BY <1>4, <1>5, OutsideFrame DEF Next
  <2>2. QED
    BY <1>3, <1>5, <2>1, StartsAreFine, StepsAreFine
<1>6. QED
  BY <1>1, <1>2, <1>5

-----------------------------------------------------------------------------
(* What a session's tool has put down it may write again.                   *)

LEMMA OwesStays ==
  ASSUME TypeOK, Next, ~Crash, NEW a \in Agents, NEW p \in Paths, Owes(a, p)
  PROVE  \/ Owes(a, p)'
         \/ Settle(a)
         \/ placedBy'[p] = Nobody
<1>1. CASE call'[a] = call[a]
  BY <1>1 DEF Owes, Target
<1>2. CASE call'[a] # call[a]
  <2>1. ToolCall(a) \/ ToolStep(a)
    BY <1>2, CallIsItsOwn, OutsideFrame DEF Next
  <2>2. call[a].at \in {"put", "copied", "settling"} /\ p = Target(a)
    BY DEF Owes
  <2>3. ToolStep(a)
    BY <1>2, <2>1, <2>2, CallFrame
  <2>4. /\ call[a].at = "put" => call[a].op \in Writers
        /\ call[a].op \notin {"read", "untrash"}
    BY <2>2, WhereItIs DEF Writers
  <2>5. Accept(a) \/ Reject(a) \/ Settle(a) \/ Unlink(a)
    BY <2>2, <2>3, <2>4 DEF ToolStep, ReadStamp, Capture, Save, Record, Put, Remove, Move,
       Copy, TakeFromTrash, TrashIsGone, ApplyUndo, FinishUndo
  <2>6. CASE Accept(a)
    <3>1. Go(a, "settling")
      BY <2>6, Zenon DEF Accept
    <3>2. QED
      BY <2>2, <3>1, GoIs DEF Owes, Target
  <2>7. CASE Reject(a)
    <3>1. call' = [call EXCEPT ![a].at = "settling", ![a].text = call[a].prev]
      BY <2>7, Zenon DEF Reject
    <3>2. ASSUME NEW text, call' = [call EXCEPT ![a].at = "settling", ![a].text = text]
          PROVE  call'[a].at = "settling" /\ call'[a].op = call[a].op
                 /\ call'[a].path = call[a].path /\ call'[a].to = call[a].to
      BY <3>2 DEF TypeOK, Calls
    <3>3. QED
      BY <2>2, <3>1, <3>2 DEF Owes, Target
  <2>8. CASE Unlink(a)
    <3>1. \/ Placed({call[a].to}, Nobody) /\ call[a].at = "copied"
          \/ Go(a, "settling")
      BY <2>8, Zenon DEF Unlink
    <3>2. CASE Placed({call[a].to}, Nobody) /\ call[a].at = "copied"
      <4>1. p = call[a].to
        BY <2>2, <3>2, WhereItIs DEF Target
      <4>2. QED
        BY <3>2, <4>1 DEF Placed
    <3>3. CASE Go(a, "settling")
      BY <2>2, <3>3, GoIs DEF Owes, Target
    <3>4. QED
      BY <3>1, <3>2, <3>3
  <2>9. QED
    BY <2>5, <2>6, <2>7, <2>8
<1>3. QED
  BY <1>1, <1>2

(* A file is put at a path by a call that is about to stamp it, or by none. *)
LEMMA PlacedIsOwed ==
  ASSUME TypeOK, Next, NEW p \in Paths
  PROVE  \/ disk'[p] = disk[p] /\ placedBy'[p] = placedBy[p]
         \/ placedBy'[p] = Nobody
         \/ \E a \in Agents : placedBy'[p] = SessionOf[a] /\ Owes(a, p)'
<1>0. placedBy \in [Paths -> Sessions \cup {Nobody}] /\ disk = [q \in Paths |-> disk[q]]
  BY DEF TypeOK
<1>1. ASSUME NEW ps, NEW who, NEW d, Placed(ps, who), disk' = d,
             p \notin ps => d[p] = disk[p]
      PROVE  \/ disk'[p] = disk[p] /\ placedBy'[p] = placedBy[p]
             \/ p \in ps /\ placedBy'[p] = who
  BY <1>1 DEF Placed
<1>2. ASSUME NEW q, NEW who, NEW f, Placed({q}, who), disk' = [disk EXCEPT ![q] = f]
      PROVE  \/ disk'[p] = disk[p] /\ placedBy'[p] = placedBy[p]
             \/ p = q /\ placedBy'[p] = who
  BY <1>0, <1>2 DEF Placed
<1>3. ASSUME NEW a \in Agents, Put(a)
      PROVE  \/ disk'[p] = disk[p] /\ placedBy'[p] = placedBy[p]
             \/ placedBy'[p] = Nobody
             \/ placedBy'[p] = SessionOf[a] /\ Owes(a, p)'
  <2>1. /\ disk' = [disk EXCEPT ![call[a].path] = File(call[a].path, call[a].text)]
        /\ \/ Placed({call[a].path}, Nobody)
           \/ /\ call[a].at = "recorded" /\ Go(a, "put")
              /\ Placed({call[a].path}, SessionOf[a])
    BY <1>3, Zenon DEF Put, Changed
  <2>2. CASE /\ call[a].at = "recorded" /\ Go(a, "put")
             /\ Placed({call[a].path}, SessionOf[a])
    <3>1. /\ call'[a].at = "put" /\ call'[a].op = call[a].op
          /\ call'[a].path = call[a].path /\ call[a].op \in Writers
      BY <2>2, GoIs, WhereItIs
    <3>2. \A q : q = call[a].path => Owes(a, q)'
      BY <3>1 DEF Owes, Target, Writers
    <3>3. QED
      BY <1>2, <2>1, <2>2, <3>2
  <2>3. QED
    BY <1>2, <2>1, <2>2
<1>4. ASSUME NEW a \in Agents, Reject(a) \/ ApplyUndo(a)
      PROVE  \/ disk'[p] = disk[p] /\ placedBy'[p] = placedBy[p]
             \/ placedBy'[p] = SessionOf[a] /\ Owes(a, p)'
  <2>1. /\ \E f : disk' = [disk EXCEPT ![call[a].path] = f]
        /\ Placed({call[a].path}, SessionOf[a])
        /\ call[a].op # "move"
        /\ \/ Go(a, "settling")
           \/ \E text : call' = [call EXCEPT ![a].at = "settling", ![a].text = text]
    <3>1. CASE Reject(a)
      BY <3>1 DEF Reject, Changed
    <3>2. CASE ApplyUndo(a)
      BY <3>2 DEF ApplyUndo, Changed
    <3>3. QED
      BY <1>4, <3>1, <3>2
  <2>2. ASSUME NEW text, call' = [call EXCEPT ![a].at = "settling", ![a].text = text]
        PROVE  call'[a].at = "settling" /\ call'[a].op = call[a].op
               /\ call'[a].path = call[a].path
    BY <2>2 DEF TypeOK, Calls
  <2>3. call'[a].at = "settling" /\ call'[a].op = call[a].op
        /\ call'[a].path = call[a].path
    BY <2>1, <2>2, GoIs
  <2>4. \A q : q = call[a].path => Owes(a, q)'
    BY <2>1, <2>3 DEF Owes, Target
  <2>5. QED
    BY <1>2, <2>1, <2>4
<1>5. ASSUME NEW a \in Agents, Remove(a) \/ \E e \in trash : TakeFromTrash(a, e)
      PROVE  \/ disk'[p] = disk[p] /\ placedBy'[p] = placedBy[p]
             \/ placedBy'[p] = Nobody
  <2>1. \/ UNCHANGED <<disk, placedBy>>
        \/ \E f : /\ disk' = [disk EXCEPT ![call[a].path] = f]
                  /\ Placed({call[a].path}, Nobody)
    BY <1>5 DEF Remove, TakeFromTrash, Changed
  <2>2. QED
    BY <1>2, <2>1
<1>6. ASSUME NEW a \in Agents, Move(a)
      PROVE  \/ disk'[p] = disk[p] /\ placedBy'[p] = placedBy[p]
             \/ placedBy'[p] = Nobody
             \/ placedBy'[p] = SessionOf[a] /\ Owes(a, p)'
  <2> DEFINE from == call[a].path  to == call[a].to
  <2>1. /\ call[a].at = "saved" /\ call[a].op = "move"
        /\ \/ UNCHANGED <<disk, placedBy>>
           \/ /\ call' = [call EXCEPT ![a].at = "settling", ![a].text = disk[from].text]
              /\ disk' = [disk EXCEPT ![from] = Absent, ![to] = disk[from]]
              /\ placedBy' = [placedBy EXCEPT ![from] = Nobody, ![to] = SessionOf[a]]
    BY <1>6, Zenon DEF Move, Changed
  <2>2. ASSUME NEW text, call' = [call EXCEPT ![a].at = "settling", ![a].text = text]
        PROVE  call'[a].at = "settling" /\ call'[a].op = call[a].op
               /\ call'[a].to = call[a].to
    BY <2>2 DEF TypeOK, Calls
  <2>3. ASSUME call' = [call EXCEPT ![a].at = "settling", ![a].text = disk[from].text]
        PROVE  \A q : q = to => Owes(a, q)'
    BY <2>1, <2>2, <2>3 DEF Owes, Target
  <2>4. ASSUME NEW x, NEW y, disk' = [disk EXCEPT ![x] = Absent, ![y] = disk[x]],
               placedBy' = [placedBy EXCEPT ![x] = Nobody, ![y] = SessionOf[a]]
        PROVE  \/ disk'[p] = disk[p] /\ placedBy'[p] = placedBy[p]
               \/ placedBy'[p] = Nobody
               \/ p = y /\ placedBy'[p] = SessionOf[a]
    BY <1>0, <2>4
  <2> HIDE DEF from, to
  <2>5. QED
    BY <2>1, <2>3, <2>4
<1>7. ASSUME NEW a \in Agents, RestoreSnapshot(a)
      PROVE  \/ disk'[p] = disk[p] /\ placedBy'[p] = placedBy[p]
             \/ placedBy'[p] = Nobody
  BY <1>7 DEF RestoreSnapshot, Changed, Placed
<1>8. ASSUME \/ \E q \in Paths : PersonEdits(q)
             \/ \E i \in DOMAIN checkpoints : RestoreCheckpoint(i)
      PROVE  \/ disk'[p] = disk[p] /\ placedBy'[p] = placedBy[p]
             \/ placedBy'[p] = Nobody
  <2>1. \E q, f : disk' = [disk EXCEPT ![q] = f] /\ Placed({q}, Nobody)
    BY <1>8 DEF PersonEdits, RestoreCheckpoint, PersonChanges, Changed
  <2>2. QED
    BY <1>2, <2>1
<1>9. CASE Crash
  BY <1>9 DEF Crash
<1>10. CASE UNCHANGED <<disk, placedBy>>
  BY <1>10
<1>11. ASSUME NEW a \in Agents, Copy(a)
       PROVE  \/ disk'[p] = disk[p] /\ placedBy'[p] = placedBy[p]
              \/ placedBy'[p] = SessionOf[a] /\ Owes(a, p)'
  <2>1. /\ \E f : disk' = [disk EXCEPT ![call[a].to] = f]
        /\ Placed({call[a].to}, SessionOf[a]) /\ call[a].op = "move"
        /\ \E text : call' = [call EXCEPT ![a].at = "copied", ![a].text = text]
    BY <1>11 DEF Copy, Changed
  <2>2. ASSUME NEW text, call' = [call EXCEPT ![a].at = "copied", ![a].text = text]
        PROVE  call'[a].at = "copied" /\ call'[a].op = call[a].op
               /\ call'[a].to = call[a].to
    BY <2>2 DEF TypeOK, Calls
  <2>3. \A q : q = call[a].to => Owes(a, q)'
    BY <2>1, <2>2 DEF Owes, Target
  <2>4. QED
    BY <1>2, <2>1, <2>3
<1>12. ASSUME NEW a \in Agents, Unlink(a)
       PROVE  \/ disk'[p] = disk[p] /\ placedBy'[p] = placedBy[p]
              \/ placedBy'[p] = Nobody
  <2>1. \/ UNCHANGED disk /\ \E q : Placed({q}, Nobody)
        \/ \E q : disk' = [disk EXCEPT ![q] = Absent] /\ Placed({q}, Nobody)
    BY <1>12 DEF Unlink, Changed
  <2>2. QED
    BY <1>1, <1>2, <2>1
<1>13. QED
  BY <1>3, <1>4, <1>5, <1>6, <1>7, <1>8, <1>9, <1>10, <1>11, <1>12, CallFrame,
     StepFrame DEF Next

LEMMA PlacedStays ==
  ASSUME TypeOK, PlacedIsSeen, Next
  PROVE  PlacedIsSeen'
<1> SUFFICES ASSUME NEW s \in Sessions, NEW p \in Paths, placedBy'[p] = s
             PROVE  ~Blocked(s, p)' \/ \E a \in AgentsOf(s) : Owes(a, p)'
  BY DEF PlacedIsSeen, AgentsOf
<1>0. placedBy'[p] # Nobody
  BY ConstantsAssumption
<1>1. CASE \E a \in Agents : placedBy'[p] = SessionOf[a] /\ Owes(a, p)'
  BY <1>1 DEF AgentsOf
<1>2. CASE disk'[p] = disk[p] /\ placedBy'[p] = placedBy[p] /\ ~Crash
  <2>1. ~Blocked(s, p) \/ \E a \in AgentsOf(s) : Owes(a, p)
    BY <1>2 DEF PlacedIsSeen
  <2>2. CASE ~Blocked(s, p)
    <3>1. seen'[s][p] = seen[s][p] \/ seen'[s][p] = disk[p].stamp
      BY <1>2, RecordSteps, MarksTell
    <3>2. QED
      BY <1>2, <2>2, <3>1 DEF Blocked
  <2>3. ASSUME NEW a \in AgentsOf(s), Owes(a, p)
        PROVE  ~Blocked(s, p)' \/ Owes(a, p)'
    <3>1. a \in Agents /\ SessionOf[a] = s
      BY DEF AgentsOf
    <3>2. CASE Settle(a)
      <4>1. Marks(a) /\ p = Target(a)
        BY <2>3, <3>1, <3>2, Zenon DEF Marks, Settle, Target, Owes
      <4>2. disk[p] = Absent \/ seen'[s][p] = disk[p].stamp
        BY <3>1, <4>1, MarksTell
      <4>3. QED
        BY <1>2, <4>2 DEF Blocked
    <3>3. QED
      BY <1>0, <1>2, <2>3, <3>1, <3>2, OwesStays
  <2>4. QED
    BY <2>1, <2>2, <2>3
<1>3. CASE Crash
  BY <1>3, ConstantsAssumption DEF Crash
<1>4. QED
  BY <1>0, <1>1, <1>2, <1>3, PlacedIsOwed

-----------------------------------------------------------------------------
(* The theorems.                                                            *)

GuardInv == TypeOK /\ StampsTell /\ SeenIsKnown /\ CallsKnow

LEMMA InitGuarded == Init => GuardInv /\ PlacedIsSeen
<1>1. Init => TypeOK
  BY InitTyped
<1>2. Init => StampsTell
  BY DEF Init, StampsTell, Around
<1>3. Init => SeenIsKnown
  <2>1. ASSUME Init, NEW s \in Sessions, NEW p \in Paths, NEW f \in Around
        PROVE  seen[s][p] # f.stamp
    <3>1. seen[s][p] = NoStamp /\ f.stamp # NoStamp
      BY <1>1, <2>1, AroundTyped, StampsAreNotNone DEF Init
    <3>2. QED
      BY <3>1
  <2>2. QED
    BY <2>1 DEF SeenIsKnown
<1>4. Init => CallsKnow
  BY DEF Init, CallsKnow, Fine, KnowsFirst, SavesFirst, RecordsFirst, HoldsWhatItTells,
     IdleCall, Writers
<1>5. Init => PlacedIsSeen
  BY ConstantsAssumption DEF Init, PlacedIsSeen
<1>6. QED
  BY <1>1, <1>2, <1>3, <1>4, <1>5 DEF GuardInv

LEMMA StepGuarded == GuardInv /\ [Next]_vars => GuardInv'
<1>1. ASSUME GuardInv, UNCHANGED vars PROVE GuardInv'
  <2>1. Around' = Around
    BY <1>1 DEF Around, vars
  <2>2. QED
    BY <1>1, <2>1, StepTyped DEF GuardInv, vars, StampsTell, SeenIsKnown, CallsKnow,
       Fine, KnowsFirst, SavesFirst, RecordsFirst, HoldsWhatItTells, Knows, Saves,
       Records, Holds, Target
<1>2. ASSUME GuardInv, Next PROVE GuardInv'
  BY <1>2, StepTyped, StampsStay, SeenStays, CallsKnowStays DEF GuardInv
<1>3. QED
  BY <1>1, <1>2

LEMMA Guarded == Spec => []GuardInv
<1>1. Init => GuardInv
  BY InitGuarded
<1>2. QED
  BY <1>1, StepGuarded, PTL DEF Spec

(* A session whose own tool put a file somewhere is not told to read it     *)
(* first: settle_write stamps every path that a tool changed, also when a   *)
(* rejected write was taken back.                                           *)
THEOREM OwnWritesGoThrough == Spec => []OwnWritesAreNotRefused
<1>1. Init => PlacedIsSeen
  BY InitGuarded
<1>2. TypeOK /\ PlacedIsSeen /\ [Next]_vars => PlacedIsSeen'
  <2>1. ASSUME PlacedIsSeen, UNCHANGED vars PROVE PlacedIsSeen'
    BY <2>1 DEF vars, PlacedIsSeen, Blocked, Owes, Target
  <2>2. QED
    BY <2>1, PlacedStays
<1>3. TypeOK /\ PlacedIsSeen => OwnWritesAreNotRefused
  <2>1. ASSUME TypeOK, NEW s \in Sessions, NEW p \in Paths, NEW a \in AgentsOf(s), Owes(a, p)
        PROVE  p \in UsedBy(a)
    BY <2>1 DEF Owes, Target, UsedBy
  <2>2. QED
    BY <2>1 DEF PlacedIsSeen, OwnWritesAreNotRefused
<1>4. QED
  BY <1>1, <1>2, <1>3, TypeCorrect, PTL DEF Spec

(* What a write, an edit or a move takes away is the text its session knew, *)
(* or another changed the file during one of the session's calls on it:     *)
(* write_blocked_reason compares stamps, and equal stamps tell equal texts. *)
THEOREM NothingUnknownIsTaken == Spec => OnlyKnownIsOverwritten
<1>1. ASSUME GuardInv, NEW a \in Agents, NEW p \in Paths, Takes(a, p)
      PROVE  disk[p].text = known[SessionOf[a]][p] \/ <<SessionOf[a], p>> \in crossed
  <2>1. /\ TypeOK /\ KnowsFirst(a) /\ disk[p] # Absent
        /\ \/ call[a].at = "recorded" /\ p = call[a].path
           \/ call[a].at = "saved" /\ call[a].op = "move" /\ p = call[a].to
    BY <1>1 DEF GuardInv, CallsKnow, Fine, Takes
  <2>2. call[a].at = "recorded" => call[a].op \in Writers
    BY <2>1, WhereItIs
  <2>3. Knows(SessionOf[a], p)
    BY <2>1, <2>2 DEF KnowsFirst
  <2>4. QED
    BY <2>1, <2>3 DEF Knows
<1>2. GuardInv /\ [Next]_vars =>
        [\A a \in Agents, p \in Paths :
           Takes(a, p) => \/ disk[p].text = known[SessionOf[a]][p]
                          \/ <<SessionOf[a], p>> \in crossed]_vars
  BY <1>1
<1>3. QED
  BY <1>2, Guarded, PTL DEF Spec, OnlyKnownIsOverwritten

(* What write_file, edit_file, delete_file and todo_write replace or take   *)
(* away is still there when it goes: in the record that record_undo made of *)
(* it, in the trash, or, of what a chat deletes for good and of its todo    *)
(* list, in the row that checkpoint_before_write made.                      *)
LEMMA OwnStep ==
  ASSUME TypeOK, Next, NEW a \in Agents, call[a].at \in {"saved", "recorded"},
         call'[a] # call[a], disk' # disk
  PROVE  ToolStep(a)
<1>1. ~Crash
  BY CrashFrame
<1>2. ToolCall(a) \/ ToolStep(a)
  BY <1>1, CallIsItsOwn, OutsideFrame DEF Next
<1>3. QED
  BY <1>2, CallFrame

THEOREM NothingIsLost == Spec => ReplacedIsKept
<1>1. ASSUME GuardInv, Next, NEW a \in Agents, NEW p \in Paths, Replaces(a, p),
             KeepsIt(a)
      PROVE  disk[p].text \in Kept(p)' \/ <<SessionOf[a], p>> \in crossed
  <2>1. /\ TypeOK /\ SavesFirst(a) /\ RecordsFirst(a) /\ disk[p] # Absent
        /\ p = call[a].path /\ disk' # disk /\ call'[a] # call[a]
        /\ call[a].at \in {"saved", "recorded"} /\ call[a].op # "move"
    BY <1>1 DEF GuardInv, CallsKnow, Fine, Replaces
  <2>2. ToolStep(a)
    BY <1>1, <2>1, OwnStep
  <2>3. CASE call[a].at = "recorded"
    <3>1. Records(a, p)
      BY <2>1, <2>3 DEF RecordsFirst
    <3>2. QED
      BY <1>1, <2>1, <3>1, UndoIsKept DEF Records, Kept
  <2>4. CASE call[a].at = "saved" /\ Remove(a) /\ call[a].op = "delete"
    <3>1. [from |-> p, file |-> disk[p]] \in trash'
      BY <2>1, <2>4 DEF Remove
    <3>2. QED
      BY <3>1 DEF Kept
  <2>5. CASE call[a].at = "saved" /\ a \in Chats /\ UNCHANGED checkpoints
    <3>1. Saves(a, p)
      BY <2>1, <2>5 DEF SavesFirst
    <3>2. QED
      BY <2>1, <2>5, <3>1 DEF Saves, Kept
  <2>6. CASE call[a].at = "saved"
    <3>1. \/ Remove(a) /\ call[a].op \in Removers /\ UNCHANGED checkpoints
          \/ Put(a) /\ call[a].op = "todo" /\ UNCHANGED checkpoints
      <4>1. \/ Put(a) \/ Reject(a) \/ Remove(a) \/ Move(a) \/ ApplyUndo(a)
            \/ Copy(a) \/ Unlink(a)
            \/ \E e \in trash : TakeFromTrash(a, e)
        BY <2>1, <2>2, StepFrame
      <4>2. call[a].op \in Writers \cup Removers \cup {"todo"}
        BY <2>1, <2>6, WhereItIs
      <4>3. QED
        BY <2>6, <4>1, <4>2 DEF Put, Reject, Remove, Move, ApplyUndo, Copy, Unlink,
           TakeFromTrash, Writers, Removers
    <3>2. QED
      BY <1>1, <2>4, <2>5, <2>6, <3>1 DEF KeepsIt, Removers
  <2>7. QED
    BY <2>1, <2>3, <2>6
<1>2. GuardInv /\ [Next]_vars =>
        [\A a \in Agents, p \in Paths :
           Replaces(a, p) /\ KeepsIt(a) =>
             \/ disk[p].text \in Kept(p)'
             \/ <<SessionOf[a], p>> \in crossed]_vars
  BY <1>1
<1>3. QED
  BY <1>2, Guarded, PTL DEF Spec, ReplacedIsKept

=============================================================================
