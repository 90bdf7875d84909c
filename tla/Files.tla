------------------------------- MODULE Files --------------------------------
(***************************************************************************)
(* The file tools of a workspace (crates/openbad-tools/src/lib.rs): reads, *)
(* writes and edits behind the read-before-overwrite guard and the         *)
(* manifest's validators, deletions into the trash, moves, the undo stack, *)
(* snapshots, and the checkpoints a person restores from the panel         *)
(* (apps/desktop/src-tauri/src/lib.rs).                                    *)
(*                                                                         *)
(* Agents of one session, its chat and its subagents, share its record of  *)
(* reads; other sessions have their own; a person edits the same files.    *)
(* Only chats are wired to save checkpoints: subagents and the agents of   *)
(* tickets have no sink for them.                                          *)
(*                                                                         *)
(* An action is one access to the disk or to the record, since the others  *)
(* run on threads of their own.  A text is the number of the call that     *)
(* made it, and a stamp (length and modification time) is the number of    *)
(* the change: a rename keeps it, every other change makes a new one.      *)
(***************************************************************************)
EXTENDS Integers, Sequences, FiniteSets

Rows == INSTANCE SequencesExt

CONSTANTS
  Agents,     \* agent loops with file tools
  Chats,      \* those of them with a sink for checkpoints
  Sessions,   \* sessions with a record of reads
  SessionOf,  \* the session an agent works for
  Paths,      \* files of the workspace
  Ops,        \* what happens: a subset of OpKinds
  MaxCalls,   \* calls and other events (bounds the model)
  Absent      \* what there is where there is no file

OpKinds == {"read", "write", "edit", "delete", "hard", "move", "untrash",
            "undo", "snapshot", "todo", "person", "checkpoints", "crash"}

Nobody == "nobody"

ASSUME ConstantsAssumption ==
  /\ SessionOf \in [Agents -> Sessions] /\ Chats \subseteq Agents
  /\ Ops \subseteq OpKinds /\ MaxCalls \in Nat
  /\ Nobody \notin Agents \cup Sessions /\ "none" \notin Paths

VARIABLES
  disk,         \* what there is at each path
  trash,        \* .openbad/trash: files, with the path each had
  undo,         \* .openbad/undo: records, oldest first, those done as well
  snapshot,     \* .openbad/snapshots/<label>, when there is one
  checkpoints,  \* rows: file_checkpoints, oldest first
  seen,         \* memory: SessionReads, the stamp each session holds
  call,         \* memory: the call each agent is in
  count,        \* calls begun, and changes made
  known,        \* history: the text a session last read, put or moved there
  crossed,      \* history: changed by another during a call of the session
  placedBy      \* history: the session whose tool put a file there

vars == <<disk, trash, undo, snapshot, checkpoints, seen, call, count,
          known, crossed, placedBy>>

NoText  == <<>>
NoStamp == <<>>
File(p, text) == [text |-> text, stamp |-> <<count.changes + 1, p>>]
TextAt(p)  == IF disk[p] = Absent THEN NoText ELSE disk[p].text
IdleCall   == [at |-> "idle", op |-> "none", path |-> "none", to |-> "none",
               prev |-> NoText, text |-> NoText]

Begins(op) == op \in Ops /\ count.calls < MaxCalls
Start(a, op, p, to, text) ==
  /\ Begins(op) /\ call[a].at = "idle"
  /\ call' = [call EXCEPT ![a] =
       [at |-> "checked", op |-> op, path |-> p, to |-> to,
        prev |-> NoText, text |-> text]]
  /\ count' = [count EXCEPT !.calls = @ + 1]
Go(a, at) == call' = [call EXCEPT ![a].at = at]
End(a)    == call' = [call EXCEPT ![a] = IdleCall]

UsedBy(a)   == {call[a].path, call[a].to} \cap Paths
AgentsOf(s) == {a \in Agents : SessionOf[a] = s}

(* The bookkeeping of a change of the files in ps by an agent, or a person. *)
Changed(x, ps, d) ==
  /\ disk' = d
  /\ crossed' = crossed \cup
       {r \in Sessions \X ps :
          \E a \in AgentsOf(r[1]) \ {x} : r[2] \in UsedBy(a)}
Placed(ps, who) ==
  placedBy' = [p \in Paths |-> IF p \in ps THEN who ELSE placedBy[p]]
Tick == count' = [count EXCEPT !.changes = @ + 1]

Init ==
  /\ \E ps \in SUBSET Paths :
       disk = [p \in Paths |->
                 IF p \in ps THEN [text |-> <<0, p>>, stamp |-> <<0, p>>]
                             ELSE Absent]
  /\ trash = {} /\ undo = <<>> /\ snapshot = <<>> /\ checkpoints = <<>>
  /\ seen = [s \in Sessions |-> [p \in Paths |-> NoStamp]]
  /\ call = [a \in Agents |-> IdleCall]
  /\ count = [calls |-> 0, changes |-> 0]
  /\ known = [s \in Sessions |-> [p \in Paths |-> NoText]]
  /\ crossed = {}
  /\ placedBy = [p \in Paths |-> Nobody]

-----------------------------------------------------------------------------
(* The record of reads.                                                     *)

(* write_blocked_reason                                                     *)
MutantOnceRead(s, p) == disk[p] # Absent /\ seen[s][p] = NoStamp
Blocked(s, p) == disk[p] # Absent /\ seen[s][p] # disk[p].stamp

(* mark_read stamps what is there now, if anything is.                      *)
Mark(s, p, text) ==
  IF disk[p] = Absent THEN UNCHANGED <<seen, known>>
  ELSE /\ seen' = [seen EXCEPT ![s][p] = disk[p].stamp]
       /\ known' = [known EXCEPT ![s][p] = text]

(* read_file, and the tools that read the same way: first the content, then *)
(* the stamp.                                                               *)
ReadContent(a, p) ==
  /\ disk[p] # Absent
  /\ Start(a, "read", p, "none", disk[p].text)
  /\ UNCHANGED <<disk, trash, undo, snapshot, checkpoints, seen, known,
                 crossed, placedBy>>
ReadStamp(a) ==
  LET s == SessionOf[a]  p == call[a].path IN
  /\ call[a].op = "read"
  /\ Mark(s, p, call[a].text)
  /\ crossed' = IF /\ disk[p] # Absent /\ disk[p].text = call[a].text
                   /\ \A b \in AgentsOf(s) \ {a} : p \notin UsedBy(b)
                THEN crossed \ {<<s, p>>} ELSE crossed
  /\ End(a)
  /\ UNCHANGED <<disk, trash, undo, snapshot, checkpoints, count, placedBy>>

-----------------------------------------------------------------------------
(* The tools that change a file begin with their checks.                    *)

Check(a, op, p, to) ==
  /\ CASE op = "write"             -> ~Blocked(SessionOf[a], p)
       [] op = "edit"              -> disk[p] # Absent
                                        /\ ~Blocked(SessionOf[a], p)
       [] op \in {"delete", "hard"} -> disk[p] # Absent
       [] op = "move"              -> disk[p] # Absent
                                        /\ ~Blocked(SessionOf[a], to)
       [] op = "todo"              -> TRUE
  /\ Start(a, op, p, to, <<count.calls + 1>>)
  /\ UNCHANGED <<disk, trash, undo, snapshot, checkpoints, seen, known,
                 crossed, placedBy>>

(* The content a rejected write goes back to.  An edit also finds the text  *)
(* it replaces there, or ends.                                              *)
Capture(a) ==
  /\ call[a].at = "checked" /\ call[a].op \in {"write", "edit"}
  /\ \/ /\ call[a].op = "edit" => disk[call[a].path] # Absent
        /\ call' = [call EXCEPT ![a].at = "captured",
                                ![a].prev = TextAt(call[a].path)]
     \/ call[a].op = "edit" /\ End(a)
  /\ UNCHANGED <<disk, trash, undo, snapshot, checkpoints, seen, count,
                 known, crossed, placedBy>>

(* checkpoint_before_write: nothing, where the agent has no sink.           *)
NeedsCapture(a) == call[a].op \in {"write", "edit"}
Save(a) ==
  /\ call[a].at = IF NeedsCapture(a) THEN "captured" ELSE "checked"
  /\ call[a].op \in {"write", "edit", "delete", "hard", "move", "todo"}
  /\ checkpoints' = IF a \in Chats
                    THEN Append(checkpoints, [path |-> call[a].path,
                                              was |-> TextAt(call[a].path)])
                    ELSE checkpoints
  /\ Go(a, "saved")
  /\ UNCHANGED <<disk, trash, undo, snapshot, seen, count, known, crossed,
                 placedBy>>

(* record_undo, of every agent.                                             *)
MutantRecordsWithSink(a) ==
  /\ call[a].at = "saved" /\ NeedsCapture(a)
  /\ undo' = IF a \in Chats
             THEN Append(undo, [id |-> call[a].text, path |-> call[a].path,
                                was |-> TextAt(call[a].path), done |-> FALSE])
             ELSE undo
  /\ Go(a, "recorded")
  /\ UNCHANGED <<disk, trash, snapshot, checkpoints, seen, count, known,
                 crossed, placedBy>>
Record(a) ==
  /\ call[a].at = "saved" /\ NeedsCapture(a)
  /\ undo' = Append(undo, [id |-> call[a].text, path |-> call[a].path,
                           was |-> TextAt(call[a].path), done |-> FALSE])
  /\ Go(a, "recorded")
  /\ UNCHANGED <<disk, trash, snapshot, checkpoints, seen, count, known,
                 crossed, placedBy>>

(* atomic_write: a new file takes the place of the old one.                 *)
Put(a) ==
  LET p == call[a].path IN
  /\ \/ call[a].at = "recorded"
        /\ Go(a, "put") /\ Placed({p}, SessionOf[a])
     \/ call[a].at = "saved" /\ call[a].op = "todo"
        /\ End(a) /\ Placed({p}, Nobody)
  /\ Changed(a, {p}, [disk EXCEPT ![p] = File(p, call[a].text)])
  /\ Tick
  /\ UNCHANGED <<trash, undo, snapshot, checkpoints, seen, known>>

(* run_validators: each matching one passes, or the file goes back.         *)
Accept(a) ==
  /\ call[a].at = "put" /\ call[a].op \in {"write", "edit"}
  /\ Go(a, "settling")
  /\ UNCHANGED <<disk, trash, undo, snapshot, checkpoints, seen, count,
                 known, crossed, placedBy>>
MutantLeavesEmptyFile(p, text) == File(p, text)
Back(p, text) == IF text = NoText THEN Absent ELSE File(p, text)
MutantForgetsToSettle(a) ==
  LET p == call[a].path IN
  /\ call[a].at = "put" /\ call[a].op \in {"write", "edit"}
  /\ End(a)
  /\ Changed(a, {p}, [disk EXCEPT ![p] = Back(p, call[a].prev)])
  /\ Placed({p}, SessionOf[a]) /\ Tick
  /\ UNCHANGED <<trash, undo, snapshot, checkpoints, seen, known>>
Reject(a) ==
  LET p == call[a].path IN
  /\ call[a].at = "put" /\ call[a].op \in {"write", "edit"}
  /\ call' = [call EXCEPT ![a].at = "settling", ![a].text = call[a].prev]
  /\ Changed(a, {p}, [disk EXCEPT ![p] = Back(p, call[a].prev)])
  /\ Placed({p}, SessionOf[a]) /\ Tick
  /\ UNCHANGED <<trash, undo, snapshot, checkpoints, seen, known>>

(* settle_write, of the file that was written, moved or put back.           *)
Settle(a) ==
  /\ call[a].at = "settling"
  /\ Mark(SessionOf[a],
          IF call[a].op = "move" THEN call[a].to ELSE call[a].path,
          call[a].text)
  /\ IF call[a].op = "undo" THEN Go(a, "settled") ELSE End(a)
  /\ UNCHANGED <<disk, trash, undo, snapshot, checkpoints, count, crossed,
                 placedBy>>

-----------------------------------------------------------------------------
(* Deletions and moves rename the file, if it is still there.               *)

Remove(a) ==
  LET p == call[a].path IN
  /\ call[a].at = "saved" /\ call[a].op \in {"delete", "hard"}
  /\ End(a)
  /\ IF disk[p] = Absent THEN UNCHANGED <<disk, trash, crossed, placedBy>>
     ELSE /\ Changed(a, {p}, [disk EXCEPT ![p] = Absent])
          /\ trash' = IF call[a].op = "hard" THEN trash
                      ELSE trash \cup {[from |-> p, file |-> disk[p]]}
          /\ Placed({p}, Nobody)
  /\ UNCHANGED <<undo, snapshot, checkpoints, seen, count, known>>

Move(a) ==
  LET p == call[a].path  q == call[a].to IN
  /\ call[a].at = "saved" /\ call[a].op = "move"
  /\ IF disk[p] = Absent
     THEN End(a) /\ UNCHANGED <<disk, crossed, placedBy>>
     ELSE /\ call' = [call EXCEPT ![a].at = "settling",
                                  ![a].text = disk[p].text]
          /\ Changed(a, {p, q}, [disk EXCEPT ![p] = Absent, ![q] = disk[p]])
          /\ placedBy' = [placedBy EXCEPT ![p] = Nobody,
                                          ![q] = SessionOf[a]]
  /\ UNCHANGED <<trash, undo, snapshot, checkpoints, seen, count, known>>

(* Where the rename fails, as between file systems, the file is copied: a   *)
(* new file at the destination.  Then the old one is removed; if that fails *)
(* too, since it is gone, the copy stays and nothing is settled.            *)
Copy(a) ==
  LET p == call[a].path  q == call[a].to IN
  /\ call[a].at = "saved" /\ call[a].op = "move" /\ disk[p] # Absent
  /\ call' = [call EXCEPT ![a].at = "copied", ![a].text = disk[p].text]
  /\ Changed(a, {q}, [disk EXCEPT ![q] = File(q, disk[p].text)])
  /\ Placed({q}, SessionOf[a]) /\ Tick
  /\ UNCHANGED <<trash, undo, snapshot, checkpoints, seen, known>>
Unlink(a) ==
  LET p == call[a].path IN
  /\ call[a].at = "copied"
  /\ IF disk[p] = Absent
     THEN End(a) /\ Placed({call[a].to}, Nobody) /\ UNCHANGED <<disk, crossed>>
     ELSE /\ Go(a, "settling") /\ Placed({p}, Nobody)
          /\ Changed(a, {p}, [disk EXCEPT ![p] = Absent])
  /\ UNCHANGED <<trash, undo, snapshot, checkpoints, seen, count, known>>

(* restore_trash: to where nothing was when it looked.                      *)
FindInTrash(a, e) ==
  /\ disk[e.from] = Absent
  /\ Start(a, "untrash", e.from, "none", e.file.text)
  /\ UNCHANGED <<disk, trash, undo, snapshot, checkpoints, seen, known,
                 crossed, placedBy>>
TakeFromTrash(a, e) ==
  LET p == call[a].path IN
  /\ call[a].op = "untrash"
  /\ e.from = p /\ e.file.text = call[a].text
  /\ trash' = trash \ {e}
  /\ Changed(a, {p}, [disk EXCEPT ![p] = e.file])
  /\ Placed({p}, Nobody)
  /\ End(a)
  /\ UNCHANGED <<undo, snapshot, checkpoints, seen, count, known>>
TrashIsGone(a) ==
  /\ call[a].op = "untrash"
  /\ \A e \in trash : e.from # call[a].path \/ e.file.text # call[a].text
  /\ End(a)
  /\ UNCHANGED <<disk, trash, undo, snapshot, checkpoints, seen, count,
                 known, crossed, placedBy>>

-----------------------------------------------------------------------------
(* undo_last: the newest record of any session that is not done is read,    *)
(* applied, settled, and renamed to say that it is done.                    *)

IsNewest(i) == ~undo[i].done /\ \A j \in DOMAIN undo : j > i => undo[j].done
PickUndo(a, i) ==
  /\ IsNewest(i) /\ Begins("undo") /\ call[a].at = "idle"
  /\ call' = [call EXCEPT ![a] =
       [at |-> "checked", op |-> "undo", path |-> undo[i].path, to |-> "none",
        prev |-> undo[i].id, text |-> undo[i].was]]
  /\ count' = [count EXCEPT !.calls = @ + 1]
  /\ UNCHANGED <<disk, trash, undo, snapshot, checkpoints, seen, known,
                 crossed, placedBy>>
ApplyUndo(a) ==
  LET p == call[a].path IN
  /\ call[a].op = "undo" /\ call[a].at = "checked"
  /\ Changed(a, {p}, [disk EXCEPT ![p] = Back(p, call[a].text)])
  /\ Placed({p}, SessionOf[a]) /\ Tick
  /\ Go(a, "settling")
  /\ UNCHANGED <<trash, undo, snapshot, checkpoints, seen, known>>
FinishUndo(a) ==
  /\ call[a].at = "settled"
  /\ undo' = [i \in DOMAIN undo |->
               [undo[i] EXCEPT !.done = @ \/ undo[i].id = call[a].prev]]
  /\ End(a)
  /\ UNCHANGED <<disk, trash, snapshot, checkpoints, seen, count, known,
                 crossed, placedBy>>

-----------------------------------------------------------------------------
(* snapshot_create copies the files; snapshot_restore copies them back over *)
(* what is there, and leaves other files alone.                             *)

Event(op) == Begins(op) /\ count' = [count EXCEPT !.calls = @ + 1]

TakeSnapshot(a) ==
  /\ call[a].at = "idle" /\ Event("snapshot")
  /\ snapshot' = <<[p \in Paths |-> TextAt(p)]>>
  /\ UNCHANGED <<disk, trash, undo, checkpoints, seen, call, known, crossed,
                 placedBy>>
RestoreSnapshot(a) ==
  LET ps == {p \in Paths : snapshot[1][p] # NoText} IN
  /\ call[a].at = "idle" /\ Begins("snapshot") /\ snapshot # <<>>
  /\ Changed(a, ps, [p \in Paths |-> IF p \in ps THEN File(p, snapshot[1][p])
                                                ELSE disk[p]])
  /\ Placed(ps, Nobody)
  /\ count' = [calls |-> count.calls + 1, changes |-> count.changes + 1]
  /\ UNCHANGED <<trash, undo, snapshot, checkpoints, seen, call, known>>

-----------------------------------------------------------------------------
(* What a person does meanwhile, and the app going down.                    *)

PersonChanges(p, to) ==
  /\ Changed(Nobody, {p}, [disk EXCEPT ![p] = to])
  /\ Placed({p}, Nobody)
  /\ count' = [calls |-> count.calls + 1, changes |-> count.changes + 1]
  /\ UNCHANGED <<trash, undo, snapshot, seen, call, known>>

PersonEdits(p) ==
  /\ Begins("person")
  /\ \/ PersonChanges(p, File(p, <<count.calls + 1>>))
     \/ disk[p] # Absent /\ PersonChanges(p, Absent)
  /\ UNCHANGED checkpoints

(* restore_checkpoint takes the row it restored out of the list.            *)
RestoreCheckpoint(i) ==
  LET row == checkpoints[i] IN
  /\ Begins("checkpoints")
  /\ PersonChanges(row.path, Back(row.path, row.was))
  /\ checkpoints' = Rows!RemoveAt(checkpoints, i)

(* The calls and the record of reads are gone; the disk and the rows stay.  *)
Crash ==
  /\ Event("crash")
  /\ call' = [a \in Agents |-> IdleCall]
  /\ seen' = [s \in Sessions |-> [p \in Paths |-> NoStamp]]
  /\ known' = [s \in Sessions |-> [p \in Paths |-> NoText]]
  /\ crossed' = {}
  /\ placedBy' = [p \in Paths |-> Nobody]
  /\ UNCHANGED <<disk, trash, undo, snapshot, checkpoints>>

-----------------------------------------------------------------------------
ToolStep(a) ==
  \/ ReadStamp(a) \/ Capture(a) \/ Save(a) \/ Record(a) \/ Put(a)
  \/ Accept(a) \/ Reject(a) \/ Settle(a) \/ Remove(a) \/ Move(a)
  \/ Copy(a) \/ Unlink(a)
  \/ \E e \in trash : TakeFromTrash(a, e)
  \/ TrashIsGone(a) \/ ApplyUndo(a) \/ FinishUndo(a)

ToolCall(a) ==
  \/ \E p \in Paths :
       \/ ReadContent(a, p)
       \/ \E op \in {"write", "edit", "delete", "hard", "todo"} :
            Check(a, op, p, "none")
       \/ \E q \in Paths \ {p} : Check(a, "move", p, q)
  \/ \E e \in trash : FindInTrash(a, e)
  \/ \E i \in DOMAIN undo : PickUndo(a, i)
  \/ TakeSnapshot(a) \/ RestoreSnapshot(a)

Next ==
  \/ \E a \in Agents : ToolCall(a) \/ ToolStep(a)
  \/ \E p \in Paths : PersonEdits(p)
  \/ \E i \in DOMAIN checkpoints : RestoreCheckpoint(i)
  \/ Crash

Spec == Init /\ [][Next]_vars

-----------------------------------------------------------------------------
(* Properties.                                                              *)

(* Every variable has its type, no file is without a text, and a call is at *)
(* a step of its tool, with the files that tool works on.                   *)
Texts  == {NoText} \cup {<<0, p>> : p \in Paths}
            \cup {<<n>> : n \in 1 .. MaxCalls}
Stamps(changes)  == (0 .. changes) \X Paths
Entries(changes) == [text : Texts \ {NoText}, stamp : Stamps(changes)]
Calls  == [at : {"idle", "checked", "captured", "saved", "recorded", "put",
                 "copied", "settling", "settled"},
           op : OpKinds \cup {"none"}, path : Paths \cup {"none"},
           to : Paths \cup {"none"}, prev : Texts, text : Texts]
Writers  == {"write", "edit"}
Removers == {"delete", "hard"}
StepsOf(op) ==
  CASE op \in Writers -> {"checked", "captured", "saved", "recorded", "put",
                          "settling"}
    [] op = "move"    -> {"checked", "saved", "copied", "settling"}
    [] op = "undo"    -> {"checked", "settling", "settled"}
    [] op \in Removers \cup {"todo"}  -> {"checked", "saved"}
    [] op \in {"read", "untrash"} -> {"checked"}
    [] OTHER -> {}
CallTyped(c) ==
  /\ c.at = "idle" => c = IdleCall
  /\ c.at # "idle" => c.path \in Paths /\ c.at \in StepsOf(c.op)
  /\ c.op = "todo" \/ (c.op \in Writers /\ c.at # "settling")
       => c.text # NoText
  /\ IF c.op = "move" THEN c.to \in Paths \ {c.path} ELSE c.to = "none"

TypeOK ==
  /\ disk \in [Paths -> Entries(count.changes) \cup {Absent}]
  /\ trash \subseteq [from : Paths, file : Entries(count.changes)]
  /\ undo \in Seq([id : Texts, path : Paths, was : Texts, done : BOOLEAN])
  /\ snapshot \in Seq([Paths -> Texts])
  /\ checkpoints \in Seq([path : Paths, was : Texts])
  /\ seen \in [Sessions -> [Paths -> Stamps(count.changes) \cup {NoStamp}]]
  /\ call \in [Agents -> Calls]
  /\ \A a \in Agents : CallTyped(call[a])
  /\ count \in [calls : 0 .. MaxCalls, changes : Nat]
  /\ known \in [Sessions -> [Paths -> Texts]]
  /\ crossed \subseteq Sessions \X Paths
  /\ placedBy \in [Paths -> Sessions \cup {Nobody}]

(* The read-before-overwrite guard: what a write, an edit or a move takes   *)
(* away is the text its session last read or put there itself.  Only a      *)
(* change made by somebody else during one of the session's own calls on    *)
(* that file can get past it.                                               *)
Takes(a, p) ==
  /\ disk[p] # Absent /\ disk'[p] # disk[p] /\ call'[a] # call[a]
  /\ \/ call[a].at = "recorded" /\ p = call[a].path
     \/ call[a].at = "saved" /\ call[a].op = "move" /\ p = call[a].to
OnlyKnownIsOverwritten ==
  [][\A a \in Agents, p \in Paths :
       Takes(a, p) => \/ disk[p].text = known[SessionOf[a]][p]
                      \/ <<SessionOf[a], p>> \in crossed]_vars

(* settle_write: a session whose own tool put a file there, also by taking  *)
(* a rejected write back, may write it again without reading it first.      *)
OwnWritesAreNotRefused ==
  \A s \in Sessions, p \in Paths :
    /\ placedBy[p] = s
    /\ \A a \in AgentsOf(s) : p \notin UsedBy(a)
    => ~Blocked(s, p)

(* What write_file, edit_file, delete_file and todo_write replace or take   *)
(* away is kept when it goes, in a checkpoint, an undo record or the trash, *)
(* unless it came there during the call.  But an agent without a sink keeps *)
(* nothing of a file it deletes for good, or of the todo list it replaces.  *)
(* Not in this are undo_last and snapshot_restore, whose code keeps nothing *)
(* of what they write over, and the destination of a move, of which         *)
(* move_file saves nothing either: those texts may be gone.                 *)
Kept(p) ==
  {checkpoints[i].was : i \in {j \in DOMAIN checkpoints : checkpoints[j].path = p}}
  \cup {undo[i].was : i \in {j \in DOMAIN undo : undo[j].path = p}}
  \cup {e.file.text : e \in {x \in trash : x.from = p}}
Replaces(a, p) ==
  /\ disk[p] # Absent /\ disk'[p] # disk[p] /\ call'[a] # call[a]
  /\ call[a].at \in {"saved", "recorded"} /\ call[a].op # "move"
  /\ p = call[a].path
KeepsIt(a) == a \in Chats \/ call[a].op \notin {"hard", "todo"}
ReplacedIsKept ==
  [][\A a \in Agents, p \in Paths :
       Replaces(a, p) /\ KeepsIt(a) =>
         \/ disk[p].text \in Kept(p)'
         \/ <<SessionOf[a], p>> \in crossed]_vars
=============================================================================
