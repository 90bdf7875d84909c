----------------------------- MODULE McpProofs -----------------------------
(***************************************************************************)
(* What McpCommands checks of two threads and one server, proved for every *)
(* number of workspaces, threads, servers and commands.                    *)
(***************************************************************************)
EXTENDS McpServers, SequenceTheorems, TLAPS

-----------------------------------------------------------------------------
(* The parts of a state that steps are built from.                          *)

LEMMA IdleTyped == IdleOp \in Operation
  BY DEF IdleOp, Operation, OpStep, NoDefs, Definitions, CommandKinds

LEMMA DefsTyped ==
  ASSUME FilesTypeOK
  PROVE  Defs \in Definitions
  BY DEF FilesTypeOK, Defs, NoDefs, Definitions

LEMMA MemTyped ==
  ASSUME FilesTypeOK, NEW t \in Threads
  PROVE  /\ M(t) \in Managers
         /\ Mem(t).defs \in Definitions /\ Mem(t).enabled \in SUBSET Servers
         /\ Stamps(M(t)) \in (Definitions \cup {None}) \X SUBSET Servers
  BY ConstantsAssumption DEF FilesTypeOK, M, Mem, Stamps

LEMMA ReleasedTyped ==
  ASSUME LocksTypeOK, NEW t \in Threads, ReleaseAll(t)
  PROVE  LocksTypeOK'
<1> DEFINE m == M(t)
<1>0. m \in Managers
  BY ConstantsAssumption DEF M
<1>1. \A l \in {"global", "project"} :
        /\ Released(t, l) \in LockState
        /\ Released(t, l).writer # None => Released(t, l).readers = {}
  BY <1>0 DEF LocksTypeOK, LockState, Released, Lock
<1>2. /\ lock' \in [Managers -> [{"global", "project"} -> LockState]]
      /\ \A n \in Managers \ {m} : lock'[n] = lock[n]
      /\ \A l \in {"global", "project"} : lock'[m][l] = Released(t, l)
  BY <1>0, <1>1 DEF LocksTypeOK, ReleaseAll
<1> HIDE DEF m
<1>3. QED
  BY <1>1, <1>2 DEF LocksTypeOK

LEMMA TakenTyped ==
  ASSUME LocksTypeOK, NEW t \in Threads, NEW l \in {"global", "project"},
         \/ CanWrite(t, l) /\ Writes(t, l)
         \/ CanRead(t, l) /\ Reads(t, l)
  PROVE  LocksTypeOK'
<1>0. M(t) \in Managers
  BY ConstantsAssumption DEF M
<1>1. Lock(t, l) \in LockState
  BY <1>0 DEF LocksTypeOK, Lock
<1>2. CASE CanWrite(t, l) /\ Writes(t, l)
  <2>1. lock' = [lock EXCEPT ![M(t)][l] = [writer |-> t, readers |-> {}]]
    <3>1. [Lock(t, l) EXCEPT !.writer = t] = [writer |-> t, readers |-> {}]
      BY <1>2 DEF CanWrite, Free
    <3>2. QED
      BY <3>1, <1>2, Zenon DEF Writes, Lock
  <2>2. QED
    BY <1>0, <2>1 DEF LocksTypeOK, LockState
<1>3. CASE CanRead(t, l) /\ Reads(t, l)
  <2>1. lock' = [lock EXCEPT ![M(t)][l] =
                   [writer |-> None, readers |-> Lock(t, l).readers \cup {t}]]
    <3>1. [Lock(t, l) EXCEPT !.readers = @ \cup {t}] =
            [writer |-> None, readers |-> Lock(t, l).readers \cup {t}]
      BY <1>1, <1>3 DEF CanRead, LockState
    <3>2. QED
      BY <3>1, <1>3, Zenon DEF Reads, Lock
  <2>2. QED
    BY <1>0, <1>1, <2>1 DEF LocksTypeOK, LockState
<1>4. QED
  BY <1>2, <1>3

-----------------------------------------------------------------------------
(* Type correctness, one lemma for each part of the state.                  *)

LEMMA FilesStay ==
  ASSUME TypeOK, Next
  PROVE  FilesTypeOK'
<1> USE DEF TypeOK
<1>1. CASE UNCHANGED <<file, temp, project, mem>>
  BY <1>1 DEF FilesTypeOK
<1>2. ASSUME NEW t \in Threads, ReloadProject(t)
      PROVE  FilesTypeOK'
  <2>1. op[t].defs \in Definitions /\ op[t].enabled \in SUBSET Servers
    BY DEF OpsTypeOK, Operation
  <2>2. QED
    BY <1>2, <2>1, MemTyped DEF ReloadProject, FilesTypeOK
<1>3. ASSUME NEW t \in Threads, ReloadStamps(t)
      PROVE  FilesTypeOK'
  BY <1>3, MemTyped DEF ReloadStamps, FilesTypeOK
<1>4. ASSUME NEW t \in Threads, SaveTemp(t)
      PROVE  FilesTypeOK'
  BY <1>4 DEF SaveTemp, FilesTypeOK, OpsTypeOK, Operation
<1>5. ASSUME NEW t \in Threads, Rename(t)
      PROVE  FilesTypeOK'
  BY <1>5 DEF Rename, FilesTypeOK
<1>6. ASSUME NEW t \in Threads, Saved(t)
      PROVE  FilesTypeOK'
  <2>1. op[t].defs \in Definitions
    BY DEF OpsTypeOK, Operation
  <2>2. QED
    BY <1>6, <2>1, MemTyped DEF Saved, FilesTypeOK
<1>7. ASSUME NEW t \in Threads, NEW enabled \in SUBSET Servers,
             Persist(t, enabled), UNCHANGED <<file, temp>>
      PROVE  FilesTypeOK'
  BY <1>7, MemTyped DEF Persist, FilesTypeOK
<1>8. ASSUME NEW t \in Threads, DropEnabled(t)
      PROVE  FilesTypeOK'
  BY <1>1, <1>7, <1>8, MemTyped DEF DropEnabled
<1>9. ASSUME NEW t \in Threads, Toggle(t)
      PROVE  FilesTypeOK'
  <2>1. op[t].at # "idle"
    BY <1>9 DEF Toggle
  <2>2. op[t].server \in Servers
    BY <2>1 DEF OpsTypeOK, CommandTyped
  <2>3. QED
    BY <1>1, <1>7, <1>9, <2>2, MemTyped DEF Toggle
<1>10. ASSUME NEW s \in Servers, NEW v \in Versions \cup {None}, Edit(s, v)
       PROVE  FilesTypeOK'
  BY <1>10, DefsTyped DEF Edit, FilesTypeOK, Definitions
<1>11. QED
  BY <1>1, <1>2, <1>3, <1>4, <1>5, <1>6, <1>8, <1>9, <1>10
  DEF Next, Step, Look, LoadGlobal, LoadProject, ReloadGlobal, Unmap, Kill,
      TakeRead, ReadConfig, FindClient, Ask, Hear, Return, GiveUp, TakeGlobal,
      Stopped, TakeProject, Begin, Answer, Dies

LEMMA LocksStay ==
  ASSUME TypeOK, Next
  PROVE  LocksTypeOK'
<1> USE DEF TypeOK
<1>1. CASE UNCHANGED lock
  BY <1>1 DEF LocksTypeOK
<1>2. CASE \E t \in Threads : ReleaseAll(t)
  BY <1>2, ReleasedTyped
<1>3. CASE \E t \in Threads :
             \/ CanWrite(t, "global")  /\ Writes(t, "global")
             \/ CanWrite(t, "project") /\ Writes(t, "project")
             \/ CanRead(t, "global")   /\ Reads(t, "global")
  BY <1>3, TakenTyped
<1>4. QED
  BY <1>1, <1>2, <1>3
  DEF Next, Step, Look, LoadGlobal, LoadProject, ReloadGlobal, ReloadProject,
      ReloadStamps, Unmap, Kill, TakeRead, ReadConfig, FindClient, Ask, Hear,
      Return, GiveUp, TakeGlobal, SaveTemp, Rename, Saved, Stopped,
      DropEnabled, TakeProject, Toggle, Begin, Answer, Dies, Edit

LEMMA ProcStays ==
  ASSUME TypeOK, Next
  PROVE  /\ ProcTypeOK' /\ Len(proc') \in Nat /\ Len(proc') >= Len(proc)
<1> USE DEF TypeOK
<1>0. Len(proc) \in Nat /\ DOMAIN proc = 1 .. Len(proc)
  BY LenProperties DEF ProcTypeOK
<1>1. CASE UNCHANGED <<proc, clients>>
  BY <1>0, <1>1 DEF ProcTypeOK
<1>2. ASSUME NEW p \in 1 .. Len(proc), NEW q \in Process,
             proc' = [proc EXCEPT ![p] = q], UNCHANGED clients
      PROVE  ProcTypeOK' /\ Len(proc') = Len(proc)
  BY <1>2, ExceptSeq DEF ProcTypeOK
<1>3. ASSUME NEW t \in Threads, Unmap(t)
      PROVE  ProcTypeOK' /\ Len(proc') = Len(proc)
  <2>1. PICK s \in Servers : clients' = [clients EXCEPT ![M(t)][s] = 0]
    BY <1>3 DEF Unmap, OpsTypeOK, Operation
  <2>2. UNCHANGED proc
    BY <1>3 DEF Unmap
  <2>3. QED
    BY <1>0, <2>1, <2>2, MemTyped DEF ProcTypeOK
<1>4. ASSUME NEW t \in Threads, Kill(t)
      PROVE  ProcTypeOK' /\ Len(proc') = Len(proc)
  <2>1. op[t].victim \in 1 .. Len(proc)
    BY <1>0, <1>4 DEF Kill, OpsTypeOK, CommandTyped
  <2>2. [proc[op[t].victim] EXCEPT !.up = FALSE] \in Process
    <3>1. proc[op[t].victim] \in Process
      BY <2>1, ElementOfSeq DEF ProcTypeOK
    <3>2. QED
      BY <3>1 DEF Process
  <2>3. QED
    BY <1>2, <1>4, <2>1, <2>2 DEF Kill
<1>5. ASSUME NEW t \in Threads, FindClient(t)
      PROVE  ProcTypeOK' /\ (Len(proc') = Len(proc) \/ Len(proc') = Len(proc) + 1)
  <2>1. CASE StartClient(t)
    <3>1. op[t].server \in Servers /\ op[t].def \in Versions \cup {None}
      BY <1>5 DEF FindClient, OpsTypeOK, CommandTyped, Operation
    <3>2. [manager |-> M(t), server |-> op[t].server,
           def |-> op[t].def, up |-> TRUE, user |-> None,
           next |-> 1, asked |-> {}, answers |-> <<>>] \in Process
      BY <3>1, MemTyped DEF Process
    <3>3. proc' \in Seq(Process) /\ Len(proc') = Len(proc) + 1
      BY <2>1, <3>2 DEF StartClient, Started, ProcTypeOK
    <3>4. clients' \in [Managers -> [Servers -> 0 .. Len(proc')]]
      BY <1>0, <2>1, <3>1, <3>3, MemTyped DEF StartClient, ProcTypeOK
    <3>5. QED
      BY <3>3, <3>4 DEF ProcTypeOK
  <2>2. QED
    BY <1>1, <1>5, <2>1 DEF FindClient
<1>6. ASSUME NEW t \in Threads, Ask(t)
      PROVE  ProcTypeOK' /\ Len(proc') = Len(proc)
  <2>1. CASE UNCHANGED proc
    BY <1>1, <1>6, <2>1 DEF Ask
  <2>2. CASE Pid(t).up
    <3>1. op[t].pid \in 1 .. Len(proc)
      BY <1>0, <1>6 DEF Ask, OpsTypeOK, CommandTyped
    <3>2. Pid(t) \in Process /\ op[t].number \in Nat
      BY <3>1, ElementOfSeq DEF Pid, ProcTypeOK, OpsTypeOK, Operation
    <3>3. ASSUME NEW q \in Question, NEW n \in Nat, NEW p \in Process
          PROVE  [p EXCEPT !.user = t, !.next = n, !.asked = @ \cup {q}] \in Process
      BY DEF Process
    <3>4. PICK q \in Question, n \in Nat :
            proc' = [proc EXCEPT ![op[t].pid] =
              [Pid(t) EXCEPT !.user = t, !.next = n, !.asked = @ \cup {q}]]
      <4>1. /\ [id |-> RequestId(t), for |-> op[t].number] \in Question
            /\ Pid(t).next + 1 \in Nat
        BY <3>2 DEF Process, Question, RequestId
      <4>2. proc' = [proc EXCEPT ![op[t].pid] =
              [Pid(t) EXCEPT !.user = t, !.next = Pid(t).next + 1, !.asked = @
                 \cup {[id |-> RequestId(t), for |-> op[t].number]}]]
        BY <1>6, <2>2 DEF Ask, Pid
      <4>3. QED
        BY <4>1, <4>2, Zenon
    <3>5. QED
      BY <1>2, <1>6, <3>1, <3>2, <3>3, <3>4 DEF Ask
  <2>3. QED
    BY <1>6, <2>1, <2>2 DEF Ask
<1>7. ASSUME NEW t \in Threads, Hear(t)
      PROVE  ProcTypeOK' /\ Len(proc') = Len(proc)
  <2>1. op[t].pid \in 1 .. Len(proc)
    BY <1>0, <1>7 DEF Hear, OpsTypeOK, CommandTyped
  <2>2. Pid(t) \in Process
    BY <2>1, ElementOfSeq DEF Pid, ProcTypeOK
  <2>3. PICK u \in Threads \cup {None} :
          proc' = [proc EXCEPT ![op[t].pid] =
                     [Pid(t) EXCEPT !.answers = Tail(@), !.user = u]]
    BY <1>7, <2>1, <2>2 DEF Hear, Pid, Process
  <2>4. [Pid(t) EXCEPT !.answers = Tail(@), !.user = u] \in Process
    BY <1>7, <2>2, HeadTailProperties DEF Process, Hear
  <2>5. QED
    BY <1>2, <1>7, <2>1, <2>3, <2>4 DEF Hear
<1>8. ASSUME NEW t \in Threads, GiveUp(t)
      PROVE  ProcTypeOK' /\ Len(proc') = Len(proc)
  <2>1. op[t].pid \in 1 .. Len(proc)
    BY <1>0, <1>8 DEF GiveUp, OpsTypeOK, CommandTyped
  <2>2. [proc[op[t].pid] EXCEPT !.user = None] \in Process
    <3>1. proc[op[t].pid] \in Process
      BY <2>1, ElementOfSeq DEF ProcTypeOK
    <3>2. QED
      BY <3>1 DEF Process
  <2>3. QED
    BY <1>2, <1>8, <2>1, <2>2 DEF GiveUp
<1>9. ASSUME NEW p \in DOMAIN proc, Answer(p) \/ Dies(p)
      PROVE  ProcTypeOK' /\ Len(proc') = Len(proc)
  <2>1. p \in 1 .. Len(proc) /\ proc[p] \in Process
    BY <1>0, ElementOfSeq DEF ProcTypeOK
  <2>2. CASE Dies(p)
    <3>1. [proc[p] EXCEPT !.up = FALSE] \in Process
      BY <2>1 DEF Process
    <3>2. QED
      BY <1>2, <2>1, <2>2, <3>1 DEF Dies
  <2>3. CASE Answer(p)
    <3>1. PICK q \in proc[p].asked :
            proc' = [proc EXCEPT ![p] =
              [proc[p] EXCEPT !.asked = @ \ {q}, !.answers = Append(@, q)]]
      BY <2>1, <2>3 DEF Answer, Process
    <3>2. q \in Question /\ proc[p].answers \in Seq(Question)
      BY <2>1, <3>1 DEF Process
    <3>3. [proc[p] EXCEPT !.asked = @ \ {q}, !.answers = Append(@, q)] \in Process
      <4>1. /\ Append(proc[p].answers, q) \in Seq(Question)
            /\ proc[p].asked \ {q} \in SUBSET Question
        BY <2>1, <3>2 DEF Process
      <4>2. QED
        BY <2>1, <4>1 DEF Process
    <3>4. QED
      BY <1>2, <2>1, <2>3, <3>1, <3>3 DEF Answer
  <2>4. QED
    BY <1>9, <2>2, <2>3
<1>10. CASE UNCHANGED proc /\ UNCHANGED clients
  BY <1>1, <1>10
<1>11. ASSUME NEW t \in Threads,
              Step(t), ~Unmap(t), ~Kill(t), ~FindClient(t), ~Ask(t), ~Hear(t),
              ~GiveUp(t)
       PROVE  UNCHANGED proc /\ UNCHANGED clients
  BY <1>11
  DEF Step, Look, LoadGlobal, LoadProject, ReloadGlobal, ReloadProject,
      ReloadStamps, TakeRead, ReadConfig, Return, TakeGlobal, SaveTemp, Rename,
      Saved, Stopped, DropEnabled, TakeProject, Toggle
<1>12. \/ ProcTypeOK' /\ Len(proc') = Len(proc)
       \/ ProcTypeOK' /\ Len(proc') = Len(proc) + 1
  BY <1>3, <1>4, <1>5, <1>6, <1>7, <1>8, <1>9, <1>10, <1>11
  DEF Next, Begin, Edit
<1>13. QED
  BY <1>0, <1>12

LEMMA TailIsLeft ==
  ASSUME NEW S, NEW s \in Seq(S), s # <<>>, Len(s) # 1
  PROVE  Tail(s) \in Seq(S) /\ Tail(s) # <<>>
<1>1. Len(s) \in Nat /\ Len(s) # 0
  OBVIOUS
<1>2. Tail(s) \in Seq(S) /\ Len(Tail(s)) = Len(s) - 1
  BY HeadTailProperties
<1>3. Tail(s) = <<>> => Len(Tail(s)) = 0
  BY EmptySeq, Zenon
<1>4. Len(Tail(s)) # 0
  BY <1>1, <1>2
<1>5. QED
  BY <1>2, <1>3, <1>4, Zenon

(* A command at rest, or on its way with what it needs.                     *)
LEMMA CommandBecomes ==
  ASSUME TypeOK, NEW t \in Threads, NEW o \in Operation, CommandTyped(o, Len(proc')),
         op' = [op EXCEPT ![t] = o], ops' \in Nat,
         Len(proc') \in Nat, Len(proc') >= Len(proc)
  PROVE  OpsTypeOK'
<1>1. Len(proc) \in Nat
  BY LenProperties DEF TypeOK, ProcTypeOK
<1>2. \A u \in Threads \ {t} : op'[u] = op[u]
  BY DEF TypeOK, OpsTypeOK
<1>3. op' \in [Threads -> Operation] /\ op'[t] = o
  BY DEF TypeOK, OpsTypeOK
<1>4. ASSUME NEW u \in Threads \ {t}
      PROVE  CommandTyped(op[u], Len(proc'))
  <2>1. CommandTyped(op[u], Len(proc)) /\ op'[u] = op[u] /\ op[u] \in Operation
    BY <1>2 DEF TypeOK, OpsTypeOK
  <2>2. 0 .. Len(proc) \subseteq 0 .. Len(proc')
    BY <1>1
  <2>3. QED
    BY <2>1, <2>2, Zenon DEF CommandTyped
<1>5. QED
  BY <1>3, <1>4 DEF OpsTypeOK

LEMMA ReturnedTyped ==
  ASSUME TypeOK, NEW t \in Threads, Returned(t), op[t].at # "idle",
         ops' \in Nat, UNCHANGED proc
  PROVE  OpsTypeOK'
<1>0. /\ Len(proc) \in Nat
      /\ op[t] \in Operation /\ CommandTyped(op[t], Len(proc))
      /\ op[t].calls \in Seq(CommandKinds) /\ op[t].calls # <<>>
  BY LenProperties DEF TypeOK, ProcTypeOK, OpsTypeOK, CommandTyped, Operation
<1>9. Len(proc') \in Nat /\ Len(proc') >= Len(proc)
  BY <1>0
<1>1. CASE Len(op[t].calls) = 1
  <2>1. CommandTyped(IdleOp, Len(proc'))
    BY <1>0 DEF CommandTyped, IdleOp
  <2>2. op' = [op EXCEPT ![t] = IdleOp]
    BY <1>1 DEF Returned
  <2>3. QED
    BY <1>9, <2>1, <2>2, IdleTyped, CommandBecomes, Zenon
<1>2. CASE Len(op[t].calls) # 1
  <2> DEFINE o == [IdleOp EXCEPT !.at = "look", !.calls = Tail(op[t].calls),
                                 !.server = op[t].server, !.def = op[t].def,
                                 !.number = op[t].number]
  <2>1. /\ Tail(op[t].calls) \in Seq(CommandKinds)
        /\ Tail(op[t].calls) # <<>>
    BY <1>0, <1>2, TailIsLeft
  <2>2. o \in Operation
    <3>1. /\ op[t].server \in Servers /\ op[t].def \in Versions \cup {None}
          /\ op[t].number \in Nat /\ NoDefs \in Definitions
      BY <1>0 DEF CommandTyped, Operation, NoDefs, Definitions
    <3>2. QED
      BY <2>1, <3>1 DEF Operation, OpStep, IdleOp
  <2>3. CommandTyped(o, Len(proc'))
    <3>1. /\ o.at = "look" /\ o.calls = Tail(op[t].calls)
          /\ o.server = op[t].server /\ o.pid = 0 /\ o.victim = 0
      BY DEF IdleOp
    <3> HIDE DEF o
    <3>2. QED
      BY <1>0, <2>1, <3>1 DEF CommandTyped
  <2>4. op' = [op EXCEPT ![t] = o]
    BY <1>2 DEF Returned
  <2>5. QED
    BY <1>9, <2>2, <2>3, <2>4, CommandBecomes, Zenon
<1>3. QED
  BY <1>1, <1>2

(* What a step makes of its thread's command.                               *)
Makes(t, o) == op' = [op EXCEPT ![t] = o] /\ CommandTyped(o, Len(proc'))

LEMMA CommandIs ==
  ASSUME TypeOK, NEW t \in Threads
  PROVE  /\ op[t] \in Operation /\ CommandTyped(op[t], Len(proc))
         /\ Len(proc) \in Nat
  BY LenProperties DEF TypeOK, OpsTypeOK, ProcTypeOK

LEMMA GoesOn ==
  ASSUME TypeOK, NEW t \in Threads, NEW at \in OpStep, To(t, at), UNCHANGED proc,
         op[t].at # "idle",
         op[t].at \in {"stopping", "stop"} => op[t].victim = 0,
         at \notin {"idle", "wait", "asked"}
  PROVE  \E o \in Operation : Makes(t, o)
<1> DEFINE o == [op[t] EXCEPT !.at = at]
<1>1. o \in Operation
  BY CommandIs DEF Operation
<1>2. CommandTyped(o, Len(proc'))
  BY CommandIs DEF CommandTyped, Operation
<1>3. QED
  BY <1>1, <1>2, Zenon DEF To, Makes

LEMMA Ends ==
  ASSUME TypeOK, NEW t \in Threads, End(t), UNCHANGED proc
  PROVE  \E o \in Operation : Makes(t, o)
<1>1. CommandTyped(IdleOp, Len(proc'))
  BY CommandIs DEF CommandTyped, IdleOp
<1>2. QED
  BY <1>1, IdleTyped, Zenon DEF End, Makes

LEMMA Loads ==
  ASSUME TypeOK, NEW t \in Threads, LoadGlobal(t) \/ LoadProject(t)
  PROVE  \E o \in Operation : Makes(t, o)
<1> DEFINE g == [op[t] EXCEPT !.at = "loading", !.defs = Defs]
           p == [op[t] EXCEPT !.at = "reload", !.enabled = project[M(t)]]
<1>1. Defs \in Definitions /\ project[M(t)] \in SUBSET Servers
  BY DefsTyped, MemTyped DEF TypeOK, FilesTypeOK
<1>2. CASE LoadGlobal(t)
  <2>1. op[t].at = "load" /\ UNCHANGED proc /\ op' = [op EXCEPT ![t] = g]
    BY <1>2 DEF LoadGlobal
  <2>2. g \in Operation
    BY <1>1, CommandIs DEF Operation, OpStep
  <2>3. CommandTyped(g, Len(proc'))
    BY <2>1, CommandIs DEF CommandTyped, Operation
  <2>4. QED
    BY <2>1, <2>2, <2>3 DEF Makes
<1>3. CASE LoadProject(t)
  <2>1. op[t].at = "loading" /\ UNCHANGED proc /\ op' = [op EXCEPT ![t] = p]
    BY <1>3 DEF LoadProject
  <2>2. p \in Operation
    BY <1>1, CommandIs DEF Operation, OpStep
  <2>3. CommandTyped(p, Len(proc'))
    BY <2>1, CommandIs DEF CommandTyped, Operation
  <2>4. QED
    BY <2>1, <2>2, <2>3 DEF Makes
<1>4. QED
  BY <1>2, <1>3

LEMMA ReloadsProject ==
  ASSUME TypeOK, NEW t \in Threads, ReloadProject(t)
  PROVE  \E o \in Operation : Makes(t, o)
<1>1. PICK changed \in SUBSET Servers :
        op' = [op EXCEPT ![t] = [op[t] EXCEPT !.at = "stopping", !.changed = changed]]
  BY MemTyped DEF ReloadProject, TypeOK
<1>2. op[t].at = "reloading" /\ UNCHANGED proc
  BY DEF ReloadProject
<1> DEFINE o == [op[t] EXCEPT !.at = "stopping", !.changed = changed]
<1>3. o \in Operation
  BY CommandIs DEF Operation, OpStep
<1>4. CommandTyped(o, Len(proc'))
  BY <1>2, CommandIs DEF CommandTyped, Operation
<1>5. QED
  BY <1>1, <1>3, <1>4 DEF Makes

LEMMA Unmaps ==
  ASSUME TypeOK, NEW t \in Threads, Unmap(t)
  PROVE  \E o \in Operation : Makes(t, o)
<1>1. op[t].changed \in SUBSET Servers
  BY CommandIs DEF Operation
<1>2. PICK s \in op[t].changed :
        op' = [op EXCEPT ![t] = [op[t] EXCEPT !.changed = op[t].changed \ {s},
                                              !.victim = clients[M(t)][s]]]
  BY DEF Unmap
<1>3. op[t].at \in {"stopping", "stop"} /\ UNCHANGED proc
  BY DEF Unmap
<1> DEFINE changed == op[t].changed \ {s}
<1> DEFINE victim == clients[M(t)][s]
<1> DEFINE o == [op[t] EXCEPT !.changed = changed, !.victim = victim]
<1>4. victim \in 0 .. Len(proc) /\ victim \in Nat
  BY <1>1, MemTyped, CommandIs DEF TypeOK, ProcTypeOK
<1>5. changed \in SUBSET Servers
  BY <1>1
<1>6. op' = [op EXCEPT ![t] = o]
  BY <1>2
<1> HIDE DEF changed, victim
<1>7. o \in Operation
  BY <1>4, <1>5, CommandIs DEF Operation
<1>8. CommandTyped(o, Len(proc'))
  BY <1>3, <1>4, CommandIs DEF CommandTyped, Operation
<1>9. QED
  BY <1>6, <1>7, <1>8, Zenon DEF Makes

LEMMA Kills ==
  ASSUME TypeOK, NEW t \in Threads, Kill(t),
         Len(proc') \in Nat, Len(proc') >= Len(proc)
  PROVE  \E o \in Operation : Makes(t, o)
<1> DEFINE o == [op[t] EXCEPT !.victim = 0]
<1>1. op' = [op EXCEPT ![t] = o] /\ op[t].victim # 0
  BY Zenon DEF Kill
<1>2. op[t].at \notin {"idle", "wait", "asked"}
  BY <1>1, CommandIs DEF CommandTyped
<1>3. o \in Operation
  BY CommandIs DEF Operation
<1>4. CommandTyped(o, Len(proc'))
  BY <1>2, CommandIs DEF CommandTyped, Operation
<1>5. QED
  BY <1>1, <1>3, <1>4, Zenon DEF Makes

LEMMA ReadsConfig ==
  ASSUME TypeOK, NEW t \in Threads, ReadConfig(t), ops' \in Nat
  PROVE  OpsTypeOK' \/ \E o \in Operation : Makes(t, o)
<1>0. op[t].at = "reading" /\ UNCHANGED proc
  BY DEF ReadConfig
<1>1. CASE End(t)
  BY <1>0, <1>1, Ends
<1>2. CASE Returned(t)
  BY <1>0, <1>2, ReturnedTyped
<1>3. CASE op' = [op EXCEPT ![t] = [op[t] EXCEPT !.at = "client",
                                     !.def = Mem(t).defs[op[t].server]]]
  <2> DEFINE o == [op[t] EXCEPT !.at = "client", !.def = Mem(t).defs[op[t].server]]
  <2>1. op[t].server \in Servers
    BY <1>0, CommandIs DEF CommandTyped
  <2>2. Mem(t).defs[op[t].server] \in Versions \cup {None}
    BY <2>1, MemTyped DEF Definitions, TypeOK
  <2>3. o \in Operation
    BY <2>2, CommandIs DEF Operation, OpStep
  <2>4. CommandTyped(o, Len(proc'))
    BY <1>0, CommandIs DEF CommandTyped, Operation
  <2>5. QED
    BY <1>3, <2>3, <2>4 DEF Makes
<1>4. QED
  BY <1>1, <1>2, <1>3 DEF ReadConfig

LEMMA FindsClient ==
  ASSUME TypeOK, NEW t \in Threads, FindClient(t), ProcTypeOK',
         Len(proc') \in Nat, Len(proc') >= Len(proc)
  PROVE  \E o \in Operation : Makes(t, o)
<1>0. op[t].at = "client"
  BY DEF FindClient
<1>1. CASE End(t) /\ UNCHANGED proc
  BY <1>1, Ends
<1>2. ASSUME NEW pid \in 1 .. Len(proc'),
             op' = [op EXCEPT ![t] = [op[t] EXCEPT !.at = "wait", !.pid = pid]]
      PROVE  \E o \in Operation : Makes(t, o)
  <2> DEFINE o == [op[t] EXCEPT !.at = "wait", !.pid = pid]
  <2>0. pid \in Nat
    OBVIOUS
  <2>1. o \in Operation
    BY <2>0, CommandIs DEF Operation, OpStep
  <2>2. CommandTyped(o, Len(proc'))
    BY <1>0, <2>0, CommandIs DEF CommandTyped, Operation
  <2>3. QED
    BY <1>2, <2>1, <2>2, Zenon DEF Makes
<1>3. CASE StartClient(t)
  <2>1. Len(proc') = Len(proc) + 1
    BY <1>3 DEF StartClient, Started, TypeOK, ProcTypeOK
  <2>2. Len(proc) + 1 \in 1 .. Len(proc')
    BY <2>1, CommandIs
  <2>3. op' = [op EXCEPT ![t] = [op[t] EXCEPT !.at = "wait",
                                              !.pid = Len(proc) + 1]]
    BY <1>3 DEF StartClient
  <2>4. QED
    BY <1>2, <2>2, <2>3, Zenon
<1>4. CASE /\ clients[M(t)][op[t].server] # 0
           /\ op' = [op EXCEPT ![t] = [op[t] EXCEPT !.at = "wait",
                                          !.pid = clients[M(t)][op[t].server]]]
  <2>1. op[t].server \in Servers
    BY <1>0, CommandIs DEF CommandTyped
  <2>2. clients[M(t)][op[t].server] \in 1 .. Len(proc')
    BY <1>4, <2>1, CommandIs, MemTyped DEF TypeOK, ProcTypeOK
  <2>3. QED
    BY <1>2, <1>4, <2>2
<1>5. QED
  BY <1>1, <1>3, <1>4 DEF FindClient

LEMMA Asks ==
  ASSUME TypeOK, NEW t \in Threads, Ask(t),
         Len(proc') \in Nat, Len(proc') >= Len(proc)
  PROVE  \E o \in Operation : Makes(t, o)
<1>0. op[t].at = "wait"
  BY DEF Ask
<1>1. CASE End(t) /\ UNCHANGED proc
  BY <1>1, Ends
<1>2. CASE op' = [op EXCEPT ![t] = [op[t] EXCEPT !.at = "asked",
                                                !.id = RequestId(t)]]
  <2> DEFINE o == [op[t] EXCEPT !.at = "asked", !.id = RequestId(t)]
  <2>1. RequestId(t) \in Nat
    <3>1. op[t].pid \in 1 .. Len(proc)
      BY <1>0, CommandIs DEF CommandTyped
    <3>2. Pid(t) \in Process
      BY <3>1, ElementOfSeq DEF Pid, TypeOK, ProcTypeOK
    <3>3. QED
      BY <3>2 DEF RequestId, Process
  <2>2. o \in Operation
    BY <2>1, CommandIs DEF Operation, OpStep
  <2>3. CommandTyped(o, Len(proc'))
    BY <1>0, CommandIs DEF CommandTyped, Operation
  <2>4. QED
    BY <1>2, <2>2, <2>3 DEF Makes
<1>3. QED
  BY <1>1, <1>2 DEF Ask

LEMMA Hears ==
  ASSUME TypeOK, NEW t \in Threads, Hear(t),
         Len(proc') \in Nat, Len(proc') >= Len(proc)
  PROVE  \E o \in Operation : Makes(t, o)
<1>0. op[t].at = "asked"
  BY DEF Hear
<1>1. CASE UNCHANGED op
  <2>1. op' = [op EXCEPT ![t] = op[t]]
    BY <1>1 DEF TypeOK, OpsTypeOK
  <2>2. CommandTyped(op[t], Len(proc'))
    BY <1>0, CommandIs DEF CommandTyped, Operation
  <2>3. QED
    BY <2>1, <2>2, CommandIs DEF Makes
<1>2. CASE op' = [op EXCEPT ![t] = [op[t] EXCEPT !.at = "answered",
                                     !.got = Head(Pid(t).answers).for]]
  <2> DEFINE got == Head(Pid(t).answers).for
  <2> DEFINE o == [op[t] EXCEPT !.at = "answered", !.got = got]
  <2>1. got \in Nat
    <3>1. op[t].pid \in 1 .. Len(proc)
      BY <1>0, CommandIs DEF CommandTyped
    <3>2. Pid(t).answers \in Seq(Question) /\ Pid(t).answers # <<>>
      <4>1. Pid(t) \in Process
        BY <3>1, ElementOfSeq DEF Pid, TypeOK, ProcTypeOK
      <4>2. Pid(t).answers # <<>>
        BY Zenon DEF Hear
      <4>3. QED
        BY <4>1, <4>2 DEF Process
    <3>3. Head(Pid(t).answers) \in Question
      BY <3>2, HeadTailProperties
    <3>4. QED
      BY <3>3 DEF Question
  <2> HIDE DEF got
  <2>2. o \in Operation
    BY <2>1, CommandIs DEF Operation, OpStep
  <2>3. CommandTyped(o, Len(proc'))
    BY <1>0, CommandIs DEF CommandTyped, Operation
  <2>4. QED
    BY <1>2, <2>2, <2>3 DEF Makes, got
<1>3. QED
  BY <1>1, <1>2 DEF Hear

LEMMA TakesGlobal ==
  ASSUME TypeOK, NEW t \in Threads, TakeGlobal(t)
  PROVE  \E o \in Operation : Makes(t, o)
<1>0. op[t].at = "body" /\ UNCHANGED proc
  BY DEF TakeGlobal
<1>1. CASE End(t)
  BY <1>0, <1>1, Ends
<1> DEFINE defs == [Mem(t).defs EXCEPT ![op[t].server] = NewDef(t)]
<1>2. CASE op' = [op EXCEPT ![t].at = "saving", ![t].defs = defs]
  <2> DEFINE o == [op[t] EXCEPT !.at = "saving", !.defs = defs]
  <2>1. NewDef(t) \in Versions \cup {None}
    BY CommandIs DEF Operation, NewDef
  <2>2. defs \in Definitions
    BY <2>1, MemTyped DEF TypeOK, Definitions
  <2> HIDE DEF defs
  <2>3. o \in Operation
    BY <2>2, CommandIs DEF Operation, OpStep
  <2>4. CommandTyped(o, Len(proc'))
    BY <1>0, CommandIs DEF CommandTyped, Operation
  <2>5. op' = [op EXCEPT ![t] = o]
    BY <1>2
  <2>6. QED
    BY <2>3, <2>4, <2>5, Zenon DEF Makes
<1>3. QED
  BY <1>1, <1>2 DEF TakeGlobal

LEMMA Stops ==
  ASSUME TypeOK, NEW t \in Threads, NEW changed \in SUBSET Servers,
         op' = [op EXCEPT ![t].at = "stop", ![t].changed = changed],
         UNCHANGED proc, op[t].at \in {"saved", "toggle"}
  PROVE  \E o \in Operation : Makes(t, o)
<1> DEFINE o == [op[t] EXCEPT !.at = "stop", !.changed = changed]
<1>1. o \in Operation
  BY CommandIs DEF Operation, OpStep
<1>2. CommandTyped(o, Len(proc'))
  BY CommandIs DEF CommandTyped, Operation
<1>3. op' = [op EXCEPT ![t] = o]
  OBVIOUS
<1>4. QED
  BY <1>1, <1>2, <1>3, Zenon DEF Makes

LEMMA Begins ==
  ASSUME TypeOK, NEW t \in Threads, NEW kind \in Kinds, NEW s \in Servers,
         NEW def \in DefFor(kind), Begin(t, kind, s, def)
  PROVE  \E o \in Operation : Makes(t, o)
<1>1. PICK calls \in CallsOf(kind) :
        op' = [op EXCEPT ![t] = [IdleOp EXCEPT
                 !.at = "look", !.calls = calls, !.server = s, !.def = def,
                 !.number = ops + 1]]
  BY DEF Begin
<1> DEFINE o == [IdleOp EXCEPT !.at = "look", !.calls = calls, !.server = s,
                               !.def = def, !.number = ops + 1]
<1>2. calls \in Seq(CommandKinds) /\ calls # <<>>
  <2>1. kind \in CommandKinds
    BY ConstantsAssumption
  <2>2. \/ \E a \in CommandKinds : calls = <<a>>
        \/ \E a, b \in CommandKinds : calls = <<a, b>>
        \/ \E a, b, c \in CommandKinds : calls = <<a, b, c>>
        \/ \E a, b, c, d \in CommandKinds : calls = <<a, b, c, d>>
    <3>1. CASE kind = "update"
      BY <3>1 DEF CallsOf, CommandKinds
    <3>2. CASE kind # "update"
      BY <2>1, <3>2 DEF CallsOf, CommandKinds
    <3>3. QED
      BY <3>1, <3>2
  <2>3. ASSUME NEW a \in CommandKinds, NEW b \in CommandKinds,
               NEW c \in CommandKinds, NEW d \in CommandKinds
        PROVE  /\ <<a>> \in Seq(CommandKinds) /\ <<a>> # <<>>
               /\ <<a, b>> \in Seq(CommandKinds) /\ <<a, b>> # <<>>
               /\ <<a, b, c>> \in Seq(CommandKinds) /\ <<a, b, c>> # <<>>
               /\ <<a, b, c, d>> \in Seq(CommandKinds) /\ <<a, b, c, d>> # <<>>
    <3>1. <<a>> \in Seq(CommandKinds) /\ <<a>> # <<>>
      OBVIOUS
    <3>2. <<a, b>> \in Seq(CommandKinds) /\ <<a, b>> # <<>>
      OBVIOUS
    <3>3. <<a, b, c>> \in Seq(CommandKinds) /\ <<a, b, c>> # <<>>
      OBVIOUS
    <3>4. <<a, b, c, d>> \in Seq(CommandKinds) /\ <<a, b, c, d>> # <<>>
      OBVIOUS
    <3>5. QED
      BY <3>1, <3>2, <3>3, <3>4, Zenon
  <2>4. QED
    BY <2>2, <2>3, Zenon
<1>3. def \in Versions \cup {None} /\ ops + 1 \in Nat /\ NoDefs \in Definitions
  BY DEF DefFor, TypeOK, OpsTypeOK, NoDefs, Definitions
<1>4. o \in Operation
  BY <1>2, <1>3 DEF IdleOp, Operation, OpStep
<1>5. CommandTyped(o, Len(proc'))
  <2>1. /\ o.at = "look" /\ o.calls = calls /\ o.server = s
        /\ o.pid = 0 /\ o.victim = 0
    BY DEF IdleOp
  <2>2. UNCHANGED proc
    BY DEF Begin
  <2> HIDE DEF o
  <2>3. QED
    BY <1>2, <2>1, <2>2, CommandIs DEF CommandTyped
<1>6. QED
  BY <1>1, <1>4, <1>5, Zenon DEF Makes

LEMMA OpsStay ==
  ASSUME TypeOK, Next, ProcTypeOK', Len(proc') \in Nat, Len(proc') >= Len(proc)
  PROVE  OpsTypeOK'
<1>0. ops' \in Nat
  <2>1. ops' = ops \/ ops' = ops + 1
    BY Zenon DEF Next, Step, Look, LoadGlobal, LoadProject, ReloadGlobal,
       ReloadProject, ReloadStamps, Unmap, Kill, TakeRead, ReadConfig,
       FindClient, Ask, Hear, Return, GiveUp, TakeGlobal, SaveTemp, Rename,
       Saved, Stopped, DropEnabled, TakeProject, Toggle, Begin, Answer, Dies,
       Edit
  <2>2. QED
    BY <2>1 DEF TypeOK, OpsTypeOK
<1>1. ASSUME NEW t \in Threads, \E o \in Operation : Makes(t, o)
      PROVE  OpsTypeOK'
  BY <1>0, <1>1, CommandBecomes, Zenon DEF Makes
<1>2. ASSUME NEW t \in Threads, Step(t)
      PROVE  OpsTypeOK' \/ \E o \in Operation : Makes(t, o)
  <2>1. CASE Look(t) \/ ReloadGlobal(t) \/ ReloadStamps(t) \/ TakeRead(t)
             \/ SaveTemp(t) \/ TakeProject(t)
    <3>1. PICK at \in OpStep \ {"idle", "wait", "asked"} : To(t, at)
      BY <2>1 DEF Look, ReloadGlobal, ReloadStamps, TakeRead, SaveTemp,
                  TakeProject, OpStep
    <3>2. /\ op[t].at # "idle" /\ UNCHANGED proc
          /\ op[t].at \in {"stopping", "stop"} => op[t].victim = 0
      BY <2>1 DEF Look, ReloadGlobal, ReloadStamps, TakeRead, SaveTemp,
                  TakeProject
    <3>3. QED
      BY <3>1, <3>2, GoesOn
  <2>2. CASE LoadGlobal(t) \/ LoadProject(t)
    BY <2>2, Loads
  <2>3. CASE ReloadProject(t)
    BY <2>3, ReloadsProject
  <2>4. CASE Unmap(t)
    BY <2>4, Unmaps
  <2>5. CASE Kill(t)
    BY <2>5, Kills
  <2>6. CASE ReadConfig(t)
    BY <1>0, <2>6, ReadsConfig
  <2>7. CASE FindClient(t)
    BY <2>7, FindsClient
  <2>8. CASE Ask(t)
    BY <2>8, Asks
  <2>9. CASE Hear(t)
    BY <2>9, Hears
  <2>10. CASE Return(t)
    BY <1>0, <2>10, ReturnedTyped DEF Return
  <2>11. CASE GiveUp(t)
    <3>1. CommandTyped(IdleOp, Len(proc'))
      BY DEF CommandTyped, IdleOp
    <3>2. QED
      BY <2>11, <3>1, IdleTyped, Zenon DEF GiveUp, End, Makes
  <2>12. CASE TakeGlobal(t)
    BY <2>12, TakesGlobal
  <2>13. CASE Rename(t)
    <3>1. To(t, "saved") \/ End(t)
      BY <2>13 DEF Rename
    <3>2. op[t].at = "renaming" /\ UNCHANGED proc
      BY <2>13 DEF Rename
    <3>3. QED
      BY <3>1, <3>2, GoesOn, Ends DEF OpStep
  <2>14. CASE Saved(t)
    <3>1. op[t].at = "saved" /\ UNCHANGED proc
      BY <2>14 DEF Saved
    <3>2. {op[t].server} \in SUBSET Servers
      BY <3>1, CommandIs DEF CommandTyped
    <3>3. \/ Returned(t)
          \/ op' = [op EXCEPT ![t].at = "stop", ![t].changed = {op[t].server}]
      BY <2>14 DEF Saved
    <3>4. QED
      BY <1>0, <3>1, <3>2, <3>3, ReturnedTyped, Stops
  <2>15. CASE Stopped(t)
    <3>1. op[t].at = "stop" /\ op[t].victim = 0 /\ UNCHANGED proc
      BY <2>15 DEF Stopped
    <3>2. Returned(t) \/ To(t, "dropping")
      BY <2>15 DEF Stopped
    <3>3. QED
      BY <1>0, <3>1, <3>2, ReturnedTyped, GoesOn DEF OpStep
  <2>16. CASE DropEnabled(t)
    BY <1>0, <2>16, ReturnedTyped DEF DropEnabled
  <2>17. CASE Toggle(t)
    <3>1. op[t].at = "toggle" /\ UNCHANGED proc
      BY <2>17 DEF Toggle
    <3>2. {op[t].server} \in SUBSET Servers
      BY <3>1, CommandIs DEF CommandTyped
    <3>3. \/ End(t)
          \/ op' = [op EXCEPT ![t].at = "stop", ![t].changed = {}]
          \/ op' = [op EXCEPT ![t].at = "stop", ![t].changed = {op[t].server}]
      BY <2>17 DEF Toggle
    <3>4. {} \in SUBSET Servers
      OBVIOUS
    <3>5. QED
      BY <3>1, <3>2, <3>3, <3>4, Ends, Stops, Zenon
  <2>18. QED
    BY <1>2, <2>1, <2>2, <2>3, <2>4, <2>5, <2>6, <2>7, <2>8, <2>9, <2>10,
       <2>11, <2>12, <2>13, <2>14, <2>15, <2>16, <2>17 DEF Step
<1>3. CASE UNCHANGED op
  BY <1>0, <1>3 DEF TypeOK, OpsTypeOK, ProcTypeOK, CommandTyped, Operation
<1>4. CASE \E t \in Threads, kind \in Kinds, s \in Servers :
             \E def \in DefFor(kind) : Begin(t, kind, s, def)
  BY <1>1, <1>4, Begins
<1>5. QED
  BY <1>1, <1>2, <1>3, <1>4 DEF Next, Answer, Dies, Edit

(* In every reachable state every variable has its type: a command that is  *)
(* under way has what its next step needs (the methods left to call, the    *)
(* server, the process it waits for), whatever the other threads do to the  *)
(* definitions, the locks and the processes meanwhile.                      *)
THEOREM TypeCorrect == Spec => []TypeOK
<1>1. Init => TypeOK
  <2> SUFFICES ASSUME Init PROVE TypeOK
    OBVIOUS
  <2>1. FilesTypeOK
    BY DEF Init, FilesTypeOK, Definitions, Defs, NoDefs, Stamps
  <2>2. LocksTypeOK
    BY DEF Init, LocksTypeOK, LockState, Free
  <2>3. ProcTypeOK
    BY DEF Init, ProcTypeOK
  <2>4. OpsTypeOK
    <3>1. CommandTyped(IdleOp, Len(proc))
      BY DEF Init, CommandTyped, IdleOp
    <3>2. QED
      BY <3>1, IdleTyped, Zenon DEF Init, OpsTypeOK
  <2>5. QED
    BY <2>1, <2>2, <2>3, <2>4 DEF TypeOK
<1>2. TypeOK /\ [Next]_vars => TypeOK'
  <2>1. ASSUME TypeOK, Next PROVE TypeOK'
    BY <2>1, FilesStay, LocksStay, ProcStays, OpsStay DEF TypeOK
  <2>2. ASSUME TypeOK, UNCHANGED vars PROVE TypeOK'
    BY <2>2 DEF TypeOK, vars, FilesTypeOK, LocksTypeOK, ProcTypeOK, OpsTypeOK,
                CommandTyped
  <2>3. QED
    BY <2>1, <2>2
<1>3. QED
  BY <1>1, <1>2, PTL DEF Spec

-----------------------------------------------------------------------------
(* Processes and who would stop them.                                       *)

(* A thread changes nothing of what another is at; only Ask and Hear make a *)
(* request, and only these three a save.                                    *)
Saving == {"saving", "renaming", "saved"}
AsksOrHears(t) ==
  op'[t].at \in {"asked", "answered"} => op' = op \/ Ask(t) \/ Hear(t)
Saves(t) == op'[t].at \in Saving => TakeGlobal(t) \/ SaveTemp(t) \/ Rename(t)

LEMMA OnlyItsOwn ==
  ASSUME TypeOK, NEW t \in Threads, Step(t)
  PROVE  (\A u \in Threads \ {t} : op'[u] = op[u]) /\ AsksOrHears(t) /\ Saves(t)
<1> USE DEF AsksOrHears, Saves, Saving
<1>0. op \in [Threads -> Operation] /\ IdleOp.at = "idle"
  BY DEF TypeOK, OpsTypeOK, IdleOp
<1>1. CASE LoadGlobal(t) \/ LoadProject(t)
  BY <1>0, <1>1, CommandIs DEF LoadGlobal, LoadProject, Operation
<1>2. CASE ReloadProject(t)
  BY <1>0, <1>2, CommandIs DEF ReloadProject, Operation
<1>3. CASE Unmap(t)
  BY <1>0, <1>3, CommandIs DEF Unmap, Operation
<1>4. CASE Kill(t)
  <2>1. op' = [op EXCEPT ![t].victim = 0] /\ op[t].victim # 0
    BY <1>4, Zenon DEF Kill
  <2>2. op[t].at \in {"stopping", "stop"}
    BY <2>1, CommandIs DEF CommandTyped
  <2>3. QED
    BY <1>0, <2>1, <2>2, CommandIs DEF Operation
<1>5. CASE End(t)
  BY <1>0, <1>5 DEF End
<1>6. CASE Returned(t)
  <2> DEFINE o == [IdleOp EXCEPT !.at = "look", !.calls = Tail(op[t].calls),
                                 !.server = op[t].server, !.def = op[t].def,
                                 !.number = op[t].number]
  <2>1. op' = [op EXCEPT ![t] = IdleOp] \/ op' = [op EXCEPT ![t] = o]
    BY <1>6, Zenon DEF Returned
  <2>2. o.at = "look"
    BY DEF IdleOp
  <2> HIDE DEF o
  <2>3. QED
    BY <1>0, <2>1, <2>2
<1>7. ASSUME NEW at \in OpStep, To(t, at),
             at \notin {"asked", "answered"},
             at \in Saving => SaveTemp(t) \/ Rename(t)
      PROVE  (\A u \in Threads \ {t} : op'[u] = op[u]) /\ AsksOrHears(t) /\ Saves(t)
  BY <1>0, <1>7, CommandIs DEF To, Operation
<1>8. CASE ReadConfig(t)
  <2>1. CASE End(t) \/ Returned(t)
    BY <1>5, <1>6, <2>1
  <2>2. CASE op' = [op EXCEPT ![t].at = "client", ![t].def = Mem(t).defs[op[t].server]]
    BY <1>0, <2>2, CommandIs DEF Operation
  <2>3. QED
    BY <1>8, <2>1, <2>2 DEF ReadConfig
<1>9. CASE FindClient(t)
  <2>1. CASE End(t)
    BY <1>5, <2>1
  <2>2. ASSUME NEW pid, op' = [op EXCEPT ![t].at = "wait", ![t].pid = pid]
        PROVE  (\A u \in Threads \ {t} : op'[u] = op[u]) /\ AsksOrHears(t) /\ Saves(t)
    BY <1>0, <2>2, CommandIs DEF Operation
  <2>3. QED
    BY <1>9, <2>1, <2>2, Zenon DEF FindClient, StartClient
<1>10. CASE Ask(t)
  <2>1. CASE End(t)
    BY <1>5, <2>1
  <2>2. CASE op' = [op EXCEPT ![t].at = "asked", ![t].id = RequestId(t)]
    BY <1>0, <1>10, <2>2
  <2>3. QED
    BY <1>10, <2>1, <2>2, Zenon DEF Ask
<1>11. CASE Hear(t)
  <2>0. op[t].at = "asked"
    BY <1>11, Zenon DEF Hear
  <2>1. CASE op' = op
    BY <2>0, <2>1
  <2>2. CASE op' = [op EXCEPT ![t].at = "answered",
                              ![t].got = Head(Pid(t).answers).for]
    BY <1>0, <1>11, <2>2
  <2>3. QED
    BY <1>11, <2>1, <2>2, Zenon DEF Hear
<1>12. CASE GiveUp(t)
  BY <1>5, <1>12, Zenon DEF GiveUp
<1>13. CASE TakeGlobal(t)
  <2>1. CASE End(t)
    BY <1>5, <2>1
  <2>2. ASSUME NEW defs, op' = [op EXCEPT ![t].at = "saving", ![t].defs = defs]
        PROVE  (\A u \in Threads \ {t} : op'[u] = op[u]) /\ AsksOrHears(t) /\ Saves(t)
    BY <1>0, <1>13, <2>2, CommandIs DEF Operation
  <2>3. QED
    BY <1>13, <2>1, <2>2, Zenon DEF TakeGlobal
<1>14. CASE Saved(t) \/ Toggle(t)
  <2>1. CASE End(t) \/ Returned(t)
    BY <1>5, <1>6, <2>1
  <2>2. ASSUME NEW changed, op' = [op EXCEPT ![t].at = "stop", ![t].changed = changed]
        PROVE  (\A u \in Threads \ {t} : op'[u] = op[u]) /\ AsksOrHears(t) /\ Saves(t)
    BY <1>0, <2>2, CommandIs DEF Operation
  <2>3. QED
    BY <1>14, <2>1, <2>2 DEF Saved, Toggle
<1>15. CASE Return(t) \/ DropEnabled(t)
  BY <1>6, <1>15, Zenon DEF Return, DropEnabled
<1>16. CASE Rename(t) \/ Stopped(t)
  BY <1>5, <1>6, <1>7, <1>16 DEF Rename, Stopped, OpStep
<1>17. CASE \/ Look(t) \/ ReloadGlobal(t) \/ ReloadStamps(t) \/ TakeRead(t)
            \/ SaveTemp(t) \/ TakeProject(t)
  BY <1>7, <1>17 DEF Look, ReloadGlobal, ReloadStamps, TakeRead, SaveTemp,
     TakeProject, OpStep
<1>18. QED
  BY <1>1, <1>2, <1>3, <1>4, <1>8, <1>9, <1>10, <1>11, <1>12, <1>13, <1>14,
     <1>15, <1>16, <1>17 DEF Step

(* A thread that has taken a client out of the map stops it next.           *)
LEMMA VictimIsNext ==
  ASSUME TypeOK, NEW t \in Threads, Step(t), op[t].victim # 0
  PROVE  Kill(t)
<1>1. op[t].at \in {"stopping", "stop"}
  BY CommandIs DEF CommandTyped
<1>2. QED
  BY <1>1, Zenon DEF Step, Look, LoadGlobal, LoadProject, ReloadGlobal,
     ReloadProject, ReloadStamps, Unmap, TakeRead, ReadConfig, FindClient, Ask,
     Hear, Return, GiveUp, TakeGlobal, SaveTemp, Rename, Saved, Stopped,
     DropEnabled, TakeProject, Toggle

(* What a step makes of the processes: one more, or one of them changed.    *)
AsksOn(t, i) ==
  /\ Ask(t) /\ proc[i].up /\ op[t].pid = i
  /\ proc' = [proc EXCEPT ![i] = [proc[i] EXCEPT !.user = t, !.next = proc[i].next + 1,
       !.asked = proc[i].asked \cup {[id |-> proc[i].next, for |-> op[t].number]}]]
  /\ op' = [op EXCEPT ![t].at = "asked", ![t].id = proc[i].next]
HearsFrom(t, i) ==
  /\ Hear(t) /\ op[t].pid = i /\ proc[i].answers # <<>>
  /\ \E u : proc' = [proc EXCEPT ![i] = [proc[i] EXCEPT
               !.answers = Tail(proc[i].answers), !.user = u]]
Answers(i) ==
  \E q \in proc[i].asked :
    proc' = [proc EXCEPT ![i] = [proc[i] EXCEPT
               !.asked = proc[i].asked \ {q}, !.answers = Append(proc[i].answers, q)]]
Settles(i) ==
  \/ proc' = [proc EXCEPT ![i] = [proc[i] EXCEPT !.up = FALSE]]
  \/ proc' = [proc EXCEPT ![i] = [proc[i] EXCEPT !.user = None]]

LEMMA AskIs ==
  ASSUME TypeOK, NEW t \in Threads, Ask(t)
  PROVE  (End(t) /\ UNCHANGED proc) \/ \E i \in 1 .. Len(proc) : AsksOn(t, i)
<1>1. op[t].at = "wait"
  BY Zenon DEF Ask
<1>2. op[t].pid \in 1 .. Len(proc)
  BY <1>1, CommandIs DEF CommandTyped
<1>3. CASE ~Pid(t).up
  BY <1>3, Zenon DEF Ask
<1>4. CASE Pid(t).up
  BY <1>2, <1>4, Zenon DEF Ask, AsksOn, Pid, RequestId
<1>5. QED
  BY <1>3, <1>4

LEMMA ProcessSteps ==
  ASSUME TypeOK, Next
  PROVE  \/ UNCHANGED proc
         \/ \E t \in Threads : FindClient(t) /\ StartClient(t)
         \/ \E i \in 1 .. Len(proc) :
              \/ \E t \in Threads : AsksOn(t, i) \/ HearsFrom(t, i)
              \/ Answers(i) /\ UNCHANGED op
              \/ Settles(i)
<1>0. proc \in Seq(Process) /\ Len(proc) \in Nat /\ DOMAIN proc = 1 .. Len(proc)
  BY LenProperties DEF TypeOK, ProcTypeOK
<1>1. ASSUME NEW t \in Threads, Kill(t)
      PROVE  \E i \in 1 .. Len(proc) : Settles(i)
  <2>1. proc' = [proc EXCEPT ![op[t].victim] =
                    [proc[op[t].victim] EXCEPT !.up = FALSE]] /\ op[t].victim # 0
    BY <1>1, Zenon DEF Kill
  <2>2. op[t].victim \in 1 .. Len(proc)
    BY <2>1, <1>0, CommandIs DEF CommandTyped
  <2>3. QED
    BY <2>1, <2>2, Zenon DEF Settles
<1>2. ASSUME NEW t \in Threads, GiveUp(t)
      PROVE  \E i \in 1 .. Len(proc) : Settles(i)
  <2>1. /\ op[t].at = "asked"
        /\ proc' = [proc EXCEPT ![op[t].pid] = [proc[op[t].pid] EXCEPT !.user = None]]
    BY <1>2, Zenon DEF GiveUp
  <2>2. op[t].pid \in 1 .. Len(proc)
    BY <2>1, CommandIs DEF CommandTyped
  <2>3. QED
    BY <2>1, <2>2, Zenon DEF Settles
<1>3. ASSUME NEW i \in 1 .. Len(proc), Dies(i)
      PROVE  Settles(i)
  <2>1. proc' = [proc EXCEPT ![i] = [proc[i] EXCEPT !.up = FALSE]]
    BY <1>3, Zenon DEF Dies
  <2>2. QED
    BY <2>1, Zenon DEF Settles
<1>4. ASSUME NEW i \in 1 .. Len(proc), Answer(i)
      PROVE  Answers(i) /\ UNCHANGED op
  BY <1>4 DEF Answer, Answers
<1>5. ASSUME NEW t \in Threads, Hear(t)
      PROVE  \E i \in 1 .. Len(proc) : HearsFrom(t, i)
  <2>1. op[t].at = "asked" /\ Pid(t).answers # <<>>
    BY <1>5, Zenon DEF Hear
  <2>2. op[t].pid \in 1 .. Len(proc)
    BY <2>1, CommandIs DEF CommandTyped
  <2>3. \E u : proc' = [proc EXCEPT ![op[t].pid] = [proc[op[t].pid] EXCEPT
                          !.answers = Tail(proc[op[t].pid].answers), !.user = u]]
    BY <1>5, Zenon DEF Hear
  <2>4. QED
    BY <1>5, <2>1, <2>2, <2>3, Zenon DEF HearsFrom, Pid
<1>6. ASSUME NEW t \in Threads, Ask(t)
      PROVE  UNCHANGED proc \/ \E i \in 1 .. Len(proc) : AsksOn(t, i)
  BY <1>6, AskIs, Zenon
<1>7. ASSUME NEW t \in Threads, FindClient(t)
      PROVE  UNCHANGED proc \/ StartClient(t)
  BY <1>7, Zenon DEF FindClient
<1>8. QED
  BY <1>0, <1>1, <1>2, <1>3, <1>4, <1>5, <1>6, <1>7, Zenon
  DEF Next, Step, Look, LoadGlobal, LoadProject, ReloadGlobal, ReloadProject,
      ReloadStamps, Unmap, TakeRead, ReadConfig, Return, TakeGlobal, SaveTemp,
      Rename, Saved, Stopped, DropEnabled, TakeProject, Toggle, Begin, Edit

(* No step but StartClient makes a process, none lets one run again, and    *)
(* whose it is never changes.                                               *)
LEMMA ProcessesKeep ==
  ASSUME TypeOK, Next, NEW p \in 1 .. Len(proc)
  PROVE  /\ proc'[p].manager = proc[p].manager
         /\ proc'[p].server = proc[p].server
         /\ proc'[p].up => proc[p].up
<1>0. /\ proc \in Seq(Process) /\ Len(proc) \in Nat /\ DOMAIN proc = 1 .. Len(proc)
      /\ proc[p] \in Process
  BY LenProperties DEF TypeOK, ProcTypeOK
<1>1. CASE \E t \in Threads : StartClient(t)
  BY <1>0, <1>1 DEF StartClient, Started
<1>2. ASSUME NEW i \in 1 .. Len(proc), NEW t \in Threads, AsksOn(t, i)
      PROVE  /\ proc'[p].manager = proc[p].manager
             /\ proc'[p].server = proc[p].server
             /\ proc'[p].up => proc[p].up
  <2>1. PICK q, n, s : proc' = [proc EXCEPT ![i] = [proc[i] EXCEPT !.user = q, !.next = n, !.asked = s]]
    BY <1>2, Zenon DEF AsksOn
  <2>2. QED
    BY <1>0, <2>1 DEF Process
<1>3. ASSUME NEW i \in 1 .. Len(proc), NEW t \in Threads, HearsFrom(t, i)
      PROVE  /\ proc'[p].manager = proc[p].manager
             /\ proc'[p].server = proc[p].server
             /\ proc'[p].up => proc[p].up
  <2>1. PICK a, u : proc' = [proc EXCEPT ![i] = [proc[i] EXCEPT !.answers = a, !.user = u]]
    BY <1>3, Zenon DEF HearsFrom
  <2>2. QED
    BY <1>0, <2>1 DEF Process
<1>4. ASSUME NEW i \in 1 .. Len(proc), Answers(i)
      PROVE  /\ proc'[p].manager = proc[p].manager
             /\ proc'[p].server = proc[p].server
             /\ proc'[p].up => proc[p].up
  <2>1. PICK s, a : proc' = [proc EXCEPT ![i] = [proc[i] EXCEPT !.asked = s, !.answers = a]]
    BY <1>4, Zenon DEF Answers
  <2>2. QED
    BY <1>0, <2>1 DEF Process
<1>5. ASSUME NEW i \in 1 .. Len(proc), Settles(i)
      PROVE  /\ proc'[p].manager = proc[p].manager
             /\ proc'[p].server = proc[p].server
             /\ proc'[p].up => proc[p].up
  <2>1. PICK q \in {[proc[i] EXCEPT !.up = FALSE], [proc[i] EXCEPT !.user = None]} :
          proc' = [proc EXCEPT ![i] = q]
    BY <1>5, Zenon DEF Settles
  <2>2. proc[i] \in Process
    BY <1>0
  <2>3. /\ q.manager = proc[i].manager /\ q.server = proc[i].server
        /\ q.up => proc[i].up
    BY <2>2 DEF Process
  <2>4. QED
    BY <1>0, <2>1, <2>3
<1>6. QED
  BY <1>1, <1>2, <1>3, <1>4, <1>5, ProcessSteps

LEMMA OwnersStay ==
  ASSUME TypeOK, TypeOK', ProcessesAreOwned, Next
  PROVE  ProcessesAreOwned'
<1>0. /\ proc \in Seq(Process) /\ Len(proc) \in Nat /\ DOMAIN proc = 1 .. Len(proc)
      /\ proc' \in Seq(Process) /\ Len(proc') \in Nat /\ DOMAIN proc' = 1 .. Len(proc')
  BY LenProperties DEF TypeOK, ProcTypeOK
<1>1. ASSUME NEW t \in Threads, op[t].victim # 0, op'[t].victim # op[t].victim
      PROVE  Kill(t)
  <2>1. CASE \E u \in Threads : Step(u)
    BY <1>1, <2>1, OnlyItsOwn, VictimIsNext
  <2>2. CASE UNCHANGED op
    BY <1>1, <2>2
  <2>3. ASSUME NEW u \in Threads, NEW kind \in Kinds, NEW s \in Servers,
               NEW def \in DefFor(kind), Begin(u, kind, s, def)
        PROVE  FALSE
    <3>1. op[u].victim = 0
      BY <2>3, CommandIs DEF CommandTyped, IdleOp, Begin
    <3>2. t # u
      BY <1>1, <3>1
    <3>3. op'[t] = op[t]
      BY <2>3, <3>2 DEF Begin, TypeOK, OpsTypeOK
    <3>4. QED
      BY <1>1, <3>3
  <2>4. QED
    BY <2>1, <2>2, <2>3, Zenon DEF Next, Answer, Dies, Edit
<1>2. ASSUME NEW p \in 1 .. Len(proc), proc[p].up
      PROVE  \/ clients[proc[p].manager][proc[p].server] = p
             \/ \E t \in Threads : op[t].victim = p
  BY <1>0, <1>2 DEF ProcessesAreOwned
<1>3. ASSUME NEW p \in 1 .. Len(proc), proc'[p].up, NEW t \in Threads, op[t].victim = p
      PROVE  op'[t].victim = p
  <2>1. CASE Kill(t)
    <3>1. proc' = [proc EXCEPT ![p] = [proc[p] EXCEPT !.up = FALSE]]
      BY <1>3, <2>1, Zenon DEF Kill
    <3>2. proc[p] \in Process
      BY <1>0
    <3>3. ~proc'[p].up
      BY <1>0, <3>1, <3>2 DEF Process
    <3>4. QED
      BY <1>3, <3>3
  <2>2. QED
    BY <1>1, <1>3, <2>1
<1>4. ASSUME NEW p \in 1 .. Len(proc), proc'[p].up,
             clients[proc[p].manager][proc[p].server] = p
      PROVE  \/ clients'[proc[p].manager][proc[p].server] = p
             \/ \E t \in Threads : op'[t].victim = p
  <2>0. proc[p].manager \in Managers /\ proc[p].server \in Servers
    <3>1. proc[p] \in Process
      BY <1>0, ElementOfSeq
    <3>2. QED
      BY <3>1 DEF Process
  <2>1. CASE UNCHANGED clients
    BY <1>4, <2>1
  <2>2. ASSUME NEW t \in Threads, FindClient(t), StartClient(t),
               clients[M(t)][op[t].server] = 0
        PROVE  clients'[proc[p].manager][proc[p].server] = p
    BY <1>4, <2>0, <2>2, MemTyped DEF StartClient, TypeOK, ProcTypeOK
  <2>3. ASSUME NEW t \in Threads, Unmap(t)
        PROVE  \/ clients'[proc[p].manager][proc[p].server] = p
               \/ op'[t].victim = p
    <3>1. PICK s \in op[t].changed :
            /\ clients' = [clients EXCEPT ![M(t)][s] = 0]
            /\ op' = [op EXCEPT ![t].changed = @ \ {s},
                                ![t].victim = clients[M(t)][s]]
      BY <2>3 DEF Unmap
    <3>2. CASE M(t) = proc[p].manager /\ s = proc[p].server
      BY <1>4, <3>1, <3>2 DEF TypeOK, OpsTypeOK, Operation
    <3>3. CASE ~(M(t) = proc[p].manager /\ s = proc[p].server)
      BY <1>4, <2>0, <3>1, <3>3 DEF TypeOK, ProcTypeOK
    <3>4. QED
      BY <3>2, <3>3
  <2>4. QED
    BY <2>1, <2>2, <2>3, Zenon
    DEF Next, Step, Look, LoadGlobal, LoadProject, ReloadGlobal, ReloadProject,
        ReloadStamps, Kill, TakeRead, ReadConfig, FindClient, Ask, Hear,
        Return, GiveUp, TakeGlobal, SaveTemp, Rename, Saved, Stopped,
        DropEnabled, TakeProject, Toggle, Begin, Answer, Dies, Edit
<1>5. ASSUME NEW p \in 1 .. Len(proc'), p \notin 1 .. Len(proc)
      PROVE  clients'[proc'[p].manager][proc'[p].server] = p
  <2>1. ASSUME NEW i \in 1 .. Len(proc), NEW q, proc' = [proc EXCEPT ![i] = q]
        PROVE  Len(proc') = Len(proc)
    BY <1>0, <2>1
  <2>2. PICK t \in Threads : FindClient(t) /\ StartClient(t)
    BY <1>5, <2>1, ProcessSteps, Zenon DEF AsksOn, HearsFrom, Answers, Settles
  <2>3. op[t].server \in Servers
    <3>1. op[t].at = "client"
      BY <2>2 DEF FindClient
    <3>2. QED
      BY <3>1, CommandIs DEF CommandTyped
  <2>4. proc'[p].manager = M(t) /\ proc'[p].server = op[t].server /\ p = Len(proc) + 1
    BY <1>0, <1>5, <2>2 DEF StartClient, Started
  <2>5. QED
    BY <2>2, <2>3, <2>4, MemTyped DEF StartClient, TypeOK, ProcTypeOK
<1>6. ASSUME NEW p \in 1 .. Len(proc'), proc'[p].up
      PROVE  \/ clients'[proc'[p].manager][proc'[p].server] = p
             \/ \E t \in Threads : op'[t].victim = p
  <2>1. CASE p \in 1 .. Len(proc)
    BY <1>2, <1>3, <1>4, <1>6, <2>1, ProcessesKeep
  <2>2. QED
    BY <1>5, <2>1, <1>6
<1>7. QED
  BY <1>0, <1>6 DEF ProcessesAreOwned

(* A process that runs is the one its manager would use, or the thread that *)
(* took it out of the map has it as its victim and stops it next: whatever  *)
(* commands of one workspace overlap with a reload (client_for,             *)
(* stop_client), none is left running behind.                               *)
THEOREM NoneIsLeftRunning == Spec => []ProcessesAreOwned
<1>1. Init => ProcessesAreOwned
  BY DEF Init, ProcessesAreOwned
<1>2. TypeOK /\ TypeOK' /\ ProcessesAreOwned /\ [Next]_vars => ProcessesAreOwned'
  BY OwnersStay, Zenon DEF vars, ProcessesAreOwned
<1>3. QED
  BY <1>1, <1>2, TypeCorrect, PTL DEF Spec

-----------------------------------------------------------------------------
(* Questions, and the answers to them.                                      *)

Pending(p) ==
  proc[p].asked \cup {proc[p].answers[i] : i \in DOMAIN proc[p].answers}

(* A question's id was given out on its pipe, and the one a thread waits    *)
(* with belongs to no question but its own.                                 *)
IdsAreGivenOut ==
  \A p \in 1 .. Len(proc) : \A q \in Pending(p) : q.id < proc[p].next
WaitsForItsOwn ==
  \A t \in Threads : op[t].at = "asked" =>
    /\ op[t].id < proc[op[t].pid].next
    /\ \A q \in Pending(op[t].pid) : q.id = op[t].id => q.for = op[t].number
QuestionsAreTold == IdsAreGivenOut /\ WaitsForItsOwn /\ AnswersAreToTheQuestion

LEMMA AsksAre ==
  ASSUME TypeOK, NEW t \in Threads, NEW p \in 1 .. Len(proc), AsksOn(t, p)
  PROVE  /\ proc'[p].next = proc[p].next + 1
         /\ Pending(p)' \subseteq Pending(p) \cup
              {[id |-> proc[p].next, for |-> op[t].number]}
<1> DEFINE q == [id |-> proc[p].next, for |-> op[t].number]
<1>1. proc \in Seq(Process) /\ proc[p] \in Process
  BY ElementOfSeq DEF TypeOK, ProcTypeOK
<1>2. proc' = [proc EXCEPT ![p] = [proc[p] EXCEPT !.user = t,
                 !.next = proc[p].next + 1, !.asked = proc[p].asked \cup {q}]]
  BY Zenon DEF AsksOn
<1> HIDE DEF q
<1>3. /\ proc'[p].next = proc[p].next + 1 /\ proc'[p].asked = proc[p].asked \cup {q}
      /\ proc'[p].answers = proc[p].answers
  BY <1>1, <1>2 DEF Process
<1>4. Pending(p)' \subseteq Pending(p) \cup {q}
  BY <1>3 DEF Pending
<1>5. QED
  BY <1>3, <1>4 DEF q

(* On a pipe: the ids given out only grow, and a question that is pending   *)
(* was, or is asked in this step under the next id.                         *)
LEMMA PendingStays ==
  ASSUME TypeOK, Next, NEW p \in 1 .. Len(proc)
  PROVE  /\ p \in 1 .. Len(proc') /\ proc'[p].next >= proc[p].next
         /\ \/ Pending(p)' \subseteq Pending(p)
            \/ \E t \in Threads :
                 /\ AsksOn(t, p) /\ proc'[p].next = proc[p].next + 1
                 /\ Pending(p)' \subseteq Pending(p) \cup
                      {[id |-> proc[p].next, for |-> op[t].number]}
<1>0. /\ proc \in Seq(Process) /\ Len(proc) \in Nat /\ DOMAIN proc = 1 .. Len(proc)
      /\ proc[p] \in Process /\ proc[p].next \in Nat
      /\ proc[p].answers \in Seq(Question)
  <2>1. /\ proc \in Seq(Process) /\ Len(proc) \in Nat /\ DOMAIN proc = 1 .. Len(proc)
        /\ proc[p] \in Process
    BY LenProperties, ElementOfSeq DEF TypeOK, ProcTypeOK
  <2>2. QED
    BY <2>1 DEF Process
<1>1. CASE proc'[p] = proc[p] /\ p \in 1 .. Len(proc')
  BY <1>0, <1>1 DEF Pending
<1>2. CASE \E t \in Threads : StartClient(t)
  BY <1>0, <1>1, <1>2 DEF StartClient, Started
<1>3. ASSUME NEW i \in 1 .. Len(proc), NEW q, proc' = [proc EXCEPT ![i] = q]
      PROVE  /\ p \in 1 .. Len(proc')
             /\ p # i => proc'[p] = proc[p]
             /\ p = i => proc'[p] = q
  BY <1>0, <1>3
<1>4. ASSUME NEW t \in Threads, AsksOn(t, p)
      PROVE  /\ proc'[p].next = proc[p].next + 1
             /\ Pending(p)' \subseteq Pending(p) \cup
                  {[id |-> proc[p].next, for |-> op[t].number]}
  BY <1>4, AsksAre
<1>5. ASSUME NEW t \in Threads, HearsFrom(t, p)
      PROVE  proc'[p].next = proc[p].next /\ Pending(p)' \subseteq Pending(p)
  <2>1. PICK u : proc' = [proc EXCEPT ![p] = [proc[p] EXCEPT
                            !.answers = Tail(proc[p].answers), !.user = u]]
    BY <1>5, Zenon DEF HearsFrom
  <2>2. /\ proc'[p].next = proc[p].next /\ proc'[p].asked = proc[p].asked
        /\ proc'[p].answers = Tail(proc[p].answers)
    BY <1>0, <2>1 DEF Process
  <2>3. proc[p].answers # <<>>
    BY <1>5, Zenon DEF HearsFrom
  <2>4. \A i \in DOMAIN Tail(proc[p].answers) :
          /\ i + 1 \in DOMAIN proc[p].answers
          /\ Tail(proc[p].answers)[i] = proc[p].answers[i + 1]
    BY <1>0, <2>3
  <2>5. QED
    BY <2>2, <2>4 DEF Pending
<1>6. ASSUME Answers(p)
      PROVE  proc'[p].next = proc[p].next /\ Pending(p)' \subseteq Pending(p)
  <2>1. PICK q \in proc[p].asked : proc' = [proc EXCEPT ![p] = [proc[p] EXCEPT
               !.asked = proc[p].asked \ {q}, !.answers = Append(proc[p].answers, q)]]
    BY <1>6, Zenon DEF Answers
  <2>2. /\ proc'[p].next = proc[p].next /\ proc'[p].asked = proc[p].asked \ {q}
        /\ proc'[p].answers = Append(proc[p].answers, q)
    BY <1>0, <2>1 DEF Process
  <2>3. \A i \in DOMAIN Append(proc[p].answers, q) :
          \/ Append(proc[p].answers, q)[i] = q
          \/ /\ i \in DOMAIN proc[p].answers
             /\ Append(proc[p].answers, q)[i] = proc[p].answers[i]
    BY <1>0
  <2>4. QED
    BY <2>2, <2>3 DEF Pending
<1>7. ASSUME Settles(p)
      PROVE  proc'[p].next = proc[p].next /\ Pending(p)' \subseteq Pending(p)
  <2>1. PICK q \in {[proc[p] EXCEPT !.up = FALSE], [proc[p] EXCEPT !.user = None]} :
          proc' = [proc EXCEPT ![p] = q]
    BY <1>7, Zenon DEF Settles
  <2>2. q.next = proc[p].next /\ q.asked = proc[p].asked /\ q.answers = proc[p].answers
    BY <1>0 DEF Process
  <2>3. proc'[p] = q
    BY <1>0, <2>1
  <2>4. QED
    BY <2>2, <2>3 DEF Pending
<1>8. CASE UNCHANGED proc
  BY <1>0, <1>1, <1>8
<1>9. ASSUME NEW i \in 1 .. Len(proc), i # p,
             \/ \E t \in Threads : AsksOn(t, i) \/ HearsFrom(t, i)
             \/ Answers(i) \/ Settles(i)
      PROVE  proc'[p] = proc[p] /\ p \in 1 .. Len(proc')
  BY <1>3, <1>9, Zenon DEF AsksOn, HearsFrom, Answers, Settles
<1>10. ASSUME \/ \E t \in Threads : AsksOn(t, p) \/ HearsFrom(t, p)
              \/ Answers(p) \/ Settles(p)
       PROVE  p \in 1 .. Len(proc')
  BY <1>3, <1>10, Zenon DEF AsksOn, HearsFrom, Answers, Settles
<1>11. proc[p].next + 1 >= proc[p].next /\ proc[p].next >= proc[p].next
  BY <1>0
<1>12. QED
  BY <1>1, <1>2, <1>4, <1>5, <1>6, <1>7, <1>8, <1>9, <1>10, <1>11, ProcessSteps

LEMMA PendingTyped ==
  ASSUME NEW s \in Seq(Process), NEW p \in 1 .. Len(s)
  PROVE  /\ s[p].next \in Nat /\ s[p].asked \in SUBSET Question
         /\ \A i \in DOMAIN s[p].answers : s[p].answers[i] \in Question
<1>1. s[p] \in Process
  BY ElementOfSeq
<1>2. s[p].answers \in Seq(Question)
  BY <1>1 DEF Process
<1>3. \A i \in DOMAIN s[p].answers : s[p].answers[i] \in Question
  BY <1>2
<1>4. QED
  BY <1>1, <1>3 DEF Process

(* A thread waits for an answer, or has one, as it did before, or because   *)
(* it has just asked, or heard the answer to its own question.              *)
LEMMA RequestSteps ==
  ASSUME TypeOK, Next, NEW t \in Threads, op'[t].at \in {"asked", "answered"}
  PROVE  \/ op'[t] = op[t]
         \/ \E i \in 1 .. Len(proc) : AsksOn(t, i)
         \/ /\ op[t].at = "asked" /\ op'[t].at = "answered"
            /\ op'[t].number = op[t].number
            /\ \E a \in Pending(op[t].pid) : a.id = op[t].id /\ op'[t].got = a.for
<1>0. op \in [Threads -> Operation] /\ op[t] \in Operation
  BY DEF TypeOK, OpsTypeOK
<1>1. CASE UNCHANGED op
  BY <1>1
<1>2. ASSUME NEW u \in Threads, NEW kind \in Kinds, NEW s \in Servers,
             NEW def \in DefFor(kind), Begin(u, kind, s, def)
      PROVE  op'[t] = op[t]
  <2>1. PICK calls : op' = [op EXCEPT ![u] = [IdleOp EXCEPT
                 !.at = "look", !.calls = calls, !.server = s, !.def = def,
                 !.number = ops + 1]]
    BY <1>2, Zenon DEF Begin
  <2>2. [IdleOp EXCEPT !.at = "look", !.calls = calls, !.server = s,
                       !.def = def, !.number = ops + 1].at = "look"
    BY DEF IdleOp
  <2>3. t # u
    BY <1>0, <2>1, <2>2
  <2>4. QED
    BY <1>0, <2>1, <2>3
<1>3. CASE Ask(t)
  <2>1. CASE End(t)
    BY <1>0, <2>1 DEF End, IdleOp
  <2>2. QED
    BY <1>3, <2>1, AskIs
<1>4. CASE Hear(t)
  <2> DEFINE a == Head(Pid(t).answers)
  <2>1. op[t].at = "asked" /\ Pid(t).answers # <<>>
    BY <1>4, Zenon DEF Hear
  <2>2. CASE a.id = op[t].id
    <3>1. op' = [op EXCEPT ![t].at = "answered", ![t].got = a.for]
      BY <1>4, <2>2, Zenon DEF Hear
    <3>2. op[t].pid \in 1 .. Len(proc)
      BY <2>1, CommandIs DEF CommandTyped
    <3>3. Pid(t).answers \in Seq(Question)
      <4>1. Pid(t) \in Process
        BY <3>2, ElementOfSeq DEF Pid, TypeOK, ProcTypeOK
      <4>2. QED
        BY <4>1 DEF Process
    <3>4. a \in Pending(op[t].pid)
      BY <2>1, <3>3 DEF Pending, Pid
    <3> HIDE DEF a
    <3>5. /\ op'[t].at = "answered" /\ op'[t].got = a.for
          /\ op'[t].number = op[t].number
      BY <1>0, <3>1 DEF Operation
    <3>6. QED
      BY <2>1, <2>2, <3>4, <3>5
  <2>3. CASE a.id # op[t].id
    BY <1>1, <1>4, <2>3, Zenon DEF Hear
  <2>4. QED
    BY <2>2, <2>3
<1>5. ASSUME NEW u \in Threads, Step(u)
      PROVE  op'[t] = op[t] \/ Ask(t) \/ Hear(t)
  <2>1. CASE u = t
    BY <1>5, <2>1, OnlyItsOwn DEF AsksOrHears
  <2>2. CASE u # t
    BY <1>5, <2>2, OnlyItsOwn
  <2>3. QED
    BY <2>1, <2>2
<1>6. QED
  BY <1>1, <1>2, <1>3, <1>4, <1>5, Zenon DEF Next, Answer, Dies, Edit

LEMMA QuestionsStay ==
  ASSUME TypeOK, TypeOK', QuestionsAreTold, Next
  PROVE  QuestionsAreTold'
<1>0. /\ proc \in Seq(Process) /\ Len(proc) \in Nat
      /\ proc' \in Seq(Process) /\ Len(proc') \in Nat
  BY LenProperties DEF TypeOK, ProcTypeOK
<1>1. ASSUME NEW p \in 1 .. Len(proc)
      PROVE  /\ proc[p].next \in Nat /\ proc'[p].next \in Nat
             /\ proc'[p].next >= proc[p].next
             /\ \A q \in Pending(p) : q.id \in Nat /\ q.id < proc[p].next
  BY <1>0, PendingTyped, PendingStays DEF QuestionsAreTold, IdsAreGivenOut, Pending,
     Question
<1>2. ASSUME NEW p \in 1 .. Len(proc'), NEW q \in Pending(p)'
      PROVE  q.id < proc'[p].next
  <2>1. CASE p \in 1 .. Len(proc)
    <3>1. CASE Pending(p)' \subseteq Pending(p)
      BY <1>1, <1>2, <2>1, <3>1
    <3>2. CASE \E t \in Threads :
                 /\ AsksOn(t, p) /\ proc'[p].next = proc[p].next + 1
                 /\ Pending(p)' \subseteq Pending(p) \cup
                      {[id |-> proc[p].next, for |-> op[t].number]}
      <4>1. q \in Pending(p) \/ q.id = proc[p].next
        BY <1>2, <3>2
      <4>2. QED
        BY <1>1, <2>1, <3>2, <4>1
    <3>3. QED
      BY <2>1, <3>1, <3>2, PendingStays
  <2>2. CASE p \notin 1 .. Len(proc)
    <3>1. ASSUME NEW i \in 1 .. Len(proc), NEW r, proc' = [proc EXCEPT ![i] = r]
          PROVE  FALSE
      BY <1>0, <2>2, <3>1
    <3>2. PICK t \in Threads : StartClient(t)
      BY <2>2, <3>1, ProcessSteps, Zenon DEF AsksOn, HearsFrom, Answers, Settles
    <3>3. proc'[p].asked = {} /\ proc'[p].answers = <<>>
      BY <1>0, <2>2, <3>2 DEF StartClient, Started
    <3>4. QED
      BY <1>2, <3>3 DEF Pending
  <2>3. QED
    BY <2>1, <2>2
<1>3. ASSUME NEW t \in Threads, op'[t].at = "asked"
      PROVE  /\ op'[t].id < proc'[op'[t].pid].next
             /\ \A q \in Pending(op[t].pid)' :
                  q.id = op'[t].id => q.for = op'[t].number
  <2>1. CASE op'[t] = op[t]
    <3>0. op[t].pid \in 1 .. Len(proc)
      BY <1>3, <2>1, CommandIs DEF CommandTyped
    <3>1. PICK p \in 1 .. Len(proc) : p = op[t].pid
      BY <3>0
    <3>6. op[t].at = "asked" /\ p = op'[t].pid /\ op[t].id \in Nat
      BY <1>3, <2>1, <3>1, CommandIs DEF Operation
    <3>2. /\ op[t].id < proc[p].next
          /\ \A q \in Pending(p) : q.id = op[t].id => q.for = op[t].number
      BY <3>1, <3>6 DEF QuestionsAreTold, WaitsForItsOwn
    <3>3. op[t].id < proc'[p].next
      BY <1>1, <3>6, <3>2
    <3>4. ASSUME NEW q \in Pending(p)', q.id = op[t].id
          PROVE  q \in Pending(p)
      <4>1. q \in Pending(p) \/ q.id = proc[p].next
        BY <3>4, PendingStays
      <4>2. proc[p].next # op[t].id
        BY <1>1, <3>6, <3>2
      <4>3. QED
        BY <3>4, <4>1, <4>2
    <3>5. QED
      BY <2>1, <3>6, <3>2, <3>3, <3>4
  <2>2. CASE \E i \in 1 .. Len(proc) : AsksOn(t, i)
    <3>1. PICK p \in 1 .. Len(proc) : AsksOn(t, p)
      BY <2>2
    <3>2. /\ op'[t].pid = p /\ op'[t].id = proc[p].next
          /\ op'[t].number = op[t].number
      <4>1. op' = [op EXCEPT ![t].at = "asked", ![t].id = proc[p].next] /\ op[t].pid = p
        BY <3>1, Zenon DEF AsksOn
      <4>2. QED
        BY <4>1, CommandIs DEF TypeOK, OpsTypeOK, Operation
    <3>3. /\ proc'[p].next = proc[p].next + 1
          /\ Pending(p)' \subseteq Pending(p) \cup
               {[id |-> proc[p].next, for |-> op[t].number]}
      BY <3>1, AsksAre
    <3>4. ASSUME NEW q \in Pending(p)', q.id = proc[p].next
          PROVE  q.for = op[t].number
      BY <1>1, <3>3, <3>4
    <3>5. proc[p].next < proc'[p].next
      BY <1>1, <3>3
    <3>6. QED
      BY <3>2, <3>4, <3>5
  <2>3. QED
    BY <1>3, <2>1, <2>2, RequestSteps
<1>4. ASSUME NEW t \in Threads, op'[t].at = "answered"
      PROVE  op'[t].got = op'[t].number
  <2>1. CASE op'[t] = op[t]
    BY <1>4, <2>1 DEF QuestionsAreTold, AnswersAreToTheQuestion
  <2>2. ASSUME NEW i \in 1 .. Len(proc), AsksOn(t, i)
        PROVE  FALSE
    <3>1. op' = [op EXCEPT ![t].at = "asked", ![t].id = proc[i].next]
      BY <2>2, Zenon DEF AsksOn
    <3>2. op'[t].at = "asked"
      BY <3>1, CommandIs DEF TypeOK, OpsTypeOK, Operation
    <3>3. QED
      BY <1>4, <3>2
  <2>3. QED
    BY <1>4, <2>1, <2>2, RequestSteps DEF QuestionsAreTold, WaitsForItsOwn
<1>5. QED
  BY <1>2, <1>3, <1>4 DEF QuestionsAreTold, IdsAreGivenOut, WaitsForItsOwn,
     AnswersAreToTheQuestion

(* A call returns the answer to its own question, however late the answers  *)
(* to the questions that timed out before it come in: an id is given out    *)
(* once on a pipe (request), so an answer with the id a thread waits for is *)
(* to what that thread asked.                                               *)
THEOREM AnswersMatch == Spec => []AnswersAreToTheQuestion
<1>1. Init => QuestionsAreTold
  BY DEF Init, QuestionsAreTold, IdsAreGivenOut, WaitsForItsOwn,
         AnswersAreToTheQuestion, IdleOp
<1>2. TypeOK /\ TypeOK' /\ QuestionsAreTold /\ [Next]_vars => QuestionsAreTold'
  <2>1. ASSUME QuestionsAreTold, UNCHANGED vars PROVE QuestionsAreTold'
    BY <2>1 DEF vars, QuestionsAreTold, IdsAreGivenOut, WaitsForItsOwn,
                AnswersAreToTheQuestion, Pending
  <2>2. QED
    BY <2>1, QuestionsStay
<1>3. QuestionsAreTold => AnswersAreToTheQuestion
  BY DEF QuestionsAreTold
<1>4. QED
  BY <1>1, <1>2, <1>3, TypeCorrect, PTL DEF Spec

-----------------------------------------------------------------------------
(* The file of the definitions, when all threads serve one workspace.       *)

OneManager == \A t, u \in Threads : ManagerOf[t] = ManagerOf[u]

(* Whoever saves holds the lock on the definitions from before the          *)
(* temporary file is written until after it is renamed.                     *)
SaversHold ==
  \A t \in Threads :
    /\ op[t].at \in Saving => Lock(t, "global").writer = t
    /\ op[t].at = "renaming" => temp # None

LEMMA WriterStays ==
  ASSUME TypeOK, NEW t \in Threads, Lock(t, "global").writer = t,
         NEW u \in Threads \ {t}, Step(u)
  PROVE  lock'[M(t)]["global"].writer = t
<1>0. lock \in [Managers -> [{"global", "project"} -> LockState]]
  BY DEF TypeOK, LocksTypeOK
<1>1. CASE UNCHANGED lock
  BY <1>1 DEF Lock
<1>2. CASE ReleaseAll(u)
  BY <1>0, <1>2, MemTyped DEF ReleaseAll, Released, Lock, TypeOK
<1>3. ASSUME NEW l \in {"global", "project"}, CanWrite(u, l), Writes(u, l)
      PROVE  lock'[M(t)]["global"].writer = t
  <2>1. ~(M(u) = M(t) /\ l = "global")
    BY <1>3, ConstantsAssumption DEF CanWrite, Lock, Free
  <2>2. QED
    BY <1>0, <1>3, <2>1, MemTyped DEF Writes, Lock, TypeOK
<1>4. ASSUME NEW l \in {"global", "project"}, Reads(u, l)
      PROVE  lock'[M(t)]["global"].writer = t
  BY <1>0, <1>4, MemTyped DEF Reads, Lock, TypeOK, LockState
<1>5. \/ UNCHANGED lock
      \/ ReleaseAll(u)
      \/ \E l \in {"global", "project"} :
           (CanWrite(u, l) /\ Writes(u, l)) \/ Reads(u, l)
  BY DEF Step, Look, LoadGlobal, LoadProject, ReloadGlobal, ReloadProject,
     ReloadStamps, Unmap, Kill, TakeRead, ReadConfig, FindClient, Ask, Hear,
     Return, GiveUp, TakeGlobal, SaveTemp, Rename, Saved, Stopped, DropEnabled,
     TakeProject, Toggle
<1>6. QED
  BY <1>1, <1>2, <1>3, <1>4, <1>5

LEMMA SaversStay ==
  ASSUME OneManager, TypeOK, SaversHold, Next
  PROVE  SaversHold'
<1>0. op \in [Threads -> Operation]
  BY DEF TypeOK, OpsTypeOK
<1>1. ASSUME NEW t \in Threads, NEW u \in Threads, op[t].at \in Saving,
             op[u].at \in Saving
      PROVE  t = u
  BY <1>1 DEF SaversHold, OneManager, Lock, M
<1>2. ASSUME NEW t \in Threads, op'[t].at \in Saving
      PROVE  /\ lock'[M(t)]["global"].writer = t
             /\ op'[t].at = "renaming" => temp' # None
  <2>1. ASSUME NEW u \in Threads, Step(u), u # t
        PROVE  /\ lock'[M(t)]["global"].writer = t
               /\ op'[t].at = "renaming" => temp' # None
    <3>1. op'[t] = op[t]
      BY <2>1, OnlyItsOwn
    <3>2. op[u].at \notin Saving
      BY <1>1, <1>2, <2>1, <3>1
    <3>3. UNCHANGED temp
      BY <2>1, <3>2, Zenon
      DEF Saving, Step, Look, LoadGlobal, LoadProject, ReloadGlobal,
          ReloadProject, ReloadStamps, Unmap, Kill, TakeRead, ReadConfig,
          FindClient, Ask, Hear, Return, GiveUp, TakeGlobal, SaveTemp, Rename,
          Saved, Stopped, DropEnabled, TakeProject, Toggle
    <3>4. QED
      BY <1>2, <2>1, <3>1, <3>3, WriterStays DEF SaversHold
  <2>2. CASE Step(t)
    <3>1. CASE TakeGlobal(t)
      <4>1. CASE End(t)
        BY <1>0, <1>2, <4>1 DEF End, IdleOp, Saving
      <4>2. CASE ~End(t)
        <5>1. PICK defs : /\ Writes(t, "global")
                          /\ op' = [op EXCEPT ![t].at = "saving", ![t].defs = defs]
          BY <3>1, <4>2, Zenon DEF TakeGlobal
        <5>2. op'[t].at = "saving"
          BY <1>0, <5>1 DEF Operation
        <5>3. QED
          BY <5>1, <5>2, MemTyped DEF Writes, TypeOK, LocksTypeOK, LockState
      <4>3. QED
        BY <4>1, <4>2
    <3>2. CASE SaveTemp(t)
      <4>1. op[t].at = "saving" /\ UNCHANGED lock /\ temp' = op[t].defs
        BY <3>2 DEF SaveTemp
      <4>2. op[t].defs # None
        BY <1>0, ConstantsAssumption DEF Operation, Definitions
      <4>3. QED
        BY <4>1, <4>2 DEF SaversHold, Lock, Saving
    <3>3. CASE Rename(t)
      <4>1. op[t].at = "renaming" /\ temp # None
        BY <3>3 DEF Rename, SaversHold
      <4>2. UNCHANGED lock /\ To(t, "saved")
        BY <3>3, <4>1 DEF Rename
      <4>3. op'[t].at = "saved"
        BY <1>0, <4>2 DEF To, Operation
      <4>4. QED
        BY <4>1, <4>2, <4>3 DEF SaversHold, Lock, Saving
    <3>4. QED
      BY <1>2, <2>2, <3>1, <3>2, <3>3, OnlyItsOwn DEF Saves
  <2>3. ASSUME NEW u \in Threads, NEW kind \in Kinds, NEW s \in Servers,
               NEW def \in DefFor(kind), Begin(u, kind, s, def)
        PROVE  UNCHANGED <<temp, lock>> /\ op'[t] = op[t]
    <3>1. PICK calls : op' = [op EXCEPT ![u] = [IdleOp EXCEPT
                   !.at = "look", !.calls = calls, !.server = s, !.def = def,
                   !.number = ops + 1]]
      BY <2>3, Zenon DEF Begin
    <3>2. [IdleOp EXCEPT !.at = "look", !.calls = calls, !.server = s,
                         !.def = def, !.number = ops + 1].at = "look"
      BY DEF IdleOp
    <3>3. t # u
      BY <1>0, <1>2, <3>1, <3>2 DEF Saving
    <3>4. QED
      BY <1>0, <2>3, <3>1, <3>3 DEF Begin
  <2>4. CASE UNCHANGED <<temp, lock>> /\ op'[t] = op[t]
    BY <1>2, <2>4 DEF SaversHold, Lock
  <2>5. QED
    BY <2>1, <2>2, <2>3, <2>4, Zenon DEF Next, Answer, Dies, Edit
<1>3. QED
  BY <1>2 DEF SaversHold, Lock, Saving

(* When all commands are of one workspace, whatever two of them save at the *)
(* same time, the file of the definitions is not lost: save_yaml, which     *)
(* removes it when its rename finds no temporary file, always finds one,    *)
(* for its caller holds the lock on the definitions throughout.             *)
THEOREM DefinitionsKept ==
  ASSUME OneManager
  PROVE  Spec => DefinitionsSurvive
<1>1. Init => SaversHold
  BY DEF Init, SaversHold, IdleOp, Saving
<1>2. TypeOK /\ SaversHold /\ [Next]_vars => SaversHold'
  <2>1. ASSUME SaversHold, UNCHANGED vars PROVE SaversHold'
    BY <2>1 DEF vars, SaversHold, Lock
  <2>2. QED
    BY <2>1, SaversStay
<1>3. TypeOK /\ SaversHold /\ [Next]_vars => [file # None => file' # None]_vars
  <2> SUFFICES ASSUME TypeOK, SaversHold, Next, file # None
               PROVE  file' # None
    BY DEF vars
  <2>1. ASSUME NEW t \in Threads, Rename(t) PROVE file' # None
    BY <2>1 DEF Rename, SaversHold
  <2>2. ASSUME NEW s \in Servers, NEW v \in Versions \cup {None}, Edit(s, v)
        PROVE  file' # None
    <3>1. file' \in Definitions
      BY <2>2, DefsTyped DEF Edit, TypeOK, Definitions
    <3>2. QED
      BY <3>1, ConstantsAssumption DEF Definitions
  <2>3. CASE UNCHANGED file
    BY <2>3
  <2>4. QED
    BY <2>1, <2>2, <2>3, Zenon
    DEF Next, Step, Look, LoadGlobal, LoadProject, ReloadGlobal, ReloadProject,
        ReloadStamps, Unmap, Kill, TakeRead, ReadConfig, FindClient, Ask, Hear,
        Return, GiveUp, TakeGlobal, SaveTemp, Saved, Stopped, DropEnabled,
        TakeProject, Toggle, Begin, Answer, Dies
<1>4. QED
  BY <1>1, <1>2, <1>3, TypeCorrect, PTL DEF Spec, DefinitionsSurvive
=============================================================================
