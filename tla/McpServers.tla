----------------------------- MODULE McpServers -----------------------------
(***************************************************************************)
(* MCP servers (crates/openbad-mcp/src/lib.rs): the definitions every      *)
(* project shares, the ones a project enables, their copies in a manager's *)
(* memory behind two locks, the reload when a file changed on disk, and    *)
(* the server processes with the requests on their pipes.  The desktop     *)
(* (apps/desktop/src-tauri/src/lib.rs) has one manager for each workspace  *)
(* and runs its commands on threads of their own.                          *)
(*                                                                         *)
(* An action is a stretch in which a thread neither waits for a lock nor   *)
(* touches a file that somebody else may touch.  All servers are stdio     *)
(* servers; a content stamp is the content; a definition is a version.     *)
(***************************************************************************)
EXTENDS Integers, Sequences, FiniteSets

CONSTANTS
  Managers,   \* one for each workspace
  Threads,    \* threads that run a manager's commands
  ManagerOf,  \* the manager a thread's commands are for
  Servers,    \* names of servers
  Versions,   \* definitions a server may have
  Kinds,      \* commands: a subset of CommandKinds
  Outside,    \* what happens besides: a subset of {"dies", "edit"}
  MaxOps,     \* commands and outside edits (bounds the model)
  None        \* no definition, no thread, no file

CommandKinds == {"list", "call", "probe", "add", "update", "remove",
                 "enable", "disable"}

(* The manager's methods a command of the desktop calls, one after the      *)
(* other.  The panel's toggle does not probe; an agent's does.              *)
CallsOf(kind) ==
  CASE kind = "add"    -> {<<"add", "probe">>, <<"add", "enable", "probe">>}
    [] kind = "update" -> {<<"list", "update", next, "probe">> :
                             next \in {"list", "enable", "disable"}}
    [] kind \in {"enable", "disable"} -> {<<kind>>, <<kind, "probe">>}
    [] OTHER           -> {<<kind>>}

ASSUME ConstantsAssumption ==
  /\ ManagerOf \in [Threads -> Managers]
  /\ Kinds \subseteq CommandKinds /\ Outside \subseteq {"dies", "edit"}
  /\ MaxOps \in Nat /\ None \notin Versions \cup Threads
  /\ None \notin [Servers -> Versions \cup {None}]

VARIABLES
  file,     \* disk: the global definitions, or None
  temp,     \* disk: the file they are written to first, or None
  project,  \* disk: the servers each project enables
  mem,      \* memory: each manager's copies, and the stamps it holds
  lock,     \* memory: each manager's two RwLocks
  clients,  \* memory: each manager's process of a server, 0 for none
  proc,     \* processes, in the order they were started
  op,       \* what each thread is at
  ops       \* commands so far

vars == <<file, temp, project, mem, lock, clients, proc, op, ops>>

NoDefs == [s \in Servers |-> None]
Defs   == IF file = None THEN NoDefs ELSE file

IdleOp == [at |-> "idle", calls |-> <<>>, server |-> "none", def |-> None,
           defs |-> NoDefs, enabled |-> {}, changed |-> {}, victim |-> 0,
           pid |-> 0, id |-> 0, number |-> 0, got |-> 0]
Method(t) == Head(op[t].calls)

M(t)        == ManagerOf[t]
Mem(t)      == mem[M(t)]
Stamps(m)   == <<file, project[m]>>
To(t, at)   == op' = [op EXCEPT ![t].at = at]
End(t)      == op' = [op EXCEPT ![t] = IdleOp]

(* A method has returned: on to the next one, if there is one.              *)
Returned(t) ==
  op' = [op EXCEPT ![t] = IF Len(@.calls) = 1 THEN IdleOp
           ELSE [IdleOp EXCEPT !.at = "look", !.calls = Tail(op[t].calls),
                               !.server = op[t].server, !.def = op[t].def,
                               !.number = op[t].number]]

Free       == [writer |-> None, readers |-> {}]
Lock(t, l) == lock[M(t)][l]
CanRead(t, l)  == Lock(t, l).writer = None
MutantNoLock(t, l) == TRUE
CanWrite(t, l) == Lock(t, l) = Free
Writes(t, l)   == lock' = [lock EXCEPT ![M(t)][l].writer = t]
Reads(t, l)    == lock' = [lock EXCEPT ![M(t)][l].readers = @ \cup {t}]
Released(t, l) == [writer  |-> IF Lock(t, l).writer = t THEN None
                               ELSE Lock(t, l).writer,
                   readers |-> Lock(t, l).readers \ {t}]
ReleaseAll(t)  == lock' = [lock EXCEPT
                    ![M(t)] = [l \in {"global", "project"} |-> Released(t, l)]]

Init ==
  /\ file \in {None} \cup {[s \in Servers |-> v] : v \in Versions}
  /\ temp = None
  /\ project = [m \in Managers |-> IF file = None THEN {} ELSE Servers]
  /\ mem = [m \in Managers |-> [defs |-> Defs, enabled |-> project[m],
                                stamps |-> Stamps(m)]]
  /\ lock = [m \in Managers |-> [l \in {"global", "project"} |-> Free]]
  /\ clients = [m \in Managers |-> [s \in Servers |-> 0]]
  /\ proc = <<>>
  /\ op = [t \in Threads |-> IdleOp]
  /\ ops = 0

-----------------------------------------------------------------------------
(* reload_if_changed, which every method begins with.                       *)

Begin(t, kind, s, def) ==
  /\ op[t].at = "idle" /\ ops < MaxOps
  /\ \E calls \in CallsOf(kind) :
       op' = [op EXCEPT ![t] = [IdleOp EXCEPT
                !.at = "look", !.calls = calls, !.server = s, !.def = def,
                !.number = ops + 1]]
  /\ ops' = ops + 1
  /\ UNCHANGED <<file, temp, project, mem, lock, clients, proc>>

Look(t) ==
  /\ op[t].at = "look"
  /\ To(t, IF Mem(t).stamps = Stamps(M(t)) THEN "body" ELSE "load")
  /\ UNCHANGED <<file, temp, project, mem, lock, clients, proc, ops>>

(* reload: first the one file, then the other.                              *)
LoadGlobal(t) ==
  /\ op[t].at = "load"
  /\ op' = [op EXCEPT ![t].at = "loading", ![t].defs = Defs]
  /\ UNCHANGED <<file, temp, project, mem, lock, clients, proc, ops>>
LoadProject(t) ==
  /\ op[t].at = "loading"
  /\ op' = [op EXCEPT ![t].at = "reload", ![t].enabled = project[M(t)]]
  /\ UNCHANGED <<file, temp, project, mem, lock, clients, proc, ops>>

(* Then the one lock, and the other.                                        *)
ReloadGlobal(t) ==
  /\ op[t].at = "reload" /\ CanWrite(t, "global")
  /\ Writes(t, "global") /\ To(t, "reloading")
  /\ UNCHANGED <<file, temp, project, mem, clients, proc, ops>>
ReloadProject(t) ==
  /\ op[t].at = "reloading" /\ CanWrite(t, "project")
  /\ mem' = [mem EXCEPT ![M(t)].defs = op[t].defs,
                        ![M(t)].enabled = op[t].enabled]
  /\ op' = [op EXCEPT ![t].at = "stopping", ![t].changed =
       {s \in Servers : Mem(t).defs[s] # op[t].defs[s]}
         \cup (Mem(t).enabled \ op[t].enabled)]
  /\ ReleaseAll(t)
  /\ UNCHANGED <<file, temp, project, clients, proc, ops>>
ReloadStamps(t) ==
  /\ op[t].at = "stopping" /\ op[t].changed = {} /\ op[t].victim = 0
  /\ mem' = [mem EXCEPT ![M(t)].stamps = Stamps(M(t))]
  /\ To(t, "body")
  /\ UNCHANGED <<file, temp, project, lock, clients, proc, ops>>

(* stop_client: out of the map, and killed when no request is on its pipe.  *)
Unmap(t) ==
  /\ op[t].at \in {"stopping", "stop"} /\ op[t].victim = 0
  /\ \E s \in op[t].changed :
       /\ clients' = [clients EXCEPT ![M(t)][s] = 0]
       /\ op' = [op EXCEPT ![t].changed = @ \ {s},
                           ![t].victim = clients[M(t)][s]]
  /\ UNCHANGED <<file, temp, project, mem, lock, proc, ops>>
Kill(t) ==
  /\ op[t].victim # 0 /\ proc[op[t].victim].user = None
  /\ proc' = [proc EXCEPT ![op[t].victim].up = FALSE]
  /\ op' = [op EXCEPT ![t].victim = 0]
  /\ UNCHANGED <<file, temp, project, mem, lock, clients, ops>>

-----------------------------------------------------------------------------
(* servers, call (and each server of catalog), and probe.                   *)

TakeRead(t) ==
  /\ op[t].at = "body" /\ Method(t) \in {"list", "call", "probe"}
  /\ CanRead(t, "global")
  /\ Reads(t, "global") /\ To(t, "reading")
  /\ UNCHANGED <<file, temp, project, mem, clients, proc, ops>>
ReadConfig(t) ==
  LET s == op[t].server IN
  /\ op[t].at = "reading"
  /\ Method(t) # "probe" => CanRead(t, "project")
  /\ \/ /\ \/ Mem(t).defs[s] = None
           \/ Method(t) = "call" /\ s \notin Mem(t).enabled
        /\ End(t)
     \/ /\ Mem(t).defs[s] # None
        /\ Method(t) = "list" /\ Returned(t)
     \/ /\ Mem(t).defs[s] # None
        /\ Method(t) = "probe" \/ (Method(t) = "call" /\ s \in Mem(t).enabled)
        /\ op' = [op EXCEPT ![t].at = "client", ![t].def = Mem(t).defs[s]]
  /\ ReleaseAll(t)
  /\ UNCHANGED <<file, temp, project, mem, clients, proc, ops>>

(* client_for: the process there is, or a new one, which may not start.     *)
Started(t) == Append(proc, [manager |-> M(t), server |-> op[t].server,
                            def |-> op[t].def, up |-> TRUE, user |-> None,
                            next |-> 1, asked |-> {}, answers |-> <<>>])
StartClient(t) ==
  /\ proc' = Started(t)
  /\ clients' = [clients EXCEPT ![M(t)][op[t].server] = Len(proc) + 1]
  /\ op' = [op EXCEPT ![t].at = "wait", ![t].pid = Len(proc) + 1]
MutantAlwaysStarts(t) ==
  /\ op[t].at = "client"
  /\ StartClient(t)
  /\ UNCHANGED <<file, temp, project, mem, lock, ops>>
FindClient(t) ==
  /\ op[t].at = "client"
  /\ \/ /\ clients[M(t)][op[t].server] # 0
        /\ op' = [op EXCEPT ![t].at = "wait",
                            ![t].pid = clients[M(t)][op[t].server]]
        /\ UNCHANGED <<clients, proc>>
     \/ clients[M(t)][op[t].server] = 0 /\ StartClient(t)
     \/ /\ clients[M(t)][op[t].server] = 0
        /\ End(t) /\ UNCHANGED <<clients, proc>>
  /\ UNCHANGED <<file, temp, project, mem, lock, ops>>

(* request: one at a time on a pipe, answered by its id, or given up.       *)
Pid(t) == proc[op[t].pid]
MutantSameId(t) == 1
RequestId(t) == Pid(t).next
Ask(t) ==
  /\ op[t].at = "wait" /\ Pid(t).user = None
  /\ IF Pid(t).up
     THEN /\ proc' = [proc EXCEPT ![op[t].pid] =
               [Pid(t) EXCEPT !.user = t, !.next = @ + 1,
                              !.asked = @ \cup {[id |-> RequestId(t),
                                                 for |-> op[t].number]}]]
          /\ op' = [op EXCEPT ![t].at = "asked", ![t].id = RequestId(t)]
     ELSE End(t) /\ UNCHANGED proc
  /\ UNCHANGED <<file, temp, project, mem, lock, clients, ops>>
Hear(t) ==
  LET a == Head(Pid(t).answers) IN
  /\ op[t].at = "asked" /\ Pid(t).answers # <<>>
  /\ proc' = [proc EXCEPT ![op[t].pid].answers = Tail(@),
       ![op[t].pid].user = IF a.id = op[t].id THEN None ELSE @]
  /\ IF a.id = op[t].id
     THEN op' = [op EXCEPT ![t].at = "answered", ![t].got = a.for]
     ELSE UNCHANGED op
  /\ UNCHANGED <<file, temp, project, mem, lock, clients, ops>>
Return(t) ==
  /\ op[t].at = "answered"
  /\ Returned(t)
  /\ UNCHANGED <<file, temp, project, mem, lock, clients, proc, ops>>

(* A request times out, or its pipe is closed.                              *)
GiveUp(t) ==
  /\ op[t].at = "asked"
  /\ proc' = [proc EXCEPT ![op[t].pid].user = None]
  /\ End(t)
  /\ UNCHANGED <<file, temp, project, mem, lock, clients, ops>>

-----------------------------------------------------------------------------
(* add_server, update_server, remove_server: the definitions as they will   *)
(* be are saved first, then put in memory.                                  *)

Changes == {"add", "update", "remove"}
Allowed(t) == IF Method(t) = "add" THEN Mem(t).defs[op[t].server] = None
                                    ELSE Mem(t).defs[op[t].server] # None
NewDef(t)  == IF Method(t) = "remove" THEN None ELSE op[t].def
TakeGlobal(t) ==
  /\ op[t].at = "body" /\ Method(t) \in Changes
  /\ CanWrite(t, "global")
  /\ IF Allowed(t)
     THEN /\ Writes(t, "global")
          /\ op' = [op EXCEPT ![t].at = "saving", ![t].defs =
               [Mem(t).defs EXCEPT ![op[t].server] = NewDef(t)]]
     ELSE End(t) /\ UNCHANGED lock
  /\ UNCHANGED <<file, temp, project, mem, clients, proc, ops>>

(* save_yaml: into a file named for the app, then over the real one.  When  *)
(* that fails the real one is removed before it is tried again.             *)
SaveTemp(t) ==
  /\ op[t].at = "saving"
  /\ temp' = op[t].defs
  /\ To(t, "renaming")
  /\ UNCHANGED <<file, project, mem, lock, clients, proc, ops>>
Rename(t) ==
  /\ op[t].at = "renaming"
  /\ file' = temp /\ temp' = None
  /\ IF temp = None THEN End(t) /\ ReleaseAll(t)
                    ELSE To(t, "saved") /\ UNCHANGED lock
  /\ UNCHANGED <<project, mem, clients, proc, ops>>
Saved(t) ==
  /\ op[t].at = "saved"
  /\ mem' = [mem EXCEPT ![M(t)].defs = op[t].defs,
                        ![M(t)].stamps = Stamps(M(t))]
  /\ ReleaseAll(t)
  /\ IF Method(t) = "add" THEN Returned(t)
     ELSE op' = [op EXCEPT ![t].at = "stop",
                           ![t].changed = {op[t].server}]
  /\ UNCHANGED <<file, temp, project, clients, proc, ops>>

(* An update looks at what the project enables, a removal drops the server  *)
(* from it.                                                                 *)
Stopped(t) ==
  /\ op[t].at = "stop" /\ op[t].changed = {} /\ op[t].victim = 0
  /\ IF Method(t) = "remove" THEN To(t, "dropping")
     ELSE /\ Method(t) = "update" => CanRead(t, "project")
          /\ Returned(t)
  /\ UNCHANGED <<file, temp, project, mem, lock, clients, proc, ops>>

(* persist_project, under the project's lock.                               *)
Persist(t, enabled) ==
  /\ project' = [project EXCEPT ![M(t)] = enabled]
  /\ mem' = [mem EXCEPT ![M(t)].enabled = enabled,
                        ![M(t)].stamps = <<file, enabled>>]
DropEnabled(t) ==
  /\ op[t].at = "dropping" /\ CanWrite(t, "project")
  /\ IF op[t].server \in Mem(t).enabled
     THEN Persist(t, Mem(t).enabled \ {op[t].server})
     ELSE UNCHANGED <<project, mem>>
  /\ Returned(t)
  /\ UNCHANGED <<file, temp, lock, clients, proc, ops>>

(* set_server_enabled: the project's lock, and then the other to look the   *)
(* server up.                                                               *)
TakeProject(t) ==
  /\ op[t].at = "body" /\ Method(t) \in {"enable", "disable"}
  /\ CanWrite(t, "project")
  /\ Writes(t, "project") /\ To(t, "toggle")
  /\ UNCHANGED <<file, temp, project, mem, clients, proc, ops>>
Toggle(t) ==
  LET s == op[t].server IN
  /\ op[t].at = "toggle" /\ CanRead(t, "global")
  /\ IF Mem(t).defs[s] = None
     THEN End(t) /\ UNCHANGED <<project, mem>>
     ELSE /\ Persist(t, IF Method(t) = "enable" THEN Mem(t).enabled \cup {s}
                                               ELSE Mem(t).enabled \ {s})
          /\ op' = [op EXCEPT ![t].at = "stop", ![t].changed =
                      IF Method(t) = "enable" THEN {} ELSE {s}]
  /\ ReleaseAll(t)
  /\ UNCHANGED <<file, temp, clients, proc, ops>>

-----------------------------------------------------------------------------
(* The servers, and whoever else edits the files.                           *)

Answer(p) ==
  /\ proc[p].up
  /\ \E q \in proc[p].asked :
       proc' = [proc EXCEPT ![p].asked = @ \ {q},
                            ![p].answers = Append(@, q)]
  /\ UNCHANGED <<file, temp, project, mem, lock, clients, op, ops>>
Dies(p) ==
  /\ "dies" \in Outside
  /\ proc[p].up
  /\ proc' = [proc EXCEPT ![p].up = FALSE]
  /\ UNCHANGED <<file, temp, project, mem, lock, clients, op, ops>>
Edit(s, v) ==
  /\ "edit" \in Outside /\ ops < MaxOps
  /\ file' = [Defs EXCEPT ![s] = v]
  /\ ops' = ops + 1
  /\ UNCHANGED <<temp, project, mem, lock, clients, proc, op>>

Step(t) ==
  \/ Look(t) \/ LoadGlobal(t) \/ LoadProject(t) \/ ReloadGlobal(t)
  \/ ReloadProject(t) \/ ReloadStamps(t) \/ Unmap(t) \/ Kill(t)
  \/ TakeRead(t) \/ ReadConfig(t)
  \/ FindClient(t) \/ Ask(t) \/ Hear(t) \/ Return(t) \/ GiveUp(t)
  \/ TakeGlobal(t) \/ SaveTemp(t) \/ Rename(t) \/ Saved(t) \/ Stopped(t)
  \/ DropEnabled(t) \/ TakeProject(t) \/ Toggle(t)

(* The definition a command comes with: a removal comes with none.          *)
DefFor(kind) == IF kind \in {"add", "update"} THEN Versions ELSE {None}

Next ==
  \/ \E t \in Threads : Step(t)
  \/ \E t \in Threads, kind \in Kinds, s \in Servers :
       \E def \in DefFor(kind) : Begin(t, kind, s, def)
  \/ \E p \in DOMAIN proc : Answer(p) \/ Dies(p)
  \/ \E s \in Servers, v \in Versions \cup {None} : Edit(s, v)

Spec == Init /\ [][Next]_vars

(* A thread runs, and a lock that stays free is taken in the end.           *)
FairSpec == Spec /\ \A t \in Threads : WF_vars(Step(t))

-----------------------------------------------------------------------------
(* Properties.                                                              *)

(* Every variable has its type: what a thread's step needs of its command   *)
(* is there, and a lock is held by a writer or by readers.                  *)
OpStep == {"idle", "look", "load", "loading", "reload", "reloading", "stopping",
           "body", "reading", "client", "wait", "asked", "answered", "saving",
           "renaming", "saved", "stop", "dropping", "toggle"}
Definitions == [Servers -> Versions \cup {None}]
LockState   == [writer : Threads \cup {None}, readers : SUBSET Threads]
Question    == [id : Nat, for : Nat]
Process     == [manager : Managers, server : Servers, def : Versions \cup {None},
                up : BOOLEAN, user : Threads \cup {None}, next : Nat,
                asked : SUBSET Question, answers : Seq(Question)]
Operation   == [at : OpStep, calls : Seq(CommandKinds),
                server : Servers \cup {"none"}, def : Versions \cup {None},
                defs : Definitions, enabled : SUBSET Servers,
                changed : SUBSET Servers, victim : Nat, pid : Nat,
                id : Nat, number : Nat, got : Nat]

FilesTypeOK ==
  /\ file \in Definitions \cup {None} /\ temp \in Definitions \cup {None}
  /\ project \in [Managers -> SUBSET Servers]
  /\ mem \in [Managers ->
       [defs : Definitions, enabled : SUBSET Servers,
        stamps : (Definitions \cup {None}) \X SUBSET Servers]]
LocksTypeOK ==
  /\ lock \in [Managers -> [{"global", "project"} -> LockState]]
  /\ \A m \in Managers, l \in {"global", "project"} :
       lock[m][l].writer # None => lock[m][l].readers = {}
ProcTypeOK ==
  /\ proc \in Seq(Process)
  /\ clients \in [Managers -> [Servers -> 0 .. Len(proc)]]
CommandTyped(o, started) ==
  /\ o.victim \in 0 .. started /\ o.pid \in 0 .. started
  /\ o.at = "idle" => o = IdleOp
  /\ o.at # "idle" => o.calls # <<>> /\ o.server \in Servers
  /\ o.at \in {"wait", "asked"} => o.pid # 0
  /\ o.victim # 0 => o.at \in {"stopping", "stop"}
OpsTypeOK ==
  /\ op \in [Threads -> Operation] /\ ops \in Nat
  /\ \A t \in Threads : CommandTyped(op[t], Len(proc))
TypeOK == FilesTypeOK /\ LocksTypeOK /\ ProcTypeOK /\ OpsTypeOK

(* Whatever two commands of a workspace save at the same time, the file of  *)
(* the definitions is not lost (save_yaml removes it when its rename finds  *)
(* no temporary file).                                                      *)
DefinitionsSurvive == [][file # None => file' # None]_vars

(* A process that runs is the one its manager would use, or about to be     *)
(* stopped by the thread that took it out: none is left running behind, and *)
(* no server has two for one workspace.                                     *)
ProcessesAreOwned ==
  \A p \in DOMAIN proc :
    proc[p].up => \/ clients[proc[p].manager][proc[p].server] = p
                  \/ \E t \in Threads : op[t].victim = p

(* A call returns the answer to its own question, however late the answers  *)
(* to the questions that timed out before it come in.                       *)
AnswersAreToTheQuestion ==
  \A t \in Threads : op[t].at = "answered" => op[t].got = op[t].number

(* McpManager: "Management methods persist and apply in memory": a command  *)
(* that was begun comes to an end.                                          *)
CommandsReturn ==
  \A t \in Threads : op[t].at # "idle" ~> op[t].at = "idle"
=============================================================================
