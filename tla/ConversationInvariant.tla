----------------------- MODULE ConversationInvariant -----------------------
(***************************************************************************)
(* Why nothing is recorded twice, no turn is left open behind another, the *)
(* rows say what the log says, nothing is forgotten and requests are       *)
(* paired: the inductive invariants of Conversation.  They say what a log  *)
(* looks like in any order of turns, repairs and forks, what a run still   *)
(* has to write, where a steering message is on its way to the log, what   *)
(* each row is made from, what a summary of a run's history would take the *)
(* place of, and where a reply is together with the results of its calls.  *)
(***************************************************************************)
EXTENDS Conversation

-----------------------------------------------------------------------------
(* Logs.                                                                    *)

IsSeq(s) == s \in Seq({s[i] : i \in DOMAIN s})

Begins(log, i, t) == log[i].kind = "turnStart" /\ log[i].turn = t
Ends(log, i, t)   == log[i].kind = "turnEnd" /\ log[i].turn = t

EventTyped(e) ==
  /\ e.turn \in Nat \ {0} /\ IsFiniteSet(e.calls)
  /\ e.kind = "turnEnd" => e.text \in Reason

(* Turns begin one after the other, each when those before it have ended,   *)
(* and nothing is written to one that has not begun.                        *)
TurnsInOrder(log) ==
  \A i \in DOMAIN log :
    /\ \A t \in 1 .. log[i].turn : \E j \in 1 .. i : Begins(log, j, t)
    /\ log[i].kind = "turnStart" =>
         \A t \in 1 .. log[i].turn - 1 : \E j \in 1 .. i : Ends(log, j, t)

SameResult(e, f) == /\ e.kind = "tool" /\ f.kind = "tool"
                    /\ e.turn = f.turn /\ e.calls = f.calls
SameSteering(e, f) == e.text \in Steerings /\ e.text = f.text
Once(ms) ==
  \A i, j \in DOMAIN ms :
    SameResult(ms[i], ms[j]) \/ SameSteering(ms[i], ms[j]) => i = j

LogSound(log) ==
  /\ IsSeq(log)
  /\ \A i \in DOMAIN log : EventTyped(log[i])
  /\ TurnsInOrder(log)
  /\ Once(log)

(* The rows fit the log, and only the last turn may be open.                *)
RowsSound(st) ==
  /\ DOMAIN st = {"log", "surface", "turns"}
  /\ st.surface \subseteq DOMAIN st.log
  /\ st.turns \in Seq(Reason \cup {"open"})
  /\ \A i \in DOMAIN st.log : st.log[i].turn <= Len(st.turns)
  /\ \A t \in DOMAIN st.turns :
       /\ \E i \in DOMAIN st.log : Begins(st.log, i, t)
       /\ st.turns[t] # "open" => \E i \in DOMAIN st.log : Ends(st.log, i, t)
       /\ t < Len(st.turns) => st.turns[t] # "open"

Sound(st) == LogSound(st.log) /\ RowsSound(st)

(* The logs a session may start with are sound, and steer nobody.           *)
EarlierSound ==
  \A log \in Earlier :
    LogSound(log) /\ \A i \in DOMAIN log : log[i].text \notin Steerings

(* A steering message is told from everything else that is written.         *)
SteeringsApart ==
  Steerings \cap ({"said", "blank", "prompt"} \cup Reason) = {}

-----------------------------------------------------------------------------
(* Runs.                                                                    *)

IsOpen(call)    == call.at \notin {"new", "begun", "gone"}
IsWorking(call) == call.at \in {"prepared", "asking", "tools"}

(* What the turn has said that is in no log yet.                            *)
Unlogged(call)  == call.mark + 1 .. Len(call.fresh)

(* The first step whose calls nothing is written about.                     *)
NextStep(call) ==
  IF call.at = "step" \/ IsWorking(call) THEN call.step ELSE call.step + 1

RunTyped(r, call) ==
  /\ DOMAIN call = DOMAIN IdleRun
  /\ call.at \in RunStep
  /\ call.step \in 0 .. MaxSteps[r]
  /\ IsOpen(call) => call.step # 0
  /\ IsSeq(call.fresh) /\ call.mark \in 0 .. Len(call.fresh)
  /\ IsSeq(call.todo)
  /\ call.unusable \in 0 .. MaxUnusable
  /\ call.outcome \in {"none", "again", "ok", "cancelled", "error"}
  /\ call.at \in {"returned", "closed"} =>
       call.outcome \in {"ok", "cancelled", "error"}
  /\ call.at = "settled" => call.outcome \in {"again", "cancelled", "error"}
  /\ \A i \in DOMAIN call.fresh :
       /\ call.fresh[i].kind \in {"user", "assistant", "tool"}
       /\ call.fresh[i].turn = call.turn
       /\ IsFiniteSet(call.fresh[i].calls)
       /\ call.fresh[i].kind = "tool" => call.fresh[i].calls # {}

(* A run's turn has begun, and what is in the log of it is of the steps     *)
(* before the next.                                                         *)
RunLogged(call, st) ==
  /\ call.turn \in DOMAIN st.turns
  /\ \A i \in DOMAIN st.log : st.log[i].turn = call.turn =>
       \A c \in st.log[i].calls : c[2] \in 1 .. NextStep(call) - 1

(* What is to be written of the step under way: results of its own calls,   *)
(* each once, and none of those that are still to be made.                  *)
RunUnlogged(call) ==
  IsWorking(call) =>
    /\ \A i \in Unlogged(call) :
         /\ call.at # "tools" => call.fresh[i].kind = "user"
         /\ call.fresh[i].kind = "user" => call.fresh[i].calls = {}
         /\ \A c \in call.fresh[i].calls : c[2] = call.step
    /\ \A i, j \in Unlogged(call) :
         \/ SameResult(call.fresh[i], call.fresh[j])
         \/ SameSteering(call.fresh[i], call.fresh[j])
         => i = j
    /\ call.at = "tools" =>
         /\ \A j \in DOMAIN call.todo : call.todo[j][2] = call.step
         /\ \A j, k \in DOMAIN call.todo : call.todo[j] = call.todo[k] => j = k
         /\ \A i \in Unlogged(call), j \in DOMAIN call.todo :
              call.fresh[i].kind = "tool" => call.fresh[i].calls # {call.todo[j]}

-----------------------------------------------------------------------------
(* Steering messages.                                                       *)

(* A message on its way to the log is nowhere else: sent and not taken up,  *)
InLog(m, st) == \E i \in DOMAIN st.log : st.log[i].text = m
InHand(m, call) ==
  IsWorking(call) /\ \E i \in Unlogged(call) : call.fresh[i].text = m
IsUnseen(m) == steering[m].at \in {"unsent", "found", "accepted"}

UnseenIsNowhere ==
  \A m \in Steerings : IsUnseen(m) =>
    /\ \A s \in Sessions : ~InLog(m, store[s])
    /\ \A r \in Runs : ~InHand(m, run[r])
InHandOnce ==
  \A m \in Steerings, r \in Runs : InHand(m, run[r]) =>
    /\ \A s \in Sessions : ~InLog(m, store[s])
    /\ \A q \in Runs \ {r} : ~InHand(m, run[q])
PendingOnce ==
  \A r \in Runs :
    /\ IsSeq(inbox[r].pending)
    /\ \A i \in DOMAIN inbox[r].pending :
         /\ inbox[r].pending[i] \in Steerings
         /\ steering[inbox[r].pending[i]].at = "accepted"
         /\ steering[inbox[r].pending[i]].run = r
    /\ \A i, j \in DOMAIN inbox[r].pending :
         inbox[r].pending[i] = inbox[r].pending[j] => i = j

-----------------------------------------------------------------------------
Shapes ==
  /\ sessions \subseteq Sessions
  /\ DOMAIN store = Sessions /\ DOMAIN run = Runs
  /\ named \in [Runs -> Sessions \cup {NoSession}]
  /\ stopped \subseteq Runs
  /\ DOMAIN inbox = Runs
  /\ \A r \in Runs : DOMAIN inbox[r] = {"active", "pending"}
  /\ DOMAIN steering = Steerings
  /\ \A m \in Steerings :
       /\ DOMAIN steering[m] = {"at", "run"}
       /\ steering[m].at \in {"unsent", "found", "accepted", "claimed",
                              "discarded", "lost"}

LogsInv == \A s \in Sessions : Sound(store[s])
RunsInv ==
  /\ \A r \in Runs :
       /\ RunTyped(r, run[r])
       /\ IsOpen(run[r]) => /\ run[r].session \in sessions
                            /\ RunLogged(run[r], store[run[r].session])
       /\ RunUnlogged(run[r])
  /\ \A r, q \in Runs :
       /\ IsOpen(run[r]) /\ IsOpen(run[q])
       /\ run[r].session = run[q].session /\ run[r].turn = run[q].turn
       => r = q
SteeringInv == UnseenIsNowhere /\ InHandOnce /\ PendingOnce

SettledInv == Shapes /\ LogsInv /\ RunsInv /\ SteeringInv

-----------------------------------------------------------------------------
(* The rows say what the log says: the surface has the messages that no     *)
(* summary after them takes the place of, and a turn the status that the    *)
(* last of its ends gave it.                                                *)
Hides(log, j, i) == /\ log[j].kind = "summary" /\ i < j
                    /\ i <= log[j].cutoff \/ log[i].kind = "summary"
Shows(log, i) == /\ log[i].kind \in MessageKind
                 /\ \A j \in DOMAIN log : ~Hides(log, j, i)
Tells(log, t, status) ==
  \/ status = "open" /\ \A i \in DOMAIN log : ~Ends(log, i, t)
  \/ \E i \in DOMAIN log : /\ Ends(log, i, t) /\ log[i].text = status
                           /\ \A j \in DOMAIN log : Ends(log, j, t) => j <= i

RowsTell(st) ==
  /\ st = [log |-> st.log, surface |-> st.surface, turns |-> st.turns]
  /\ st.surface = {i \in DOMAIN st.log : Shows(st.log, i)}
  /\ \A t \in DOMAIN st.turns : Tells(st.log, t, st.turns[t])

RowsInv == \A s \in Sessions : RowsTell(store[s])

-----------------------------------------------------------------------------
(* Nothing is forgotten: at every point of a log, a message is shown, or    *)
(* there is a summary shown that was made from it.                          *)
NoBlanks(ms) == \A i \in DOMAIN ms : ~IsBlank(ms[i])
ShownAt(log, n, i) == /\ log[i].kind \in MessageKind
                      /\ \A j \in 1 .. n : ~Hides(log, j, i)
KeptAt(log, n) ==
  \A i \in 1 .. n : log[i].kind \in MessageKind \ {"summary"} =>
    \E j \in 1 .. n : /\ ShownAt(log, n, j)
                      /\ j = i \/ (log[j].kind = "summary" /\ i \in log[j].covers)
LogKept(log) == NoBlanks(log) /\ \A n \in 0 .. Len(log) : KeptAt(log, n)

(* What a run's summary of its first k messages would hide, it is made from.*)
Takes(call, log, k) ==
  LET cutoff == ShadowedThrough(call.entries, k)
  IN  /\ cutoff \in 0 .. Len(log)
      /\ \A i \in DOMAIN log :
           Shows(log, i) /\ (i <= cutoff \/ log[i].kind = "summary")
             => \E j \in 1 .. k : call.base[j] = i
MaySummarise(call) == IsOpen(call) /\ ~call.tried
RunReplays(call, log) ==
  MaySummarise(call) =>
    /\ IsSeq(call.base)
    /\ \A k \in 1 .. Len(call.base) - 1 : Takes(call, log, k)

KeptInv ==
  /\ \A s \in Sessions : LogKept(store[s].log)
  /\ \A r \in Runs : /\ NoBlanks(run[r].fresh)
                     /\ RunReplays(run[r], store[run[r].session].log)

(* A chat is alone in the session it names, but for one that began in a new *)
(* session: its history is its prompt, and it has nothing to summarise.     *)
ApartInv ==
  /\ \A s \in Sessions \ sessions : store[s] = EmptyStore
  /\ \A r \in Runs : IsOpen(run[r]) =>
       IF named[r] = NoSession THEN Len(run[r].base) <= 1
                               ELSE run[r].session = named[r]
  /\ \A r, q \in Runs :
       /\ IsRegistered(r) /\ IsRegistered(q) /\ r # q
       /\ named[r] # NoSession
       => named[r] # named[q]

(* The logs a session may start with have forgotten nothing.                *)
EarlierKept == \A log \in Earlier : LogKept(log)

-----------------------------------------------------------------------------
(* Requests are paired: a reply and the results of its calls stay together, *)
(* in what a turn has said, in the log, and in what a summary leaves.       *)

(* The results of a reply are of its turn, and no cutoff is between them.   *)
ResultsAt(log, i)   == i + 1 .. i + Cardinality(log[i].calls)
CutsNone(log, cutoff) ==
  \A i \in DOMAIN log :
    log[i].kind = "assistant" /\ i <= cutoff
    => i + Cardinality(log[i].calls) <= cutoff
LogPaired(log) ==
  /\ Paired(log)
  /\ \A i \in DOMAIN log :
       /\ log[i].kind = "assistant" =>
            \A j \in ResultsAt(log, i) : log[j].turn = log[i].turn
       /\ log[i].kind = "summary" =>
            log[i].cutoff \in 0 .. i - 1 /\ CutsNone(log, log[i].cutoff)

(* The last turn was interrupted between the results of its last reply, j,  *)
(* whose calls are its own.                                                 *)
Unfinished(log, j) ==
  /\ LogPaired(SubSeq(log, 1, j - 1))
  /\ log[j].kind = "assistant"
  /\ \A i \in DOMAIN log :
       /\ log[i].turn <= log[j].turn /\ ~Ends(log, i, log[j].turn)
       /\ i < j /\ log[i].turn = log[j].turn /\ log[i].kind = "tool" =>
            log[i].calls \cap log[j].calls = {}
       /\ i > j => /\ log[i].turn = log[j].turn /\ log[i].kind = "tool"
                   /\ \E c \in log[j].calls : log[i].calls = {c}
MayBePaired(log) == LogPaired(log) \/ \E j \in DOMAIN log : Unfinished(log, j)

(* The history of a turn, as its requests show it.                          *)
BaseIn(call, log) == [k \in DOMAIN call.base |-> log[call.base[k]]]
HistoryPaired(call, log) ==
  IsOpen(call) =>
    /\ LogPaired(log)
    /\ IsSeq(call.base)
    /\ \A k \in DOMAIN call.base : call.base[k] \in DOMAIN log
    /\ Paired(BaseIn(call, log))

(* What the turn has said, with the results of the calls it is yet to make, *)
(* and what of it is in the log.                                            *)
InLoop(call) ==
  call.at \in {"step", "prepared", "asking", "tools", "answered", "settled"}
ToBeSaid(call) ==
  call.fresh \o [i \in DOMAIN call.todo |-> ToolResult(call.turn, call.todo[i])]
SaidPaired(call) ==
  /\ InLoop(call) => /\ call.at # "tools" => call.todo = <<>>
                     /\ Paired(ToBeSaid(call))
  /\ IsWorking(call) => Paired(SubSeq(call.fresh, 1, call.mark))

(* A summary of as much as the provider accepts hides no part of a reply    *)
(* and its results.                                                         *)
CutsPaired(call, log) ==
  MaySummarise(call) =>
    \A k \in 1 .. Len(call.base) - 1 :
      Paired(SubSeq(BaseIn(call, log), 1, k))
      => CutsNone(log, ShadowedThrough(call.entries, k))

RunPaired(call, log) ==
  HistoryPaired(call, log) /\ SaidPaired(call) /\ CutsPaired(call, log)

PairedInv ==
  /\ \A s \in Sessions : MayBePaired(store[s].log)
  /\ \A r \in Runs : RunPaired(run[r], store[run[r].session].log)

(* The logs a session may start with can be made paired.                    *)
EarlierPaired == \A log \in Earlier : MayBePaired(log)
=============================================================================
