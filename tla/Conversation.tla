---------------------------- MODULE Conversation ----------------------------
(***************************************************************************)
(* A chat's turns: the chat command and the registry of runs               *)
(* (apps/desktop/src-tauri/src/lib.rs), the agent's loop over requests and *)
(* tool calls with its inbox (crates/openbad-agent/src/lib.rs), and the    *)
(* session log they write (module SessionLog).                             *)
(*                                                                         *)
(* A run is one call of chat.  While it waits for the model or for a tool, *)
(* a person may steer it, stop it, open the session's transcript, fork it, *)
(* and send to other sessions; the app may go down between two commits.    *)
(* An action is a stretch without an await, or one commit where the app    *)
(* going down after it matters.                                            *)
(***************************************************************************)
EXTENDS SessionLog

CONSTANTS
  Sessions,     \* identities for sessions
  First,        \* the session there is at the start
  Runs,         \* calls of chat, each with an id of its own
  Steerings,    \* messages a person sends to a turn under way
  Earlier,      \* logs the first session may start with
  MaxSteps,     \* max_steps: the step budget each call asks for
  CallCounts,   \* how many calls a reply may have (bounds the model)
  MaxUnusable,  \* MAX_UNUSABLE_ARGUMENTS
  Events,       \* what happens besides: a subset of EventKinds
  NoSession

EventKinds == {"crash", "view", "fork", "new", "stop", "resume", "unusable",
               "fail", "compact"}

ASSUME ConstantsAssumption ==
  /\ First \in Sessions /\ NoSession \notin Sessions
  /\ MaxSteps \in [Runs -> Nat \ {0}] /\ CallCounts \subseteq Nat \ {0}
  /\ MaxUnusable \in Nat
  /\ Events \subseteq EventKinds

VARIABLES
  sessions,   \* sessions there are
  store,      \* rows: what is stored of each
  run,        \* memory: each call of chat
  named,      \* memory: the session a run is registered under
  stopped,    \* memory: cancel flags, and ids cancelled before their run
  inbox,      \* memory: each run's inbox
  steering    \* where each steering message is

vars == <<sessions, store, run, named, stopped, inbox, steering>>

RunStep == {"new", "begun", "step", "prepared", "asking", "tools", "answered",
            "settled", "returned", "closed", "gone"}

(* base is the history a turn's requests start with, as seqs; fresh what    *)
(* the turn added to it (new_messages), and mark how much of it is settled. *)
IdleRun == [at |-> "new", session |-> NoSession, turn |-> 0, step |-> 0,
            base |-> <<>>, entries |-> <<>>, fresh |-> <<>>, mark |-> 0,
            todo |-> <<>>, tried |-> FALSE, unusable |-> 0,
            outcome |-> "none"]
ClosedInbox == [active |-> FALSE, pending |-> <<>>]

IsRegistered(r) == run[r].at \notin {"new", "gone"}
InTurnNow(r)    == IsRegistered(r) /\ run[r].at # "begun"

Own(r)  == store[run[r].session]
Turn(r) == run[r].turn

(* The messages of a run's next request, after the system prompt.           *)
Base(r)     == [k \in DOMAIN run[r].base |-> Own(r).log[run[r].base[k]]]
Request(r)  == Base(r) \o run[r].fresh
Unsettled(r, more) ==
  SubSeq(run[r].fresh \o more, run[r].mark + 1, Len(run[r].fresh \o more))

Write(r, st) == store' = [store EXCEPT ![run[r].session] = st]
Calls(r, n)  == [i \in 1 .. n |-> <<Turn(r), run[r].step, i>>]
Results(r, calls) == [i \in DOMAIN calls |-> ToolResult(Turn(r), calls[i])]
SetOf(s)     == {s[i] : i \in DOMAIN s}

Init ==
  /\ sessions = {First}
  /\ \E log \in Earlier :
       store = [s \in Sessions |-> IF s = First THEN Projected(log)
                                                ELSE EmptyStore]
  /\ run = [r \in Runs |-> IdleRun]
  /\ named = [r \in Runs |-> NoSession]
  /\ stopped = {}
  /\ inbox = [r \in Runs |-> ClosedInbox]
  /\ steering = [m \in Steerings |-> [at |-> "unsent", run |-> "none"]]

-----------------------------------------------------------------------------
(* chat, up to the agent.                                                   *)

(* begin_run: one run for each named session.  A chat in a new session is   *)
(* registered under none.                                                   *)
MutantAnyRun(r, s) == run[r].at = "new"
MayBegin(r, s) ==
  /\ run[r].at = "new"
  /\ s # NoSession => \A q \in Runs : IsRegistered(q) => named[q] # s

Begin(r, s) ==
  /\ MayBegin(r, s)
  /\ IF s = NoSession THEN "new" \in Events ELSE s \in sessions
  /\ run' = [run EXCEPT ![r].at = "begun"]
  /\ named' = [named EXCEPT ![r] = s]
  /\ inbox' = [inbox EXCEPT ![r] = [active |-> TRUE, pending |-> <<>>]]
  /\ UNCHANGED <<sessions, store, stopped, steering>>

(* No key, an attachment that cannot be read: the guard is dropped.         *)
Dropped(r) ==
  /\ run' = [run EXCEPT ![r] = [IdleRun EXCEPT !.at = "gone"]]
  /\ named' = [named EXCEPT ![r] = NoSession]
  /\ inbox' = [inbox EXCEPT ![r].active = FALSE]
BeginFails(r) ==
  /\ "fail" \in Events
  /\ run[r].at = "begun"
  /\ Dropped(r)
  /\ UNCHANGED <<sessions, store, stopped, steering>>

(* The section under the store's lock: the session, its repair, the turn's  *)
(* number and history, and the events that open it.                         *)
Opened(r, s, st, say) ==
  LET t == Len(st.turns) + 1
      opening == StartTurn(st, t)
      prompt == <<User(t, "prompt")>>
  IN  /\ store' = [store EXCEPT ![s] = IF say THEN Say(opening, prompt)
                                              ELSE opening]
      /\ run' = [run EXCEPT ![r] =
           [IdleRun EXCEPT
              !.at = "step", !.session = s, !.turn = t, !.step = 1,
              !.entries = Entries(st),
              !.base = History(st) \o
                         (IF say THEN <<Len(opening.log) + 1>> ELSE <<>>)]]

(* The session it is for, which a chat in a new session creates.            *)
SessionFor(r, s) == IF named[r] = NoSession THEN s \notin sessions
                                            ELSE s = named[r]
MutantLeavesOldTurnOpen(r, say) ==
  /\ run[r].at = "begun"
  /\ ~say => "resume" \in Events
  /\ \E s \in Sessions :
       /\ SessionFor(r, s)
       /\ sessions' = sessions \cup {s}
       /\ Opened(r, s, store[s], say)
  /\ UNCHANGED <<named, stopped, inbox, steering>>
OpenTurn(r, say) ==
  /\ run[r].at = "begun"
  /\ ~say => "resume" \in Events
  /\ \E s \in Sessions :
       /\ SessionFor(r, s)
       /\ sessions' = sessions \cup {s}
       /\ Opened(r, s, Repaired(store[s]), say)
  /\ UNCHANGED <<named, stopped, inbox, steering>>

(* What follows fails, with the prompt logged or not yet: the turn stays     *)
(* open, and nobody runs it.                                                *)
OpenFails(r, said) ==
  /\ "fail" \in Events
  /\ run[r].at = "begun"
  /\ \E s \in Sessions :
       LET st == Repaired(store[s])
           t  == Len(st.turns) + 1
           opening == StartTurn(st, t)
       IN  /\ SessionFor(r, s)
           /\ sessions' = sessions \cup {s}
           /\ store' = [store EXCEPT ![s] =
                IF said THEN Say(opening, <<User(t, "prompt")>>) ELSE opening]
  /\ Dropped(r)
  /\ UNCHANGED <<stopped, steering>>

-----------------------------------------------------------------------------
(* The agent's loop.                                                        *)

Return(r, outcome, more) ==
  run' = [run EXCEPT ![r].at = "returned", ![r].outcome = outcome,
                     ![r].fresh = @ \o more]

(* A step begins: a stop is noticed, or what was steered joins the request. *)
NoticeStop(r) ==
  /\ run[r].at = "step" /\ r \in stopped
  /\ Return(r, "cancelled", <<>>)
  /\ UNCHANGED <<sessions, store, named, stopped, inbox, steering>>

Steered(r) == [i \in DOMAIN inbox[r].pending |->
                 User(Turn(r), inbox[r].pending[i])]
Claim(r) ==
  /\ inbox' = [inbox EXCEPT ![r].pending = <<>>]
  /\ steering' = [m \in Steerings |->
       IF m \in SetOf(inbox[r].pending)
       THEN [steering[m] EXCEPT !.at = "claimed"] ELSE steering[m]]

BeginStep(r) ==
  /\ run[r].at = "step" /\ r \notin stopped
  /\ Write(r, StartStep(Own(r), Turn(r)))
  /\ run' = [run EXCEPT ![r].at = "prepared", ![r].mark = Len(run[r].fresh),
                        ![r].fresh = @ \o Steered(r)]
  /\ Claim(r)
  /\ UNCHANGED <<sessions, named, stopped>>

(* select_compaction_end: the last message that may be summarised.  What is *)
(* kept begins with a user's message and has at least the previous turn.    *)
UserAt(ms, k) == ms[k].kind \in {"user", "summary"}
TurnStartIn(ms) ==
  CHOOSE k \in DOMAIN ms : /\ UserAt(ms, k)
                           /\ \A j \in DOMAIN ms : UserAt(ms, j) => j <= k
CompactionEnds(ms) ==
  {e \in 1 .. Len(ms) - 1 :
     /\ UserAt(ms, e + 1)
     /\ \E j \in e + 1 .. TurnStartIn(ms) - 1 : UserAt(ms, j)}

(* Chunks are summarised one after the other, as far as that succeeds.  A   *)
(* request whose calls are not all answered is refused by the provider.     *)
Summarised(ms, e) ==
  {k \in 1 .. e : /\ Paired(SubSeq(ms, 1, k))
                  /\ k # 1 \/ e = 1}

Compact(r) ==
  /\ "compact" \in Events
  /\ run[r].at = "prepared" /\ ~run[r].tried
  /\ \E e \in CompactionEnds(Base(r)) :
     \/ /\ run' = [run EXCEPT ![r].tried = TRUE]
        /\ UNCHANGED store
     \/ \E k \in Summarised(Base(r), e) :
          LET gone   == SubSeq(run[r].base, 1, k)
              Inside(i) == IF Own(r).log[i].kind = "summary"
                           THEN Own(r).log[i].covers ELSE {i}
              covers == UNION {Inside(gone[j]) : j \in DOMAIN gone}
              cutoff == ShadowedThrough(run[r].entries, k)
          IN  /\ Write(r, Summarise(Own(r), Summary(Turn(r), cutoff, covers)))
              /\ run' = [run EXCEPT ![r].tried = TRUE,
                   ![r].base = <<Len(Own(r).log) + 1>>
                                 \o SubSeq(@, k + 1, Len(@))]
  /\ UNCHANGED <<sessions, named, stopped, inbox, steering>>

Ask(r) ==
  /\ run[r].at = "prepared"
  /\ run' = [run EXCEPT ![r].at = "asking"]
  /\ UNCHANGED <<sessions, store, named, stopped, inbox, steering>>

(* settle_step, in one commit; what comes of the step afterwards.           *)
MutantSettlesFromTheStart(r, more, at, outcome) ==
  /\ Write(r, Say(Own(r), run[r].fresh \o more))
  /\ run' = [run EXCEPT ![r].at = at, ![r].outcome = outcome,
                        ![r].fresh = @ \o more, ![r].todo = <<>>]
Settle(r, more, at, outcome) ==
  /\ Write(r, Say(Own(r), Unsettled(r, more)))
  /\ run' = [run EXCEPT ![r].at = at, ![r].outcome = outcome,
                        ![r].fresh = @ \o more, ![r].todo = <<>>]

(* The history does not fit; or the request fails for good, or is given up  *)
(* while it is being retried because of a stop.                             *)
StepFails(r) ==
  /\ \/ "fail" \in Events /\ run[r].at \in {"prepared", "asking"}
        /\ Settle(r, <<>>, "settled", "error")
     \/ r \in stopped /\ run[r].at = "asking"
        /\ Settle(r, <<>>, "settled", "cancelled")
  /\ UNCHANGED <<sessions, named, stopped, inbox, steering>>

(* A stop while the reply streams in: what arrived is kept, and its calls   *)
(* are answered as interrupted.                                             *)
ReplyInterrupted(r, n, text) ==
  LET calls == Calls(r, n)
      said  == Assistant(Turn(r), text, SetOf(calls))
  IN  /\ run[r].at = "asking" /\ r \in stopped
      /\ Settle(r, (IF IsBlank(said) THEN <<>> ELSE <<said>>)
                     \o Results(r, calls), "settled", "cancelled")
      /\ UNCHANGED <<sessions, named, stopped, inbox, steering>>

(* The output limit cut a reply with calls: none is run, all are answered.  *)
ReplyCut(r, n) ==
  /\ run[r].at = "asking"
  /\ Settle(r, <<Assistant(Turn(r), "said", SetOf(Calls(r, n)))>>
                 \o Results(r, Calls(r, n)), "settled", "again")
  /\ UNCHANGED <<sessions, named, stopped, inbox, steering>>

ReplyCalls(r, n) ==
  /\ run[r].at = "asking"
  /\ run' = [run EXCEPT ![r].at = "tools", ![r].todo = Calls(r, n),
       ![r].fresh = Append(@, Assistant(Turn(r), "said", SetOf(Calls(r, n))))]
  /\ UNCHANGED <<sessions, store, named, stopped, inbox, steering>>

(* An answer is settled before the inbox is looked at once more.            *)
ReplyAnswer(r, text) ==
  LET said == Assistant(Turn(r), text, {}) IN
  /\ run[r].at = "asking"
  /\ Settle(r, IF IsBlank(said) THEN <<>> ELSE <<said>>, "answered", "ok")
  /\ UNCHANGED <<sessions, named, stopped, inbox, steering>>

Conclude(r) ==
  /\ run[r].at = "answered"
  /\ Write(r, EndStep(Own(r), Turn(r)))
  /\ Claim(r)
  /\ IF inbox[r].pending = <<>> THEN Return(r, "ok", <<>>)
     ELSE IF run[r].step = MaxSteps[r] THEN Return(r, "error", <<>>)
     ELSE run' = [run EXCEPT ![r].at = "step", ![r].step = @ + 1,
                             ![r].outcome = "none",
                             ![r].fresh = @ \o Steered(r)]
  /\ UNCHANGED <<sessions, named, stopped>>

(* The next calls, one or several that may run together, are executed.  How *)
(* many in a row, up to the last one, had arguments nobody can read?        *)
InARow(r, n) == IF "unusable" \in Events
                THEN 0 .. n - 1 \cup {run[r].unusable + n} ELSE {0}
RunTools(r, n) ==
  LET calls == SubSeq(run[r].todo, 1, n)
      rest  == SubSeq(run[r].todo, n + 1, Len(run[r].todo))
  IN  /\ run[r].at = "tools" /\ r \notin stopped
      /\ \E u \in InARow(r, n) :
           /\ u <= MaxUnusable
           /\ run' = [run EXCEPT ![r].todo = rest, ![r].unusable = u,
                                 ![r].fresh = @ \o Results(r, calls)]
      /\ UNCHANGED <<sessions, store, named, stopped, inbox, steering>>

(* One more than is allowed: the loop returns at once.                      *)
GiveUp(r) ==
  /\ "unusable" \in Events
  /\ run[r].at = "tools" /\ r \notin stopped
  /\ run[r].todo # <<>> /\ run[r].unusable + Len(run[r].todo) > MaxUnusable
  /\ Return(r, "error", <<>>)
  /\ UNCHANGED <<sessions, store, named, stopped, inbox, steering>>

ToolsStopped(r) ==
  /\ run[r].at = "tools" /\ r \in stopped /\ run[r].todo # <<>>
  /\ Settle(r, Results(r, run[r].todo), "settled", "cancelled")
  /\ UNCHANGED <<sessions, named, stopped, inbox, steering>>

MutantStopsBetween(r) ==
  /\ run[r].at = "tools" /\ run[r].todo = <<>> /\ r \notin stopped
  /\ Settle(r, <<>>, "settled", "again")
  /\ UNCHANGED <<sessions, named, stopped, inbox, steering>>
ToolsDone(r) ==
  /\ run[r].at = "tools" /\ run[r].todo = <<>>
  /\ Settle(r, <<>>, "settled", "again")
  /\ UNCHANGED <<sessions, named, stopped, inbox, steering>>

(* report_step_end, and on to the next step or out of the loop.             *)
MutantOneStepMore(r) ==
  /\ run[r].at = "settled"
  /\ Write(r, EndStep(Own(r), Turn(r)))
  /\ IF run[r].outcome # "again" THEN Return(r, run[r].outcome, <<>>)
     ELSE IF run[r].step > MaxSteps[r] THEN Return(r, "error", <<>>)
     ELSE run' = [run EXCEPT ![r].at = "step", ![r].step = @ + 1,
                             ![r].outcome = "none"]
  /\ UNCHANGED <<sessions, named, stopped, inbox, steering>>
LeaveStep(r) ==
  /\ run[r].at = "settled"
  /\ Write(r, EndStep(Own(r), Turn(r)))
  /\ IF run[r].outcome # "again" THEN Return(r, run[r].outcome, <<>>)
     ELSE IF run[r].step = MaxSteps[r] THEN Return(r, "error", <<>>)
     ELSE run' = [run EXCEPT ![r].at = "step", ![r].step = @ + 1,
                             ![r].outcome = "none"]
  /\ UNCHANGED <<sessions, named, stopped, inbox, steering>>

-----------------------------------------------------------------------------
(* chat, after the agent: the inbox is closed, then the turn's last event.  *)

CloseInbox(r) ==
  /\ run[r].at = "returned"
  /\ run' = [run EXCEPT ![r].at = "closed"]
  /\ inbox' = [inbox EXCEPT ![r].active = FALSE]
  /\ UNCHANGED <<sessions, store, named, stopped, steering>>

CloseTurn(r) ==
  LET reason == IF run[r].outcome = "ok" THEN "complete" ELSE run[r].outcome
      stop   == run[r].outcome = "cancelled"
  IN  /\ run[r].at = "closed"
      /\ Write(r, EndTurn(Own(r), Turn(r), reason))
      /\ steering' = [m \in Steerings |->
           IF stop /\ m \in SetOf(inbox[r].pending)
           THEN [steering[m] EXCEPT !.at = "discarded"] ELSE steering[m]]
      /\ run' = [run EXCEPT ![r] = [IdleRun EXCEPT !.at = "gone"]]
      /\ named' = [named EXCEPT ![r] = NoSession]
      /\ inbox' = [inbox EXCEPT ![r].pending = IF stop THEN <<>> ELSE @]
      /\ UNCHANGED <<sessions, stopped>>

-----------------------------------------------------------------------------
(* What a person does meanwhile.                                            *)

(* steer_chat looks the inbox up and finds it open, and then pushes.        *)
SteerFinds(m, r) ==
  /\ steering[m].at = "unsent"
  /\ IsRegistered(r) /\ inbox[r].active
  /\ steering' = [steering EXCEPT ![m] = [at |-> "found", run |-> r]]
  /\ UNCHANGED <<sessions, store, run, named, stopped, inbox>>
SteerPushes(m) ==
  /\ steering[m].at = "found"
  /\ steering' = [steering EXCEPT ![m].at = "accepted"]
  /\ inbox' = [inbox EXCEPT ![steering[m].run].pending = Append(@, m)]
  /\ UNCHANGED <<sessions, store, run, named, stopped>>

(* cancel_chat: the flag of a run, or the id of one that is yet to begin.   *)
Stop(r) ==
  /\ "stop" \in Events
  /\ r \notin stopped /\ run[r].at # "gone"
  /\ stopped' = stopped \cup {r}
  /\ UNCHANGED <<sessions, store, run, named, inbox, steering>>

(* session_view repairs what it shows.                                      *)
View(s) ==
  /\ "view" \in Events
  /\ s \in sessions
  /\ store' = [store EXCEPT ![s] = Repaired(@)]
  /\ store' # store
  /\ UNCHANGED <<sessions, run, named, stopped, inbox, steering>>

Fork(s, at, new) ==
  /\ "fork" \in Events
  /\ s \in sessions /\ new \notin sessions
  /\ store[s].log[at].kind = "user"
  /\ sessions' = sessions \cup {new}
  /\ store' = [store EXCEPT ![new] = Repaired(Forked(store[s], at))]
  /\ UNCHANGED <<run, named, stopped, inbox, steering>>

(* The app goes down: the memory is gone.                                   *)
Forget ==
  /\ run' = [r \in Runs |-> IF IsRegistered(r)
                            THEN [IdleRun EXCEPT !.at = "gone"] ELSE run[r]]
  /\ named' = [r \in Runs |-> NoSession]
  /\ stopped' = {}
  /\ inbox' = [r \in Runs |-> ClosedInbox]
  /\ steering' = [m \in Steerings |->
       IF steering[m].at \in {"found", "accepted"}
       THEN [steering[m] EXCEPT !.at = "lost"] ELSE steering[m]]
Crash == /\ "crash" \in Events
         /\ \E r \in Runs : IsRegistered(r)
         /\ UNCHANGED <<sessions, store>>
         /\ Forget

(* Between the events that open a turn, each a commit of its own.           *)
CrashWhileOpening(r) ==
  /\ "crash" \in Events
  /\ run[r].at = "begun"
  /\ \E s \in Sessions :
       LET st == Repaired(store[s])
       IN  /\ SessionFor(r, s)
           /\ sessions' = sessions \cup {s}
           /\ store' = [store EXCEPT ![s] = StartTurn(st, Len(st.turns) + 1)]
  /\ Forget

-----------------------------------------------------------------------------
Loop(r) ==
  \/ NoticeStop(r) \/ BeginStep(r) \/ Compact(r) \/ Ask(r) \/ StepFails(r)
  \/ \E n \in {0} \cup CallCounts : ReplyInterrupted(r, n, "said")
  \/ ReplyInterrupted(r, 0, "blank")
  \/ \E n \in CallCounts : ReplyCut(r, n) \/ ReplyCalls(r, n)
  \/ \E text \in {"said", "blank"} : ReplyAnswer(r, text)
  \/ Conclude(r)
  \/ \E n \in 1 .. Len(run[r].todo) : RunTools(r, n)
  \/ GiveUp(r) \/ ToolsStopped(r) \/ ToolsDone(r) \/ LeaveStep(r)

Chat(r) ==
  \/ BeginFails(r)
  \/ \E say \in BOOLEAN : OpenTurn(r, say) \/ OpenFails(r, say)
  \/ Loop(r)
  \/ CloseInbox(r) \/ CloseTurn(r)

Next ==
  \/ \E r \in Runs : Chat(r) \/ Stop(r) \/ CrashWhileOpening(r)
  \/ \E r \in Runs, s \in Sessions \cup {NoSession} : Begin(r, s)
  \/ \E m \in Steerings : SteerPushes(m) \/ \E r \in Runs : SteerFinds(m, r)
  \/ \E s \in Sessions : View(s)
  \/ \E s, new \in Sessions : \E at \in DOMAIN store[s].log : Fork(s, at, new)
  \/ Crash

Spec == Init /\ [][Next]_vars

(* The model and the tools answer or are given up (requests and tool calls  *)
(* have time limits), and a command that was called runs to its end.        *)
FairSpec ==
  /\ Spec
  /\ \A r \in Runs : WF_vars(Chat(r))
  /\ \A m \in Steerings : WF_vars(SteerPushes(m))

-----------------------------------------------------------------------------
(* Properties.                                                              *)

(* Every variable has its type: control states, numbers of steps within     *)
(* the budget, indices within the log.                                      *)
TypeOK ==
  /\ sessions \subseteq Sessions
  /\ \A s \in Sessions :
       /\ store[s].surface \subseteq DOMAIN store[s].log
       /\ \A t \in DOMAIN store[s].turns :
            store[s].turns[t] \in Reason \cup {"open"}
  /\ \A r \in Runs :
       /\ run[r].at \in RunStep
       /\ run[r].step \in 0 .. MaxSteps[r]
       /\ run[r].mark \in 0 .. Len(run[r].fresh)
       /\ run[r].unusable \in 0 .. MaxUnusable
       /\ run[r].outcome \in {"none", "again", "ok", "cancelled", "error"}
       /\ InTurnNow(r) => run[r].session \in sessions
       /\ named[r] \in Sessions \cup {NoSession}
  /\ stopped \subseteq Runs
  /\ \A m \in Steerings :
       steering[m].at \in {"unsent", "found", "accepted", "claimed",
                           "discarded", "lost"}

(* Whatever was interrupted, cut, repaired, forked or summarised before, a  *)
(* request shows every call followed by its result and no result without    *)
(* its call (the provider refuses anything else), and so will the first     *)
(* request of the session's next turn, whenever the present one is lost.    *)
Resumed(s) ==
  LET st   == Repaired(store[s])
      seqs == History(st)
  IN  [k \in DOMAIN seqs |-> st.log[seqs[k]]]
RequestsArePaired ==
  /\ \A r \in Runs : run[r].at = "asking" => Paired(Request(r))
  /\ \A s \in sessions : Paired(Resumed(s))

(* A message that a summary took off the surface is one that the summary in *)
(* its place was made from: nothing a session said is lost to its model.    *)
Replays(st, i) ==
  \E j \in st.surface : j = i \/ (st.log[j].kind = "summary"
                                  /\ i \in st.log[j].covers)
NothingForgotten ==
  \A s \in sessions : \A i \in DOMAIN store[s].log :
    store[s].log[i].kind \in MessageKind \ {"summary"} => Replays(store[s], i)

(* The rows say what the log says: rebuilding them from it changes nothing. *)
ProjectionsMatchLog ==
  \A s \in sessions : store[s] = Projected(store[s].log)

(* Only a session's last turn can be open, whatever crashed before it.      *)
EarlierTurnsAreClosed ==
  \A s \in sessions : \A t \in DOMAIN store[s].turns :
    t < Len(store[s].turns) => store[s].turns[t] # "open"

(* A result is recorded once for each call, and a steering message once for *)
(* each time it was sent, however the step that has them ended.             *)
Same(e, f) == e.kind = f.kind /\ e.turn = f.turn /\ e.calls = f.calls
                              /\ e.text = f.text
Settled(s) == {i \in DOMAIN store[s].log :
                 \/ store[s].log[i].kind = "tool"
                 \/ store[s].log[i].text \in Steerings}
SettledOnce ==
  \A s \in sessions : \A i, j \in Settled(s) :
    Same(store[s].log[i], store[s].log[j]) => i = j

(* A turn ends: whatever the model and the tools answer, its run returns.   *)
TurnsEnd == \A r \in Runs : run[r].at = "begun" ~> run[r].at = "gone"

(* docs/plans/0004, section 4.1: "Model-visible means logged".  A message a *)
(* request showed is in the log when the turn is over.                      *)
VisibleMeansLogged ==
  \A r \in Runs : run[r].at = "closed" /\ run[r].outcome = "ok" =>
    \A i \in DOMAIN run[r].fresh :
      \E j \in DOMAIN Own(r).log : Own(r).log[j] = run[r].fresh[i]

(* begin_run: "A turn is already running for this session".  So long as     *)
(* each call names its session, two turns never write to the same one, with *)
(* whatever repairs, stops and restarts between them.                       *)
OneTurnPerSession ==
  \A r, q \in Runs : InTurnNow(r) /\ InTurnNow(q) /\ r # q
                    => run[r].session # run[q].session
=============================================================================
