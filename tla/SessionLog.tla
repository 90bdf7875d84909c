----------------------------- MODULE SessionLog -----------------------------
(***************************************************************************)
(* A session's event log and the tables projected from it                  *)
(* (crates/openbad-store: store.rs, projections.rs), with what the desktop *)
(* builds on them: the history a turn starts from and the repair of a turn *)
(* that nobody finished (apps/desktop/src-tauri/src/lib.rs).               *)
(*                                                                         *)
(* An event's seq is its index.  Text is left out, except whether an       *)
(* assistant's message is blank and which message a user's is; a call is   *)
(* named by whoever made it.                                               *)
(***************************************************************************)
EXTENDS Integers, Sequences, FiniteSets

MessageKind == {"user", "assistant", "tool", "summary"}
Reason      == {"complete", "cancelled", "error", "interrupted"}

Event(kind, turn, text, calls) ==
  [kind |-> kind, turn |-> turn, text |-> text, calls |-> calls,
   cutoff |-> 0, covers |-> {}]

User(t, text)            == Event("user", t, text, {})
Assistant(t, text, made) == Event("assistant", t, text, made)
ToolResult(t, call)      == Event("tool", t, "said", {call})

(* covers is history: which messages the summary was made from.             *)
Summary(t, cutoff, covers) ==
  [Event("summary", t, "said", {}) EXCEPT !.cutoff = cutoff, !.covers = covers]

IsBlank(m) == m.kind = "assistant" /\ m.text = "blank" /\ m.calls = {}

-----------------------------------------------------------------------------
(* The store: append_event and projections::apply in one transaction.  The *)
(* rows are surface, the messages a request replays, and turns, the reason *)
(* each turn ended for.                                                     *)

EmptyStore == [log |-> <<>>, surface |-> {}, turns |-> <<>>]

Logged(st, e) == [st EXCEPT !.log = Append(@, e)]

StartTurn(st, t) ==
  [Logged(st, Event("turnStart", t, "said", {})) EXCEPT
     !.turns = IF t \in DOMAIN @ THEN @ ELSE Append(@, "open")]

EndTurn(st, t, reason) ==
  [Logged(st, Event("turnEnd", t, reason, {})) EXCEPT !.turns[t] = reason]

StartStep(st, t) == Logged(st, Event("stepStart", t, "said", {}))
EndStep(st, t)   == Logged(st, Event("stepEnd", t, "said", {}))

(* append_events of a step's messages: all of them, or none.                *)
Say(st, ms) ==
  [st EXCEPT !.log = @ \o ms,
             !.surface = @ \cup {Len(st.log) + i : i \in DOMAIN ms}]

(* A summary takes the place of everything up to its cutoff, and of every   *)
(* summary before it.                                                       *)
MutantKeepsOldSummaries(st, e) ==
  [Logged(st, e) EXCEPT
     !.surface = {i \in @ : ~(i <= e.cutoff)} \cup {Len(st.log) + 1}]
Summarise(st, e) ==
  [Logged(st, e) EXCEPT
     !.surface = {i \in @ : ~(i <= e.cutoff \/ st.log[i].kind = "summary")}
                   \cup {Len(st.log) + 1}]

-----------------------------------------------------------------------------
(* What the desktop reads.                                                  *)

(* Seqs in the order of the log.                                            *)
UpTo(S, i) == Cardinality({j \in S : j <= i})
InOrder[S \in SUBSET Nat] ==
  [k \in 1 .. Cardinality(S) |-> CHOOSE i \in S : UpTo(S, i) = k]

(* load_surface_messages: in log order, the newest summary first.           *)
Replay(st, seqs) ==
  LET Sums   == {i \in seqs : st.log[i].kind = "summary"}
      Newest == {i \in Sums : \A j \in Sums : j <= i}
  IN  InOrder[Newest] \o InOrder[seqs \ Newest]
Replayed(st) == Replay(st, st.surface)

(* load_history: what the model is shown of them, and the seq of each row   *)
(* (none for a summary), which still counts the blank ones.                 *)
History(st) == Replay(st, {i \in st.surface : ~IsBlank(st.log[i])})
Entries(st) ==
  LET seqs == Replayed(st)
  IN  [k \in DOMAIN seqs |->
         IF st.log[seqs[k]].kind = "summary" THEN 0 ELSE seqs[k]]

(* shadowed_through_seq                                                     *)
MutantOneMore(entries, shadowed) ==
  CHOOSE n \in {0} \cup {entries[k] : k \in 1 .. shadowed + 1} :
    \A k \in 1 .. shadowed + 1 : entries[k] <= n
ShadowedThrough(entries, shadowed) ==
  CHOOSE n \in {0} \cup {entries[k] : k \in 1 .. shadowed} :
    \A k \in 1 .. shadowed : entries[k] <= n

(* The calls of a turn that its messages made and nothing answered.         *)
InTurn(st, t, kind) ==
  {i \in DOMAIN st.log : st.log[i].turn = t /\ st.log[i].kind = kind}
CallsOf(st, t, kind) == UNION {st.log[i].calls : i \in InTurn(st, t, kind)}
Unanswered(st, t) == CallsOf(st, t, "assistant") \ CallsOf(st, t, "tool")

(* Results for a set of calls, in some order.                               *)
ResultsFor(t, calls) ==
  LET Order == CHOOSE f \in [1 .. Cardinality(calls) -> calls] :
                 \A c \in calls : \E i \in DOMAIN f : f[i] = c
  IN  [i \in 1 .. Cardinality(calls) |-> ToolResult(t, Order[i])]

(* repair_interrupted_turn: the last turn, when it has not ended.           *)
MutantLeavesCallsOpen(st) ==
  LET t == Len(st.turns) IN
  IF t = 0 THEN st
  ELSE IF st.turns[t] = "open" THEN EndTurn(st, t, "interrupted") ELSE st
Repaired(st) ==
  LET t == Len(st.turns) IN
  IF t = 0 THEN st
  ELSE IF st.turns[t] # "open" THEN st
  ELSE EndTurn(Say(st, ResultsFor(t, Unanswered(st, t))), t, "interrupted")

(* fork_session copies what precedes a user's message, and projects it.     *)
SurfaceOf(log) ==
  LET Sums == {j \in DOMAIN log : log[j].kind = "summary"}
      IsShadowed(i) ==
        \E j \in Sums : i < j /\ (i <= log[j].cutoff \/ i \in Sums)
  IN  {i \in DOMAIN log : log[i].kind \in MessageKind /\ ~IsShadowed(i)}
TurnsOf(log) ==
  LET Started == {log[i].turn : i \in {j \in DOMAIN log :
                                         log[j].kind = "turnStart"}}
      Ends(t) == {i \in DOMAIN log :
                    log[i].kind = "turnEnd" /\ log[i].turn = t}
  IN  [t \in 1 .. Cardinality(Started) |->
         IF Ends(t) = {} THEN "open"
         ELSE log[CHOOSE i \in Ends(t) : \A j \in Ends(t) : j <= i].text]

Projected(log) == [log |-> log, surface |-> SurfaceOf(log), turns |-> TurnsOf(log)]
Forked(st, at) == Projected(SubSeq(st.log, 1, at - 1))

-----------------------------------------------------------------------------
(* Every call in a sequence of messages is answered, once, by the results   *)
(* that follow the message that made it, and nothing else is answered.      *)
IsAnswered(ms, i) ==
  LET n == Cardinality(ms[i].calls)
  IN  /\ i + n <= Len(ms)
      /\ \A k \in 1 .. n : ms[i + k].kind = "tool"
      /\ UNION {ms[i + k].calls : k \in 1 .. n} = ms[i].calls
IsCalledFor(ms, i) ==
  \E j \in 1 .. i - 1 : /\ ms[j].kind = "assistant"
                        /\ ms[i].calls \subseteq ms[j].calls
                        /\ i <= j + Cardinality(ms[j].calls)
Paired(ms) ==
  \A i \in DOMAIN ms :
    /\ ms[i].kind = "assistant" => IsAnswered(ms, i)
    /\ ms[i].kind = "tool" => IsCalledFor(ms, i)
=============================================================================
