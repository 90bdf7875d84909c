--------------------------- MODULE ExecutorBoard ---------------------------
(***************************************************************************)
(* The pipeline left to itself implements WorkBoard: the phase a ticket is *)
(* in, read off its rows and the calls of execute().                       *)
(***************************************************************************)
EXTENDS Executor

Pending(t) == \E i \in Rounds : assignment[t][i] = "pending"
Running(t) == \E i \in Rounds : assignment[t][i] = "running"

Underway(t) == ticket[t] \notin {"absent", "ended"}

Phase(t) ==
  CASE ticket[t] = "absent"                       -> "unknown"
    [] ticket[t] = "ended"                        -> "done"
    [] Underway(t) /\ Running(t) /\ Attended(t)   -> "working"
    [] Underway(t) /\ Running(t) /\ ~Attended(t)  -> "stranded"
    [] Underway(t) /\ ~Running(t) /\ Pending(t)   -> "queued"
    [] Underway(t) /\ ~Running(t) /\ ~Pending(t)  -> "idle"

Board == INSTANCE WorkBoard WITH phase <- [t \in Tickets |-> Phase(t)]

(* The board never shows more work than slots, work that started without    *)
(* having been queued, or stranded work coming back: every step of the      *)
(* watcher, of execute() and of a crash is one of WorkBoard's or none.      *)
ImplementsWorkBoard == Board!Spec
=============================================================================
