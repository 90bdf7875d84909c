----------------------------- MODULE WorkBoard -----------------------------
(***************************************************************************)
(* What the unattended pipeline promises a reader of its board: each       *)
(* ticket is in one phase, work goes on in at most Capacity of them, only  *)
(* queued work starts, work under way ends by yielding the ticket or       *)
(* finishing it, and whatever the app was doing when it went down is       *)
(* stranded: no step takes a ticket out of that phase.                     *)
(***************************************************************************)
EXTENDS Integers, FiniteSets

CONSTANTS Tickets, Capacity

VARIABLE phase

Phases == {"unknown", "idle", "queued", "working", "done", "stranded"}

Working == {t \in Tickets : phase[t] = "working"}

Init == phase = [t \in Tickets |-> "unknown"]

Turn(t, from, to) ==
  /\ phase[t] \in from
  /\ phase' = [phase EXCEPT ![t] = to]

Admit(t)  == Turn(t, {"unknown"}, "idle")
Queue(t)  == Turn(t, {"idle", "done"}, "queued")
Start(t)  == Turn(t, {"queued"}, "working") /\ Cardinality(Working) < Capacity
Yield(t)  == Turn(t, {"working"}, "idle")
Finish(t) == Turn(t, {"queued", "working"}, "done")
Strand(t) == Turn(t, {"working"}, "stranded")

(* Everything under way is stranded; one ticket may have been caught half   *)
(* way through concluding or reopening.                                     *)
Lose ==
  \E half \in SUBSET Tickets :
    /\ Cardinality(half) <= 1
    /\ \A t \in half : phase[t] \in {"queued", "working", "done"}
    /\ phase' = [t \in Tickets |->
                   CASE t \in half -> "idle"
                     [] t \in Working \ half -> "stranded"
                     [] OTHER -> phase[t]]

Next ==
  /\ phase' # phase
  /\ \/ \E t \in Tickets :
          \/ Admit(t) \/ Queue(t) \/ Start(t)
          \/ Yield(t) \/ Finish(t) \/ Strand(t)
     \/ Lose

Spec == Init /\ [][Next]_phase
=============================================================================
