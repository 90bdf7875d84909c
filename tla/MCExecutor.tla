----------------------------- MODULE MCExecutor -----------------------------
(***************************************************************************)
(* Instances of Executor for TLC.  Tickets, runners and watchers are       *)
(* interchangeable, so runs without liveness properties use Symmetry.      *)
(***************************************************************************)
EXTENDS ExecutorBoard, ExecutorInvariant, TLC

Symmetry == Permutations(Tickets) \cup Permutations(Runners)
              \cup Permutations(Watchers)

(* No more than one ticket uses its last round.                             *)
OneComesBack ==
  \A s, t \in Tickets :
    assignment[s][MaxRounds] # "absent" /\ assignment[t][MaxRounds] # "absent"
      => s = t
=============================================================================
