------------------------------ MODULE MCFiles -------------------------------
(***************************************************************************)
(* The instance of Files that TLC checks: a chat, and the agent of a       *)
(* ticket, which has a session of its own and no sink for checkpoints.     *)
(***************************************************************************)
EXTENDS Files, TLC

CONSTANTS chat, worker, s1, s2

Theirs   == (chat :> s1) @@ (worker :> s2)
Symmetry == Permutations(Paths)
=============================================================================
