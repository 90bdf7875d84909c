---------------------------- MODULE MCMcpServers ----------------------------
(***************************************************************************)
(* The instances of McpServers that TLC checks.                            *)
(***************************************************************************)
EXTENDS McpServers, TLC

CONSTANT m1

(* All threads serve the one workspace.                                     *)
OneWorkspace == [t \in Threads |-> m1]
ThreadSymmetry == Permutations(Threads)
=============================================================================
