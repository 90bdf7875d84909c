---------------------------- MODULE MCSupervisor ----------------------------
(***************************************************************************)
(* Instances of Supervisor for TLC: triggers named for who writes them.    *)
(***************************************************************************)
EXTENDS Supervisor, TLC

CONSTANTS issue, other, comment, bots, review

Writers ==
  (issue :> {"person"}) @@ (other :> {}) @@ (comment :> {"person", "executor"})
    @@ (bots :> {"bot"}) @@ (review :> {"person", "bot"})
=============================================================================
