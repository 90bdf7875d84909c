------------------------- MODULE ExecutorInvariant -------------------------
(***************************************************************************)
(* The inductive invariant of the pipeline left to itself.  The safety     *)
(* properties of Executor are not inductive: they hold because, at every   *)
(* step of a launch and of a call, exactly one of them owns the ticket.    *)
(***************************************************************************)
EXTENDS Executor

(* A call's flag stays in pipeline_runs until the call leaves.              *)
CallsOwnTheirTickets ==
  \A r \in Runners : runner[r].pc # "idle" => runs[runner[r].ticket] = r

(* From try_acquire to the closing lock section a call holds the slot.      *)
TurnsHoldSlots ==
  \A r \in Runners : HoldsSlot(r) => runner[r].ticket \in slots

SlotsWithinCapacity == IsFiniteSet(slots) /\ Cardinality(slots) <= Capacity

(* Nobody changes the rows between a call's check and its turn.             *)
CheckedStaysPending ==
  \A r \in Runners : runner[r].pc \in {"checked", "holding"} =>
    /\ assignment[runner[r].ticket][runner[r].round] = "pending"
    /\ ticket[runner[r].ticket] = "open"

(* Only the registered watcher's loop walks.                                *)
OneWatcherWalks ==
  /\ loops \subseteq {watching}
  /\ \A h \in Hands : h # watching => hand[h].pc = "idle"

(* A launch under way has its ticket to itself.                             *)
Launches(h) == hand[h].pc \in {"creating", "worktree", "preparing"}
LaunchIsAlone ==
  \A h \in Hands :
    /\ Launches(h) => /\ runs[hand[h].ticket] = NoRunner
                      /\ ticket[hand[h].ticket] = "open"
    /\ hand[h].pc \in {"worktree", "preparing"} =>
         assignment[hand[h].ticket][hand[h].noted] = "pending"

Ownership  == CallsOwnTheirTickets /\ OneWatcherWalks /\ LaunchIsAlone
Accounting == TurnsHoldSlots /\ SlotsWithinCapacity
RowsAgree  == /\ CheckedStaysPending /\ TurnOwnsItsRows
              /\ AtMostOneActive /\ EndedTicketIsOver

(* A call owns its ticket's flag, rows and slot from its check to its       *)
(* report, a launch has its ticket to itself, and only one loop walks.      *)
IInv == TypeOK /\ Ownership /\ Accounting /\ RowsAgree
=============================================================================
