--------------------------- MODULE PipelineRules ---------------------------
(***************************************************************************)
(* The rules of the supervised work pipeline that need no database: the    *)
(* states of tickets and assignments, what a report does, which stored     *)
(* reports read back, and what a restart should do with an assignment      *)
(* (crates/openbad-pipeline/src/{ticket,execution}.rs).                    *)
(***************************************************************************)
EXTENDS Integers

TicketState     == {"open", "ended", "stopped"}
AssignmentState == {"pending", "running", "ended"}
ReportOutcome   ==
    {"progress", "waiting", "ready", "blocked", "failed", "dropped", "merged"}

(* Which ticket states may follow which: stopped is a state nothing leaves. *)
CanMoveTo(from, to) ==
    \/ from = "open"  /\ to \in {"ended", "stopped"}
    \/ from = "ended" /\ to \in {"open", "stopped"}

(* A pending assignment is active as much as a running one. *)
IsActive(state) == state \in {"pending", "running"}

IsFinal(outcome)     == outcome # "progress"
EndsTicket(outcome)  == outcome \in {"dropped", "failed", "merged"}

(* The outcomes ReportOutcome::parse knows; as_str writes one it does not.  *)
MutantForgetsWaiting(outcome) == outcome \in ReportOutcome \ {"merged", "waiting"}
Readable(outcome) == outcome \in ReportOutcome \ {"merged"}

(* What a report does.  "ticket" is the state it moves the ticket to, or    *)
(* "unmoved".                                                               *)
MutantFinalEnds(outcome) ==
    [end_assignment |-> IsFinal(outcome),
     ticket         |-> IF IsFinal(outcome) THEN "ended" ELSE "unmoved",
     release_slot   |-> IsFinal(outcome)]
MutantKeepsSlot(outcome) ==
    [end_assignment |-> IsFinal(outcome),
     ticket         |-> IF EndsTicket(outcome) THEN "ended" ELSE "unmoved",
     release_slot   |-> EndsTicket(outcome)]
MutantKeepsAssignment(outcome) ==
    [end_assignment |-> EndsTicket(outcome),
     ticket         |-> IF EndsTicket(outcome) THEN "ended" ELSE "unmoved",
     release_slot   |-> IsFinal(outcome)]
EffectsOf(outcome) ==
    [end_assignment |-> IsFinal(outcome),
     ticket         |-> IF EndsTicket(outcome) THEN "ended" ELSE "unmoved",
     release_slot   |-> IsFinal(outcome)]

(* What to do about an assignment after a restart or a lost session.        *)
RecoveryFor(state, alive) ==
    CASE state = "ended" \/ alive -> "leave"
      [] state = "pending" /\ ~alive -> "relaunch"
      [] state = "running" /\ ~alive -> "end_and_relaunch"
=============================================================================
