----------------------------- MODULE Admission -----------------------------
(***************************************************************************)
(* Whether a trigger starts work, continues it, or goes nowhere            *)
(* (crates/openbad-pipeline/src/eval.rs).                                  *)
(*                                                                         *)
(* Logins are told apart only as the rules tell them apart: the agent's    *)
(* own bot, a known bot, a person on the allowed list, a stranger, and     *)
(* "executor", the agent writing under the person's identity.  A thread is *)
(* what thread_context knows of it: the state of its newest ticket, and    *)
(* when that ticket last ended a turn (Never if it has not).               *)
(***************************************************************************)
EXTENDS Integers

Actor       == {"self", "bot", "person", "executor", "stranger"}
ThreadState == {"none", "open", "ended", "stopped"}
Never       == 0

IsOwnBot(actor)   == actor = "self"
IsBotKnown(actor) == actor = "bot"
IsAllowed(actor)  == actor \in {"person", "executor"}

(* Rules 4 and 6: a bot proposes work on a thread where none is live, and   *)
(* a person's labelled issue requests it.  That the issue carries an        *)
(* admitting label (rule 3) is what the feed's own query selects by.        *)
Accepts(kind, actor, thread) ==
  /\ thread.state # "stopped"
  /\ \/ IsBotKnown(actor) /\ thread.state # "open"
     \/ IsAllowed(actor) /\ kind = "issue"

(* Rules 4 and 7 to 9: a bot's message is context for live work; a person's *)
(* continues live or ended work unless it is older than the end of that     *)
(* work's last turn.                                                        *)
MutantBelievesOldMessages(kind, actor, at, thread) ==
  \/ IsBotKnown(actor) /\ thread.state = "open"
  \/ /\ IsAllowed(actor) /\ kind # "issue"
     /\ thread.state \in {"open", "ended"}
MutantSameInstant(kind, actor, at, thread) ==
  \/ IsBotKnown(actor) /\ thread.state = "open"
  \/ /\ IsAllowed(actor) /\ kind # "issue"
     /\ at >= thread.spoke
     /\ thread.state \in {"open", "ended"}
Attaches(kind, actor, at, thread) ==
  \/ IsBotKnown(actor) /\ thread.state = "open"
  \/ /\ IsAllowed(actor) /\ kind # "issue"
     /\ at > thread.spoke
     /\ thread.state \in {"open", "ended"}

Judge(kind, actor, at, thread) ==
  CASE Accepts(kind, actor, thread)      -> "accept"
    [] Attaches(kind, actor, at, thread) -> "attach"
    [] OTHER                             -> "ignore"
=============================================================================
