--------------------------- MODULE MCConversation ---------------------------
(***************************************************************************)
(* The instances of Conversation that TLC checks.                          *)
(***************************************************************************)
EXTENDS ConversationInvariant, TLC

CONSTANT r1   \* the call with a budget of two steps

(* A turn of two steps, and one of a single step before or after it.        *)
TwoAndOne == [r \in Runs |-> IF r = r1 THEN 2 ELSE 1]

(* A session with nothing in it.                                            *)
Empty == <<>>

(* Three finished turns; the third summarised the first.                    *)
Past ==
  LET a == <<"past", 1>>  b == <<"past", 2>>
  IN  <<Event("turnStart", 1, "said", {}), User(1, "prompt"),
        Assistant(1, "said", {a, b}), ToolResult(1, a), ToolResult(1, b),
        Event("turnEnd", 1, "error", {}),
        Event("turnStart", 2, "said", {}), User(2, "prompt"),
        Assistant(2, "said", {}), Event("turnEnd", 2, "complete", {}),
        Event("turnStart", 3, "said", {}), User(3, "prompt"),
        Summary(3, 5, 2 .. 5),
        Assistant(3, "said", {}), Event("turnEnd", 3, "complete", {})>>

(* A turn that was interrupted in the middle of its calls (the state the    *)
(* test repairs_a_turn_interrupted_mid_tool_call builds).                   *)
Interrupted ==
  LET a == <<"past", 1>>  b == <<"past", 2>>
  IN  <<Event("turnStart", 1, "said", {}), User(1, "prompt"),
        Assistant(1, "said", {a, b}), ToolResult(1, a)>>

AnyEarlier == {Empty, Past, Interrupted}
JustPast   == {Past}

(* What the theorems of ConversationProofs and ConversationPairing assume   *)
(* of these logs, and of the steering messages of the instances.            *)
ASSUME EarlierSound
ASSUME SteeringsApart
ASSUME EarlierKept
ASSUME EarlierPaired
=============================================================================
