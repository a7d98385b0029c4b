---------------------------- MODULE ToolProtocol ----------------------------
(***************************************************************************)
(* What an agent run promises the Responses API, whatever it does about    *)
(* retries, transports and compaction: the two sides take turns, every     *)
(* call of an answer gets one output, in the order the calls were made,    *)
(* and the next request goes out only when all of them have theirs.        *)
(***************************************************************************)
EXTENDS Naturals, Sequences

CONSTANT Calls      \* identities of tool calls

VARIABLES
  turn,             \* whose turn it is; "over" when no prompt is being worked on
  unanswered        \* calls of the last answer that have no output yet

vars == <<turn, unanswered>>

Init == turn = "over" /\ unanswered = <<>>

\* A prompt is given; what an earlier run left unanswered stays so.
Prompt == turn = "over" /\ turn' = "client" /\ unanswered' = <<>>

Request == turn = "client" /\ unanswered = <<>> /\ turn' = "server" /\ UNCHANGED unanswered

Answer ==
  /\ turn = "server"
  /\ unanswered' \in Seq(Calls)
  /\ turn' = IF unanswered' = <<>> THEN "over" ELSE "client"

\* One output, or those of a whole parallel batch.
Output ==
  /\ turn = "client" /\ unanswered # <<>>
  /\ \E n \in 1..Len(unanswered) :
       unanswered' = SubSeq(unanswered, n + 1, Len(unanswered))
  /\ UNCHANGED turn

Stop == turn # "over" /\ turn' = "over" /\ unanswered' = <<>>

Next == Prompt \/ Request \/ Answer \/ Output \/ Stop

Spec == Init /\ [][Next]_vars
=============================================================================
