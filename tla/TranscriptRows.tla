--------------------------- MODULE TranscriptRows ---------------------------
(***************************************************************************)
(* The transcript of the terminal chat as a value (src/chat/tui.rs): rows  *)
(* of a role and the pieces of text in them, the rows that the display     *)
(* remembers by their position, and what each display event of a run does  *)
(* to them.  A piece is the number of the event that brought it; 0 stands  *)
(* for no position.                                                        *)
(***************************************************************************)
EXTENDS Naturals, Sequences, SequencesExt

Roles == {"user", "assistant", "system", "tool", "reasoning", "compaction", "connection",
          "warning", "error"}
Phases == {"idle", "thinking", "receiving", "compacting", "tools"}

Row(role, parts) == [role |-> role, parts |-> parts, stats |-> 0]

NewTranscript ==
    [rows |-> <<Row("system", <<0>>)>>, tool |-> 0, compaction |-> 0, reasoning |-> 0,
     connection |-> 0, assistant |-> 0, hovered |-> 0, copied |-> 0, phase |-> "idle"]

IsRow(t, i, role) == i \in DOMAIN t.rows /\ t.rows[i].role = role
LastIs(t, role) == IsRow(t, Len(t.rows), role)

PushMessage(t, role, parts) == [t EXCEPT !.rows = Append(@, Row(role, parts))]
AddTo(t, i, id) == [t EXCEPT !.rows[i].parts = Append(@, id)]

\* (Fault: positions behind a removed row stay as they are.)
KeepIndex(i, removed) == IF i = removed THEN 0 ELSE i

AdjustRemovedIndex(i, removed) ==
    CASE i = removed -> 0
      [] i > removed -> i - 1
      [] OTHER       -> i

RemoveMessage(t, k) ==
    [t EXCEPT !.rows = RemoveAt(@, k),
              !.tool = AdjustRemovedIndex(@, k), !.compaction = AdjustRemovedIndex(@, k),
              !.reasoning = AdjustRemovedIndex(@, k), !.connection = AdjustRemovedIndex(@, k),
              !.assistant = AdjustRemovedIndex(@, k), !.hovered = AdjustRemovedIndex(@, k),
              !.copied = AdjustRemovedIndex(@, k)]

-----------------------------------------------------------------------------
(* Reasoning: one row, dropped when it ends without a summary.             *)

StartReasoning(t) ==
    IF IsRow(t, t.reasoning, "reasoning") THEN t
    ELSE LET p == PushMessage(t, "reasoning", <<>>) IN [p EXCEPT !.reasoning = Len(p.rows)]

AppendSummary(t, id) == LET s == StartReasoning(t) IN AddTo(s, s.reasoning, id)

\* (Fault: a reasoning row is dropped with its summary.)
DropReasoning(t) ==
    LET done == [t EXCEPT !.reasoning = 0] IN
    IF IsRow(t, t.reasoning, "reasoning") THEN RemoveMessage(done, t.reasoning) ELSE done

FinishReasoning(t) ==
    LET done == [t EXCEPT !.reasoning = 0] IN
    IF IsRow(t, t.reasoning, "reasoning") /\ t.rows[t.reasoning].parts = <<>>
    THEN RemoveMessage(done, t.reasoning)
    ELSE done

\* What an event that is not about tools does before its row is added.
Interrupt(t) == FinishReasoning([t EXCEPT !.tool = 0])

-----------------------------------------------------------------------------
(* Display events.                                                         *)

RequestStart(t) == [t EXCEPT !.assistant = 0, !.phase = "thinking"]

Assistant(t, id) ==
    LET p == PushMessage(Interrupt([t EXCEPT !.phase = "receiving"]), "assistant", <<id>>)
    IN [p EXCEPT !.assistant = Len(p.rows)]

\* (Fault: text of an answer leaves the group of tool calls open.)
DeltaKeepsGroup(t, id) ==
    LET s == FinishReasoning([t EXCEPT !.phase = "receiving"])
        p == IF LastIs(s, "assistant") THEN AddTo(s, Len(s.rows), id)
             ELSE PushMessage(s, "assistant", <<id>>)
    IN [p EXCEPT !.assistant = Len(p.rows)]

AssistantDelta(t, id) ==
    LET s == Interrupt([t EXCEPT !.phase = "receiving"])
        p == IF LastIs(s, "assistant") THEN AddTo(s, Len(s.rows), id)
             ELSE PushMessage(s, "assistant", <<id>>)
    IN [p EXCEPT !.assistant = Len(p.rows)]

\* (Fault: the figures go to the last answer there is.)
CompleteLastAnswer(t, request) ==
    LET answers == {i \in DOMAIN t.rows : t.rows[i].role = "assistant"} IN
    IF answers = {} THEN t
    ELSE LET i == CHOOSE k \in answers : \A j \in answers : j <= k
         IN [t EXCEPT !.rows[i].stats = request, !.assistant = 0]

\* The figures of a request (its number) go to the row that is active.
ResponseComplete(t, request) ==
    LET done == [t EXCEPT !.assistant = 0] IN
    IF IsRow(t, t.assistant, "assistant")
    THEN [done EXCEPT !.rows[t.assistant].stats = request]
    ELSE done

ReasoningStart(t) == StartReasoning([t EXCEPT !.phase = "thinking"])
ReasoningSummary(t, id) == AppendSummary([t EXCEPT !.phase = "thinking"], id)

CompactionStart(t, id) ==
    LET p == PushMessage([t EXCEPT !.tool = 0, !.phase = "compacting"], "compaction", <<id>>)
    IN [p EXCEPT !.compaction = Len(p.rows)]

CompactionFinish(t, id) ==
    LET s == [t EXCEPT !.phase = IF @ = "tools" THEN @ ELSE "thinking"]
        p == IF IsRow(s, s.compaction, "compaction") THEN AddTo(s, s.compaction, id)
             ELSE PushMessage(s, "compaction", <<id>>)
    IN [p EXCEPT !.compaction = 0]

\* Batches that follow one another share a row.
ToolBatchStart(t, id) ==
    LET s == [FinishReasoning(t) EXCEPT !.phase = "tools"]
        p == IF LastIs(s, "tool") THEN AddTo(s, Len(s.rows), id) ELSE PushMessage(s, "tool", <<id>>)
    IN [p EXCEPT !.tool = Len(p.rows)]

\* A call or a result.
ToolLine(t, id) ==
    LET s == [t EXCEPT !.phase = "tools"] IN
    IF IsRow(s, s.tool, "tool") THEN AddTo(s, s.tool, id)
    ELSE LET p == PushMessage(s, "tool", <<id>>) IN [p EXCEPT !.tool = Len(p.rows)]

ConnectionRetry(t, id) ==
    LET s == IF IsRow(t, t.connection, "connection") THEN t
             ELSE LET p == PushMessage(t, "connection", <<>>)
                  IN [p EXCEPT !.connection = Len(p.rows)]
    IN [s EXCEPT !.rows[s.connection].parts = <<id>>, !.phase = "thinking"]

ConnectionRecovered(t, id) ==
    IF t.connection \in DOMAIN t.rows
    THEN [t EXCEPT !.rows[t.connection].parts = <<id>>, !.connection = 0]
    ELSE [t EXCEPT !.connection = 0]

TransportFallback(t, id) ==
    IF t.connection \in DOMAIN t.rows
    THEN [t EXCEPT !.rows[t.connection] = Row("warning", <<id>>), !.connection = 0]
    ELSE PushMessage([t EXCEPT !.connection = 0], "warning", <<id>>)

Note(t, role, id) == PushMessage(Interrupt(t), role, <<id>>)

\* (Fault: the row of the connection is taken and still remembered.)
ErrorKeepsRow(t, id) ==
    IF t.connection \in DOMAIN t.rows THEN [t EXCEPT !.rows[t.connection] = Row("error", <<id>>)]
    ELSE PushMessage(t, "error", <<id>>)

PushError(t, id) ==
    IF t.connection \in DOMAIN t.rows
    THEN [t EXCEPT !.rows[t.connection] = Row("error", <<id>>), !.connection = 0]
    ELSE PushMessage([t EXCEPT !.connection = 0], "error", <<id>>)

\* The end of ChatTui::submit.
FinishActivity(t) == [t EXCEPT !.phase = "idle", !.tool = 0]
=============================================================================
