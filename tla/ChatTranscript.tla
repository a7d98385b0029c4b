--------------------------- MODULE ChatTranscript ---------------------------
(***************************************************************************)
(* The transcript of the terminal chat while prompts are run, stopped by a *)
(* double Escape or fail, and while commands are typed between them: the   *)
(* order of display events a run can produce (src/agent/run_loop.rs), with *)
(* keys and the mouse in between (src/chat/tui.rs).                        *)
(***************************************************************************)
EXTENDS TranscriptRows, FiniteSets

CONSTANTS MaxEvents,   \* bound: pieces of text shown
          MaxRetries,  \* bound: retries of a request
          MaxCalls     \* bound: tool calls of an answer

VARIABLES tui,      \* the transcript
          run,      \* where the run is, and what it has shown of the answer
          n,        \* events so far
          asked,    \* the numbers of the requests
          armed,    \* Escape was pressed a moment ago
          copied    \* the first piece of the message that was copied, or 0

vars == <<tui, run, n, asked, armed, copied>>

NoRun == [at |-> "idle", thinking |-> FALSE, streamed |-> FALSE, retries |-> 0, searches |-> 0,
          calls |-> 0, due |-> 0]
Request == CHOOSE r \in asked \cup {0} : \A q \in asked : q <= r

Running == run.at # "idle"
Show(t, k) == n + k <= MaxEvents /\ tui' = t /\ n' = n + k
OnlyShow(t, k) == Show(t, k) /\ UNCHANGED <<run, asked, armed, copied>>

Init == /\ tui = NewTranscript /\ run = NoRun /\ n = 0
        /\ asked = {} /\ armed = FALSE /\ copied = 0

-----------------------------------------------------------------------------
(* A prompt and its run.                                                   *)

Submit ==
    /\ ~Running
    /\ \E expanded \in BOOLEAN :
          LET t == PushMessage(tui, "user", <<n + 1>>) IN
          IF expanded THEN Show(PushMessage(t, "system", <<n + 2>>), 2) ELSE Show(t, 1)
    /\ run' = [NoRun EXCEPT !.at = "turn"]
    /\ armed' = FALSE
    /\ UNCHANGED <<asked, copied>>

EndRun(t, k) ==
    /\ Show(t, k)
    /\ run' = NoRun /\ armed' = FALSE
    /\ UNCHANGED <<asked, copied>>

\* A skill the prompt mentions cannot be loaded.
SubmitFails ==
    /\ ~Running
    /\ EndRun(PushError(FinishActivity(PushMessage(tui, "user", <<n + 1>>)), n + 2), 2)

StartCompaction ==
    /\ run.at = "turn"
    /\ Show(CompactionStart(tui, n + 1), 1)
    /\ run' = [run EXCEPT !.at = "compacting"]
    /\ UNCHANGED <<asked, armed, copied>>

FinishCompaction ==
    /\ run.at = "compacting"
    /\ Show(CompactionFinish(tui, n + 1), 1)
    /\ run' = [run EXCEPT !.at = "compacted"]
    /\ UNCHANGED <<asked, armed, copied>>

SendRequest ==
    /\ run.at \in {"turn", "compacted"}
    /\ Show(RequestStart(tui), 1)
    /\ asked' = asked \cup {n + 1}
    /\ run' = [NoRun EXCEPT !.at = "waiting"]
    /\ UNCHANGED <<armed, copied>>

\* What the far end may send while an answer is awaited.
Reason ==
    /\ run.at = "waiting"
    /\ \/ Show(ReasoningStart(tui), 0) /\ run' = [run EXCEPT !.thinking = TRUE]
       \/ Show(ReasoningSummary(tui, n + 1), 1) /\ run.thinking /\ UNCHANGED run
       \/ Show(FinishReasoning(tui), 0) /\ run' = [run EXCEPT !.thinking = FALSE]
    /\ UNCHANGED <<asked, armed, copied>>

SearchStarted ==
    /\ run.at = "waiting"
    /\ Show(ToolLine(ToolBatchStart(tui, n + 1), n + 2), 2)
    /\ run' = [run EXCEPT !.searches = @ + 1]
    /\ UNCHANGED <<asked, armed, copied>>

SearchFinished ==
    /\ run.at = "waiting" /\ run.searches > 0
    /\ Show(ToolLine(tui, n + 1), 1)
    /\ run' = [run EXCEPT !.searches = @ - 1]
    /\ UNCHANGED <<asked, armed, copied>>

Delta ==
    /\ run.at = "waiting"
    /\ Show(AssistantDelta(tui, n + 1), 1)
    /\ run' = [run EXCEPT !.streamed = TRUE]
    /\ UNCHANGED <<asked, armed, copied>>

Retry ==
    /\ run.at = "waiting" /\ ~run.streamed /\ run.retries < MaxRetries
    /\ Show(ConnectionRetry(tui, n + 1), 1)
    /\ run' = [run EXCEPT !.retries = @ + 1, !.searches = 0, !.thinking = FALSE]
    /\ UNCHANGED <<asked, armed, copied>>

\* After the last retry, or when the deadline passed (reasoning ends then).
FallBack ==
    /\ run.at = "waiting" /\ ~run.streamed
    /\ \/ /\ run.retries = MaxRetries
          /\ Show(TransportFallback(tui, n + 1), 1)
          /\ run' = [run EXCEPT !.retries = 0, !.searches = 0, !.thinking = FALSE]
       \/ /\ Show(TransportFallback(FinishReasoning(tui), n + 1), 1)
          /\ run' = [run EXCEPT !.retries = @ + 1, !.searches = 0, !.thinking = FALSE]
    /\ UNCHANGED <<asked, armed, copied>>

\* The answer with its text (what was not streamed of it) and its calls.  The
\* far end has ended its reasoning by then.
Answer ==
    /\ run.at = "waiting" /\ ~run.thinking
    /\ \E text \in BOOLEAN, calls \in 0..MaxCalls :
          LET k == IF text THEN 2 ELSE 1
              recovered == IF run.retries > 0 THEN ConnectionRecovered(tui, n + 1) ELSE tui
              shown == CASE text /\ run.streamed  -> AssistantDelta(recovered, n + 2)
                         [] text /\ ~run.streamed -> Assistant(recovered, n + 2)
                         [] OTHER                 -> recovered
              done == ResponseComplete(shown, Request)
          IN IF calls = 0 THEN EndRun(FinishActivity(done), k)
             ELSE /\ Show(ToolBatchStart(done, n + k + 1), k + 1)
                  /\ run' = [run EXCEPT !.at = "tools", !.calls = calls]
                  /\ UNCHANGED <<asked, armed, copied>>

\* A call is shown when it is made, those of a parallel batch all at first.
ToolCall ==
    /\ run.at = "tools" /\ run.calls > 0
    /\ Show(ToolLine(tui, n + 1), 1)
    /\ run' = [run EXCEPT !.calls = @ - 1, !.due = @ + 1]
    /\ UNCHANGED <<asked, armed, copied>>

\* A call that needs the registry of MCP servers warns of those it cannot reach.
RegistryWarning == run.at = "tools" /\ run.due = 1 /\ OnlyShow(Note(tui, "warning", n + 1), 1)

ToolResult ==
    /\ run.at = "tools" /\ run.due > 0
    /\ Show(ToolLine(tui, n + 1), 1)
    /\ run' = [run EXCEPT !.due = @ - 1, !.at = IF run.calls + run.due = 1 THEN "turn" ELSE @]
    /\ UNCHANGED <<asked, armed, copied>>

\* An error ends the run: first its warning, then the chat's own row.
RunFails ==
    /\ run.at \in {"turn", "compacting", "compacted", "waiting"}
    /\ EndRun(PushError(FinishActivity(Note(tui, "warning", n + 1)), n + 2), 2)

-----------------------------------------------------------------------------
(* Keys and the mouse.                                                     *)

\* The second Escape may come too late to stop the run.
Escape ==
    /\ Running
    /\ Show(PushMessage(tui, "warning", <<n + 1>>), 1)
    /\ armed' = TRUE
    /\ UNCHANGED <<run, asked, copied>>

StopRun == Running /\ armed /\ EndRun(PushMessage(FinishActivity(tui), "warning", <<n + 1>>), 1)

ChangeReasoning == OnlyShow(PushMessage(tui, "system", <<n + 1>>), 1)

Messages == {i \in DOMAIN tui.rows : tui.rows[i].role \in {"user", "assistant"}}

Hover ==
    /\ \E i \in Messages \cup {0} : tui' = [tui EXCEPT !.hovered = i]
    /\ UNCHANGED <<run, n, asked, armed, copied>>

Copy ==
    /\ \E i \in Messages : /\ tui' = [tui EXCEPT !.hovered = i, !.copied = i]
                           /\ copied' = tui.rows[i].parts[1]
    /\ UNCHANGED <<run, n, asked, armed>>

-----------------------------------------------------------------------------
(* Commands between runs.  What they print comes first, the events of the  *)
(* runner after it.                                                        *)

Inform == ~Running /\ OnlyShow(PushMessage(tui, "system", <<n + 1>>), 1)
CommandFails == ~Running /\ OnlyShow(PushError(tui, n + 1), 1)

Compact ==
    /\ ~Running
    /\ \/ OnlyShow(CompactionStart(PushError(tui, n + 1), n + 2), 2)
       \/ OnlyShow(CompactionFinish(CompactionStart(
                      PushMessage(tui, "system", <<n + 1>>), n + 2), n + 3), 3)

\* /goal run: one answer, or two of them, or an answer and an error.
GoalRun ==
    LET answer(t, k) == ResponseComplete(Assistant(RequestStart(t), k + 1), k)
        streamed(t, k) == ResponseComplete(AssistantDelta(RequestStart(t), k + 1), k)
        reported == PushMessage(tui, "system", <<n + 1>>)
        failed == Note(RequestStart(streamed(PushError(tui, n + 1), n + 2)), "warning", n + 5)
    IN /\ ~Running
       /\ \/ Show(answer(reported, n + 2), 3) /\ asked' = asked \cup {n + 2}
          \/ /\ Show(streamed(streamed(reported, n + 2), n + 4), 5)
             /\ asked' = asked \cup {n + 2, n + 4}
          \/ Show(failed, 5) /\ asked' = asked \cup {n + 2, n + 4}
       /\ UNCHANGED <<run, armed, copied>>

Clear ==
    /\ ~Running
    /\ Show([NewTranscript EXCEPT !.rows = <<Row("system", <<n + 1>>)>>, !.phase = tui.phase], 1)
    /\ copied' = 0
    /\ UNCHANGED <<run, asked, armed>>

Next ==
    \/ Submit \/ SubmitFails \/ StartCompaction \/ FinishCompaction \/ SendRequest
    \/ Reason \/ SearchStarted \/ SearchFinished \/ Delta \/ Retry \/ FallBack \/ Answer
    \/ ToolCall \/ RegistryWarning \/ ToolResult \/ RunFails
    \/ Escape \/ StopRun \/ ChangeReasoning \/ Hover \/ Copy
    \/ Inform \/ CommandFails \/ Compact \/ GoalRun \/ Clear

Spec == Init /\ [][Next]_vars

-----------------------------------------------------------------------------
(* Properties.                                                             *)

\* Types, and every position remembered lies in the transcript.
TypeOK ==
    /\ tui.rows \in Seq([role : Roles, parts : Seq(Nat), stats : Nat])
    /\ \A f \in {"tool", "compaction", "reasoning", "connection", "assistant", "hovered", "copied"} :
          tui[f] \in 0..Len(tui.rows)
    /\ tui.phase \in Phases
    /\ run \in [at : {"idle", "turn", "compacting", "compacted", "waiting", "tools"},
                thinking : BOOLEAN, streamed : BOOLEAN, retries : 0..(MaxRetries + MaxEvents), searches : 0..MaxEvents,
                calls : 0..MaxCalls, due : 0..MaxCalls]
    /\ n \in 0..MaxEvents /\ asked \subseteq 1..MaxEvents
    /\ armed \in BOOLEAN /\ copied \in 0..MaxEvents

\* Rows come and go, and yet each remembered position names a row of its kind,
\* and "copied" stays with the message that was copied (remove_message).
PositionsName(role, i) == i = 0 \/ IsRow(tui, i, role)

PositionsNameTheirRow ==
    /\ PositionsName("tool", tui.tool) /\ PositionsName("compaction", tui.compaction)
    /\ PositionsName("reasoning", tui.reasoning) /\ PositionsName("connection", tui.connection)
    /\ PositionsName("assistant", tui.assistant)
    /\ tui.hovered \in Messages \cup {0}
    /\ IF copied = 0 THEN tui.copied = 0
       ELSE tui.copied \in Messages /\ tui.rows[tui.copied].parts[1] = copied

\* Prompts, answers and tool lines are read in the order in which they came,
\* however reasoning, retries, warnings and dropped rows come between them.
Body(row) == IF row.role \in {"user", "assistant", "tool"} THEN row.parts ELSE <<>>

ReadsInOrder ==
    \A i, j \in DOMAIN tui.rows :
        \A p \in DOMAIN Body(tui.rows[i]), q \in DOMAIN Body(tui.rows[j]) :
            i < j \/ (i = j /\ p < q) => Body(tui.rows[i])[p] < Body(tui.rows[j])[q]

\* The figures of a request are shown under text of its answer, not under one
\* that an earlier request left unfinished (ResponseComplete).
StatsBelongToAnswer ==
    \A i \in DOMAIN tui.rows : tui.rows[i].stats # 0 =>
        Last(tui.rows[i].parts) > tui.rows[i].stats

\* What was said stays on the screen until /clear: rows may be dropped and
\* replaced, but only those that tell of reasoning without a summary and of
\* the connection.
Said(t) == UNION {ToSet(t.rows[i].parts) :
                    i \in {k \in DOMAIN t.rows : t.rows[k].role \notin {"connection", "warning", "error"}}}

SaidStays == [][Said(tui) \subseteq Said(tui') \/ Clear]_vars

\* (violated) Each answer has a row of its own
\* (response_completion_stats_attach_to_the_active_assistant_message).
AnswersAreSeparate ==
    \A i \in DOMAIN tui.rows : tui.rows[i].role = "assistant" =>
        ~\E r \in asked : Head(tui.rows[i].parts) < r /\ r < Last(tui.rows[i].parts)

\* (violated) A row of reasoning without a summary is gone when the run is over
\* (reasoning_row_is_live_and_transient_without_summary).
ReasoningIsTransient ==
    ~Running => \A i \in DOMAIN tui.rows :
                   tui.rows[i].role = "reasoning" => tui.rows[i].parts # <<>>

\* (violated) A failure is shown below the prompt that failed
\* (transport_fallback_and_terminal_failures_remain_in_thread).
FailuresAreBelowThePrompt ==
    \A i, j \in DOMAIN tui.rows :
        /\ tui.rows[i].role = "error" /\ tui.rows[j].role = "user"
        /\ Head(tui.rows[j].parts) < Head(tui.rows[i].parts)
        => j < i

\* (violated) The activity line shows a run that is going on
\* (activity_rail_reflects_command_palette_and_running_state).
IdleLooksIdle == ~Running => tui.phase = "idle"

\* (violated) The result of a call is shown in the block of the call
\* (agent_tool_events_group_into_one_transcript_block).
ResultsJoinTheirCalls ==
    [][run'.due = run.due - 1 /\ run'.at \in {"tools", "turn"} =>
         Len(tui'.rows) = Len(tui.rows)]_vars
=============================================================================
