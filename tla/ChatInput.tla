------------------------------ MODULE ChatInput ------------------------------
(***************************************************************************)
(* The keyboard of the terminal chat (src/chat/tui.rs): the composer with  *)
(* its history, commands, a run with the few keys that work during it, the *)
(* reasoning effort that is chosen at any time, and what is saved of the   *)
(* settings.  What the transcript shows is in ChatTranscript.  Settings    *)
(* are the reasoning effort and the mode; a text is a whole input line.    *)
(***************************************************************************)
EXTENDS Naturals, Sequences, SequencesExt

CONSTANTS Prompts,        \* texts that start a run
          HistoryLimit,   \* INPUT_HISTORY_LIMIT
          MaxScroll       \* bound: how far the transcript is scrolled back

\* Commands: change a setting, one whose error is shown, one whose error ends
\* the chat (/session, /new, /skill, /commands), /exit.
Commands == {"/mode", "/goal", "/session", "/exit"}
Texts == Prompts \cup Commands
Efforts == <<"low", "medium", "high", "xhigh">>
Modes == {"ask", "work"}
NoText == "empty"

VARIABLES input, history, index, draft,   \* composer: index 0 is the draft
          typed,      \* what was in the composer when navigation began
          state,      \* "idle", "running" or "left"
          quit,       \* should_quit
          escape,     \* the last Escape of this run: "none", "recent", "old"
          taps,       \* Escapes pressed in this run (up to 2)
          effort, mode,        \* settings of the runner
          shown, pending,      \* effort on the screen, and the one for later
          saved,      \* settings in the row of the session
          scroll

composer == <<input, history, index, draft, typed>>
settings == <<effort, mode, shown, pending, saved>>
vars == <<composer, state, quit, escape, taps, settings, scroll>>

NextEffort(e) ==
    LET i == CHOOSE k \in DOMAIN Efforts : Efforts[k] = e IN Efforts[(i % Len(Efforts)) + 1]

\* (Fault: the settings are saved before the change is made.)
SaveBefore == saved' = [effort |-> effort, mode |-> mode]

Save == saved' = [effort |-> effort', mode |-> mode']

Init ==
    /\ input = NoText /\ history = <<>> /\ index = 0 /\ draft = NoText /\ typed = NoText
    /\ state = "idle" /\ quit = FALSE /\ escape = "none" /\ taps = 0
    /\ effort \in {"medium", "xhigh"} /\ mode = "work"
    /\ shown = effort /\ pending = "none"
    /\ saved = [effort |-> effort, mode |-> mode]
    /\ scroll = 0

Idle == state = "idle" /\ ~quit
LeaveHistory == index' = 0 /\ draft' = NoText /\ typed' = NoText
OnlyComposer == UNCHANGED <<state, quit, escape, taps, settings, scroll>>

-----------------------------------------------------------------------------
(* The composer.                                                           *)

\* A character, Backspace, or Tab on the beginning of a command.
Type ==
    /\ Idle
    /\ input' \in Texts \cup {NoText}
    /\ LeaveHistory
    /\ UNCHANGED history /\ OnlyComposer

EscapeClears ==
    /\ Idle
    /\ input' = NoText /\ LeaveHistory
    /\ UNCHANGED history /\ OnlyComposer

\* (Fault: every step up takes what is in the composer as the draft.)
DraftAtEachStep(i) == input

DraftAfterUp(i) == IF i = 0 THEN input ELSE draft

HistoryPrevious ==
    /\ Idle /\ history # <<>>
    /\ index' = CASE index = 0 -> Len(history) [] index = 1 -> 1 [] OTHER -> index - 1
    /\ draft' = DraftAfterUp(index)
    /\ typed' = IF index = 0 THEN input ELSE typed
    /\ input' = history[index']
    /\ UNCHANGED history /\ OnlyComposer

HistoryNext ==
    /\ Idle /\ index # 0
    /\ IF index < Len(history)
       THEN index' = index + 1 /\ input' = history[index'] /\ UNCHANGED <<draft, typed>>
       ELSE input' = draft /\ LeaveHistory
    /\ UNCHANGED history /\ OnlyComposer

\* (Fault: the limit is one too many.)
RecordOneMore(h, text) ==
    IF h # <<>> /\ Last(h) = text THEN h
    ELSE IF Len(h) > HistoryLimit THEN Append(Tail(h), text) ELSE Append(h, text)

RecordHistory(h, text) ==
    IF h # <<>> /\ Last(h) = text THEN h
    ELSE LET longer == Append(h, text)
         IN IF Len(longer) > HistoryLimit THEN Tail(longer) ELSE longer

\* Enter takes the line, records it, and leaves the history.
Take(text) ==
    /\ Idle /\ input = text
    /\ history' = RecordHistory(history, text)
    /\ input' = NoText /\ LeaveHistory

SubmitPrompt ==
    /\ \E text \in Prompts : Take(text)
    /\ state' = "running"
    /\ escape' = "none" /\ taps' = 0
    /\ scroll' = 0
    /\ UNCHANGED <<quit, settings>>

SetMode ==
    /\ Take("/mode")
    /\ mode' \in Modes
    /\ UNCHANGED <<effort, shown, pending>>
    /\ Save
    /\ scroll' = 0
    /\ UNCHANGED <<state, quit, escape, taps>>

CommandFails ==
    /\ Take("/goal")
    /\ scroll' = 0
    /\ UNCHANGED <<state, quit, escape, taps, settings>>

\* /session and its like: done, or an error that leaves the chat.
SessionCommand ==
    /\ Take("/session")
    /\ state' \in {"idle", "left"}
    /\ UNCHANGED <<quit, escape, taps, settings, scroll>>

ExitCommand ==
    /\ Take("/exit")
    /\ quit' = TRUE
    /\ UNCHANGED <<state, escape, taps, settings, scroll>>

-----------------------------------------------------------------------------
(* The run.                                                                *)

\* (Fault: an effort chosen during a run stays pending.)
LeavePending == UNCHANGED <<effort, pending>>

ApplyPending ==
    /\ effort' = IF pending = "none" THEN effort ELSE pending
    /\ pending' = "none"

\* After the run: settle the effort, then save the session.
FinishRun ==
    /\ state' = "idle" /\ escape' = "none" /\ taps' = 0
    /\ ApplyPending /\ UNCHANGED <<mode, shown>>
    /\ Save
    /\ UNCHANGED <<composer, quit, scroll>>

RunEnds == state = "running" /\ FinishRun

\* (Fault: without an Escape before, the first one counts as the second.)
AnyTap == escape # "old"

\* register_escape_tap
DoubleTap == escape = "recent"

EscapeWhileRunning ==
    /\ state = "running"
    /\ IF DoubleTap THEN FinishRun
       ELSE /\ escape' = "recent" /\ taps' = 1 /\ scroll' = 0
            /\ UNCHANGED <<composer, state, quit, settings>>

TimePasses ==
    /\ escape = "recent" /\ escape' = "old"
    /\ UNCHANGED <<composer, state, quit, taps, settings, scroll>>

-----------------------------------------------------------------------------
(* Keys that work in both.                                                 *)

CycleEffort ==
    /\ Idle
    /\ effort' = NextEffort(effort) /\ shown' = effort' /\ pending' = "none"
    /\ UNCHANGED mode /\ Save
    /\ scroll' = 0
    /\ UNCHANGED <<composer, state, quit, escape, taps>>

CyclePendingEffort ==
    /\ state = "running"
    /\ shown' = NextEffort(shown) /\ pending' = shown'
    /\ scroll' = 0
    /\ UNCHANGED <<composer, state, quit, escape, taps, effort, mode, saved>>

ControlC ==
    /\ state # "left"
    /\ quit' = TRUE
    /\ UNCHANGED <<composer, state, escape, taps, settings, scroll>>

Scroll ==
    /\ state = "running" \/ Idle
    /\ scroll' \in 0..MaxScroll
    /\ UNCHANGED <<composer, state, quit, escape, taps, settings>>

\* (Fault: a text in the composer keeps the chat open.)
LeaveWhenEmpty ==
    /\ state = "idle" /\ quit /\ input = NoText
    /\ state' = "left"
    /\ UNCHANGED <<composer, quit, escape, taps, settings, scroll>>

Leave ==
    /\ state = "idle" /\ quit
    /\ state' = "left"
    /\ UNCHANGED <<composer, quit, escape, taps, settings, scroll>>

Next ==
    \/ Type \/ EscapeClears \/ HistoryPrevious \/ HistoryNext
    \/ SubmitPrompt \/ SetMode \/ CommandFails \/ SessionCommand \/ ExitCommand
    \/ RunEnds \/ EscapeWhileRunning \/ TimePasses
    \/ CycleEffort \/ CyclePendingEffort \/ ControlC \/ Scroll \/ Leave

Fairness == WF_vars(RunEnds) /\ WF_vars(Leave)

Spec == Init /\ [][Next]_vars /\ Fairness

-----------------------------------------------------------------------------
(* Properties.                                                             *)

\* Types; the history never outgrows its limit.
TypeOK ==
    /\ input \in Texts \cup {NoText} /\ draft \in Texts \cup {NoText}
    /\ typed \in Texts \cup {NoText}
    /\ history \in Seq(Texts) /\ Len(history) <= HistoryLimit
    /\ index \in 0..Len(history)
    /\ state \in {"idle", "running", "left"} /\ quit \in BOOLEAN
    /\ escape \in {"none", "recent", "old"} /\ taps \in 0..1
    /\ {effort, shown} \subseteq ToSet(Efforts) /\ pending \in ToSet(Efforts) \cup {"none"}
    /\ mode \in Modes
    /\ saved \in [effort : ToSet(Efforts), mode : Modes]
    /\ scroll \in 0..MaxScroll

\* Going up and down the history loses no draft: it is kept as it was typed,
\* and no step through the history leaves another text in its place.
DraftIsKept == [][index # 0 /\ index' = 0 /\ HistoryNext => input' = typed]_vars

\* The effort on the screen is the one of the next request: when no run is
\* going on nothing is pending, and in a run it is what will be applied.
ShownEffortIsNext ==
    /\ state # "running" => pending = "none" /\ shown = effort
    /\ shown = IF pending = "none" THEN effort ELSE pending

\* Between runs the stored session has the settings of the chat, those that
\* were changed during the run included.
SettingsAreStored == state # "running" => saved = [effort |-> effort, mode |-> mode]

\* A run is broken off only by a second Escape of the same run.
StopTakesTwo == [][EscapeWhileRunning /\ state' = "idle" => taps = 1]_vars

\* A request to quit is met, when runs end.
QuitLeaves == quit ~> state = "left"

\* (violated) "Navigation: PageUp/PageDown or Up/Down scrolls" (the text of /help).
UpDownScroll == [][HistoryPrevious => input' = input]_vars
=============================================================================
