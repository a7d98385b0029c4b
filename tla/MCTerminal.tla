----------------------------- MODULE MCTerminal -----------------------------
(***************************************************************************)
(* The three parts of the terminal interface that share no variable, each  *)
(* in behaviours of its own: the transcript, the composer and its          *)
(* settings, and what is on the screen.                                    *)
(***************************************************************************)
EXTENDS Naturals

CONSTANTS MaxEvents, MaxRetries, MaxCalls,   \* of ChatTranscript
          Prompts, HistoryLimit, MaxScroll,  \* of ChatInput
          Heights, MaxMessages, MaxBack      \* of ChatView

ASSUME BoundsAssumption ==
    /\ {MaxEvents, MaxRetries, MaxCalls, HistoryLimit, MaxScroll, MaxMessages, MaxBack} \subseteq Nat
    /\ Heights \subseteq Nat

VARIABLES part,   \* the part that this behaviour is of
          tui, run, events, asked, armed, copied,
          input, history, index, draft, typed, state, quit, escape, taps,
          effort, mode, shown, pending, saved, scroll,
          height, menu, running, messages, back, screen, drawn, clicked

transcriptVars == <<tui, run, events, asked, armed, copied>>
composerVars == <<input, history, index, draft, typed, state, quit, escape,
                  taps, effort, mode, shown, pending, saved, scroll>>
viewVars == <<height, menu, running, messages, back, screen, drawn, clicked>>
vars == <<part, transcriptVars, composerVars, viewVars>>

Transcript == INSTANCE ChatTranscript WITH n <- events
Composer == INSTANCE ChatInput
View == INSTANCE ChatView WITH WordsWrap <- FALSE

-----------------------------------------------------------------------------
\* A part that a behaviour is not of has no state.
NoTranscript == /\ tui = 0 /\ run = 0 /\ events = 0 /\ asked = 0 /\ armed = 0
                /\ copied = 0
NoComposer == /\ input = 0 /\ history = 0 /\ index = 0 /\ draft = 0
              /\ typed = 0 /\ state = 0 /\ quit = 0 /\ escape = 0 /\ taps = 0
              /\ effort = 0 /\ mode = 0 /\ shown = 0 /\ pending = 0
              /\ saved = 0 /\ scroll = 0
NoView == /\ height = 0 /\ menu = 0 /\ running = 0 /\ messages = 0
          /\ back = 0 /\ screen = 0 /\ drawn = 0 /\ clicked = 0

Init ==
    \/ /\ part = "transcript" /\ Transcript!Init
       /\ NoComposer /\ NoView
    \/ /\ part = "composer" /\ Composer!Init
       /\ NoTranscript /\ NoView
    \/ /\ part = "view" /\ View!Init
       /\ NoTranscript /\ NoComposer

Next ==
    \/ /\ part = "transcript" /\ Transcript!Next
       /\ UNCHANGED <<part, composerVars, viewVars>>
    \/ /\ part = "composer" /\ Composer!Next
       /\ UNCHANGED <<part, transcriptVars, viewVars>>
    \/ /\ part = "view" /\ View!Next
       /\ UNCHANGED <<part, transcriptVars, composerVars>>

Spec == Init /\ [][Next]_vars

-----------------------------------------------------------------------------
\* Each part keeps its shape: at most the history that is kept, one row of
\* each passing kind, heights that fill the screen; rows stay in the order of
\* what they tell, a setting shown between two runs is stored, the effort
\* shown is the one the next request is made with, and the end of the
\* transcript can be seen.
PartsAreWellFormed ==
    /\ part = "transcript" =>
           /\ Transcript!TypeOK
           /\ Transcript!ReadsInOrder
    /\ part = "composer" =>
           /\ Composer!TypeOK
           /\ Composer!SettingsAreStored
           /\ Composer!ShownEffortIsNext
    /\ part = "view" =>
           /\ View!TypeOK
           /\ View!EndIsSeen

\* Every position the transcript remembers is that of the row it was taken
\* for, whatever rows were removed before it since (RemoveMessage).
PositionsNameTheirRow == part = "transcript" => Transcript!PositionsNameTheirRow

\* The figures under an answer are those of the request that made it, across
\* retries, tools and texts that arrive late.
StatsBelongToAnswer == part = "transcript" => Transcript!StatsBelongToAnswer

\* Without a run, a click takes the message that was drawn where it was made,
\* at every height and scroll position.
ClickTakesWhatIsSeen == part = "view" => View!ClickTakesWhatIsSeen
=============================================================================
