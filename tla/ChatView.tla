------------------------------ MODULE ChatView ------------------------------
(***************************************************************************)
(* What the terminal chat draws and what a click on it takes               *)
(* (src/chat/tui.rs): messages of some rows each, a blank row after each,  *)
(* scrolled so that the end is seen.  The chat counts the rows of a        *)
(* message by its width; the terminal library breaks lines at words and    *)
(* may need more.  While a run goes on, rows arrive between what was drawn *)
(* and the click that is handled.                                          *)
(***************************************************************************)
EXTENDS ChatLayout, Sequences, SequencesExt

CONSTANTS Heights,      \* heights of the terminal
          MaxMessages,  \* bound
          MaxBack,      \* bound: rows scrolled back
          WordsWrap     \* some line needs a row more than its width says

VARIABLES height, menu,  \* the terminal; is a command being typed
          running,
          messages,      \* per message the rows counted and those drawn
          back,          \* scroll_back
          screen,        \* what was drawn: per row of the transcript a message, or 0
          drawn,         \* nothing happened since
          clicked        \* the message a click took, and the one seen there by one
                         \* who clicks on what was drawn last

vars == <<height, menu, running, messages, back, screen, drawn, clicked>>

\* Messages of two rows; drawing one may take three.
Message == {m \in [counted : 2..3, taken : 2..4] :
               \/ m.taken = m.counted
               \/ WordsWrap /\ m.taken = m.counted + 1}

\* Eight commands at most are wished for; the activity line is there in a run
\* and with a menu.
Viewport == Transcript(height, running \/ menu, menu, 8)

\* Rows as the chat counts them, or as they are taken when drawn.
Before(i, as) ==
    LET upTo[k \in 0..Len(messages)] == IF k = 0 THEN 0 ELSE upTo[k - 1] + messages[k][as] + 1
    IN upTo[i - 1]
Rows(as) == Before(Len(messages) + 1, as)

Minus(a, b) == IF a > b THEN a - b ELSE 0

\* (Fault: the blank rows are not counted.)
ScrollOfMessages == Minus(Minus(FoldLeft(LAMBDA sum, m : sum + m.counted, 0, messages), Viewport), back)

Scroll == Minus(Minus(Rows("counted"), Viewport), back)

\* The message with content row r among its rows, or 0 for a blank row.
MessageAt(r, as) ==
    LET hit == {i \in DOMAIN messages :
                   Before(i, as) <= r /\ r < Before(i, as) + messages[i][as]}
    IN IF hit = {} THEN 0 ELSE CHOOSE i \in hit : TRUE

Init ==
    /\ height \in Heights /\ menu = FALSE /\ running \in BOOLEAN
    /\ messages = <<>> /\ back = 0
    /\ screen = <<>> /\ drawn = FALSE /\ clicked = [took |-> 0, seen |-> 0, running |-> FALSE]

Draw ==
    /\ ~drawn
    /\ screen' = [r \in 1..Viewport |-> MessageAt(Scroll + r - 1, "taken")]
    /\ drawn' = TRUE
    /\ UNCHANGED <<height, menu, running, messages, back, clicked>>

\* Without a run one event is handled between two drawings; in a run what
\* has arrived and every event that is waiting.
MayHandle == drawn \/ running

Receive ==
    /\ MayHandle /\ Len(messages) < MaxMessages
    /\ \E m \in Message : messages' = Append(messages, m)
    /\ back' = 0 /\ drawn' = FALSE
    /\ UNCHANGED <<height, menu, running, screen, clicked>>

ScrollBy ==
    /\ MayHandle
    /\ back' \in 0..MaxBack
    /\ drawn' = FALSE
    /\ UNCHANGED <<height, menu, running, messages, screen, clicked>>

ToggleMenu ==
    /\ MayHandle /\ ~running
    /\ menu' = ~menu
    /\ drawn' = FALSE
    /\ UNCHANGED <<height, running, messages, back, screen, clicked>>

RunEnds ==
    /\ running
    /\ running' = FALSE /\ drawn' = FALSE
    /\ UNCHANGED <<height, menu, messages, back, screen, clicked>>

\* (Fault: the blank row after each message is forgotten.)
FoundWithoutBlank(r) ==
    LET start(i) == FoldLeft(LAMBDA sum, m : sum + m.counted, 0, SubSeq(messages, 1, i - 1))
        hit == {i \in DOMAIN messages : start(i) <= r /\ r < start(i) + messages[i].counted}
    IN IF hit = {} THEN 0 ELSE CHOOSE i \in hit : TRUE

Found(r) == MessageAt(r, "counted")

Click ==
    /\ MayHandle
    /\ \E r \in 1..Viewport :
          clicked' = [took |-> Found(Scroll + r - 1), running |-> running,
                      seen |-> IF r \in DOMAIN screen THEN screen[r] ELSE 0]
    /\ drawn' = FALSE
    /\ UNCHANGED <<height, menu, running, messages, back, screen>>

Next == Draw \/ Receive \/ ScrollBy \/ ToggleMenu \/ RunEnds \/ Click

Spec == Init /\ [][Next]_vars

-----------------------------------------------------------------------------
\* Types, and the layout fills the terminal (LayoutFills, on this instance).
TypeOK ==
    /\ height \in Heights /\ menu \in BOOLEAN /\ running \in BOOLEAN
    /\ messages \in Seq(Message) /\ back \in 0..MaxBack
    /\ screen \in Seq(0..MaxMessages) /\ drawn \in BOOLEAN
    /\ clicked \in [took : 0..MaxMessages, seen : 0..MaxMessages, running : BOOLEAN]
    /\ Fills(height, running \/ menu, menu, 8)

\* Without a run a click takes the message that is seen where it is made
\* (clicking_a_message_returns_its_body_and_shows_copied_feedback): the rows
\* counted, the blank ones, the layout and the scrolling agree with the drawing.
ClickTakesWhatIsSeen == ~clicked.running => clicked.took = clicked.seen

\* (violated) So it does during a run: what arrived is applied before the
\* clicks that were made on the screen before it.
ClickInARunTakesWhatIsSeen == clicked.took = clicked.seen

\* The end of the transcript is seen after anything new was added to it and
\* until it is scrolled back: its last row, a blank one, is on the screen
\* (wrapped_line_count_accounts_for_terminal_width).
EndIsSeen ==
    drawn /\ back = 0 /\ messages # <<>> /\ Viewport >= 2 =>
        Rows("taken") <= Scroll + Viewport
=============================================================================
