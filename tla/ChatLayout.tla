----------------------------- MODULE ChatLayout -----------------------------
(***************************************************************************)
(* How the terminal chat divides the rows of a terminal                    *)
(* (responsive_chat_layout, src/chat/tui.rs): each part as a function of   *)
(* the height h, of whether there is an activity line (act) and a command  *)
(* menu (menu) and of the rows the menu would like (wish).                 *)
(***************************************************************************)
EXTENDS Naturals

AtLeast(h, least) == IF h >= least THEN 1 ELSE 0

Composer(h) == IF h >= 5 THEN 3 ELSE AtLeast(h, 1)
Header(h) == AtLeast(h, 6)
Footer(h) == AtLeast(h, 8)
Reserved(h) == Composer(h) + Header(h) + Footer(h)
Activity(h, act) == IF act THEN AtLeast(h, 11) ELSE 0
Flexible(h, act) == h - Reserved(h) - Activity(h, act)

\* (Fault: the menu may take every row there is.)
MenuTakesAll(h, act, menu, wish) ==
    LET least == IF wish >= 3 THEN wish ELSE 3
    IN IF menu /\ Flexible(h, act) >= 4
       THEN IF least <= Flexible(h, act) THEN least ELSE Flexible(h, act)
       ELSE 0

CommandMenu(h, act, menu, wish) ==
    LET least == IF wish >= 3 THEN wish ELSE 3
        most  == Flexible(h, act) - 1
    IN IF menu /\ Flexible(h, act) >= 4 THEN IF least <= most THEN least ELSE most ELSE 0

Transcript(h, act, menu, wish) == Flexible(h, act) - CommandMenu(h, act, menu, wish)

-----------------------------------------------------------------------------
\* The parts fill the terminal and no more, and with two rows or more there
\* is always one for the transcript: the subtractions never go below zero.
Fills(h, act, menu, wish) ==
    /\ Header(h) + Activity(h, act) + Transcript(h, act, menu, wish)
         + CommandMenu(h, act, menu, wish) + Composer(h) + Footer(h) = h
    /\ h >= 2 => Transcript(h, act, menu, wish) \in Nat \ {0}
    /\ h >= 1 => Composer(h) \in Nat \ {0}
=============================================================================
