--------------------------- MODULE TerminalProofs ---------------------------
(***************************************************************************)
(* What holds of the terminal interface, for every terminal, history and   *)
(* transcript.  Each part is proved in behaviours of its own and the parts *)
(* are put together at the end.                                            *)
(***************************************************************************)
EXTENDS MCTerminal, Sequences, SequenceTheorems, WellFoundedInduction, TLAPS

-----------------------------------------------------------------------------
(* The numbers: a set of them has a smallest one, and they begin at 0.     *)

LEMMA Smallest == ASSUME NEW S \in SUBSET Nat, S # {} PROVE \E m \in S : \A k \in S : m <= k
<1>1. \E m \in S : \A k \in S : ~(<<k, m>> \in OpToRel(<, Nat))
  BY NatLessThanWellFounded, WFMin, Zenon
<1>2. \A m \in S, k \in S : <<k, m>> \notin OpToRel(<, Nat) => m <= k
  BY DEF OpToRel
<1>. QED
  BY <1>1, <1>2, Zenon

LEMMA NumbersFromZero ==
  ASSUME NEW S \in SUBSET Nat, 0 \in S, \A n \in S : n + 1 \in S PROVE S = Nat
<1>1. SUFFICES ASSUME S # Nat PROVE FALSE
  OBVIOUS
<1>2. PICK m \in Nat \ S : \A k \in Nat \ S : m <= k
  BY <1>1, Smallest
<1>3. m - 1 \in S
  BY <1>2
<1>. QED
  BY <1>2, <1>3

-----------------------------------------------------------------------------
(* The screen.                                                             *)

\* For every height and every wish, whether or not there is an activity line
\* or a menu, the parts of the chat fill the terminal (responsive_chat_layout).
THEOREM LayoutFills ==
    ASSUME NEW h \in Nat, NEW act \in BOOLEAN, NEW open \in BOOLEAN, NEW wish \in Nat
    PROVE  View!Fills(h, act, open, wish)
<1>1. /\ View!Composer(h) \in Nat /\ View!Header(h) \in 0..1 /\ View!Footer(h) \in 0..1
      /\ View!Activity(h, act) \in 0..1
      /\ h >= 1 => View!Composer(h) # 0
  BY DEF View!Composer, View!Header, View!Footer, View!Activity, View!AtLeast
<1>2. /\ View!Flexible(h, act) \in Nat
      /\ h >= 2 => View!Flexible(h, act) >= 1
  BY DEF View!Flexible, View!Reserved, View!Composer, View!Header, View!Footer, View!Activity,
         View!AtLeast
<1>3. /\ View!CommandMenu(h, act, open, wish) \in Nat
      /\ View!CommandMenu(h, act, open, wish) <= View!Flexible(h, act)
      /\ View!Flexible(h, act) >= 1 => View!CommandMenu(h, act, open, wish) < View!Flexible(h, act)
  BY <1>2 DEF View!CommandMenu
<1>4. View!Flexible(h, act) + View!Composer(h) + View!Header(h) + View!Footer(h)
        + View!Activity(h, act) = h
  BY <1>1 DEF View!Flexible, View!Reserved, View!Composer, View!Header, View!Footer,
              View!Activity, View!AtLeast
<1>. QED
  BY <1>1, <1>2, <1>3, <1>4 DEF View!Fills, View!Transcript

\* The transcript has a number of rows.
LEMMA ViewportIsANumber ==
    ASSUME height \in Nat, menu \in BOOLEAN, running \in BOOLEAN
    PROVE  View!Viewport \in Nat
<1>1. running \/ menu \in BOOLEAN
  OBVIOUS
<1>2. /\ View!Flexible(height, running \/ menu) \in Nat
      /\ View!Flexible(height, running \/ menu) = 0 => View!CommandMenu(height, running \/ menu, menu, 8) = 0
  BY DEF View!Flexible, View!Reserved, View!Composer, View!Header, View!Footer, View!Activity,
         View!AtLeast, View!CommandMenu
<1>3. /\ View!CommandMenu(height, running \/ menu, menu, 8) \in Nat
      /\ View!CommandMenu(height, running \/ menu, menu, 8) <= View!Flexible(height, running \/ menu)
  BY <1>2 DEF View!CommandMenu
<1>. QED
  BY <1>2, <1>3 DEF View!Viewport, View!Transcript

\* Rows of the first k messages, each with the blank row after it.
Summed(F, m, as, n) == F = [k \in 0..n |-> IF k = 0 THEN 0 ELSE F[k - 1] + m[k][as] + 1]

LEMMA RowsCanBeSummed == ASSUME NEW m, NEW as, NEW n \in Nat PROVE \E F : Summed(F, m, as, n)
<1>. DEFINE S == {k \in Nat : \E F : Summed(F, m, as, k)}
<1>1. 0 \in S
  <2>. DEFINE F == [i \in 0..0 |-> 0]
  <2>1. Summed(F, m, as, 0)
    BY DEF Summed
  <2>. QED
    BY <2>1
<1>2. ASSUME NEW k \in S PROVE k + 1 \in S
  <2>1. PICK F : Summed(F, m, as, k)
    OBVIOUS
  <2>0. k \in Nat
    OBVIOUS
  <2>. HIDE DEF S
  <2>9. PICK v : v = F[k] + m[k + 1][as] + 1
    OBVIOUS
  <2>. DEFINE G == [i \in 0..(k + 1) |-> IF i = k + 1 THEN v ELSE F[i]]
  <2>2. \A i \in 0..k : F[i] = IF i = 0 THEN 0 ELSE F[i - 1] + m[i][as] + 1
    BY <2>1 DEF Summed
  <2>3. \A i \in 0..k : G[i] = F[i] /\ (i # 0 => G[i - 1] = F[i - 1])
    BY <2>0
  <2>4. G[k + 1] = v /\ G[(k + 1) - 1] = F[k] /\ k + 1 # 0
    BY <2>0
  <2>5. ASSUME NEW i \in 0..(k + 1) PROVE G[i] = IF i = 0 THEN 0 ELSE G[i - 1] + m[i][as] + 1
    <3>. HIDE DEF G
    <3>1. CASE i = k + 1
      BY <2>4, <2>9, <3>1
    <3>2. CASE i \in 0..k
      BY <2>2, <2>3, <3>2, Zenon
    <3>3. i = k + 1 \/ i \in 0..k
      BY <2>0
    <3>. QED
      BY <3>1, <3>2, <3>3, Zenon
  <2>6. G = [i \in 0..(k + 1) |-> G[i]]
    OBVIOUS
  <2>8. k + 1 \in Nat
    BY <2>0
  <2>7. Summed(G, m, as, k + 1)
    <3>. HIDE DEF G
    <3>. QED
      BY <2>5, <2>6, Zenon DEF Summed
  <2>. QED
    BY <2>0, <2>7, <2>8, Zenon DEF S
<1>. HIDE DEF S
<1>3. S = Nat
  <2>1. S \in SUBSET Nat
    BY DEF S
  <2>. QED
    BY <1>1, <1>2, <2>1, NumbersFromZero
<1>. QED
  BY <1>3 DEF S

\* Without lines that wrap at words, what is counted is what is drawn.
LEMMA CountedAsDrawn ==
  ASSUME NEW m \in Seq(View!Message), NEW F, NEW G,
         Summed(F, m, "counted", Len(m)), Summed(G, m, "taken", Len(m))
  PROVE  \A k \in 0..Len(m) : F[k] \in Nat /\ G[k] = F[k]
<1>. DEFINE S == {k \in Nat : k <= Len(m) => F[k] \in Nat /\ G[k] = F[k]}
<1>1. 0 \in S
  <2>1. 0 \in 0..Len(m)
    OBVIOUS
  <2>. QED
    BY <2>1 DEF Summed
<1>2. ASSUME NEW k \in S, k + 1 <= Len(m) PROVE F[k + 1] \in Nat /\ G[k + 1] = F[k + 1]
  <2>1. k \in Nat /\ k + 1 \in 1..Len(m) /\ k + 1 \in 0..Len(m) /\ (k + 1) - 1 = k /\ k + 1 # 0
    BY <1>2
  <2>2. m[k + 1] \in View!Message
    BY <2>1
  <2>3. m[k + 1].counted \in Nat /\ m[k + 1].taken = m[k + 1].counted
    BY <2>2 DEF View!Message
  <2>4. F[k + 1] = F[k] + m[k + 1].counted + 1 /\ G[k + 1] = G[k] + m[k + 1].taken + 1
    BY <2>1 DEF Summed
  <2>. QED
    BY <1>2, <2>3, <2>4
<1>. HIDE DEF S
<1>3. \A k \in S : k + 1 \in S
  BY <1>2 DEF S
<1>4. S = Nat
  <2>1. S \in SUBSET Nat
    BY DEF S
  <2>. QED
    BY <1>1, <1>3, <2>1, NumbersFromZero
<1>. QED
  BY <1>4 DEF S

LEMMA PlacesAgree ==
  ASSUME messages \in Seq(View!Message), NEW i \in 1..(Len(messages) + 1)
  PROVE  View!Before(i, "counted") \in Nat /\ View!Before(i, "taken") = View!Before(i, "counted")
<1>0. Len(messages) \in Nat
  OBVIOUS
<1>1. ASSUME NEW as PROVE \E F : Summed(F, messages, as, Len(messages)) /\ View!Before(i, as) = F[i - 1]
  <2>. DEFINE f == CHOOSE F : F = [k \in 0..Len(messages) |->
                                     IF k = 0 THEN 0 ELSE F[k - 1] + messages[k][as] + 1]
  <2>1. View!Before(i, as) = f[i - 1]
    BY DEF View!Before
  <2>2. \E F : Summed(F, messages, as, Len(messages))
    <3>. HIDE DEF f
    <3>. QED
      BY <1>0, RowsCanBeSummed
  <2>3. Summed(f, messages, as, Len(messages))
    BY <2>2, Zenon DEF Summed
  <2>. HIDE DEF f
  <2>. QED
    BY <2>1, <2>3
<1>2. PICK F : Summed(F, messages, "counted", Len(messages)) /\ View!Before(i, "counted") = F[i - 1]
  BY <1>1
<1>3. PICK G : Summed(G, messages, "taken", Len(messages)) /\ View!Before(i, "taken") = G[i - 1]
  BY <1>1
<1>4. i - 1 \in 0..Len(messages)
  OBVIOUS
<1>. QED
  BY <1>2, <1>3, <1>4, CountedAsDrawn

LEMMA MessagesAgree ==
  ASSUME messages \in Seq(View!Message), NEW r
  PROVE  /\ View!MessageAt(r, "taken") = View!MessageAt(r, "counted")
         /\ View!MessageAt(r, "counted") \in 0..Len(messages)
<1>. DEFINE hit(as) == {i \in DOMAIN messages :
                          View!Before(i, as) <= r /\ r < View!Before(i, as) + messages[i][as]}
<1>1. ASSUME NEW i \in DOMAIN messages
      PROVE  /\ View!Before(i, "taken") = View!Before(i, "counted")
             /\ messages[i]["taken"] = messages[i]["counted"]
  <2>1. i \in 1..(Len(messages) + 1) /\ messages[i] \in View!Message
    OBVIOUS
  <2>2. messages[i].taken = messages[i].counted
    BY <2>1 DEF View!Message
  <2>. QED
    BY <2>1, <2>2, PlacesAgree
<1>2. hit("taken") = hit("counted")
  BY <1>1
<1>3. \A as : View!MessageAt(r, as) = IF hit(as) = {} THEN 0 ELSE CHOOSE i \in hit(as) : TRUE
  BY Zenon DEF View!MessageAt
<1>4. \A as : hit(as) \subseteq DOMAIN messages
  OBVIOUS
<1>. HIDE DEF hit
<1>5. View!MessageAt(r, "taken") = View!MessageAt(r, "counted")
  BY <1>2, <1>3, Zenon
<1>6. View!MessageAt(r, "counted") = 0 \/ View!MessageAt(r, "counted") \in 1..Len(messages)
  <2>1. hit("counted") # {} => (CHOOSE i \in hit("counted") : TRUE) \in hit("counted")
    BY Zenon
  <2>2. DOMAIN messages = 1..Len(messages)
    OBVIOUS
  <2>. QED
    BY <1>3, <1>4, <2>1, <2>2
<1>. QED
  BY <1>5, <1>6

\* What was drawn last is what there is, until something happens; what a click took without a
\* run is what was seen there.
Drawing == [r \in 1..View!Viewport |-> View!MessageAt(View!Scroll + r - 1, "taken")]

ViewTyped ==
  /\ height \in Heights /\ menu \in BOOLEAN /\ running \in BOOLEAN
  /\ messages \in Seq(View!Message) /\ Len(messages) <= MaxMessages
  /\ back \in 0..MaxBack
  /\ screen \in Seq(0..MaxMessages) /\ drawn \in BOOLEAN
  /\ clicked \in [took : 0..MaxMessages, seen : 0..MaxMessages, running : BOOLEAN]

ViewInv ==
  /\ ViewTyped
  /\ drawn => screen = Drawing
  /\ View!ClickTakesWhatIsSeen

LEMMA ViewBegins == ASSUME View!Init PROVE ViewInv
<1>1. MaxMessages \in Nat /\ MaxBack \in Nat
  BY BoundsAssumption
<1>2. /\ height \in Heights /\ menu \in BOOLEAN /\ running \in BOOLEAN /\ messages = <<>>
      /\ back = 0 /\ screen = <<>> /\ drawn = FALSE
      /\ clicked = [took |-> 0, seen |-> 0, running |-> FALSE]
  BY DEF View!Init
<1>3. messages \in Seq(View!Message) /\ Len(messages) = 0 /\ screen \in Seq(0..MaxMessages)
  BY <1>2, EmptySeq
<1>4. clicked \in [took : 0..MaxMessages, seen : 0..MaxMessages, running : BOOLEAN]
      /\ clicked.took = clicked.seen
  <2>1. 0 \in 0..MaxMessages
    BY <1>1
  <2>2. PICK took, at : took = 0 /\ at = FALSE
    OBVIOUS
  <2>3. clicked = [took |-> took, seen |-> took, running |-> at]
    BY <1>2, <2>2
  <2>4. took \in 0..MaxMessages /\ at \in BOOLEAN
    BY <2>1, <2>2
  <2>. QED
    BY <2>3, <2>4
<1>5. Len(messages) <= MaxMessages /\ back \in 0..MaxBack
  <2>1. Len(messages) = 0 /\ back = 0
    BY <1>2, <1>3
  <2>. QED
    BY <1>1, <2>1
<1>. QED
  BY <1>2, <1>3, <1>4, <1>5, Zenon DEF ViewInv, ViewTyped, View!ClickTakesWhatIsSeen

LEMMA DrawStep == ASSUME ViewInv, View!Draw PROVE ViewInv'
<1>1. /\ screen' = Drawing /\ drawn' = TRUE
      /\ UNCHANGED <<height, menu, running, messages, back, clicked>>
  BY DEF View!Draw, Drawing
<1>2. Drawing' = Drawing
  BY <1>1 DEF Drawing, View!Viewport, View!MessageAt, View!Scroll, View!Rows, View!Before
<1>3. Drawing \in Seq(0..MaxMessages)
  <2>1. View!Viewport \in Nat /\ messages \in Seq(View!Message) /\ Len(messages) <= MaxMessages
        /\ MaxMessages \in Nat /\ Len(messages) \in Nat
    BY ViewportIsANumber, BoundsAssumption DEF ViewInv, ViewTyped
  <2>2. \A r : View!MessageAt(r, "taken") \in 0..MaxMessages
    BY <2>1, MessagesAgree
  <2>. QED
    BY <2>1, <2>2 DEF Drawing
<1>. QED
  BY <1>1, <1>2, <1>3 DEF ViewInv, ViewTyped, View!ClickTakesWhatIsSeen

LEMMA ClickStep == ASSUME ViewInv, View!Click PROVE ViewInv'
<1>1. /\ View!MayHandle /\ drawn' = FALSE
      /\ UNCHANGED <<height, menu, running, messages, back, screen>>
  BY DEF View!Click
<1>2. PICK r \in 1..View!Viewport :
        clicked' = [took |-> View!Found(View!Scroll + r - 1), running |-> running,
                    seen |-> IF r \in DOMAIN screen THEN screen[r] ELSE 0]
  BY DEF View!Click
<1>3. PICK took, seen : /\ took = View!MessageAt(View!Scroll + r - 1, "counted")
                        /\ seen = IF r \in DOMAIN screen THEN screen[r] ELSE 0
  OBVIOUS
<1>4. clicked' = [took |-> took, running |-> running, seen |-> seen]
  BY <1>2, <1>3 DEF View!Found
<1>5. /\ messages \in Seq(View!Message) /\ Len(messages) <= MaxMessages
      /\ screen \in Seq(0..MaxMessages) /\ running \in BOOLEAN
      /\ MaxMessages \in Nat /\ Len(messages) \in Nat
  BY BoundsAssumption DEF ViewInv, ViewTyped
<1>6. took \in 0..MaxMessages
  BY <1>3, <1>5, MessagesAgree
<1>7. seen \in 0..MaxMessages
  BY <1>3, <1>5
<1>8. ~running => took = seen
  <2>1. SUFFICES ASSUME ~running PROVE took = seen
    OBVIOUS
  <2>2. screen = Drawing
    BY <1>1, <2>1 DEF ViewInv, View!MayHandle
  <2>3. r \in DOMAIN screen /\ screen[r] = View!MessageAt(View!Scroll + r - 1, "taken")
    BY <2>2 DEF Drawing
  <2>. QED
    BY <1>3, <1>5, <2>3, MessagesAgree
<1>9. clicked' \in [took : 0..MaxMessages, seen : 0..MaxMessages, running : BOOLEAN]
      /\ (~clicked'.running => clicked'.took = clicked'.seen)
  BY <1>4, <1>5, <1>6, <1>7, <1>8
<1>. QED
  BY <1>1, <1>9 DEF ViewInv, ViewTyped, View!ClickTakesWhatIsSeen

LEMMA ViewKeepsInv == ASSUME ViewInv, [View!Next]_(View!vars) PROVE ViewInv'
<1>1. CASE UNCHANGED View!vars
  <2>1. UNCHANGED <<height, menu, running, messages, back, screen, drawn, clicked>>
    BY <1>1 DEF View!vars
  <2>2. Drawing' = Drawing
    BY <2>1 DEF Drawing, View!Viewport, View!MessageAt, View!Scroll, View!Rows, View!Before
  <2>. QED
    BY <2>1, <2>2 DEF ViewInv, ViewTyped, View!ClickTakesWhatIsSeen
<1>2. CASE View!Receive
  <2>1. PICK m \in View!Message : messages' = Append(messages, m)
    BY <1>2 DEF View!Receive
  <2>2. /\ Len(messages) < MaxMessages /\ back' = 0 /\ drawn' = FALSE
        /\ UNCHANGED <<height, menu, running, screen, clicked>>
    BY <1>2 DEF View!Receive
  <2>3. messages \in Seq(View!Message) /\ Len(messages) \in Nat /\ MaxMessages \in Nat /\ MaxBack \in Nat
    BY BoundsAssumption DEF ViewInv, ViewTyped
  <2>4. messages' \in Seq(View!Message) /\ Len(messages') = Len(messages) + 1
    BY <2>1, <2>3
  <2>5. Len(messages') <= MaxMessages /\ back' \in 0..MaxBack
    BY <2>2, <2>3, <2>4
  <2>. QED
    BY <2>2, <2>4, <2>5 DEF ViewInv, ViewTyped, View!ClickTakesWhatIsSeen
<1>3. CASE View!ScrollBy \/ View!ToggleMenu \/ View!RunEnds
  BY <1>3 DEF ViewInv, ViewTyped, View!ClickTakesWhatIsSeen, View!ScrollBy, View!ToggleMenu,
              View!RunEnds
<1>. QED
  BY <1>1, <1>2, <1>3, DrawStep, ClickStep DEF View!Next

LEMMA ViewFollows == ASSUME ViewInv PROVE View!TypeOK /\ View!EndIsSeen
<1>1. /\ height \in Nat /\ menu \in BOOLEAN /\ running \in BOOLEAN
      /\ messages \in Seq(View!Message) /\ Len(messages) \in Nat
  BY BoundsAssumption DEF ViewInv, ViewTyped
<1>2. View!TypeOK
  <2>1. running \/ menu \in BOOLEAN
    BY <1>1
  <2>2. View!Fills(height, running \/ menu, menu, 8)
    BY <1>1, <2>1, LayoutFills
  <2>. QED
    BY <2>2 DEF ViewInv, ViewTyped, View!TypeOK
<1>3. View!EndIsSeen
  <2>1. Len(messages) + 1 \in 1..(Len(messages) + 1)
    BY <1>1
  <2>2. View!Rows("counted") \in Nat /\ View!Rows("taken") = View!Rows("counted")
    BY <1>1, <2>1, PlacesAgree DEF View!Rows
  <2>3. View!Viewport \in Nat
    BY <1>1, ViewportIsANumber
  <2>. QED
    BY <2>2, <2>3 DEF View!EndIsSeen, View!Scroll, View!Minus
<1>. QED
  BY <1>2, <1>3

-----------------------------------------------------------------------------
(* The composer and its settings.                                          *)

Line == Composer!Texts \cup {Composer!NoText}
Effort == Composer!ToSet(Composer!Efforts)

ComposerTyped ==
  /\ input \in Line /\ draft \in Line /\ typed \in Line
  /\ history \in Seq(Composer!Texts) /\ Len(history) <= HistoryLimit
  /\ index \in 0..Len(history)

KeysTyped ==
  /\ state \in {"idle", "running", "left"} /\ quit \in BOOLEAN
  /\ escape \in {"none", "recent", "old"} /\ taps \in 0..1 /\ scroll \in 0..MaxScroll

\* What is pending is shown, and only during a run; without a run what is in use is stored.
SettingsInv ==
  /\ effort \in Effort /\ shown \in Effort /\ pending \in Effort \cup {"none"}
  /\ mode \in Composer!Modes
  /\ saved \in [effort : Effort, mode : Composer!Modes]
  /\ shown = IF pending = "none" THEN effort ELSE pending
  /\ state # "running" => pending = "none" /\ saved = [effort |-> effort, mode |-> mode]

InputInv == ComposerTyped /\ KeysTyped /\ SettingsInv

LEMMA EffortsAre == /\ \A e \in Effort : Composer!NextEffort(e) \in Effort
                    /\ "medium" \in Effort /\ "xhigh" \in Effort /\ "none" \notin Effort
<1>1. Len(Composer!Efforts) = 4 /\ DOMAIN Composer!Efforts = 1..4
  BY DEF Composer!Efforts
<1>2. /\ Composer!Efforts[1] = "low" /\ Composer!Efforts[2] = "medium"
      /\ Composer!Efforts[3] = "high" /\ Composer!Efforts[4] = "xhigh"
  BY DEF Composer!Efforts
<1>3. \A k \in 1..4 : Composer!Efforts[k] \in Effort
  BY <1>1 DEF Effort, Composer!ToSet
<1>4. \A e \in Effort : \E k \in 1..4 : e = Composer!Efforts[k]
  BY <1>1 DEF Effort, Composer!ToSet
<1>5. ASSUME NEW e \in Effort PROVE Composer!NextEffort(e) \in Effort
  <2>1. PICK i \in 1..4 : Composer!NextEffort(e) = Composer!Efforts[(i % 4) + 1]
    <3>. DEFINE i == CHOOSE k \in DOMAIN Composer!Efforts : Composer!Efforts[k] = e
    <3>1. i \in 1..4
      BY <1>1, <1>4, Zenon
    <3>2. Composer!NextEffort(e) = Composer!Efforts[(i % 4) + 1]
      BY <1>1 DEF Composer!NextEffort
    <3>. HIDE DEF i
    <3>. QED
      BY <3>1, <3>2
  <2>2. (i % 4) + 1 \in 1..4
    BY <2>1
  <2>. QED
    BY <1>3, <2>1, <2>2
<1>6. \A e \in Effort : e \in {"low", "medium", "high", "xhigh"}
  <2>1. \A k \in 1..4 : k = 1 \/ k = 2 \/ k = 3 \/ k = 4
    OBVIOUS
  <2>. QED
    BY <1>2, <1>4, <2>1
<1>. QED
  BY <1>2, <1>3, <1>5, <1>6

LEMMA HistoryIsLimited ==
  ASSUME NEW h \in Seq(Composer!Texts), Len(h) <= HistoryLimit, NEW text \in Composer!Texts
  PROVE  /\ Composer!RecordHistory(h, text) \in Seq(Composer!Texts)
         /\ Len(Composer!RecordHistory(h, text)) <= HistoryLimit
<1>1. HistoryLimit \in Nat /\ Len(h) \in Nat
  BY BoundsAssumption
<1>2. PICK longer : longer = Append(h, text)
  OBVIOUS
<1>3. longer \in Seq(Composer!Texts) /\ Len(longer) = Len(h) + 1 /\ longer # <<>>
  BY <1>2, AppendProperties
<1>4. Tail(longer) \in Seq(Composer!Texts) /\ Len(Tail(longer)) = Len(longer) - 1
  BY <1>3, HeadTailProperties
<1>5. Composer!RecordHistory(h, text) \in {h, Tail(longer), longer}
      /\ (Composer!RecordHistory(h, text) = longer => longer = h \/ ~(Len(longer) > HistoryLimit))
  BY <1>2 DEF Composer!RecordHistory
<1>. QED
  BY <1>1, <1>3, <1>4, <1>5

LEMMA InputBegins == ASSUME Composer!Init PROVE InputInv
<1>1. /\ input = Composer!NoText /\ history = <<>> /\ index = 0 /\ draft = Composer!NoText
      /\ typed = Composer!NoText
      /\ state = "idle" /\ quit = FALSE /\ escape = "none" /\ taps = 0 /\ scroll = 0
      /\ effort \in {"medium", "xhigh"} /\ mode = "work" /\ shown = effort /\ pending = "none"
      /\ saved = [effort |-> effort, mode |-> mode]
  BY DEF Composer!Init
<1>2. ComposerTyped
  <2>1. history \in Seq(Composer!Texts) /\ Len(history) = 0
    BY <1>1, EmptySeq
  <2>. QED
    BY <1>1, <2>1, BoundsAssumption DEF ComposerTyped, Line
<1>3. KeysTyped
  <2>1. taps \in 0..1 /\ scroll \in 0..MaxScroll
    BY <1>1, BoundsAssumption
  <2>. QED
    BY <1>1, <2>1 DEF KeysTyped
<1>4. SettingsInv
  BY <1>1, EffortsAre DEF SettingsInv, Composer!Modes
<1>. QED
  BY <1>2, <1>3, <1>4 DEF InputInv

\* Enter takes a line, and leaves the history as long as it may be.
LEMMA TakeKeeps ==
  ASSUME InputInv, NEW text \in Composer!Texts, Composer!Take(text) PROVE ComposerTyped'
<1>1. /\ history' = Composer!RecordHistory(history, text)
      /\ input' = Composer!NoText /\ index' = 0 /\ draft' = Composer!NoText /\ typed' = Composer!NoText
  BY DEF Composer!Take, Composer!LeaveHistory
<1>2. history' \in Seq(Composer!Texts) /\ Len(history') <= HistoryLimit
  BY <1>1, HistoryIsLimited DEF InputInv, ComposerTyped
<1>3. Len(history') \in Nat
  BY <1>2
<1>. QED
  BY <1>1, <1>2, <1>3 DEF ComposerTyped, Line

LEMMA HistoryStep ==
  ASSUME InputInv, Composer!HistoryPrevious \/ Composer!HistoryNext PROVE ComposerTyped'
<1>1. /\ input \in Line /\ draft \in Line /\ typed \in Line
      /\ history \in Seq(Composer!Texts) /\ Len(history) <= HistoryLimit /\ Len(history) \in Nat
      /\ index \in 0..Len(history)
  BY DEF InputInv, ComposerTyped
<1>2. \A i \in 1..Len(history) : history[i] \in Line
  BY <1>1 DEF Line
<1>3. CASE Composer!HistoryPrevious
  <2>1. /\ history # <<>> /\ history' = history /\ input' = history[index']
        /\ index' = CASE index = 0 -> Len(history) [] index = 1 -> 1 [] OTHER -> index - 1
        /\ draft' = (IF index = 0 THEN input ELSE draft)
        /\ typed' = IF index = 0 THEN input ELSE typed
    BY <1>3 DEF Composer!HistoryPrevious, Composer!DraftAfterUp
  <2>2. Len(history) # 0
    BY <1>1, <2>1, EmptySeq
  <2>3. index' \in 1..Len(history)
    BY <1>1, <2>1, <2>2
  <2>. QED
    BY <1>1, <1>2, <2>1, <2>3 DEF ComposerTyped
<1>4. CASE Composer!HistoryNext
  <2>1. history' = history /\ index # 0
    BY <1>4 DEF Composer!HistoryNext
  <2>2. CASE index < Len(history)
    <3>1. index' = index + 1 /\ input' = history[index'] /\ UNCHANGED <<draft, typed>>
      BY <1>4, <2>2 DEF Composer!HistoryNext
    <3>2. index' \in 1..Len(history)
      BY <1>1, <2>1, <2>2, <3>1
    <3>. QED
      BY <1>1, <1>2, <2>1, <3>1, <3>2 DEF ComposerTyped
  <2>3. CASE ~(index < Len(history))
    <3>1. input' = draft /\ index' = 0 /\ draft' = Composer!NoText /\ typed' = Composer!NoText
      BY <1>4, <2>3 DEF Composer!HistoryNext, Composer!LeaveHistory
    <3>. QED
      BY <1>1, <2>1, <3>1 DEF ComposerTyped, Line
  <2>. QED
    BY <2>2, <2>3
<1>. QED
  BY <1>3, <1>4

LEMMA FinishKeeps == ASSUME InputInv, Composer!FinishRun PROVE InputInv'
<1>1. /\ state' = "idle" /\ escape' = "none" /\ taps' = 0
      /\ effort' = (IF pending = "none" THEN effort ELSE pending) /\ pending' = "none"
      /\ UNCHANGED <<mode, shown, quit, scroll, input, history, index, draft, typed>>
      /\ saved' = [effort |-> effort', mode |-> mode']
  BY DEF Composer!FinishRun, Composer!ApplyPending, Composer!Save, Composer!composer
<1>2. ComposerTyped'
  BY <1>1 DEF InputInv, ComposerTyped
<1>3. KeysTyped'
  BY <1>1 DEF InputInv, KeysTyped
<1>4. effort' \in Effort /\ shown' = effort' /\ mode' \in Composer!Modes
  BY <1>1 DEF InputInv, SettingsInv
<1>5. saved' \in [effort : Effort, mode : Composer!Modes]
  BY <1>1, <1>4
<1>6. SettingsInv'
  BY <1>1, <1>4, <1>5 DEF SettingsInv
<1>. QED
  BY <1>2, <1>3, <1>6 DEF InputInv

\* The keys of the composer change neither a run nor the settings.
LEMMA ComposerSteps ==
  ASSUME InputInv, \/ Composer!Type \/ Composer!EscapeClears
                   \/ Composer!HistoryPrevious \/ Composer!HistoryNext
  PROVE  InputInv'
<1>1. UNCHANGED <<state, quit, escape, taps, effort, mode, shown, pending, saved, scroll>>
  BY DEF Composer!Type, Composer!EscapeClears, Composer!HistoryPrevious, Composer!HistoryNext,
         Composer!OnlyComposer, Composer!settings
<1>2. KeysTyped' /\ SettingsInv'
  BY <1>1 DEF InputInv, KeysTyped, SettingsInv
<1>3. ASSUME Composer!Type \/ Composer!EscapeClears PROVE ComposerTyped'
  <2>1. /\ input' \in Line /\ index' = 0 /\ draft' = Composer!NoText /\ typed' = Composer!NoText
        /\ history' = history
    BY <1>3 DEF Composer!Type, Composer!EscapeClears, Composer!LeaveHistory, Line
  <2>. QED
    BY <2>1 DEF InputInv, ComposerTyped, Line
<1>. QED
  BY <1>2, <1>3, HistoryStep DEF InputInv

LEMMA LineSteps ==
  ASSUME InputInv, \/ Composer!SubmitPrompt \/ Composer!SetMode \/ Composer!CommandFails
                   \/ Composer!SessionCommand \/ Composer!ExitCommand
  PROVE  InputInv'
<1>1. ComposerTyped'
  <2>1. PICK text \in Composer!Texts : Composer!Take(text)
    BY DEF Composer!SubmitPrompt, Composer!SetMode, Composer!CommandFails,
           Composer!SessionCommand, Composer!ExitCommand, Composer!Texts, Composer!Commands
  <2>. QED
    BY <2>1, TakeKeeps
<1>2. KeysTyped'
  <2>1. 0 \in 0..1 /\ 0 \in 0..MaxScroll
    BY BoundsAssumption
  <2>. QED
    BY <2>1, Zenon DEF InputInv, KeysTyped, Composer!SubmitPrompt, Composer!SetMode,
           Composer!CommandFails, Composer!SessionCommand, Composer!ExitCommand
<1>3. SettingsInv'
  <2>1. CASE Composer!SetMode
    <3>1. /\ mode' \in Composer!Modes /\ UNCHANGED <<effort, shown, pending, state>>
          /\ saved' = [effort |-> effort', mode |-> mode']
      BY <2>1 DEF Composer!SetMode, Composer!Save
    <3>2. saved' \in [effort : Effort, mode : Composer!Modes]
      BY <3>1 DEF InputInv, SettingsInv
    <3>. QED
      BY <3>1, <3>2 DEF InputInv, SettingsInv
  <2>2. CASE ~Composer!SetMode
    <3>1. /\ UNCHANGED <<effort, mode, shown, pending, saved>>
          /\ state # "running"
      BY <2>2 DEF Composer!SubmitPrompt, Composer!CommandFails, Composer!SessionCommand,
                  Composer!ExitCommand, Composer!settings, Composer!Take, Composer!Idle
    <3>. QED
      BY <3>1 DEF InputInv, SettingsInv
  <2>. QED
    BY <2>1, <2>2
<1>. QED
  BY <1>1, <1>2, <1>3 DEF InputInv

LEMMA KeySteps ==
  ASSUME InputInv, \/ Composer!EscapeWhileRunning \/ Composer!TimePasses \/ Composer!CycleEffort
                   \/ Composer!CyclePendingEffort \/ Composer!ControlC \/ Composer!Scroll
                   \/ Composer!Leave,
         ~Composer!FinishRun
  PROVE  InputInv'
<1>1. ComposerTyped'
  <2>1. UNCHANGED <<input, history, index, draft, typed>>
    BY DEF Composer!EscapeWhileRunning, Composer!TimePasses, Composer!CycleEffort,
           Composer!CyclePendingEffort, Composer!ControlC, Composer!Scroll, Composer!Leave,
           Composer!composer
  <2>. QED
    BY <2>1 DEF InputInv, ComposerTyped
<1>2. KeysTyped'
  <2>1. 0 \in 0..1 /\ 1 \in 0..1 /\ 0 \in 0..MaxScroll
    BY BoundsAssumption
  <2>. QED
    BY <2>1, Zenon DEF InputInv, KeysTyped, Composer!EscapeWhileRunning, Composer!TimePasses,
           Composer!CycleEffort, Composer!CyclePendingEffort, Composer!ControlC, Composer!Scroll,
           Composer!Leave
<1>3. SettingsInv'
  <2>1. CASE Composer!CycleEffort
    <3>1. /\ effort' = Composer!NextEffort(effort) /\ shown' = effort' /\ pending' = "none"
          /\ UNCHANGED <<mode, state>> /\ saved' = [effort |-> effort', mode |-> mode']
      BY <2>1 DEF Composer!CycleEffort, Composer!Save
    <3>2. effort' \in Effort /\ mode' \in Composer!Modes
      BY <3>1, EffortsAre DEF InputInv, SettingsInv
    <3>3. saved' \in [effort : Effort, mode : Composer!Modes]
      BY <3>1, <3>2
    <3>. QED
      BY <3>1, <3>2, <3>3 DEF SettingsInv
  <2>2. CASE Composer!CyclePendingEffort
    <3>1. /\ state = "running" /\ shown' = Composer!NextEffort(shown) /\ pending' = shown'
          /\ UNCHANGED <<state, effort, mode, saved>>
      BY <2>2 DEF Composer!CyclePendingEffort
    <3>2. shown' \in Effort /\ shown' # "none"
      BY <3>1, EffortsAre DEF InputInv, SettingsInv
    <3>. QED
      BY <3>1, <3>2 DEF InputInv, SettingsInv
  <2>3. CASE ~Composer!CycleEffort /\ ~Composer!CyclePendingEffort
    <3>1. /\ UNCHANGED <<effort, mode, shown, pending, saved>>
          /\ state' # "running" => state # "running"
      BY <2>3 DEF Composer!EscapeWhileRunning, Composer!TimePasses, Composer!ControlC,
                  Composer!Scroll, Composer!Leave, Composer!settings
    <3>. QED
      BY <3>1 DEF InputInv, SettingsInv
  <2>. QED
    BY <2>1, <2>2, <2>3
<1>. QED
  BY <1>1, <1>2, <1>3 DEF InputInv

LEMMA ComposerKeepsInv == ASSUME InputInv, [Composer!Next]_(Composer!vars) PROVE InputInv'
<1>1. CASE UNCHANGED Composer!vars
  <2>1. UNCHANGED <<input, history, index, draft, typed, state, quit, escape, taps,
                    effort, mode, shown, pending, saved, scroll>>
    BY <1>1 DEF Composer!vars, Composer!composer, Composer!settings
  <2>. QED
    BY <2>1 DEF InputInv, ComposerTyped, KeysTyped, SettingsInv
<1>2. Composer!RunEnds => Composer!FinishRun
  BY DEF Composer!RunEnds
<1>. QED
  BY <1>1, <1>2, ComposerSteps, LineSteps, KeySteps, FinishKeeps, Zenon DEF Composer!Next

LEMMA ComposerFollows ==
  ASSUME InputInv PROVE Composer!TypeOK /\ Composer!SettingsAreStored /\ Composer!ShownEffortIsNext
<1>1. {effort, shown} \subseteq Composer!ToSet(Composer!Efforts)
  BY DEF InputInv, SettingsInv, Effort
<1>2. Composer!SettingsAreStored /\ Composer!ShownEffortIsNext
  BY DEF InputInv, SettingsInv, Composer!SettingsAreStored, Composer!ShownEffortIsNext
<1>. QED
  BY <1>1, <1>2, Zenon DEF InputInv, ComposerTyped, KeysTyped, SettingsInv, Composer!TypeOK, Line,
                           Effort

-----------------------------------------------------------------------------
(* The transcript.                                                         *)

\* Rows that are spoken, and rows that are read in order; what the display remembers of
\* positions: one of each kind, and the message under the mouse and the one copied.
Speech == {"user", "assistant"}
Read == Speech \cup {"tool"}
Kinds == {"tool", "compaction", "reasoning", "connection", "assistant"}
Fields == Kinds \cup {"rows", "hovered", "copied", "phase"}
Rows == Seq([role : Transcript!Roles, parts : Seq(Nat), stats : Nat])
End(row) == row.parts[Len(row.parts)]

\* Figures stand under an answer that ends after its request was made; what is read is there,
\* and in the order of the events that brought it.
Figured(row) == row.stats # 0 => row.role = "assistant" /\ End(row) > row.stats
Filled(row, k) ==
  /\ \A p \in 1..Len(row.parts) : row.parts[p] <= k
  /\ row.role \in Read => Len(row.parts) > 0 /\ row.parts[1] > 0
InOrder(rows) ==
  \A i, j \in 1..Len(rows) : rows[i].role \in Read /\ rows[j].role \in Read =>
    \A p \in 1..Len(rows[i].parts), q \in 1..Len(rows[j].parts) :
      i < j \/ (i = j /\ p < q) => rows[i].parts[p] < rows[j].parts[q]

RowsInv(rows, k) ==
  /\ rows \in Rows
  /\ \A i \in 1..Len(rows) : Figured(rows[i]) /\ Filled(rows[i], k)
  /\ InOrder(rows)

\* Positions name rows of their kind; nothing is read after an open group of tool calls; the
\* answer that is active ends after event r, and what was copied begins with event c.
Names(rows, i, roles) == i = 0 \/ (i \in 1..Len(rows) /\ rows[i].role \in roles)
ToolsLast(rows, i) == i # 0 => \A j \in 1..Len(rows) : j > i => rows[j].role \notin Read
ActiveAfter(rows, i, r) == i # 0 => End(rows[i]) > r
CopyOf(rows, i, c) == IF c = 0 THEN i = 0 ELSE i # 0 /\ rows[i].parts[1] = c

PositionsInv(t, r, c) ==
  /\ \A f \in Kinds : Names(t.rows, t[f], {f})
  /\ Names(t.rows, t.hovered, Speech) /\ Names(t.rows, t.copied, Speech)
  /\ ToolsLast(t.rows, t.tool)
  /\ ActiveAfter(t.rows, t.assistant, r)
  /\ CopyOf(t.rows, t.copied, c)

\* A transcript of k events.
Whole(t, k, r, c) ==
  /\ DOMAIN t = Fields /\ t.phase \in Transcript!Phases
  /\ k \in Nat /\ r \in 0..k
  /\ RowsInv(t.rows, k)
  /\ PositionsInv(t, r, c)

\* A run of e events: calls are due only while tools are called.
Stages == {"idle", "turn", "compacting", "compacted", "waiting", "tools"}
RunSet(e) == [at : Stages, thinking : BOOLEAN, streamed : BOOLEAN, retries : 0..e,
              searches : 0..e, calls : 0..MaxCalls, due : 0..MaxCalls]
RunOf(v, e) ==
  /\ v \in RunSet(e)
  /\ v.calls + v.due <= MaxCalls
  /\ v.at # "tools" => v.calls = 0 /\ v.due = 0

\* The request whose answer is awaited, or 0.
Awaited == IF run.at = "waiting" THEN Transcript!Request ELSE 0

TranscriptInv ==
  /\ events \in 0..MaxEvents
  /\ RunOf(run, events)
  /\ asked \subseteq 1..events /\ armed \in BOOLEAN /\ copied \in 0..events
  /\ run.at = "idle" => tui.tool = 0
  /\ Whole(tui, events, Awaited, copied)

RowSet == [role : Transcript!Roles, parts : Seq(Nat), stats : Nat]

LEMMA RowsAre ==
  ASSUME NEW k \in Nat, NEW rows, RowsInv(rows, k), NEW i \in 1..Len(rows)
  PROVE  /\ rows[i] \in RowSet /\ rows[i].role \in Transcript!Roles
         /\ rows[i].parts \in Seq(Nat) /\ Len(rows[i].parts) \in Nat /\ rows[i].stats \in Nat
         /\ \A p \in 1..Len(rows[i].parts) : rows[i].parts[p] \in Nat /\ rows[i].parts[p] <= k
         /\ rows[i].role \in Read =>
              /\ Len(rows[i].parts) > 0 /\ rows[i].parts[1] > 0
              /\ End(rows[i]) \in Nat /\ End(rows[i]) <= k
         /\ rows[i].stats # 0 => rows[i].role = "assistant" /\ End(rows[i]) > rows[i].stats
<1>1. rows \in Rows /\ Figured(rows[i]) /\ Filled(rows[i], k)
  BY DEF RowsInv
<1>2. rows[i] \in RowSet
  <2>1. rows \in Seq(RowSet)
    BY <1>1 DEF Rows, RowSet
  <2>. QED
    BY <2>1
<1>3. rows[i].role \in Transcript!Roles /\ rows[i].parts \in Seq(Nat) /\ rows[i].stats \in Nat
  BY <1>2 DEF RowSet
<1>4. \A p \in 1..Len(rows[i].parts) : rows[i].parts[p] \in Nat /\ rows[i].parts[p] <= k
  BY <1>1, <1>3 DEF Filled
<1>5. Len(rows[i].parts) \in Nat
  BY <1>3
<1>6. rows[i].role \in Read => /\ Len(rows[i].parts) > 0 /\ rows[i].parts[1] > 0
                               /\ Len(rows[i].parts) \in 1..Len(rows[i].parts)
  BY <1>1, <1>5 DEF Filled
<1>. QED
  BY <1>1, <1>2, <1>3, <1>4, <1>5, <1>6 DEF Figured, End

\* A row is added at the end, with nothing in it or with what is new.
GrewBy(rows, row, new) ==
  /\ Len(new) = Len(rows) + 1 /\ new[Len(rows) + 1] = row
  /\ \A i \in 1..Len(rows) : new[i] = rows[i]
IsNew(row, k) == Len(row.parts) <= 1 /\ \A p \in 1..Len(row.parts) : row.parts[p] > k

LEMMA RowAppended ==
  ASSUME NEW k \in Nat, NEW m \in Nat, k <= m, NEW rows, RowsInv(rows, k),
         NEW row \in RowSet, Figured(row), Filled(row, m), IsNew(row, k),
         NEW new, new = Append(rows, row)
  PROVE  RowsInv(new, m) /\ GrewBy(rows, row, new)
<1>1. rows \in Seq(RowSet) /\ Len(rows) \in Nat
  BY DEF RowsInv, Rows, RowSet
<1>2. /\ new \in Seq(RowSet) /\ Len(new) = Len(rows) + 1 /\ new[Len(rows) + 1] = row
      /\ \A i \in 1..Len(rows) : new[i] = rows[i]
  BY <1>1, AppendProperties
<1>3. ASSUME NEW i \in 1..Len(new) PROVE Figured(new[i]) /\ Filled(new[i], m)
  <2>1. CASE i \in 1..Len(rows)
    <3>1. new[i] = rows[i] /\ Figured(rows[i]) /\ Filled(rows[i], k)
      BY <1>2, <2>1 DEF RowsInv
    <3>2. \A p \in 1..Len(rows[i].parts) : rows[i].parts[p] \in Nat
      BY <2>1, RowsAre
    <3>. QED
      BY <3>1, <3>2 DEF Filled
  <2>2. CASE i = Len(rows) + 1
    BY <1>2, <2>2
  <2>. QED
    BY <1>1, <1>2, <2>1, <2>2
<1>4. InOrder(new)
  <2>1. SUFFICES ASSUME NEW i \in 1..Len(new), NEW j \in 1..Len(new),
                        new[i].role \in Read, new[j].role \in Read,
                        NEW p \in 1..Len(new[i].parts), NEW q \in 1..Len(new[j].parts),
                        i < j \/ (i = j /\ p < q)
                 PROVE  new[i].parts[p] < new[j].parts[q]
    BY DEF InOrder
  <2>2. CASE j \in 1..Len(rows)
    <3>1. i \in 1..Len(rows)
      BY <1>1, <1>2, <2>1, <2>2
    <3>. QED
      BY <1>2, <2>1, <2>2, <3>1 DEF RowsInv, InOrder
  <2>3. CASE j = Len(rows) + 1
    <3>1. row.parts[q] > k /\ row.parts[q] \in Nat /\ new[j] = row /\ Len(row.parts) \in Nat
      <4>1. row.parts \in Seq(Nat)
        BY DEF RowSet
      <4>. QED
        BY <1>2, <2>3, <4>1 DEF IsNew
    <3>2. i # j
      BY <2>1, <3>1 DEF IsNew
    <3>3. i \in 1..Len(rows) /\ new[i] = rows[i]
      BY <1>1, <1>2, <2>1, <2>3, <3>2
    <3>4. rows[i].parts[p] \in Nat /\ rows[i].parts[p] <= k
      BY <3>3, RowsAre
    <3>. QED
      BY <3>1, <3>3, <3>4
  <2>. QED
    BY <1>1, <1>2, <2>2, <2>3
<1>. QED
  BY <1>2, <1>3, <1>4 DEF RowsInv, Rows, RowSet, GrewBy

\* A row that is not read is replaced.
LEMMA RowReplaced ==
  ASSUME NEW k \in Nat, NEW m \in Nat, k <= m, NEW rows, RowsInv(rows, k), NEW i \in 1..Len(rows),
         NEW row \in RowSet, row.role \notin Read, Figured(row), Filled(row, m),
         NEW new, new = [rows EXCEPT ![i] = row]
  PROVE  /\ RowsInv(new, m) /\ Len(new) = Len(rows) /\ new[i] = row
         /\ \A j \in 1..Len(rows) : j # i => new[j] = rows[j]
<1>1. rows \in Seq(RowSet) /\ Len(rows) \in Nat
  BY DEF RowsInv, Rows, RowSet
<1>2. /\ new \in Seq(RowSet) /\ Len(new) = Len(rows) /\ new[i] = row
      /\ \A j \in 1..Len(rows) : j # i => new[j] = rows[j]
  BY <1>1, ExceptSeq
<1>3. ASSUME NEW j \in 1..Len(new) PROVE Figured(new[j]) /\ Filled(new[j], m)
  <2>1. CASE j # i
    <3>1. new[j] = rows[j] /\ Figured(rows[j]) /\ Filled(rows[j], k)
      BY <1>2, <2>1 DEF RowsInv
    <3>2. \A p \in 1..Len(rows[j].parts) : rows[j].parts[p] \in Nat
      BY <1>2, RowsAre
    <3>. QED
      BY <3>1, <3>2 DEF Filled
  <2>. QED
    BY <1>2, <2>1
<1>4. InOrder(new)
  <2>1. \A j \in 1..Len(new) : new[j].role \in Read => new[j] = rows[j]
    BY <1>2
  <2>. QED
    BY <1>2, <2>1 DEF RowsInv, InOrder
<1>. QED
  BY <1>2, <1>3, <1>4 DEF RowsInv, Rows, RowSet

Lengthened(rows, i, id) == [rows EXCEPT ![i] = [rows[i] EXCEPT !.parts = Append(rows[i].parts, id)]]
ChangedAt(rows, i, new) == Len(new) = Len(rows) /\ \A j \in 1..Len(rows) : j # i => new[j] = rows[j]
LongerBy(old, row, id) ==
  row.role = old.role /\ End(row) = id /\ (old.role \in Read => row.parts[1] = old.parts[1])

\* What is new is added to a row after which nothing is read, or which is not read.
ReadEnds(rows, i) == \A j \in 1..Len(rows) : j > i => rows[j].role \notin Read

LEMMA RowExtended ==
  ASSUME NEW k \in Nat, NEW m \in Nat, NEW id \in Nat, k < id, id <= m,
         NEW rows, RowsInv(rows, k), NEW i \in 1..Len(rows),
         rows[i].role \notin Read \/ ReadEnds(rows, i),
         NEW new, new = Lengthened(rows, i, id)
  PROVE  RowsInv(new, m) /\ ChangedAt(rows, i, new) /\ LongerBy(rows[i], new[i], id)
<1>1. rows \in Seq(RowSet) /\ Len(rows) \in Nat
  BY DEF RowsInv, Rows, RowSet
<1>2. PICK old : old = rows[i]
  OBVIOUS
<1>3. old \in RowSet /\ old.parts \in Seq(Nat) /\ Len(old.parts) \in Nat
  BY <1>2, RowsAre
<1>4. \A p \in 1..Len(old.parts) : old.parts[p] \in Nat /\ old.parts[p] <= k
  BY <1>2, RowsAre
<1>5. /\ old.role \in Read => Len(old.parts) > 0 /\ old.parts[1] > 0 /\ End(old) <= k /\ End(old) \in Nat
      /\ old.stats # 0 => old.role = "assistant" /\ End(old) > old.stats
  BY <1>2, RowsAre
<1>6. PICK parts : parts = Append(old.parts, id)
  OBVIOUS
<1>7. /\ parts \in Seq(Nat) /\ Len(parts) = Len(old.parts) + 1 /\ parts[Len(old.parts) + 1] = id
      /\ \A p \in 1..Len(old.parts) : parts[p] = old.parts[p]
  BY <1>3, <1>6, AppendProperties
<1>8. PICK row : row = [old EXCEPT !.parts = parts]
  OBVIOUS
<1>9. row \in RowSet
  BY <1>3, <1>7, <1>8 DEF RowSet
<1>10. row.role = old.role /\ row.parts = parts /\ row.stats = old.stats
  BY <1>3, <1>8 DEF RowSet
<1>11. new = [rows EXCEPT ![i] = row]
  BY <1>2, <1>6, <1>8 DEF Lengthened
<1>20. /\ new \in Seq(RowSet) /\ Len(new) = Len(rows) /\ new[i] = row
       /\ \A j \in 1..Len(rows) : j # i => new[j] = rows[j]
  <2>1. PICK other : other = [rows EXCEPT ![i] = row]
    OBVIOUS
  <2>2. /\ other \in Seq(RowSet) /\ Len(other) = Len(rows)
        /\ \A j \in 1..Len(rows) : other[j] = IF j = i THEN row ELSE rows[j]
    BY <1>1, <1>9, <2>1, ExceptSeq
  <2>3. new = other
    BY <1>11, <2>1, Zenon
  <2>. QED
    BY <2>2, <2>3
<1>21. End(row) = id /\ Figured(row)
  <2>1. End(row) = id
    BY <1>7, <1>10 DEF End
  <2>2. old.stats # 0 => old.role = "assistant" /\ End(old) <= k /\ id > old.stats
    <3>1. old.stats \in Nat
      BY <1>3 DEF RowSet
    <3>. QED
      BY <1>5, <3>1 DEF Read, Speech
  <2>. QED
    BY <1>10, <2>1, <2>2 DEF Figured
<1>13. Len(parts) = Len(old.parts) + 1 /\ Len(old.parts) \in Nat
  BY <1>3, <1>7
<1>22. old.role \in Read => parts[1] = old.parts[1] /\ Len(parts) > 0 /\ parts[1] > 0
  <2>1. old.role \in Read => 1 \in 1..Len(old.parts)
    BY <1>5, <1>13
  <2>2. Len(parts) > 0
    BY <1>13
  <2>. QED
    BY <1>5, <1>7, <2>1, <2>2
<1>23. Filled(row, m)
  <2>1. ASSUME NEW p \in 1..Len(parts) PROVE parts[p] <= m
    <3>1. CASE p \in 1..Len(old.parts)
      <4>1. parts[p] \in Nat /\ parts[p] <= k
        BY <1>4, <1>7, <3>1
      <4>. QED
        BY <4>1
    <3>2. CASE p = Len(old.parts) + 1
      BY <1>7, <3>2
    <3>. QED
      BY <1>13, <3>1, <3>2
  <2>. QED
    BY <1>10, <1>22, <2>1 DEF Filled
<1>24. ASSUME NEW j \in 1..Len(new) PROVE Figured(new[j]) /\ Filled(new[j], m)
  <2>1. CASE j # i
    <3>1. new[j] = rows[j] /\ Figured(rows[j]) /\ Filled(rows[j], k)
      BY <1>20, <2>1 DEF RowsInv
    <3>2. \A p \in 1..Len(rows[j].parts) : rows[j].parts[p] \in Nat
      <4>1. j \in 1..Len(rows)
        BY <1>20
      <4>. QED
        BY <4>1, RowsAre
    <3>. QED
      BY <3>1, <3>2 DEF Filled
  <2>. QED
    BY <1>20, <1>21, <1>23, <2>1
<1>25. InOrder(new)
  <2>1. SUFFICES ASSUME NEW a \in 1..Len(new), NEW b \in 1..Len(new),
                        new[a].role \in Read, new[b].role \in Read,
                        NEW p \in 1..Len(new[a].parts), NEW q \in 1..Len(new[b].parts),
                        a < b \/ (a = b /\ p < q)
                 PROVE  new[a].parts[p] < new[b].parts[q]
    BY DEF InOrder
  <2>2. a \in 1..Len(rows) /\ b \in 1..Len(rows) /\ rows[a].role \in Read /\ rows[b].role \in Read
    BY <1>2, <1>10, <1>20, <2>1
  <2>3. a # i => new[a].parts = rows[a].parts
    BY <1>20, <2>2
  <2>4. b # i => new[b].parts = rows[b].parts
    BY <1>20, <2>2
  <2>5. a = i => new[a].parts = parts /\ rows[a].parts = old.parts
    BY <1>2, <1>10, <1>20
  <2>6. b = i => new[b].parts = parts /\ rows[b].parts = old.parts
    BY <1>2, <1>10, <1>20
  <2>7. a = i => b = i
    BY <1>1, <2>1, <2>2 DEF ReadEnds
  <2>8. a # i => p \in 1..Len(rows[a].parts) /\ new[a].parts[p] = rows[a].parts[p]
    BY <2>3
  <2>9. CASE b = i /\ q = Len(old.parts) + 1
    <3>1. new[b].parts[q] = id
      BY <1>7, <2>6, <2>9
    <3>2. a = i => p \in 1..Len(rows[a].parts) /\ new[a].parts[p] = rows[a].parts[p]
      <4>1. a = i => p \in 1..Len(parts) /\ p < q
        BY <2>1, <2>2, <2>5, <2>9
      <4>2. a = i => p \in 1..Len(old.parts)
        BY <1>13, <2>9, <4>1
      <4>. QED
        BY <1>7, <2>5, <4>2
    <3>3. rows[a].parts[p] \in Nat /\ rows[a].parts[p] <= k
      BY <2>2, <2>8, <3>2, RowsAre
    <3>4. new[a].parts[p] = rows[a].parts[p]
      BY <2>8, <3>2
    <3>5. rows[a].parts[p] < id
      BY <3>3
    <3>. QED
      BY <3>1, <3>4, <3>5, Zenon
  <2>10. CASE ~(b = i /\ q = Len(old.parts) + 1)
    <3>1. b = i => q \in 1..Len(old.parts)
      <4>1. b = i => q \in 1..Len(parts)
        BY <2>6
      <4>. QED
        BY <1>13, <2>10, <4>1
    <3>2. q \in 1..Len(rows[b].parts) /\ new[b].parts[q] = rows[b].parts[q]
      BY <1>7, <2>4, <2>6, <3>1
    <3>3. a = i => p \in 1..Len(old.parts)
      <4>1. a = i => p \in 1..Len(parts) /\ p < q /\ q \in 1..Len(old.parts)
        BY <2>1, <2>2, <2>5, <2>7, <3>1
      <4>. QED
        BY <1>13, <4>1
    <3>4. p \in 1..Len(rows[a].parts) /\ new[a].parts[p] = rows[a].parts[p]
      BY <1>7, <2>5, <2>8, <3>3
    <3>. QED
      BY <2>1, <2>2, <3>2, <3>4 DEF RowsInv, InOrder
  <2>. QED
    BY <2>9, <2>10
<1>26. LongerBy(rows[i], new[i], id)
  BY <1>2, <1>10, <1>20, <1>21, <1>22 DEF LongerBy
<1>. QED
  BY <1>20, <1>24, <1>25, <1>26 DEF RowsInv, Rows, RowSet, ChangedAt

\* A row is removed.
WithoutRow(rows, i, new) ==
  /\ Len(new) = Len(rows) - 1
  /\ \A j \in 1..Len(new) : new[j] = rows[IF j < i THEN j ELSE j + 1]

LEMMA RowRemoved ==
  ASSUME NEW k \in Nat, NEW rows, RowsInv(rows, k), NEW i \in 1..Len(rows),
         NEW new, new = Transcript!RemoveAt(rows, i)
  PROVE  RowsInv(new, k) /\ WithoutRow(rows, i, new)
<1>1. rows \in Seq(RowSet) /\ Len(rows) \in Nat
  BY DEF RowsInv, Rows, RowSet
<1>2. PICK one, two : one = SubSeq(rows, 1, i - 1) /\ two = SubSeq(rows, i + 1, Len(rows))
  OBVIOUS
<1>3. /\ one \in Seq(RowSet) /\ Len(one) = i - 1
      /\ \A j \in 1..(i - 1) : one[j] = rows[j]
  BY <1>1, <1>2, SubSeqProperties
<1>4. /\ two \in Seq(RowSet) /\ Len(two) = Len(rows) - i
      /\ \A j \in 1..(Len(rows) - i) : two[j] = rows[j + i]
  BY <1>1, <1>2, SubSeqProperties
<1>5. new = one \o two
  BY <1>2 DEF Transcript!RemoveAt
<1>6. /\ new \in Seq(RowSet) /\ Len(new) = Len(rows) - 1
      /\ \A j \in 1..(Len(one) + Len(two)) : new[j] = IF j <= Len(one) THEN one[j] ELSE two[j - Len(one)]
  <2>1. /\ new \in Seq(RowSet) /\ Len(new) = Len(one) + Len(two)
        /\ \A j \in 1..(Len(one) + Len(two)) : new[j] = IF j <= Len(one) THEN one[j] ELSE two[j - Len(one)]
    <3>1. one \in Seq(RowSet) /\ two \in Seq(RowSet)
      BY <1>3, <1>4
    <3>. QED
      BY <1>5, <3>1, ConcatProperties
  <2>2. Len(one) + Len(two) = Len(rows) - 1
    BY <1>1, <1>3, <1>4
  <2>. QED
    BY <2>1, <2>2
<1>7. ASSUME NEW j \in 1..Len(new) PROVE new[j] = rows[IF j < i THEN j ELSE j + 1]
  <2>1. CASE j < i
    <3>1. j \in 1..(i - 1) /\ j <= Len(one) /\ j \in 1..(Len(one) + Len(two))
      BY <1>1, <1>3, <1>4, <2>1
    <3>. QED
      BY <1>3, <1>6, <2>1, <3>1
  <2>2. CASE ~(j < i)
    <3>1. /\ j - Len(one) \in 1..(Len(rows) - i) /\ ~(j <= Len(one)) /\ j \in 1..(Len(one) + Len(two))
          /\ (j - Len(one)) + i = j + 1
      BY <1>1, <1>3, <1>4, <1>6, <2>2
    <3>2. two[j - Len(one)] = rows[(j - Len(one)) + i]
      BY <1>4, <3>1
    <3>. QED
      BY <1>6, <2>2, <3>1, <3>2
  <2>. QED
    BY <2>1, <2>2
<1>. DEFINE was(j) == IF j < i THEN j ELSE j + 1
<1>8. \A j \in 1..Len(new) : was(j) \in 1..Len(rows) /\ new[j] = rows[was(j)]
  BY <1>1, <1>6, <1>7
<1>9. \A a, b \in 1..Len(new) : /\ a < b => was(a) < was(b)
                                /\ a = b => was(a) = was(b)
  BY <1>1, <1>6
<1>. HIDE DEF was
<1>10. \A j \in 1..Len(new) : Figured(new[j]) /\ Filled(new[j], k)
  BY <1>8, Zenon DEF RowsInv
<1>11. InOrder(new)
  <2>1. SUFFICES ASSUME NEW a \in 1..Len(new), NEW b \in 1..Len(new),
                        new[a].role \in Read, new[b].role \in Read,
                        NEW p \in 1..Len(new[a].parts), NEW q \in 1..Len(new[b].parts),
                        a < b \/ (a = b /\ p < q)
                 PROVE  new[a].parts[p] < new[b].parts[q]
    BY DEF InOrder
  <2>2. /\ was(a) \in 1..Len(rows) /\ was(b) \in 1..Len(rows)
        /\ new[a] = rows[was(a)] /\ new[b] = rows[was(b)]
        /\ was(a) < was(b) \/ (was(a) = was(b) /\ p < q)
    BY <1>8, <1>9, <2>1
  <2>. QED
    BY <2>1, <2>2 DEF RowsInv, InOrder
<1>. QED
  BY <1>6, <1>7, <1>10, <1>11 DEF RowsInv, Rows, RowSet, WithoutRow

WithStats(rows, i, request) == [rows EXCEPT ![i] = [rows[i] EXCEPT !.stats = request]]
SameText(rows, new) ==
  /\ Len(new) = Len(rows)
  /\ \A j \in 1..Len(rows) : new[j].role = rows[j].role /\ new[j].parts = rows[j].parts

\* The figures of a request are put under an answer that ends after it.
LEMMA RowFigured ==
  ASSUME NEW k \in Nat, NEW rows, RowsInv(rows, k), NEW i \in 1..Len(rows), NEW request \in Nat,
         rows[i].role = "assistant", End(rows[i]) > request,
         NEW new, new = WithStats(rows, i, request)
  PROVE  RowsInv(new, k) /\ SameText(rows, new)
<1>1. rows \in Seq(RowSet) /\ Len(rows) \in Nat
  BY DEF RowsInv, Rows, RowSet
<1>2. PICK old : old = rows[i]
  OBVIOUS
<1>3. old \in RowSet
  BY <1>2, RowsAre
<1>4. PICK row : row = [old EXCEPT !.stats = request]
  OBVIOUS
<1>5. row \in RowSet /\ row.role = old.role /\ row.parts = old.parts /\ row.stats = request
  BY <1>3, <1>4 DEF RowSet
<1>6. new = [rows EXCEPT ![i] = row]
  BY <1>1, <1>2, <1>4 DEF WithStats
<1>7. /\ new \in Seq(RowSet) /\ Len(new) = Len(rows) /\ new[i] = row
      /\ \A j \in 1..Len(rows) : j # i => new[j] = rows[j]
  BY <1>1, <1>5, <1>6, ExceptSeq
<1>8. \A j \in 1..Len(rows) : new[j].role = rows[j].role /\ new[j].parts = rows[j].parts
  BY <1>2, <1>5, <1>7
<1>9. \A j \in 1..Len(new) : Figured(new[j]) /\ Filled(new[j], k)
  <2>1. ASSUME NEW j \in 1..Len(new) PROVE Filled(new[j], k)
    BY <1>7, <1>8, <2>1 DEF RowsInv, Filled
  <2>2. ASSUME NEW j \in 1..Len(new), j # i PROVE Figured(new[j])
    BY <1>7, <2>2 DEF RowsInv
  <2>3. Figured(row)
    BY <1>2, <1>5 DEF Figured, End
  <2>. QED
    BY <1>7, <2>1, <2>2, <2>3
<1>10. InOrder(new)
  <2>1. SUFFICES ASSUME NEW a \in 1..Len(new), NEW b \in 1..Len(new),
                        new[a].role \in Read, new[b].role \in Read,
                        NEW p \in 1..Len(new[a].parts), NEW q \in 1..Len(new[b].parts),
                        a < b \/ (a = b /\ p < q)
                 PROVE  new[a].parts[p] < new[b].parts[q]
    BY DEF InOrder
  <2>2. /\ a \in 1..Len(rows) /\ b \in 1..Len(rows)
        /\ new[a].role = rows[a].role /\ new[a].parts = rows[a].parts
        /\ new[b].role = rows[b].role /\ new[b].parts = rows[b].parts
    BY <1>7, <1>8
  <2>. QED
    BY <2>1, <2>2 DEF RowsInv, InOrder
<1>. QED
  BY <1>7, <1>8, <1>9, <1>10 DEF RowsInv, Rows, RowSet, SameText

\* A transcript u that has the rows of t, and perhaps one more: each grew at its end or was that
\* of a connection, which is then forgotten.
Kept(t, u) ==
  /\ Len(t.rows) <= Len(u.rows)
  /\ \A i \in 1..Len(t.rows) :
       /\ u.rows[i].role = t.rows[i].role \/ (t.rows[i].role = "connection" /\ u.connection = 0)
       /\ t.rows[i].role \in Speech => /\ u.rows[i].parts[1] = t.rows[i].parts[1]
                                       /\ End(u.rows[i]) >= End(t.rows[i])

LEMMA PositionsFollow ==
  ASSUME NEW t, NEW k, NEW r, NEW c, Whole(t, k, r, c),
         NEW u, NEW m \in Nat, k <= m, DOMAIN u = Fields, u.phase \in Transcript!Phases,
         RowsInv(u.rows, m), Kept(t, u),
         \A f \in Kinds : u[f] = t[f] \/ Names(u.rows, u[f], {f}),
         u.hovered = t.hovered, u.copied = t.copied,
         u.assistant = t.assistant \/ ActiveAfter(u.rows, u.assistant, r),
         ToolsLast(u.rows, u.tool)
  PROVE  Whole(u, m, r, c)
<1>1. /\ k \in Nat /\ r \in 0..k /\ RowsInv(t.rows, k) /\ PositionsInv(t, r, c)
  BY DEF Whole
<1>2. /\ \A f \in Kinds : Names(t.rows, t[f], {f})
      /\ Names(t.rows, t.hovered, Speech) /\ Names(t.rows, t.copied, Speech)
      /\ ActiveAfter(t.rows, t.assistant, r) /\ CopyOf(t.rows, t.copied, c)
  BY <1>1 DEF PositionsInv
<1>3. Len(t.rows) \in Nat /\ Len(u.rows) \in Nat /\ Len(t.rows) <= Len(u.rows)
  BY <1>1 DEF RowsInv, Rows, Kept
<1>4. ASSUME NEW f \in Kinds PROVE Names(u.rows, u[f], {f})
  <2>1. CASE u[f] = t[f] /\ t[f] # 0
    <3>1. t[f] \in 1..Len(t.rows) /\ t.rows[t[f]].role = f
      BY <1>2, <2>1 DEF Names
    <3>2. u.rows[t[f]].role = f
      <4>1. CASE f = "connection"
        <5>1. u.connection # 0
          BY <2>1, <4>1
        <5>. QED
          BY <3>1, <5>1 DEF Kept
      <4>2. CASE f # "connection"
        BY <3>1, <4>2 DEF Kept
      <4>. QED
        BY <4>1, <4>2
    <3>. QED
      BY <1>3, <2>1, <3>1, <3>2 DEF Names
  <2>. QED
    BY <2>1 DEF Names
<1>5. ASSUME NEW i, Names(t.rows, i, Speech) PROVE Names(u.rows, i, Speech)
  BY <1>3, <1>5 DEF Names, Kept, Speech
<1>6. ActiveAfter(u.rows, u.assistant, r)
  <2>1. SUFFICES ASSUME u.assistant = t.assistant, u.assistant # 0 PROVE End(u.rows[u.assistant]) > r
    BY DEF ActiveAfter
  <2>2. PICK i : i = t.assistant
    OBVIOUS
  <2>3. i \in 1..Len(t.rows) /\ t.rows[i].role = "assistant" /\ End(t.rows[i]) > r
    <3>1. "assistant" \in Kinds /\ t["assistant"] = t.assistant
      BY DEF Kinds
    <3>. QED
      BY <1>2, <2>1, <2>2, <3>1 DEF Names, ActiveAfter
  <2>4. i \in 1..Len(u.rows) /\ u.rows[i].role = "assistant" /\ End(u.rows[i]) >= End(t.rows[i])
    BY <1>3, <2>3 DEF Kept, Speech
  <2>5. End(u.rows[i]) \in Nat /\ End(t.rows[i]) \in Nat
    <3>1. "assistant" \in Read
      BY DEF Read, Speech
    <3>. QED
      BY <1>1, <2>3, <2>4, <3>1, RowsAre
  <2>. QED
    BY <1>1, <2>1, <2>2, <2>3, <2>4, <2>5
<1>7. CopyOf(u.rows, u.copied, c)
  BY <1>2 DEF CopyOf, Names, Kept
<1>. QED
  BY <1>1, <1>2, <1>4, <1>5, <1>6, <1>7 DEF Whole, PositionsInv

\* A message is added.
LEMMA Pushed ==
  ASSUME NEW t, NEW k, NEW r, NEW c, Whole(t, k, r, c), NEW m \in Nat, k <= m,
         NEW role \in Transcript!Roles, NEW parts, NEW id \in Nat,
         (parts = <<>> /\ role \notin Read) \/ (parts = <<id>> /\ k < id /\ id <= m),
         NEW u, DOMAIN u = Fields, u.phase \in Transcript!Phases,
         u.rows = Append(t.rows, Transcript!Row(role, parts)),
         \A f \in Kinds : u[f] = t[f] \/ u[f] = 0 \/ (f = role /\ u[f] = Len(t.rows) + 1),
         u.hovered = t.hovered, u.copied = t.copied,
         role \in Read => u.tool \in {0, Len(t.rows) + 1}
  PROVE  Whole(u, m, r, c)
<1>1. k \in Nat /\ r \in 0..k /\ RowsInv(t.rows, k) /\ PositionsInv(t, r, c) /\ Len(t.rows) \in Nat
  BY DEF Whole, RowsInv, Rows
<1>2. PICK row : row = Transcript!Row(role, parts)
  OBVIOUS
<1>3. parts \in Seq(Nat) /\ Len(parts) \in 0..1 /\ (\A p \in 1..Len(parts) : parts[p] = id)
      /\ (role \in Read => Len(parts) = 1 /\ parts[1] = id)
      /\ (Len(parts) > 0 => k < id /\ id <= m)
  <2>1. CASE parts = <<>> /\ role \notin Read
    BY <2>1, EmptySeq
  <2>2. CASE parts = <<id>> /\ k < id /\ id <= m
    BY <2>2
  <2>. QED
    BY <2>1, <2>2
<1>4. row \in RowSet /\ row.role = role /\ row.parts = parts /\ row.stats = 0
  BY <1>2, <1>3 DEF RowSet, Transcript!Row
<1>5. Figured(row) /\ Filled(row, m) /\ IsNew(row, k)
  BY <1>1, <1>3, <1>4 DEF Figured, Filled, IsNew
<1>6. /\ RowsInv(u.rows, m) /\ Len(u.rows) = Len(t.rows) + 1 /\ u.rows[Len(t.rows) + 1] = row
      /\ \A i \in 1..Len(t.rows) : u.rows[i] = t.rows[i]
  <2>1. PICK rows, new : rows = t.rows /\ new = u.rows
    OBVIOUS
  <2>2. new = Append(rows, row) /\ RowsInv(rows, k)
    BY <1>1, <1>2, <2>1
  <2>3. RowsInv(new, m) /\ GrewBy(rows, row, new)
    BY <1>1, <1>4, <1>5, <2>2, RowAppended, Zenon
  <2>. QED
    BY <2>1, <2>3 DEF GrewBy
<1>7. Kept(t, u)
  <2>1. ASSUME NEW i \in 1..Len(t.rows), t.rows[i].role \in Speech PROVE End(u.rows[i]) >= End(t.rows[i])
    <3>1. End(t.rows[i]) \in Nat
      BY <1>1, <2>1, RowsAre DEF Read
    <3>. QED
      BY <1>6, <3>1
  <2>. QED
    BY <1>1, <1>6, <2>1 DEF Kept
<1>8. \A f \in Kinds : u[f] = t[f] \/ Names(u.rows, u[f], {f})
  BY <1>1, <1>4, <1>6 DEF Names
<1>9. u.assistant = t.assistant \/ ActiveAfter(u.rows, u.assistant, r)
  <2>1. "assistant" \in Kinds /\ u["assistant"] = u.assistant /\ t["assistant"] = t.assistant
    BY DEF Kinds
  <2>2. u.assistant = t.assistant \/ u.assistant = 0 \/ (role = "assistant" /\ u.assistant = Len(t.rows) + 1)
    BY <2>1
  <2>3. ASSUME role = "assistant" PROVE End(u.rows[Len(t.rows) + 1]) > r
    <3>1. Len(parts) = 1 /\ parts[1] = id
      BY <1>3, <2>3 DEF Read, Speech
    <3>2. End(row) = id /\ u.rows[Len(t.rows) + 1] = row
      BY <1>4, <1>6, <3>1 DEF End
    <3>3. id > r
      BY <1>1, <1>3, <3>1
    <3>. QED
      BY <3>2, <3>3
  <2>. QED
    BY <2>2, <2>3 DEF ActiveAfter
<1>10. ToolsLast(u.rows, u.tool)
  <2>1. "tool" \in Kinds /\ u["tool"] = u.tool /\ t["tool"] = t.tool
    BY DEF Kinds
  <2>2. CASE role \in Read
    BY <1>1, <1>6, <2>2 DEF ToolsLast
  <2>3. CASE role \notin Read
    <3>1. u.tool = t.tool \/ u.tool = 0
      BY <2>1, <2>3 DEF Read
    <3>2. ToolsLast(t.rows, t.tool)
      BY <1>1 DEF PositionsInv
    <3>. QED
      BY <1>1, <1>4, <1>6, <2>3, <3>1, <3>2 DEF ToolsLast
  <2>. QED
    BY <2>2, <2>3
<1>. QED
  BY <1>6, <1>7, <1>8, <1>9, <1>10, PositionsFollow

\* A row is extended.
LEMMA Extended ==
  ASSUME NEW t, NEW k, NEW r, NEW c, Whole(t, k, r, c), NEW m \in Nat,
         NEW id \in Nat, k < id, id <= m, NEW i \in 1..Len(t.rows),
         NEW u, DOMAIN u = Fields, u.phase \in Transcript!Phases,
         u.rows = Lengthened(t.rows, i, id),
         \A f \in Kinds : u[f] = t[f] \/ u[f] = 0 \/ (f = t.rows[i].role /\ u[f] = i),
         u.hovered = t.hovered, u.copied = t.copied,
         t.rows[i].role \in Read =>
           u.tool \in {0, i} /\ ReadEnds(t.rows, i)
  PROVE  Whole(u, m, r, c)
<1>1. k \in Nat /\ r \in 0..k /\ RowsInv(t.rows, k) /\ PositionsInv(t, r, c) /\ Len(t.rows) \in Nat
  BY DEF Whole, RowsInv, Rows
<1>2. /\ RowsInv(u.rows, m) /\ Len(u.rows) = Len(t.rows)
      /\ u.rows[i].role = t.rows[i].role /\ End(u.rows[i]) = id
      /\ t.rows[i].role \in Read => u.rows[i].parts[1] = t.rows[i].parts[1]
      /\ \A j \in 1..Len(t.rows) : j # i => u.rows[j] = t.rows[j]
  <2>1. PICK rows, new : rows = t.rows /\ new = u.rows
    OBVIOUS
  <2>2. /\ RowsInv(rows, k) /\ i \in 1..Len(rows)
        /\ new = Lengthened(rows, i, id)
        /\ rows[i].role \notin Read \/ ReadEnds(rows, i)
    BY <1>1, <2>1
  <2>3. RowsInv(new, m) /\ ChangedAt(rows, i, new) /\ LongerBy(rows[i], new[i], id)
    BY <1>1, <2>2, RowExtended, Zenon
  <2>. QED
    BY <2>1, <2>3 DEF ChangedAt, LongerBy
<1>3. Kept(t, u)
  <2>1. ASSUME NEW j \in 1..Len(t.rows), t.rows[j].role \in Speech
        PROVE  u.rows[j].parts[1] = t.rows[j].parts[1] /\ End(u.rows[j]) >= End(t.rows[j])
    <3>1. End(t.rows[j]) \in Nat /\ End(t.rows[j]) <= k /\ t.rows[j].role \in Read
      BY <1>1, <2>1, RowsAre DEF Read
    <3>. QED
      BY <1>1, <1>2, <3>1
  <2>2. \A j \in 1..Len(t.rows) : u.rows[j].role = t.rows[j].role
    BY <1>2
  <2>3. Len(t.rows) <= Len(u.rows)
    BY <1>1, <1>2
  <2>. QED
    BY <2>1, <2>2, <2>3 DEF Kept
<1>4. \A f \in Kinds : u[f] = t[f] \/ Names(u.rows, u[f], {f})
  BY <1>1, <1>2 DEF Names
<1>5. u.assistant = t.assistant \/ ActiveAfter(u.rows, u.assistant, r)
  <2>1. "assistant" \in Kinds /\ u["assistant"] = u.assistant /\ t["assistant"] = t.assistant
    BY DEF Kinds
  <2>2. u.assistant = t.assistant \/ u.assistant = 0 \/ u.assistant = i
    BY <2>1
  <2>3. End(u.rows[i]) > r
    BY <1>1, <1>2
  <2>. QED
    BY <2>2, <2>3 DEF ActiveAfter
<1>6. ToolsLast(u.rows, u.tool)
  <2>1. "tool" \in Kinds /\ u["tool"] = u.tool /\ t["tool"] = t.tool
    BY DEF Kinds
  <2>2. \A j \in 1..Len(t.rows) : u.rows[j].role = t.rows[j].role
    BY <1>2
  <2>3. CASE t.rows[i].role \in Read
    BY <1>2, <2>2, <2>3 DEF ToolsLast, ReadEnds
  <2>4. CASE t.rows[i].role \notin Read
    <3>1. u.tool = t.tool \/ u.tool = 0
      BY <2>1, <2>4 DEF Read
    <3>2. ToolsLast(t.rows, t.tool)
      BY <1>1 DEF PositionsInv
    <3>. QED
      BY <1>2, <2>2, <3>1, <3>2 DEF ToolsLast
  <2>. QED
    BY <2>3, <2>4
<1>7. k <= m
  BY <1>1
<1>. QED
  BY <1>2, <1>3, <1>4, <1>5, <1>6, <1>7, PositionsFollow

\* The row of the connection becomes another row that is not read.
LEMMA Replaced ==
  ASSUME NEW t, NEW k, NEW r, NEW c, Whole(t, k, r, c), NEW m \in Nat,
         NEW id \in Nat, k < id, id <= m, NEW i \in 1..Len(t.rows), t.rows[i].role = "connection",
         NEW row \in RowSet, row.role \notin Read, row.parts = <<id>>, row.stats = 0,
         NEW u, DOMAIN u = Fields, u.phase \in Transcript!Phases,
         u.rows = [t.rows EXCEPT ![i] = row],
         \A f \in Kinds : u[f] = t[f] \/ u[f] = 0,
         row.role = "connection" \/ u.connection = 0,
         u.hovered = t.hovered, u.copied = t.copied
  PROVE  Whole(u, m, r, c)
<1>1. k \in Nat /\ r \in 0..k /\ RowsInv(t.rows, k) /\ PositionsInv(t, r, c) /\ Len(t.rows) \in Nat
  BY DEF Whole, RowsInv, Rows
<1>2. Figured(row) /\ Filled(row, m)
  BY DEF Figured, Filled
<1>3. /\ RowsInv(u.rows, m) /\ Len(u.rows) = Len(t.rows) /\ u.rows[i] = row
      /\ \A j \in 1..Len(t.rows) : j # i => u.rows[j] = t.rows[j]
  BY <1>1, <1>2, RowReplaced
<1>4. Kept(t, u)
  <2>1. ASSUME NEW j \in 1..Len(t.rows), t.rows[j].role \in Speech
        PROVE  u.rows[j].parts[1] = t.rows[j].parts[1] /\ End(u.rows[j]) >= End(t.rows[j])
    <3>1. End(t.rows[j]) \in Nat
      BY <1>1, <2>1, RowsAre DEF Read
    <3>2. j # i
      BY <2>1 DEF Speech
    <3>. QED
      BY <1>3, <3>1, <3>2
  <2>. QED
    BY <1>1, <1>3, <2>1 DEF Kept
<1>5. \A f \in Kinds : u[f] = t[f] \/ Names(u.rows, u[f], {f})
  BY DEF Names
<1>6. u.assistant = t.assistant \/ ActiveAfter(u.rows, u.assistant, r)
  <2>1. "assistant" \in Kinds /\ u["assistant"] = u.assistant /\ t["assistant"] = t.assistant
    BY DEF Kinds
  <2>. QED
    BY <2>1 DEF ActiveAfter
<1>7. ToolsLast(u.rows, u.tool)
  <2>1. "tool" \in Kinds /\ u["tool"] = u.tool /\ t["tool"] = t.tool
    BY DEF Kinds
  <2>2. ToolsLast(t.rows, t.tool)
    BY <1>1 DEF PositionsInv
  <2>3. \A j \in 1..Len(t.rows) : u.rows[j].role \in Read => t.rows[j].role \in Read
    BY <1>3
  <2>. QED
    BY <1>3, <2>1, <2>2, <2>3 DEF ToolsLast
<1>8. k <= m
  BY <1>1
<1>. QED
  BY <1>3, <1>4, <1>5, <1>6, <1>7, <1>8, PositionsFollow

\* Only positions are forgotten, and the phase changes; events may pass that show nothing.
LEMMA Forgotten ==
  ASSUME NEW t, NEW k, NEW r, NEW c, Whole(t, k, r, c), NEW m \in Nat, k <= m,
         NEW u, DOMAIN u = Fields, u.phase \in Transcript!Phases, u.rows = t.rows,
         \A f \in Kinds : u[f] = t[f] \/ u[f] = 0,
         u.hovered = t.hovered, u.copied = t.copied
  PROVE  /\ Whole(u, m, r, c)
         /\ \A s \in 0..m : u.assistant = 0 => Whole(u, m, s, c)
<1>1. k \in Nat /\ r \in 0..k /\ RowsInv(t.rows, k) /\ PositionsInv(t, r, c) /\ Len(t.rows) \in Nat
  BY DEF Whole, RowsInv, Rows
<1>2. RowsInv(u.rows, m)
  <2>1. \A i \in 1..Len(t.rows) : \A p \in 1..Len(t.rows[i].parts) : t.rows[i].parts[p] <= m
    <3>1. ASSUME NEW i \in 1..Len(t.rows), NEW p \in 1..Len(t.rows[i].parts) PROVE t.rows[i].parts[p] <= m
      <4>1. t.rows[i].parts[p] \in Nat /\ t.rows[i].parts[p] <= k
        BY <1>1, RowsAre
      <4>. QED
        BY <1>1, <4>1
    <3>. QED
      BY <3>1
  <2>. QED
    BY <1>1, <2>1 DEF RowsInv, Filled
<1>3. Kept(t, u)
  <2>1. ASSUME NEW j \in 1..Len(t.rows), t.rows[j].role \in Speech PROVE End(t.rows[j]) \in Nat
    BY <1>1, <2>1, RowsAre DEF Read
  <2>. QED
    BY <1>1, <2>1 DEF Kept
<1>4. \A f \in Kinds : u[f] = t[f] \/ Names(u.rows, u[f], {f})
  BY DEF Names
<1>5. u.assistant = t.assistant \/ ActiveAfter(u.rows, u.assistant, r)
  <2>1. "assistant" \in Kinds /\ u["assistant"] = u.assistant /\ t["assistant"] = t.assistant
    BY DEF Kinds
  <2>. QED
    BY <2>1 DEF ActiveAfter
<1>6. ToolsLast(u.rows, u.tool)
  <2>1. "tool" \in Kinds /\ u["tool"] = u.tool /\ t["tool"] = t.tool
    BY DEF Kinds
  <2>2. ToolsLast(t.rows, t.tool)
    BY <1>1 DEF PositionsInv
  <2>. QED
    BY <2>1, <2>2 DEF ToolsLast
<1>7. Whole(u, m, r, c)
  BY <1>2, <1>3, <1>4, <1>5, <1>6, PositionsFollow
<1>8. ASSUME NEW s \in 0..m, u.assistant = 0 PROVE Whole(u, m, s, c)
  BY <1>7, <1>8 DEF Whole, PositionsInv, ActiveAfter
<1>. QED
  BY <1>7, <1>8

-----------------------------------------------------------------------------
(* What each display event does to a transcript.                           *)

LEMMA PositionAdjusted ==
  ASSUME NEW rows, Len(rows) \in Nat, NEW i \in 1..Len(rows), NEW new, WithoutRow(rows, i, new),
         NEW p \in 0..Len(rows), p # i, NEW q, q = Transcript!AdjustRemovedIndex(p, i)
  PROVE  /\ q \in 0..Len(new) /\ (q = 0 <=> p = 0)
         /\ p # 0 => new[q] = rows[p]
<1>1. q = IF p > i THEN p - 1 ELSE p
  BY DEF Transcript!AdjustRemovedIndex
<1>2. q \in 0..Len(new) /\ (q = 0 <=> p = 0)
  BY <1>1 DEF WithoutRow
<1>3. ASSUME p # 0 PROVE new[q] = rows[p]
  <2>1. q \in 1..Len(new) /\ (IF q < i THEN q ELSE q + 1) = p
    BY <1>1, <1>2, <1>3
  <2>. QED
    BY <2>1 DEF WithoutRow
<1>. QED
  BY <1>2, <1>3

\* The row of reasoning is removed: every other position still names the row it named.
Adjusted(t, u, i) ==
  /\ \A f \in Kinds \ {"reasoning"} : u[f] = Transcript!AdjustRemovedIndex(t[f], i)
  /\ u.reasoning = 0
  /\ u.hovered = Transcript!AdjustRemovedIndex(t.hovered, i)
  /\ u.copied = Transcript!AdjustRemovedIndex(t.copied, i)

LEMMA ReasoningRemoved ==
  ASSUME NEW t, NEW k, NEW r, NEW c, Whole(t, k, r, c),
         NEW i \in 1..Len(t.rows), t.rows[i].role = "reasoning",
         NEW u, DOMAIN u = Fields, u.phase \in Transcript!Phases,
         u.rows = Transcript!RemoveAt(t.rows, i), Adjusted(t, u, i)
  PROVE  Whole(u, k, r, c) /\ (t.tool = 0 => u.tool = 0)
<1>1. /\ k \in Nat /\ r \in 0..k /\ RowsInv(t.rows, k) /\ PositionsInv(t, r, c)
      /\ Len(t.rows) \in Nat
  BY DEF Whole, RowsInv, Rows
<1>2. RowsInv(u.rows, k) /\ WithoutRow(t.rows, i, u.rows)
  BY <1>1, RowRemoved
<1>3. ASSUME NEW p, NEW roles, Names(t.rows, p, roles), "reasoning" \notin roles
      PROVE  LET q == Transcript!AdjustRemovedIndex(p, i) IN
             /\ Names(u.rows, q, roles) /\ (q = 0 <=> p = 0)
             /\ p # 0 => q \in 1..Len(u.rows) /\ u.rows[q] = t.rows[p]
  <2>1. p \in 0..Len(t.rows) /\ p # i
    BY <1>1, <1>3 DEF Names
  <2>2. PICK q : q = Transcript!AdjustRemovedIndex(p, i)
    OBVIOUS
  <2>3. q \in 0..Len(u.rows) /\ (q = 0 <=> p = 0) /\ (p # 0 => u.rows[q] = t.rows[p])
    BY <1>1, <1>2, <2>1, <2>2, PositionAdjusted
  <2>4. p # 0 => q \in 1..Len(u.rows)
    BY <2>3
  <2>5. Names(u.rows, q, roles)
    BY <1>3, <2>3, <2>4 DEF Names
  <2>. QED
    BY <2>2, <2>3, <2>4, <2>5
<1>4. ASSUME NEW f \in Kinds PROVE Names(u.rows, u[f], {f})
  <2>1. CASE f = "reasoning"
    BY <2>1 DEF Names, Adjusted
  <2>2. CASE f # "reasoning"
    <3>1. Names(t.rows, t[f], {f}) /\ "reasoning" \notin {f}
      BY <1>1, <2>2 DEF PositionsInv
    <3>. QED
      BY <1>3, <2>2, <3>1 DEF Adjusted
  <2>. QED
    BY <2>1, <2>2
<1>5. "reasoning" \notin Speech /\ Names(t.rows, t.hovered, Speech) /\ Names(t.rows, t.copied, Speech)
  BY <1>1 DEF PositionsInv, Speech
<1>6. Names(u.rows, u.hovered, Speech) /\ Names(u.rows, u.copied, Speech)
  BY <1>3, <1>5 DEF Adjusted
<1>7. CopyOf(u.rows, u.copied, c)
  <2>1. CopyOf(t.rows, t.copied, c)
    BY <1>1 DEF PositionsInv
  <2>. QED
    BY <1>3, <1>5, <2>1 DEF Adjusted, CopyOf
<1>8. ActiveAfter(u.rows, u.assistant, r)
  <2>1. "assistant" \in Kinds \ {"reasoning"} /\ u["assistant"] = u.assistant /\ t["assistant"] = t.assistant
    BY DEF Kinds
  <2>2. Names(t.rows, t.assistant, {"assistant"}) /\ ActiveAfter(t.rows, t.assistant, r)
    BY <1>1, <2>1 DEF PositionsInv
  <2>3. u.assistant = Transcript!AdjustRemovedIndex(t.assistant, i) /\ "reasoning" \notin {"assistant"}
    BY <2>1 DEF Adjusted
  <2>. QED
    BY <1>3, <2>2, <2>3 DEF ActiveAfter
<1>9. ToolsLast(u.rows, u.tool) /\ (t.tool = 0 => u.tool = 0)
  <2>1. "tool" \in Kinds \ {"reasoning"} /\ u["tool"] = u.tool /\ t["tool"] = t.tool
    BY DEF Kinds
  <2>2. Names(t.rows, t.tool, {"tool"}) /\ ToolsLast(t.rows, t.tool)
    BY <1>1, <2>1 DEF PositionsInv
  <2>3. u.tool = Transcript!AdjustRemovedIndex(t.tool, i) /\ "reasoning" \notin {"tool"}
    BY <2>1 DEF Adjusted
  <2>4. u.tool = 0 <=> t.tool = 0
    BY <1>3, <2>2, <2>3
  <2>5. ASSUME t.tool # 0, NEW j \in 1..Len(u.rows), j > u.tool PROVE u.rows[j].role \notin Read
    <3>1. t.tool \in 1..Len(t.rows) /\ t.tool # i
      BY <2>2, <2>5 DEF Names
    <3>2. u.tool = IF t.tool > i THEN t.tool - 1 ELSE t.tool
      BY <2>3, <3>1 DEF Transcript!AdjustRemovedIndex
    <3>3. PICK was : was = IF j < i THEN j ELSE j + 1
      OBVIOUS
    <3>4. was \in 1..Len(t.rows) /\ was > t.tool
      BY <1>1, <1>2, <2>5, <3>1, <3>2, <3>3 DEF WithoutRow
    <3>5. u.rows[j] = t.rows[was]
      BY <1>2, <3>3 DEF WithoutRow
    <3>. QED
      BY <2>2, <2>5, <3>4, <3>5 DEF ToolsLast
  <2>. QED
    BY <2>4, <2>5 DEF ToolsLast
<1>. QED
  BY <1>1, <1>2, <1>4, <1>6, <1>7, <1>8, <1>9 DEF Whole, PositionsInv

\* A transcript with other positions forgotten and another phase is whole.
LEMMA PhaseChanged ==
  ASSUME NEW t, NEW k, NEW r, NEW c, Whole(t, k, r, c), NEW phase \in Transcript!Phases
  PROVE  /\ Whole([t EXCEPT !.phase = phase], k, r, c)
         /\ Whole([t EXCEPT !.tool = 0, !.phase = phase], k, r, c)
         /\ Whole([t EXCEPT !.phase = phase, !.tool = 0], k, r, c)
         /\ Whole([t EXCEPT !.tool = 0], k, r, c)
         /\ Whole([t EXCEPT !.reasoning = 0], k, r, c)
         /\ Whole([t EXCEPT !.connection = 0], k, r, c)
         /\ Whole([t EXCEPT !.compaction = 0], k, r, c)
<1>1. k \in Nat /\ k <= k /\ DOMAIN t = Fields /\ t.phase \in Transcript!Phases
  BY DEF Whole
<1>2. ASSUME NEW u, DOMAIN u = Fields, u.phase \in Transcript!Phases, u.rows = t.rows,
             \A f \in Kinds : u[f] = t[f] \/ u[f] = 0, u.hovered = t.hovered, u.copied = t.copied
      PROVE  Whole(u, k, r, c)
  BY <1>1, <1>2, Forgotten
<1>3. Whole([t EXCEPT !.phase = phase], k, r, c)
  <2>1. PICK u : u = [t EXCEPT !.phase = phase]
    OBVIOUS
  <2>2. /\ DOMAIN u = Fields /\ u.phase = phase /\ u.rows = t.rows
        /\ \A f \in Kinds : u[f] = t[f] \/ u[f] = 0
        /\ u.hovered = t.hovered /\ u.copied = t.copied
    BY <1>1, <2>1 DEF Fields, Kinds
  <2>. QED
    BY <1>2, <2>1, <2>2
<1>4. Whole([t EXCEPT !.tool = 0, !.phase = phase], k, r, c)
  <2>1. PICK u : u = [t EXCEPT !.tool = 0, !.phase = phase]
    OBVIOUS
  <2>2. /\ DOMAIN u = Fields /\ u.phase = phase /\ u.rows = t.rows
        /\ \A f \in Kinds : u[f] = t[f] \/ u[f] = 0
        /\ u.hovered = t.hovered /\ u.copied = t.copied
    BY <1>1, <2>1 DEF Fields, Kinds
  <2>. QED
    BY <1>2, <2>1, <2>2
<1>5. Whole([t EXCEPT !.phase = phase, !.tool = 0], k, r, c)
  <2>1. PICK u : u = [t EXCEPT !.phase = phase, !.tool = 0]
    OBVIOUS
  <2>2. /\ DOMAIN u = Fields /\ u.phase = phase /\ u.rows = t.rows
        /\ \A f \in Kinds : u[f] = t[f] \/ u[f] = 0
        /\ u.hovered = t.hovered /\ u.copied = t.copied
    BY <1>1, <2>1 DEF Fields, Kinds
  <2>. QED
    BY <1>2, <2>1, <2>2
<1>6. ASSUME NEW g \in Kinds PROVE Whole([t EXCEPT ![g] = 0], k, r, c)
  <2>1. PICK u : u = [t EXCEPT ![g] = 0]
    OBVIOUS
  <2>2. /\ DOMAIN u = Fields /\ u.phase = t.phase /\ u.rows = t.rows
        /\ \A f \in Kinds : u[f] = t[f] \/ u[f] = 0
        /\ u.hovered = t.hovered /\ u.copied = t.copied
    BY <1>1, <2>1 DEF Fields, Kinds
  <2>. QED
    BY <1>1, <1>2, <2>1, <2>2
<1>. QED
  BY <1>3, <1>4, <1>5, <1>6 DEF Kinds

\* More events may have passed than the transcript tells of.
LEMMA Later ==
  ASSUME NEW t, NEW k, NEW r, NEW c, Whole(t, k, r, c), NEW m \in Nat, k <= m
  PROVE  Whole(t, m, r, c) /\ Whole(t, m, 0, c)
<1>1. /\ DOMAIN t = Fields /\ t.phase \in Transcript!Phases
      /\ \A f \in Kinds : t[f] = t[f] \/ t[f] = 0
  BY DEF Whole
<1>2. Whole(t, m, r, c)
  BY <1>1, Forgotten
<1>3. ActiveAfter(t.rows, t.assistant, 0)
  <2>1. SUFFICES ASSUME t.assistant # 0 PROVE End(t.rows[t.assistant]) > 0
    BY DEF ActiveAfter
  <2>2. ActiveAfter(t.rows, t.assistant, r) /\ Names(t.rows, t["assistant"], {"assistant"}) /\ r \in Nat /\ m \in Nat
    BY <1>2 DEF Whole, PositionsInv, Kinds
  <2>3. t.assistant \in 1..Len(t.rows) /\ t.rows[t.assistant].role = "assistant" /\ End(t.rows[t.assistant]) > r
    BY <2>1, <2>2 DEF Names, ActiveAfter
  <2>4. End(t.rows[t.assistant]) \in Nat
    <3>1. RowsInv(t.rows, m) /\ "assistant" \in Read
      BY <1>2 DEF Whole, Read, Speech
    <3>. QED
      BY <2>3, <3>1, RowsAre
  <2>. QED
    BY <2>2, <2>3, <2>4
<1>. QED
  BY <1>2, <1>3 DEF Whole, PositionsInv

\* A message is pushed; a position of its kind may be set to it.
LEMMA PushMessageKeeps ==
  ASSUME NEW t, NEW k, NEW r, NEW c, Whole(t, k, r, c),
         NEW role \in Transcript!Roles, NEW id \in Nat, k < id, role \in Read => t.tool = 0
  PROVE  LET u == Transcript!PushMessage(t, role, <<id>>) IN Whole(u, id, r, c) /\ u.tool = t.tool
<1>1. PICK u : u = Transcript!PushMessage(t, role, <<id>>)
  OBVIOUS
<1>2. k \in Nat /\ DOMAIN t = Fields /\ t.phase \in Transcript!Phases
  BY DEF Whole
<1>3. /\ DOMAIN u = Fields /\ u.phase = t.phase
      /\ u.rows = Append(t.rows, Transcript!Row(role, <<id>>))
      /\ \A f \in Kinds : u[f] = t[f]
      /\ u.hovered = t.hovered /\ u.copied = t.copied /\ u.tool = t.tool
  BY <1>1, <1>2 DEF Fields, Kinds, Transcript!PushMessage
<1>4. Whole(u, id, r, c)
  BY <1>2, <1>3, Pushed
<1>. QED
  BY <1>1, <1>3, <1>4

Remembered(t, role, parts) ==
  LET p == Transcript!PushMessage(t, role, parts) IN [p EXCEPT ![role] = Len(p.rows)]

LEMMA PushedAndRemembered ==
  ASSUME NEW t, NEW k, NEW r, NEW c, Whole(t, k, r, c), NEW m \in Nat, k <= m,
         NEW role \in Kinds, NEW parts, NEW id \in Nat,
         (parts = <<>> /\ role \notin Read) \/ (parts = <<id>> /\ k < id /\ id <= m),
         role = "assistant" => t.tool = 0,
         NEW u, u = Remembered(t, role, parts)
  PROVE  /\ Whole(u, m, r, c) /\ u[role] = Len(t.rows) + 1 /\ u[role] \in 1..Len(u.rows)
         /\ u.rows[u[role]].role = role
         /\ role # "tool" => u.tool = t.tool
<1>1. k \in Nat /\ DOMAIN t = Fields /\ t.phase \in Transcript!Phases
  BY DEF Whole
<1>2. PICK p : p = Transcript!PushMessage(t, role, parts)
  OBVIOUS
<1>3. /\ DOMAIN p = Fields /\ p.phase = t.phase
      /\ p.rows = Append(t.rows, Transcript!Row(role, parts))
      /\ \A f \in Kinds : p[f] = t[f]
      /\ p.hovered = t.hovered /\ p.copied = t.copied
  BY <1>1, <1>2 DEF Fields, Kinds, Transcript!PushMessage
<1>4. Len(p.rows) = Len(t.rows) + 1 /\ Len(t.rows) \in Nat /\ p.rows[Len(t.rows) + 1] = Transcript!Row(role, parts)
  <2>1. t.rows \in Rows
    BY DEF Whole, RowsInv
  <2>2. Transcript!Row(role, parts) \in RowSet
    <3>1. parts \in Seq(Nat)
      <4>1. CASE parts = <<>>
        BY <4>1, EmptySeq
      <4>2. CASE parts = <<id>>
        BY <4>2
      <4>. QED
        BY <4>1, <4>2
    <3>. QED
      BY <3>1 DEF Transcript!Row, RowSet, Kinds, Transcript!Roles
  <2>. QED
    BY <1>3, <2>1, <2>2, AppendProperties DEF Rows, RowSet
<1>5. u = [p EXCEPT ![role] = Len(p.rows)]
  BY <1>2 DEF Remembered
<1>6. /\ DOMAIN u = Fields /\ u.phase = t.phase /\ u.rows = p.rows /\ u[role] = Len(t.rows) + 1
      /\ \A f \in Kinds : f # role => u[f] = t[f]
      /\ u.hovered = t.hovered /\ u.copied = t.copied
  BY <1>3, <1>4, <1>5 DEF Fields, Kinds
<1>7. /\ role # "tool" => u.tool = t.tool
      /\ role \in Read => u.tool \in {0, Len(t.rows) + 1}
      /\ role \in Transcript!Roles
  BY <1>6 DEF Kinds, Read, Speech, Transcript!Roles
<1>8. Whole(u, m, r, c)
  <2>1. u.phase \in Transcript!Phases /\ u.rows = Append(t.rows, Transcript!Row(role, parts))
    BY <1>1, <1>3, <1>6
  <2>2. \A f \in Kinds : u[f] = t[f] \/ u[f] = 0 \/ (f = role /\ u[f] = Len(t.rows) + 1)
    BY <1>6
  <2>. QED
    BY <1>6, <1>7, <2>1, <2>2, Pushed
<1>9. Len(t.rows) + 1 \in 1..Len(u.rows) /\ u.rows[Len(t.rows) + 1].role = role
  BY <1>4, <1>6 DEF Transcript!Row
<1>. QED
  BY <1>6, <1>7, <1>8, <1>9

\* A row is extended; a position of its kind may be set to it or forgotten.
LEMMA AddedTo ==
  ASSUME NEW t, DOMAIN t = Fields, NEW i \in 1..Len(t.rows), NEW id,
         NEW u, u = Transcript!AddTo(t, i, id)
  PROVE  /\ DOMAIN u = Fields /\ u.rows = Lengthened(t.rows, i, id)
         /\ \A f \in Fields : f # "rows" => u[f] = t[f]
  BY DEF Fields, Transcript!AddTo, Lengthened

LEMMA AddToKeeps ==
  ASSUME NEW t, NEW k, NEW r, NEW c, Whole(t, k, r, c), NEW id \in Nat, k < id,
         NEW i \in 1..Len(t.rows), t.rows[i].role \in Read => t.tool \in {0, i} /\ ReadEnds(t.rows, i)
  PROVE  LET u == Transcript!AddTo(t, i, id) IN Whole(u, id, r, c) /\ u.tool = t.tool
<1>1. k \in Nat /\ DOMAIN t = Fields /\ t.phase \in Transcript!Phases
  BY DEF Whole
<1>2. PICK u : u = Transcript!AddTo(t, i, id)
  OBVIOUS
<1>3. /\ DOMAIN u = Fields /\ u.rows = Lengthened(t.rows, i, id)
      /\ \A f \in Fields : f # "rows" => u[f] = t[f]
  BY <1>1, <1>2, AddedTo
<1>4. /\ u.phase = t.phase /\ u.hovered = t.hovered /\ u.copied = t.copied /\ u.tool = t.tool
      /\ \A f \in Kinds : u[f] = t[f]
  BY <1>3 DEF Fields, Kinds
<1>5. Whole(u, id, r, c)
  BY <1>1, <1>3, <1>4, Extended
<1>. QED
  BY <1>2, <1>4, <1>5

Continued(t, i, id, role, x) == [Transcript!AddTo(t, i, id) EXCEPT ![role] = x]

LEMMA AddedAndRemembered ==
  ASSUME NEW t, NEW k, NEW r, NEW c, Whole(t, k, r, c), NEW id \in Nat, k < id,
         NEW i \in 1..Len(t.rows), NEW role \in Kinds, t.rows[i].role = role,
         role = "assistant" => t.tool = 0,
         role \in Read => ReadEnds(t.rows, i), NEW x \in {0, i},
         NEW u, u = Continued(t, i, id, role, x)
  PROVE  /\ Whole(u, id, r, c) /\ u[role] = x
         /\ role # "tool" => u.tool = t.tool
<1>1. k \in Nat /\ DOMAIN t = Fields /\ t.phase \in Transcript!Phases
  BY DEF Whole
<1>2. PICK p : p = Transcript!AddTo(t, i, id)
  OBVIOUS
<1>3. /\ DOMAIN p = Fields /\ p.rows = Lengthened(t.rows, i, id)
      /\ \A f \in Fields : f # "rows" => p[f] = t[f]
  BY <1>1, <1>2, AddedTo
<1>4. /\ DOMAIN u = Fields /\ u.rows = Lengthened(t.rows, i, id) /\ u.phase = t.phase
      /\ u.hovered = t.hovered /\ u.copied = t.copied /\ u[role] = x
      /\ \A f \in Kinds : f # role => u[f] = t[f]
  BY <1>2, <1>3 DEF Fields, Kinds, Continued
<1>5. role # "tool" => u.tool = t.tool
  BY <1>4 DEF Kinds
<1>6. role \in Read => u.tool \in {0, i}
  BY <1>4, <1>5 DEF Kinds, Read, Speech
<1>7. Whole(u, id, r, c)
  <2>1. u.phase \in Transcript!Phases /\ id <= id
    BY <1>1, <1>4
  <2>2. \A f \in Kinds : u[f] = t[f] \/ u[f] = 0 \/ (f = t.rows[i].role /\ u[f] = i)
    BY <1>4
  <2>3. t.rows[i].role \in Read => u.tool \in {0, i} /\ ReadEnds(t.rows, i)
    BY <1>6
  <2>. QED
    BY <1>4, <2>1, <2>2, <2>3, Extended
<1>. QED
  BY <1>4, <1>5, <1>7

\* Reasoning ends: its row goes when nothing was put in it.
LEMMA FinishReasoningKeeps ==
  ASSUME NEW t, NEW k, NEW r, NEW c, Whole(t, k, r, c)
  PROVE  LET u == Transcript!FinishReasoning(t) IN Whole(u, k, r, c) /\ (t.tool = 0 => u.tool = 0)
<1>1. k \in Nat /\ DOMAIN t = Fields /\ t.phase \in Transcript!Phases
  BY DEF Whole
<1>2. PICK done : done = [t EXCEPT !.reasoning = 0]
  OBVIOUS
<1>3. Whole(done, k, r, c)
  BY <1>1, <1>2, PhaseChanged
<1>4. /\ DOMAIN done = Fields /\ done.rows = t.rows /\ done.phase = t.phase
      /\ \A f \in Kinds \ {"reasoning"} : done[f] = t[f]
      /\ done.reasoning = 0 /\ done.hovered = t.hovered /\ done.copied = t.copied
      /\ done.tool = t.tool /\ done.compaction = t.compaction /\ done.connection = t.connection
      /\ done.assistant = t.assistant
  BY <1>1, <1>2 DEF Fields, Kinds
<1>5. CASE Transcript!IsRow(t, t.reasoning, "reasoning") /\ t.rows[t.reasoning].parts = <<>>
  <2>1. PICK i : i = t.reasoning
    OBVIOUS
  <2>2. i \in 1..Len(t.rows) /\ t.rows[i].role = "reasoning" /\ Len(t.rows) \in Nat
    <3>1. t.rows \in Seq(RowSet)
      BY DEF Whole, RowsInv, Rows, RowSet
    <3>. QED
      BY <1>5, <2>1, <3>1 DEF Transcript!IsRow
  <2>3. PICK u : u = Transcript!RemoveMessage(done, i)
    OBVIOUS
  <2>4. u = Transcript!FinishReasoning(t)
    BY <1>2, <1>5, <2>1, <2>3 DEF Transcript!FinishReasoning
  <2>5. /\ DOMAIN u = Fields /\ u.rows = Transcript!RemoveAt(t.rows, i) /\ u.phase = t.phase
        /\ u.tool = Transcript!AdjustRemovedIndex(t.tool, i)
        /\ u.compaction = Transcript!AdjustRemovedIndex(t.compaction, i)
        /\ u.connection = Transcript!AdjustRemovedIndex(t.connection, i)
        /\ u.assistant = Transcript!AdjustRemovedIndex(t.assistant, i)
        /\ u.reasoning = Transcript!AdjustRemovedIndex(0, i)
        /\ u.hovered = Transcript!AdjustRemovedIndex(t.hovered, i)
        /\ u.copied = Transcript!AdjustRemovedIndex(t.copied, i)
    BY <1>4, <2>3 DEF Fields, Kinds, Transcript!RemoveMessage
  <2>6. u.reasoning = 0
    BY <2>2, <2>5 DEF Transcript!AdjustRemovedIndex
  <2>7. Adjusted(t, u, i)
    BY <2>5, <2>6 DEF Adjusted, Kinds
  <2>8. Whole(u, k, r, c) /\ (t.tool = 0 => u.tool = 0)
    BY <1>1, <2>2, <2>5, <2>7, ReasoningRemoved
  <2>. QED
    BY <2>4, <2>8
<1>6. CASE ~(Transcript!IsRow(t, t.reasoning, "reasoning") /\ t.rows[t.reasoning].parts = <<>>)
  BY <1>2, <1>3, <1>4, <1>6 DEF Transcript!FinishReasoning
<1>. QED
  BY <1>5, <1>6

LEMMA InterruptKeeps ==
  ASSUME NEW t, NEW k, NEW r, NEW c, Whole(t, k, r, c)
  PROVE  LET u == Transcript!Interrupt(t) IN Whole(u, k, r, c) /\ u.tool = 0
<1>1. PICK s : s = [t EXCEPT !.tool = 0]
  OBVIOUS
<1>2. Whole(s, k, r, c)
  <2>1. t.phase \in Transcript!Phases
    BY DEF Whole
  <2>. QED
    BY <1>1, <2>1, PhaseChanged
<1>3. s.tool = 0
  <2>1. DOMAIN t = Fields
    BY DEF Whole
  <2>. QED
    BY <1>1, <2>1 DEF Fields, Kinds
<1>. QED
  BY <1>1, <1>2, <1>3, FinishReasoningKeeps DEF Transcript!Interrupt

\* A row of reasoning is there to take a summary.
LEMMA StartReasoningKeeps ==
  ASSUME NEW t, NEW k, NEW r, NEW c, Whole(t, k, r, c)
  PROVE  LET u == Transcript!StartReasoning(t) IN
         /\ Whole(u, k, r, c) /\ u.tool = t.tool
         /\ u.reasoning \in 1..Len(u.rows) /\ u.rows[u.reasoning].role = "reasoning"
<1>1. k \in Nat /\ k <= k /\ t.rows \in Seq(RowSet)
  BY DEF Whole, RowsInv, Rows, RowSet
<1>2. CASE Transcript!IsRow(t, t.reasoning, "reasoning")
  <2>1. Transcript!StartReasoning(t) = t
    BY <1>2 DEF Transcript!StartReasoning
  <2>2. t.reasoning \in 1..Len(t.rows) /\ t.rows[t.reasoning].role = "reasoning"
    BY <1>1, <1>2 DEF Transcript!IsRow
  <2>. QED
    BY <2>1, <2>2
<1>3. CASE ~Transcript!IsRow(t, t.reasoning, "reasoning")
  <2>1. PICK u : u = Transcript!StartReasoning(t)
    OBVIOUS
  <2>2. u = Remembered(t, "reasoning", <<>>)
    BY <1>3, <2>1 DEF Transcript!StartReasoning, Remembered
  <2>3. "reasoning" \in Kinds /\ "reasoning" \notin Read /\ "reasoning" # "assistant" /\ "reasoning" # "tool"
    BY DEF Kinds, Read, Speech
  <2>4. PICK role, parts : role = "reasoning" /\ parts = <<>>
    OBVIOUS
  <2>5. /\ Whole(u, k, r, c) /\ u[role] \in 1..Len(u.rows)
        /\ u.rows[u[role]].role = role /\ u.tool = t.tool
    BY <1>1, <2>2, <2>3, <2>4, PushedAndRemembered
  <2>. QED
    BY <2>1, <2>4, <2>5
<1>. QED
  BY <1>2, <1>3

LEMMA AppendSummaryKeeps ==
  ASSUME NEW t, NEW k, NEW r, NEW c, Whole(t, k, r, c), NEW id \in Nat, k < id
  PROVE  LET u == Transcript!AppendSummary(t, id) IN Whole(u, id, r, c) /\ u.tool = t.tool
<1>1. PICK s, i : s = Transcript!StartReasoning(t) /\ i = s.reasoning
  OBVIOUS
<1>2. Whole(s, k, r, c) /\ s.tool = t.tool /\ i \in 1..Len(s.rows) /\ s.rows[i].role = "reasoning"
  BY <1>1, StartReasoningKeeps
<1>3. "reasoning" \notin Read
  BY DEF Read, Speech
<1>4. LET u == Transcript!AddTo(s, i, id) IN Whole(u, id, r, c) /\ u.tool = s.tool
  BY <1>2, <1>3, AddToKeeps
<1>. QED
  BY <1>1, <1>2, <1>4 DEF Transcript!AppendSummary

LEMMA ReasoningStartKeeps ==
  ASSUME NEW t, NEW k, NEW r, NEW c, Whole(t, k, r, c)
  PROVE  LET u == Transcript!ReasoningStart(t) IN Whole(u, k, r, c) /\ u.tool = t.tool
<1>1. PICK s : s = [t EXCEPT !.phase = "thinking"]
  OBVIOUS
<1>2. Whole(s, k, r, c)
  BY <1>1, PhaseChanged DEF Transcript!Phases
<1>3. s.tool = t.tool
  <2>1. DOMAIN t = Fields
    BY DEF Whole
  <2>. QED
    BY <1>1, <2>1 DEF Fields, Kinds
<1>. QED
  BY <1>1, <1>2, <1>3, StartReasoningKeeps DEF Transcript!ReasoningStart

LEMMA ReasoningSummaryKeeps ==
  ASSUME NEW t, NEW k, NEW r, NEW c, Whole(t, k, r, c), NEW id \in Nat, k < id
  PROVE  LET u == Transcript!ReasoningSummary(t, id) IN Whole(u, id, r, c) /\ u.tool = t.tool
<1>1. PICK s : s = [t EXCEPT !.phase = "thinking"]
  OBVIOUS
<1>2. Whole(s, k, r, c)
  BY <1>1, PhaseChanged DEF Transcript!Phases
<1>3. s.tool = t.tool
  <2>1. DOMAIN t = Fields
    BY DEF Whole
  <2>. QED
    BY <1>1, <2>1 DEF Fields, Kinds
<1>. QED
  BY <1>1, <1>2, <1>3, AppendSummaryKeeps DEF Transcript!ReasoningSummary

\* A request is made: it becomes the one that the answer is to come after.
LEMMA RequestStartKeeps ==
  ASSUME NEW t, NEW k, NEW r, NEW c, Whole(t, k, r, c), NEW m \in Nat, k <= m, NEW s \in 0..m
  PROVE  LET u == Transcript!RequestStart(t) IN Whole(u, m, s, c) /\ u.tool = t.tool
<1>1. DOMAIN t = Fields
  BY DEF Whole
<1>2. PICK u : u = Transcript!RequestStart(t)
  OBVIOUS
<1>3. /\ DOMAIN u = Fields /\ u.phase \in Transcript!Phases /\ u.rows = t.rows
      /\ \A f \in Kinds : u[f] = t[f] \/ u[f] = 0
      /\ u.hovered = t.hovered /\ u.copied = t.copied /\ u.assistant = 0 /\ u.tool = t.tool
  BY <1>1, <1>2 DEF Transcript!RequestStart, Fields, Kinds, Transcript!Phases
<1>4. Whole(u, m, s, c)
  BY <1>3, Forgotten
<1>. QED
  BY <1>2, <1>3, <1>4

LEMMA AssistantKeeps ==
  ASSUME NEW t, NEW k, NEW r, NEW c, Whole(t, k, r, c), NEW id \in Nat, k < id
  PROVE  LET u == Transcript!Assistant(t, id) IN Whole(u, id, r, c) /\ u.tool = 0
<1>1. PICK s : s = [t EXCEPT !.phase = "receiving"]
  OBVIOUS
<1>2. Whole(s, k, r, c)
  BY <1>1, PhaseChanged DEF Transcript!Phases
<1>3. PICK x : x = Transcript!Interrupt(s)
  OBVIOUS
<1>4. Whole(x, k, r, c) /\ x.tool = 0
  BY <1>2, <1>3, InterruptKeeps
<1>5. PICK role, parts, u : role = "assistant" /\ parts = <<id>> /\ u = Remembered(x, role, parts)
  OBVIOUS
<1>6. Transcript!Assistant(t, id) = u
  BY <1>1, <1>3, <1>5 DEF Transcript!Assistant, Remembered
<1>7. role \in Kinds /\ role # "tool" /\ k <= id /\ id <= id /\ k \in Nat
  BY <1>4, <1>5 DEF Kinds, Whole
<1>8. Whole(u, id, r, c) /\ u.tool = 0
  BY <1>4, <1>5, <1>7, PushedAndRemembered
<1>. QED
  BY <1>6, <1>8

LEMMA AssistantDeltaKeeps ==
  ASSUME NEW t, NEW k, NEW r, NEW c, Whole(t, k, r, c), NEW id \in Nat, k < id
  PROVE  LET u == Transcript!AssistantDelta(t, id) IN Whole(u, id, r, c) /\ u.tool = 0
<1>1. PICK s : s = [t EXCEPT !.phase = "receiving"]
  OBVIOUS
<1>2. Whole(s, k, r, c)
  BY <1>1, PhaseChanged DEF Transcript!Phases
<1>3. PICK x : x = Transcript!Interrupt(s)
  OBVIOUS
<1>4. Whole(x, k, r, c) /\ x.tool = 0 /\ x.rows \in Seq(RowSet) /\ DOMAIN x = Fields
  <2>1. Whole(x, k, r, c) /\ x.tool = 0
    BY <1>2, <1>3, InterruptKeeps
  <2>. QED
    BY <2>1 DEF Whole, RowsInv, Rows, RowSet
<1>5. PICK role, parts, u : role = "assistant" /\ parts = <<id>> /\ u = Transcript!AssistantDelta(t, id)
  OBVIOUS
<1>6. role \in Kinds /\ role # "tool" /\ k <= id /\ id <= id /\ k \in Nat
  BY <1>4, <1>5 DEF Kinds, Whole
<1>7. CASE Transcript!LastIs(x, "assistant")
  <2>1. PICK i : i = Len(x.rows)
    OBVIOUS
  <2>2. i \in 1..Len(x.rows) /\ x.rows[i].role = role /\ ReadEnds(x.rows, i)
    BY <1>4, <1>5, <1>7, <2>1 DEF Transcript!LastIs, Transcript!IsRow, ReadEnds
  <2>3. PICK p : p = Transcript!AddTo(x, i, id)
    OBVIOUS
  <2>4. Len(p.rows) = i
    <3>1. p.rows = Lengthened(x.rows, i, id)
      BY <1>4, <2>2, <2>3, AddedTo
    <3>. QED
      BY <1>4, <2>1, <3>1 DEF Lengthened
  <2>5. u = Continued(x, i, id, role, i)
    BY <1>1, <1>3, <1>5, <1>7, <2>1, <2>3, <2>4 DEF Transcript!AssistantDelta, Continued
  <2>6. Whole(u, id, r, c) /\ u.tool = x.tool
    <3>1. i \in {0, i}
      OBVIOUS
    <3>. QED
      BY <1>4, <1>6, <2>2, <2>5, <3>1, AddedAndRemembered
  <2>. QED
    BY <1>4, <1>5, <2>6
<1>8. CASE ~Transcript!LastIs(x, "assistant")
  <2>1. u = Remembered(x, role, parts)
    BY <1>1, <1>3, <1>5, <1>8 DEF Transcript!AssistantDelta, Remembered
  <2>2. Whole(u, id, r, c) /\ u.tool = 0
    BY <1>4, <1>5, <1>6, <2>1, PushedAndRemembered
  <2>. QED
    BY <1>5, <2>2
<1>. QED
  BY <1>7, <1>8

\* The figures of a request come under the active answer.
LEMMA ResponseCompleteKeeps ==
  ASSUME NEW t, NEW k, NEW r, NEW c, Whole(t, k, r, c), NEW request \in Nat, request <= r
  PROVE  LET u == Transcript!ResponseComplete(t, request) IN
         Whole(u, k, r, c) /\ u.tool = t.tool /\ u.assistant = 0
<1>1. /\ k \in Nat /\ r \in 0..k /\ DOMAIN t = Fields /\ t.phase \in Transcript!Phases
      /\ t.rows \in Seq(RowSet) /\ Len(t.rows) \in Nat /\ RowsInv(t.rows, k)
      /\ PositionsInv(t, r, c)
  BY DEF Whole, RowsInv, Rows, RowSet
<1>2. PICK u : u = Transcript!ResponseComplete(t, request)
  OBVIOUS
<1>3. CASE Transcript!IsRow(t, t.assistant, "assistant")
  <2>1. PICK i : i = t.assistant
    OBVIOUS
  <2>2. i \in 1..Len(t.rows) /\ t.rows[i].role = "assistant" /\ i # 0
    BY <1>1, <1>3, <2>1 DEF Transcript!IsRow
  <2>3. End(t.rows[i]) > request
    <3>1. End(t.rows[i]) > r
      BY <1>1, <2>1, <2>2 DEF PositionsInv, ActiveAfter
    <3>2. End(t.rows[i]) \in Nat /\ r \in Nat
      BY <1>1, <2>2, RowsAre DEF Read, Speech
    <3>. QED
      BY <3>1, <3>2
  <2>4. /\ DOMAIN u = Fields /\ u.phase = t.phase /\ u.rows = WithStats(t.rows, i, request)
        /\ \A f \in Kinds : u[f] = t[f] \/ u[f] = 0
        /\ u.hovered = t.hovered /\ u.copied = t.copied /\ u.assistant = 0 /\ u.tool = t.tool
    BY <1>1, <1>2, <1>3, <2>1 DEF Transcript!ResponseComplete, WithStats, Fields, Kinds
  <2>5. RowsInv(u.rows, k) /\ SameText(t.rows, u.rows)
    BY <1>1, <2>2, <2>3, <2>4, RowFigured
  <2>6. Kept(t, u)
    <3>1. ASSUME NEW j \in 1..Len(t.rows), t.rows[j].role \in Speech PROVE End(t.rows[j]) \in Nat
      BY <1>1, <3>1, RowsAre DEF Read
    <3>. QED
      BY <1>1, <2>5, <3>1 DEF Kept, SameText, End
  <2>7. ToolsLast(u.rows, u.tool) /\ ActiveAfter(u.rows, u.assistant, r)
    <3>1. ToolsLast(t.rows, t.tool)
      BY <1>1 DEF PositionsInv
    <3>. QED
      BY <2>4, <2>5, <3>1 DEF ToolsLast, SameText, ActiveAfter
  <2>8. \A f \in Kinds : u[f] = t[f] \/ Names(u.rows, u[f], {f})
    BY <2>4 DEF Names
  <2>9. Whole(u, k, r, c)
    <3>1. k <= k /\ u.phase \in Transcript!Phases
      BY <1>1, <2>4
    <3>. QED
      BY <1>1, <2>4, <2>5, <2>6, <2>7, <2>8, <3>1, PositionsFollow
  <2>. QED
    BY <1>2, <2>4, <2>9
<1>4. CASE ~Transcript!IsRow(t, t.assistant, "assistant")
  <2>1. /\ DOMAIN u = Fields /\ u.phase = t.phase /\ u.rows = t.rows
        /\ \A f \in Kinds : u[f] = t[f] \/ u[f] = 0
        /\ u.hovered = t.hovered /\ u.copied = t.copied /\ u.assistant = 0 /\ u.tool = t.tool
    BY <1>1, <1>2, <1>4 DEF Transcript!ResponseComplete, Fields, Kinds
  <2>2. Whole(u, k, r, c)
    BY <1>1, <2>1, Forgotten
  <2>. QED
    BY <1>2, <2>1, <2>2
<1>. QED
  BY <1>3, <1>4

LEMMA CompactionStartKeeps ==
  ASSUME NEW t, NEW k, NEW r, NEW c, Whole(t, k, r, c), NEW id \in Nat, k < id
  PROVE  LET u == Transcript!CompactionStart(t, id) IN Whole(u, id, r, c) /\ u.tool = 0
<1>1. PICK s : s = [t EXCEPT !.tool = 0, !.phase = "compacting"]
  OBVIOUS
<1>2. Whole(s, k, r, c) /\ DOMAIN t = Fields /\ k \in Nat
  <2>1. Whole(s, k, r, c)
    BY <1>1, PhaseChanged DEF Transcript!Phases
  <2>. QED
    BY <2>1 DEF Whole
<1>3. s.tool = 0
  BY <1>1, <1>2 DEF Fields, Kinds
<1>4. PICK role, parts, u : role = "compaction" /\ parts = <<id>> /\ u = Remembered(s, role, parts)
  OBVIOUS
<1>5. Transcript!CompactionStart(t, id) = u
  BY <1>1, <1>4 DEF Transcript!CompactionStart, Remembered
<1>6. role \in Kinds /\ role # "tool" /\ k <= id /\ id <= id
  BY <1>2, <1>4 DEF Kinds
<1>7. Whole(u, id, r, c) /\ u.tool = 0
  BY <1>2, <1>3, <1>4, <1>6, PushedAndRemembered
<1>. QED
  BY <1>5, <1>7

LEMMA CompactionFinishKeeps ==
  ASSUME NEW t, NEW k, NEW r, NEW c, Whole(t, k, r, c), NEW id \in Nat, k < id
  PROVE  LET u == Transcript!CompactionFinish(t, id) IN Whole(u, id, r, c) /\ u.tool = t.tool
<1>1. PICK s : s = [t EXCEPT !.phase = IF t.phase = "tools" THEN t.phase ELSE "thinking"]
  OBVIOUS
<1>2. /\ Whole(s, k, r, c) /\ s.tool = t.tool /\ s.rows \in Seq(RowSet) /\ DOMAIN s = Fields
      /\ k \in Nat /\ s.phase \in Transcript!Phases
  <2>1. PICK phase : phase = IF t.phase = "tools" THEN t.phase ELSE "thinking"
    OBVIOUS
  <2>2. phase \in Transcript!Phases
    BY <2>1 DEF Transcript!Phases
  <2>3. Whole(s, k, r, c)
    BY <1>1, <2>1, <2>2, PhaseChanged
  <2>4. s.tool = t.tool
    <3>1. DOMAIN t = Fields
      BY DEF Whole
    <3>. QED
      BY <1>1, <3>1 DEF Fields, Kinds
  <2>. QED
    BY <2>3, <2>4 DEF Whole, RowsInv, Rows, RowSet
<1>3. PICK u : u = Transcript!CompactionFinish(t, id)
  OBVIOUS
<1>4. CASE Transcript!IsRow(s, s.compaction, "compaction")
  <2>1. PICK i, role : i = s.compaction /\ role = "compaction"
    OBVIOUS
  <2>2. i \in 1..Len(s.rows) /\ s.rows[i].role = role
    BY <1>2, <1>4, <2>1 DEF Transcript!IsRow
  <2>3. u = Continued(s, i, id, role, 0)
    BY <1>1, <1>3, <1>4, <2>1 DEF Transcript!CompactionFinish, Continued
  <2>4. role \in Kinds /\ role # "assistant" /\ role # "tool" /\ role \notin Read /\ 0 \in {0, i}
    BY <2>1 DEF Kinds, Read, Speech
  <2>5. Whole(u, id, r, c) /\ u.tool = s.tool
    BY <1>2, <2>2, <2>3, <2>4, AddedAndRemembered
  <2>. QED
    BY <1>2, <1>3, <2>5
<1>5. CASE ~Transcript!IsRow(s, s.compaction, "compaction")
  <2>1. PICK p : p = Transcript!PushMessage(s, "compaction", <<id>>)
    OBVIOUS
  <2>2. "compaction" \in Transcript!Roles /\ "compaction" \notin Read
    BY DEF Transcript!Roles, Read, Speech
  <2>3. Whole(p, id, r, c) /\ p.tool = s.tool
    BY <1>2, <2>1, <2>2, PushMessageKeeps
  <2>4. u = [p EXCEPT !.compaction = 0]
    BY <1>1, <1>3, <1>5, <2>1 DEF Transcript!CompactionFinish
  <2>5. Whole(u, id, r, c)
    BY <2>3, <2>4, <1>2, PhaseChanged
  <2>6. u.tool = p.tool
    <3>1. DOMAIN p = Fields
      BY <2>3 DEF Whole
    <3>. QED
      BY <2>4, <3>1 DEF Fields, Kinds
  <2>. QED
    BY <1>2, <1>3, <2>3, <2>5, <2>6
<1>. QED
  BY <1>4, <1>5

LEMMA ToolBatchStartKeeps ==
  ASSUME NEW t, NEW k, NEW r, NEW c, Whole(t, k, r, c), NEW id \in Nat, k < id
  PROVE  Whole(Transcript!ToolBatchStart(t, id), id, r, c)
<1>1. PICK s : s = [Transcript!FinishReasoning(t) EXCEPT !.phase = "tools"]
  OBVIOUS
<1>2. Whole(s, k, r, c) /\ s.rows \in Seq(RowSet) /\ DOMAIN s = Fields /\ k \in Nat
  <2>1. PICK x, phase : x = Transcript!FinishReasoning(t) /\ phase = "tools"
    OBVIOUS
  <2>2. Whole(x, k, r, c) /\ phase \in Transcript!Phases
    BY <2>1, FinishReasoningKeeps DEF Transcript!Phases
  <2>3. Whole(s, k, r, c)
    BY <1>1, <2>1, <2>2, PhaseChanged
  <2>. QED
    BY <2>3 DEF Whole, RowsInv, Rows, RowSet
<1>3. PICK role, parts, u : role = "tool" /\ parts = <<id>> /\ u = Transcript!ToolBatchStart(t, id)
  OBVIOUS
<1>4. role \in Kinds /\ role # "assistant" /\ k <= id /\ id <= id
  BY <1>2, <1>3 DEF Kinds
<1>5. CASE Transcript!LastIs(s, "tool")
  <2>1. PICK i : i = Len(s.rows)
    OBVIOUS
  <2>2. i \in 1..Len(s.rows) /\ s.rows[i].role = role /\ ReadEnds(s.rows, i)
    BY <1>2, <1>3, <1>5, <2>1 DEF Transcript!LastIs, Transcript!IsRow, ReadEnds
  <2>3. PICK p : p = Transcript!AddTo(s, i, id)
    OBVIOUS
  <2>4. Len(p.rows) = i
    <3>1. p.rows = Lengthened(s.rows, i, id)
      BY <1>2, <2>2, <2>3, AddedTo
    <3>. QED
      BY <1>2, <2>1, <3>1 DEF Lengthened
  <2>5. u = Continued(s, i, id, role, i)
    BY <1>1, <1>3, <1>5, <2>1, <2>3, <2>4 DEF Transcript!ToolBatchStart, Continued
  <2>6. Whole(u, id, r, c)
    <3>1. i \in {0, i}
      OBVIOUS
    <3>. QED
      BY <1>2, <1>4, <2>2, <2>5, <3>1, AddedAndRemembered
  <2>. QED
    BY <1>3, <2>6
<1>6. CASE ~Transcript!LastIs(s, "tool")
  <2>1. u = Remembered(s, role, parts)
    BY <1>1, <1>3, <1>6 DEF Transcript!ToolBatchStart, Remembered
  <2>2. Whole(u, id, r, c)
    BY <1>2, <1>3, <1>4, <2>1, PushedAndRemembered
  <2>. QED
    BY <1>3, <2>2
<1>. QED
  BY <1>5, <1>6

LEMMA ToolLineKeeps ==
  ASSUME NEW t, NEW k, NEW r, NEW c, Whole(t, k, r, c), NEW id \in Nat, k < id
  PROVE  Whole(Transcript!ToolLine(t, id), id, r, c)
<1>1. PICK s : s = [t EXCEPT !.phase = "tools"]
  OBVIOUS
<1>2. Whole(s, k, r, c) /\ s.rows \in Seq(RowSet) /\ k \in Nat /\ ToolsLast(s.rows, s.tool)
  <2>1. Whole(s, k, r, c)
    BY <1>1, PhaseChanged DEF Transcript!Phases
  <2>. QED
    BY <2>1 DEF Whole, RowsInv, Rows, RowSet, PositionsInv
<1>3. PICK role, parts, u : role = "tool" /\ parts = <<id>> /\ u = Transcript!ToolLine(t, id)
  OBVIOUS
<1>4. CASE Transcript!IsRow(s, s.tool, "tool")
  <2>1. PICK i : i = s.tool
    OBVIOUS
  <2>2. i \in 1..Len(s.rows) /\ i # 0 /\ ReadEnds(s.rows, i)
    BY <1>2, <1>4, <2>1 DEF Transcript!IsRow, ToolsLast, ReadEnds
  <2>3. Whole(Transcript!AddTo(s, i, id), id, r, c)
    BY <1>2, <2>1, <2>2, AddToKeeps
  <2>. QED
    BY <1>1, <1>4, <2>1, <2>3 DEF Transcript!ToolLine
<1>5. CASE ~Transcript!IsRow(s, s.tool, "tool")
  <2>1. u = Remembered(s, role, parts)
    BY <1>1, <1>3, <1>5 DEF Transcript!ToolLine, Remembered
  <2>2. role \in Kinds /\ role # "assistant" /\ k <= id /\ id <= id
    BY <1>2, <1>3 DEF Kinds
  <2>3. Whole(u, id, r, c)
    BY <1>2, <1>3, <2>1, <2>2, PushedAndRemembered
  <2>. QED
    BY <1>3, <2>3
<1>. QED
  BY <1>4, <1>5

LEMMA TextReplaced ==
  ASSUME NEW old \in RowSet, NEW text \in Seq(Nat), NEW row, row = [old EXCEPT !.parts = text]
  PROVE  row \in RowSet /\ row.role = old.role /\ row.parts = text /\ row.stats = old.stats
  BY DEF RowSet

\* The row of the connection is there to take the number of the retry.
LEMMA ConnectionRetryKeeps ==
  ASSUME NEW t, NEW k, NEW r, NEW c, Whole(t, k, r, c), NEW id \in Nat, k < id
  PROVE  Whole(Transcript!ConnectionRetry(t, id), id, r, c)
<1>1. k \in Nat /\ k <= k /\ t.rows \in Seq(RowSet)
  BY DEF Whole, RowsInv, Rows, RowSet
<1>2. PICK s : s = IF Transcript!IsRow(t, t.connection, "connection") THEN t
                   ELSE Remembered(t, "connection", <<>>)
  OBVIOUS
<1>3. PICK i : i = s.connection
  OBVIOUS
<1>4. Whole(s, k, r, c) /\ i \in 1..Len(s.rows) /\ s.rows[i].role = "connection"
  <2>1. CASE Transcript!IsRow(t, t.connection, "connection")
    BY <1>1, <1>2, <1>3, <2>1 DEF Transcript!IsRow
  <2>2. CASE ~Transcript!IsRow(t, t.connection, "connection")
    <3>1. PICK role, parts : role = "connection" /\ parts = <<>>
      OBVIOUS
    <3>2. role \in Kinds /\ role # "assistant" /\ role \notin Read /\ s = Remembered(t, role, parts)
      BY <1>2, <2>2, <3>1 DEF Kinds, Read, Speech
    <3>3. /\ Whole(s, k, r, c) /\ s[role] \in 1..Len(s.rows)
          /\ s.rows[s[role]].role = role
      BY <1>1, <3>1, <3>2, PushedAndRemembered
    <3>. QED
      BY <1>3, <3>1, <3>3
  <2>. QED
    BY <2>1, <2>2
<1>5. PICK row : row = [s.rows[i] EXCEPT !.parts = <<id>>]
  OBVIOUS
<1>6. row \in RowSet /\ row.role = "connection" /\ row.parts = <<id>> /\ row.stats = 0
  <2>1. RowsInv(s.rows, k)
    BY <1>4 DEF Whole
  <2>2. PICK old : old = s.rows[i]
    OBVIOUS
  <2>3. old \in RowSet /\ (old.stats # 0 => old.role = "assistant") /\ old.role = "connection"
    BY <1>1, <1>4, <2>1, <2>2, RowsAre
  <2>4. old.stats = 0
    BY <2>3
  <2>5. PICK text \in Seq(Nat) : text = <<id>>
    <3>1. <<id>> \in Seq(Nat)
      OBVIOUS
    <3>. QED
      BY <3>1, Zenon
  <2>6. row = [old EXCEPT !.parts = text]
    BY <1>5, <2>2, <2>5
  <2>. QED
    BY <2>3, <2>4, <2>5, <2>6, TextReplaced
<1>7. PICK u : u = [s EXCEPT !.rows = [s.rows EXCEPT ![i] = row], !.phase = "thinking"]
  OBVIOUS
<1>8. Transcript!ConnectionRetry(t, id) = u
  BY <1>2, <1>3, <1>5, <1>7 DEF Transcript!ConnectionRetry, Remembered
<1>9. /\ DOMAIN u = Fields /\ u.phase \in Transcript!Phases
      /\ u.rows = [s.rows EXCEPT ![i] = row]
      /\ \A f \in Kinds : u[f] = s[f] \/ u[f] = 0
      /\ u.hovered = s.hovered /\ u.copied = s.copied
  <2>1. DOMAIN s = Fields
    BY <1>4 DEF Whole
  <2>. QED
    BY <1>7, <2>1 DEF Fields, Kinds, Transcript!Phases
<1>10. row.role \notin Read
  BY <1>6 DEF Read, Speech
<1>11. Whole(u, id, r, c)
  <2>1. id <= id
    OBVIOUS
  <2>. QED
    BY <1>4, <1>6, <1>9, <1>10, <2>1, Replaced
<1>. QED
  BY <1>8, <1>11

\* The row of the connection is taken for a note, and forgotten; without it a row is added.
LEMMA ConnectionIsARow ==
  ASSUME NEW t, NEW k, NEW r, NEW c, Whole(t, k, r, c), t.connection \in DOMAIN t.rows
  PROVE  t.connection \in 1..Len(t.rows) /\ t.rows[t.connection].role = "connection"
<1>1. t.rows \in Seq(RowSet) /\ Names(t.rows, t["connection"], {"connection"})
  BY DEF Whole, RowsInv, Rows, RowSet, PositionsInv, Kinds
<1>. QED
  BY <1>1 DEF Names

Taken(t, role, id) ==
  IF t.connection \in DOMAIN t.rows
  THEN [t EXCEPT !.rows[t.connection] = Transcript!Row(role, <<id>>), !.connection = 0]
  ELSE Transcript!PushMessage([t EXCEPT !.connection = 0], role, <<id>>)

LEMMA TakenKeeps ==
  ASSUME NEW t, NEW k, NEW r, NEW c, Whole(t, k, r, c), NEW id \in Nat, k < id,
         NEW role \in {"warning", "error"}
  PROVE  LET u == Taken(t, role, id) IN Whole(u, id, r, c) /\ u.tool = t.tool
<1>1. DOMAIN t = Fields /\ t.phase \in Transcript!Phases /\ k \in Nat
  BY DEF Whole
<1>2. role \in Transcript!Roles /\ role \notin Read
  BY DEF Transcript!Roles, Read, Speech
<1>3. PICK u : u = Taken(t, role, id)
  OBVIOUS
<1>4. CASE t.connection \in DOMAIN t.rows
  <2>1. PICK i, row : i = t.connection /\ row = Transcript!Row(role, <<id>>)
    OBVIOUS
  <2>2. i \in 1..Len(t.rows) /\ t.rows[i].role = "connection"
    BY <1>4, <2>1, ConnectionIsARow
  <2>3. row \in RowSet /\ row.role = role /\ row.parts = <<id>> /\ row.stats = 0
    BY <1>2, <2>1 DEF RowSet, Transcript!Row
  <2>4. /\ DOMAIN u = Fields /\ u.phase \in Transcript!Phases
        /\ u.rows = [t.rows EXCEPT ![i] = row]
        /\ \A f \in Kinds : u[f] = t[f] \/ u[f] = 0
        /\ u.hovered = t.hovered /\ u.copied = t.copied /\ u.connection = 0 /\ u.tool = t.tool
    BY <1>1, <1>3, <1>4, <2>1 DEF Taken, Fields, Kinds
  <2>5. Whole(u, id, r, c)
    <3>1. id <= id /\ row.role \notin Read
      BY <1>2, <2>3
    <3>. QED
      BY <2>2, <2>3, <2>4, <3>1, Replaced
  <2>. QED
    BY <1>3, <2>4, <2>5
<1>5. CASE t.connection \notin DOMAIN t.rows
  <2>1. PICK s : s = [t EXCEPT !.connection = 0]
    OBVIOUS
  <2>2. Whole(s, k, r, c) /\ s.tool = t.tool
    <3>1. Whole(s, k, r, c)
      BY <1>1, <2>1, PhaseChanged
    <3>2. s.tool = t.tool
      BY <1>1, <2>1 DEF Fields, Kinds
    <3>. QED
      BY <3>1, <3>2
  <2>3. LET v == Transcript!PushMessage(s, role, <<id>>) IN Whole(v, id, r, c) /\ v.tool = s.tool
    BY <1>2, <2>2, PushMessageKeeps
  <2>. QED
    BY <1>5, <2>1, <2>2, <2>3 DEF Taken
<1>. QED
  BY <1>4, <1>5

LEMMA TransportFallbackKeeps ==
  ASSUME NEW t, NEW k, NEW r, NEW c, Whole(t, k, r, c), NEW id \in Nat, k < id
  PROVE  Whole(Transcript!TransportFallback(t, id), id, r, c)
<1>1. Transcript!TransportFallback(t, id) = Taken(t, "warning", id)
  BY DEF Transcript!TransportFallback, Taken
<1>. QED
  BY <1>1, TakenKeeps

LEMMA PushErrorKeeps ==
  ASSUME NEW t, NEW k, NEW r, NEW c, Whole(t, k, r, c), NEW id \in Nat, k < id
  PROVE  LET u == Transcript!PushError(t, id) IN Whole(u, id, r, c) /\ u.tool = t.tool
<1>1. Transcript!PushError(t, id) = Taken(t, "error", id)
  BY DEF Transcript!PushError, Taken
<1>. QED
  BY <1>1, TakenKeeps

LEMMA ConnectionRecoveredKeeps ==
  ASSUME NEW t, NEW k, NEW r, NEW c, Whole(t, k, r, c), NEW id \in Nat, k < id
  PROVE  Whole(Transcript!ConnectionRecovered(t, id), id, r, c)
<1>1. DOMAIN t = Fields /\ t.phase \in Transcript!Phases /\ k \in Nat
  BY DEF Whole
<1>2. PICK u : u = Transcript!ConnectionRecovered(t, id)
  OBVIOUS
<1>3. CASE t.connection \in DOMAIN t.rows
  <2>1. PICK i : i = t.connection
    OBVIOUS
  <2>2. i \in 1..Len(t.rows) /\ t.rows[i].role = "connection"
    BY <1>3, <2>1, ConnectionIsARow
  <2>3. PICK row : row = [t.rows[i] EXCEPT !.parts = <<id>>]
    OBVIOUS
  <2>4. row \in RowSet /\ row.role = "connection" /\ row.parts = <<id>> /\ row.stats = 0
    <3>1. RowsInv(t.rows, k)
      BY DEF Whole
    <3>2. PICK old : old = t.rows[i]
      OBVIOUS
    <3>3. old \in RowSet /\ (old.stats # 0 => old.role = "assistant") /\ old.role = "connection"
      BY <1>1, <2>2, <3>1, <3>2, RowsAre
    <3>4. old.stats = 0
      BY <3>3
    <3>5. PICK text \in Seq(Nat) : text = <<id>>
      <4>1. <<id>> \in Seq(Nat)
        OBVIOUS
      <4>. QED
        BY <4>1, Zenon
    <3>6. row = [old EXCEPT !.parts = text]
      BY <2>3, <3>2, <3>5
    <3>. QED
      BY <3>3, <3>4, <3>5, <3>6, TextReplaced
  <2>5. /\ DOMAIN u = Fields /\ u.phase \in Transcript!Phases
        /\ u.rows = [t.rows EXCEPT ![i] = row]
        /\ \A f \in Kinds : u[f] = t[f] \/ u[f] = 0
        /\ u.hovered = t.hovered /\ u.copied = t.copied /\ u.connection = 0
    BY <1>1, <1>2, <1>3, <2>1, <2>3 DEF Transcript!ConnectionRecovered, Fields, Kinds
  <2>6. id <= id /\ row.role \notin Read
    BY <2>4 DEF Read, Speech
  <2>7. Whole(u, id, r, c)
    BY <2>2, <2>4, <2>5, <2>6, Replaced
  <2>. QED
    BY <1>2, <2>7
<1>4. CASE t.connection \notin DOMAIN t.rows
  <2>1. u = [t EXCEPT !.connection = 0]
    BY <1>2, <1>4 DEF Transcript!ConnectionRecovered
  <2>2. Whole(u, k, r, c)
    BY <1>1, <2>1, PhaseChanged
  <2>3. Whole(u, id, r, c)
    BY <1>1, <2>2, Later
  <2>. QED
    BY <1>2, <2>3
<1>. QED
  BY <1>3, <1>4

LEMMA NoteKeeps ==
  ASSUME NEW t, NEW k, NEW r, NEW c, Whole(t, k, r, c), NEW id \in Nat, k < id
  PROVE  LET u == Transcript!Note(t, "warning", id) IN Whole(u, id, r, c) /\ u.tool = 0
<1>1. PICK s : s = Transcript!Interrupt(t)
  OBVIOUS
<1>2. Whole(s, k, r, c) /\ s.tool = 0
  BY <1>1, InterruptKeeps
<1>3. "warning" \in Transcript!Roles
  BY DEF Transcript!Roles
<1>4. LET u == Transcript!PushMessage(s, "warning", <<id>>) IN Whole(u, id, r, c) /\ u.tool = s.tool
  BY <1>2, <1>3, PushMessageKeeps
<1>. QED
  BY <1>1, <1>2, <1>4 DEF Transcript!Note

LEMMA FinishActivityKeeps ==
  ASSUME NEW t, NEW k, NEW r, NEW c, Whole(t, k, r, c)
  PROVE  LET u == Transcript!FinishActivity(t) IN Whole(u, k, r, c) /\ u.tool = 0
<1>1. PICK u : u = Transcript!FinishActivity(t)
  OBVIOUS
<1>2. u = [t EXCEPT !.phase = "idle", !.tool = 0]
  BY <1>1 DEF Transcript!FinishActivity
<1>3. Whole(u, k, r, c)
  BY <1>2, PhaseChanged DEF Transcript!Phases
<1>4. u.tool = 0
  <2>1. DOMAIN t = Fields
    BY DEF Whole
  <2>. QED
    BY <1>2, <2>1 DEF Fields, Kinds
<1>. QED
  BY <1>1, <1>3, <1>4

-----------------------------------------------------------------------------
(* The run, and what its steps show.                                       *)

LEMMA RunIs ==
  ASSUME NEW e \in Nat, NEW v, RunOf(v, e)
  PROVE  /\ v.retries \in 0..e /\ v.searches \in 0..e
         /\ v.calls \in 0..MaxCalls /\ v.due \in 0..MaxCalls /\ MaxCalls \in Nat
         /\ v.calls + v.due <= MaxCalls /\ v.at \in Stages
         /\ v.at # "tools" => v.calls = 0 /\ v.due = 0
  BY BoundsAssumption DEF RunOf, RunSet

LEMMA RunIsLater ==
  ASSUME NEW e \in Nat, NEW v, RunOf(v, e), NEW d \in Nat, e <= d PROVE RunOf(v, d)
<1>1. 0..e \subseteq 0..d
  OBVIOUS
<1>. QED
  BY <1>1, Zenon DEF RunOf, RunSet

\* What a step changes of the run.
LEMMA RunChanges ==
  ASSUME NEW e \in Nat, NEW v, RunOf(v, e), NEW d \in Nat, e <= d
  PROVE  /\ \A at \in Stages \ {"tools"} : v.at # "tools" => RunOf([v EXCEPT !.at = at], d)
         /\ \A b \in BOOLEAN : RunOf([v EXCEPT !.thinking = b], d) /\ RunOf([v EXCEPT !.streamed = b], d)
         /\ \A x \in 0..d : RunOf([v EXCEPT !.searches = x], d)
         /\ \A x \in 0..d, y \in 0..d, b \in BOOLEAN :
              RunOf([v EXCEPT !.retries = x, !.searches = y, !.thinking = b], d)
         /\ \A x \in 0..MaxCalls : v.at # "tools" => RunOf([v EXCEPT !.at = "tools", !.calls = x], d)
<1>1. RunOf(v, d)
  BY RunIsLater
<1>2. v \in RunSet(d)
  BY <1>1 DEF RunOf
<1>3. /\ v.at \in Stages /\ v.calls + v.due <= MaxCalls
      /\ v.at # "tools" => v.calls = 0 /\ v.due = 0
      /\ v.calls \in 0..MaxCalls /\ v.due \in 0..MaxCalls /\ MaxCalls \in Nat
  BY <1>1, RunIs
<1>4. ASSUME NEW at \in Stages \ {"tools"}, v.at # "tools" PROVE RunOf([v EXCEPT !.at = at], d)
  <2>1. PICK w : w = [v EXCEPT !.at = at]
    OBVIOUS
  <2>2. w \in RunSet(d) /\ w.at = at /\ w.calls = v.calls /\ w.due = v.due
    BY <1>2, <1>4, <2>1 DEF RunSet
  <2>. QED
    BY <1>3, <1>4, <2>1, <2>2 DEF RunOf
<1>5. ASSUME NEW b \in BOOLEAN
      PROVE  RunOf([v EXCEPT !.thinking = b], d) /\ RunOf([v EXCEPT !.streamed = b], d)
  <2>1. ASSUME NEW w, w = [v EXCEPT !.thinking = b] \/ w = [v EXCEPT !.streamed = b]
        PROVE  RunOf(w, d)
    <3>1. w \in RunSet(d) /\ w.at = v.at /\ w.calls = v.calls /\ w.due = v.due
      BY <1>2, <2>1 DEF RunSet
    <3>. QED
      BY <1>3, <3>1 DEF RunOf
  <2>. QED
    BY <2>1
<1>6. ASSUME NEW x \in 0..d PROVE RunOf([v EXCEPT !.searches = x], d)
  <2>1. PICK w : w = [v EXCEPT !.searches = x]
    OBVIOUS
  <2>2. w \in RunSet(d) /\ w.at = v.at /\ w.calls = v.calls /\ w.due = v.due
    BY <1>2, <2>1 DEF RunSet
  <2>. QED
    BY <1>3, <2>1, <2>2 DEF RunOf
<1>7. ASSUME NEW x \in 0..d, NEW y \in 0..d, NEW b \in BOOLEAN
      PROVE  RunOf([v EXCEPT !.retries = x, !.searches = y, !.thinking = b], d)
  <2>1. PICK w : w = [v EXCEPT !.retries = x, !.searches = y, !.thinking = b]
    OBVIOUS
  <2>2. w \in RunSet(d) /\ w.at = v.at /\ w.calls = v.calls /\ w.due = v.due
    BY <1>2, <2>1 DEF RunSet
  <2>. QED
    BY <1>3, <2>1, <2>2 DEF RunOf
<1>8. ASSUME NEW x \in 0..MaxCalls, v.at # "tools" PROVE RunOf([v EXCEPT !.at = "tools", !.calls = x], d)
  <2>1. PICK w : w = [v EXCEPT !.at = "tools", !.calls = x]
    OBVIOUS
  <2>2. w \in RunSet(d) /\ w.at = "tools" /\ w.calls = x /\ w.due = v.due
    BY <1>2, <1>8, <2>1 DEF RunSet, Stages
  <2>3. x + 0 <= MaxCalls /\ v.due = 0
    BY <1>3, <1>8
  <2>. QED
    BY <2>1, <2>2, <2>3 DEF RunOf, Stages
<1>. QED
  BY <1>4, <1>5, <1>6, <1>7, <1>8

\* A run that begins has done nothing yet.
LEMMA RunBegins ==
  ASSUME NEW e \in Nat, NEW d \in Nat, e <= d
  PROVE  /\ RunOf(Transcript!NoRun, e)
         /\ \A at \in Stages \ {"tools"} : RunOf([Transcript!NoRun EXCEPT !.at = at], d)
<1>1. 0 \in 0..e /\ 0 \in 0..MaxCalls /\ 0 + 0 <= MaxCalls
  BY BoundsAssumption
<1>2. PICK v : v = Transcript!NoRun
  OBVIOUS
<1>3. PICK a : a = "idle"
  OBVIOUS
<1>4. PICK no \in BOOLEAN : no = FALSE
  OBVIOUS
<1>5. v = [at |-> a, thinking |-> no, streamed |-> no, retries |-> 0,
           searches |-> 0, calls |-> 0, due |-> 0]
  BY <1>2, <1>3, <1>4, Zenon DEF Transcript!NoRun
<1>6. a \in Stages /\ a # "tools"
  BY <1>3 DEF Stages
<1>7. v \in RunSet(e) /\ v.at = a /\ v.calls = 0 /\ v.due = 0
  BY <1>1, <1>5, <1>6 DEF RunSet
<1>8. RunOf(v, e) /\ v.at # "tools"
  BY <1>1, <1>6, <1>7 DEF RunOf
<1>9. \A at \in Stages \ {"tools"} : RunOf([v EXCEPT !.at = at], d)
  BY <1>8, RunChanges
<1>. QED
  BY <1>2, <1>8, <1>9

\* A call is made, or its result is shown.
LEMMA CallsChange ==
  ASSUME NEW e \in Nat, NEW v, RunOf(v, e), NEW d \in Nat, e <= d, v.at = "tools"
  PROVE  /\ v.calls > 0 => RunOf([v EXCEPT !.calls = v.calls - 1, !.due = v.due + 1], d)
         /\ v.due > 0 => RunOf([v EXCEPT !.due = v.due - 1,
                                         !.at = IF v.calls + v.due = 1 THEN "turn" ELSE v.at], d)
<1>1. v \in RunSet(d)
  BY RunIsLater DEF RunOf
<1>2. /\ v.calls + v.due <= MaxCalls
      /\ v.calls \in 0..MaxCalls /\ v.due \in 0..MaxCalls /\ MaxCalls \in Nat
      /\ v.at \in Stages
  BY RunIs
<1>3. ASSUME v.calls > 0 PROVE RunOf([v EXCEPT !.calls = v.calls - 1, !.due = v.due + 1], d)
  <2>1. PICK x, y : x = v.calls - 1 /\ y = v.due + 1
    OBVIOUS
  <2>2. x \in 0..MaxCalls /\ y \in 0..MaxCalls /\ x + y <= MaxCalls
    BY <1>2, <1>3, <2>1
  <2>3. PICK w : w = [v EXCEPT !.calls = x, !.due = y]
    OBVIOUS
  <2>4. w \in RunSet(d) /\ w.at = v.at /\ w.calls = x /\ w.due = y
    BY <1>1, <2>2, <2>3 DEF RunSet
  <2>. QED
    BY <2>1, <2>2, <2>3, <2>4 DEF RunOf, Stages
<1>4. ASSUME v.due > 0
      PROVE  RunOf([v EXCEPT !.due = v.due - 1, !.at = IF v.calls + v.due = 1 THEN "turn" ELSE v.at], d)
  <2>1. PICK y, at : y = v.due - 1 /\ at = IF v.calls + v.due = 1 THEN "turn" ELSE v.at
    OBVIOUS
  <2>2. y \in 0..MaxCalls /\ v.calls + y <= MaxCalls /\ (at # "tools" => v.calls = 0 /\ y = 0)
    BY <1>2, <1>4, <2>1
  <2>3. at \in Stages
    BY <1>2, <2>1 DEF Stages
  <2>4. PICK w : w = [v EXCEPT !.due = y, !.at = at]
    OBVIOUS
  <2>5. w \in RunSet(d) /\ w.at = at /\ w.calls = v.calls /\ w.due = y
    BY <1>1, <2>2, <2>3, <2>4 DEF RunSet
  <2>. QED
    BY <2>1, <2>2, <2>3, <2>4, <2>5 DEF RunOf
<1>. QED
  BY <1>3, <1>4

-----------------------------------------------------------------------------
(* The steps of the transcript.                                            *)

LEMMA Latest ==
  ASSUME NEW S, NEW x \in Nat, S \subseteq Nat, \A q \in S : q < x
  PROVE  (CHOOSE r \in (S \cup {x}) \cup {0} : \A q \in S \cup {x} : q <= r) = x
<1>1. x \in (S \cup {x}) \cup {0} /\ \A q \in S \cup {x} : q <= x
  OBVIOUS
<1>2. \A r \in (S \cup {x}) \cup {0} : (\A q \in S \cup {x} : q <= r) => r = x
  <2>1. ASSUME NEW r \in (S \cup {x}) \cup {0}, \A q \in S \cup {x} : q <= r PROVE r = x
    <3>1. x <= r /\ r \in Nat
      BY <2>1
    <3>2. r \in S \/ r = x \/ r = 0
      OBVIOUS
    <3>. QED
      BY <3>1, <3>2
  <2>. QED
    BY <2>1
<1>. QED
  BY <1>1, <1>2, Zenon

\* The request awaited is the same while the run stays where it is, and none afterwards.
LEMMA AwaitedIs ==
  /\ run'.at = run.at /\ asked' = asked => Awaited' = Awaited
  /\ run.at # "waiting" => Awaited = 0
  /\ run'.at # "waiting" => Awaited' = 0
<1>1. ASSUME asked' = asked PROVE Transcript!Request' = Transcript!Request
  BY <1>1, Zenon DEF Transcript!Request
<1>2. run'.at = run.at /\ asked' = asked => Awaited' = Awaited
  BY <1>1 DEF Awaited
<1>. QED
  BY <1>2 DEF Awaited

\* A step that shows k events is one of a whole transcript.
LEMMA Shown ==
  ASSUME TranscriptInv, NEW k \in Nat, NEW u, Transcript!Show(u, k),
         RunOf(run', events + k), asked' \subseteq 1..(events + k), armed' \in BOOLEAN,
         copied' = copied,
         run'.at = "idle" => u.tool = 0, Whole(u, events + k, Awaited', copied)
  PROVE  TranscriptInv'
<1>1. /\ events' = events + k /\ tui' = u /\ events \in Nat /\ events' <= MaxEvents /\ MaxEvents \in Nat
      /\ copied \in 0..events
  BY BoundsAssumption DEF TranscriptInv, Transcript!Show
<1>2. events' \in 0..MaxEvents /\ copied' \in 0..events'
  BY <1>1
<1>3. RunOf(run', events') /\ asked' \subseteq 1..events' /\ Whole(tui', events', Awaited', copied')
  BY <1>1
<1>. QED
  BY <1>1, <1>2, <1>3 DEF TranscriptInv

\* What is known before a step.
LEMMA BeforeStep ==
  ASSUME TranscriptInv
  PROVE  /\ events \in Nat /\ RunOf(run, events) /\ asked \subseteq 1..events
         /\ armed \in BOOLEAN /\ copied \in 0..events
         /\ run.at = "idle" => tui.tool = 0
         /\ Whole(tui, events, Awaited, copied) /\ Whole(tui, events, 0, copied)
         /\ \A k \in Nat : events <= events + k /\ events + k \in Nat /\ asked \subseteq 1..(events + k)
         /\ MaxCalls \in Nat
         /\ run \in RunSet(events) /\ run.at \in Stages
<1>1. /\ events \in Nat /\ RunOf(run, events) /\ asked \subseteq 1..events /\ MaxCalls \in Nat
      /\ Whole(tui, events, Awaited, copied)
  BY BoundsAssumption DEF TranscriptInv
<1>2. Whole(tui, events, 0, copied)
  BY <1>1, Later
<1>3. \A k \in Nat : events <= events + k /\ events + k \in Nat /\ asked \subseteq 1..(events + k)
  BY <1>1
<1>. QED
  BY <1>1, <1>2, <1>3, RunIs DEF TranscriptInv, RunOf

\* A step that leaves the run as it is.
LEMMA ShownInRun ==
  ASSUME TranscriptInv, NEW k \in Nat, NEW u, Transcript!Show(u, k),
         run' = run, asked' = asked, armed' \in BOOLEAN, copied' = copied,
         run.at = "idle" => u.tool = 0, Whole(u, events + k, Awaited, copied)
  PROVE  TranscriptInv'
<1>1. RunOf(run', events + k) /\ asked' \subseteq 1..(events + k)
  <2>1. RunOf(run, events) /\ events \in Nat /\ events + k \in Nat /\ events <= events + k
        /\ asked \subseteq 1..(events + k)
    BY BeforeStep
  <2>. QED
    BY <2>1, RunIsLater
<1>2. Awaited' = Awaited
  BY AwaitedIs
<1>. QED
  BY <1>1, <1>2, Shown

\* A step that ends the run.
LEMMA RunEnded ==
  ASSUME TranscriptInv, NEW k \in Nat, NEW u, Transcript!EndRun(u, k),
         u.tool = 0, Whole(u, events + k, Awaited, copied)
  PROVE  TranscriptInv'
<1>1. /\ Transcript!Show(u, k) /\ run' = Transcript!NoRun /\ armed' = FALSE
      /\ asked' = asked /\ copied' = copied
  BY DEF Transcript!EndRun
<1>2. events \in Nat /\ events + k \in Nat /\ asked \subseteq 1..(events + k)
  BY BeforeStep
<1>3. RunOf(run', events + k) /\ run'.at # "waiting"
  <2>1. RunOf(Transcript!NoRun, events + k) /\ Transcript!NoRun.at = "idle"
    BY <1>2, RunBegins DEF Transcript!NoRun
  <2>. QED
    BY <1>1, <2>1
<1>4. Whole(u, events + k, Awaited', copied)
  <2>1. Whole(u, events + k, 0, copied)
    BY <1>2, Later
  <2>. QED
    BY <1>3, <2>1, AwaitedIs
<1>. QED
  BY <1>1, <1>2, <1>3, <1>4, Shown

\* A step that takes the run elsewhere, where no answer is awaited.
LEMMA RunMoved ==
  ASSUME TranscriptInv, NEW k \in Nat, NEW u, Transcript!Show(u, k),
         RunOf(run', events + k), run'.at \notin {"idle", "waiting"}, asked' = asked,
         armed' \in BOOLEAN, copied' = copied, Whole(u, events + k, Awaited, copied)
  PROVE  TranscriptInv'
<1>1. events + k \in Nat /\ asked' \subseteq 1..(events + k)
  BY BeforeStep
<1>2. Whole(u, events + k, Awaited', copied)
  <2>1. Whole(u, events + k, 0, copied)
    BY <1>1, Later
  <2>. QED
    BY <2>1, AwaitedIs
<1>. QED
  BY <1>1, <1>2, Shown

\* A transcript with nothing in it but a message of the system, and nothing remembered.
LEMMA FreshIsWhole ==
  ASSUME NEW k \in Nat, NEW x \in Nat, x <= k, NEW u, DOMAIN u = Fields, u.phase \in Transcript!Phases,
         u.rows = <<Transcript!Row("system", <<x>>)>>,
         \A f \in Kinds : u[f] = 0, u.hovered = 0, u.copied = 0
  PROVE  Whole(u, k, 0, 0) /\ u.tool = 0
<1>1. PICK row, parts, role : parts = <<x>> /\ role = "system" /\ row = Transcript!Row(role, parts)
  OBVIOUS
<1>2. parts \in Seq(Nat) /\ Len(parts) = 1 /\ \A p \in 1..Len(parts) : parts[p] = x
  BY <1>1
<1>3. row \in RowSet /\ row.role \notin Read /\ row.stats = 0 /\ row.parts = parts
  BY <1>1, <1>2 DEF RowSet, Transcript!Row, Transcript!Roles, Read, Speech
<1>4. Figured(row) /\ Filled(row, k)
  BY <1>2, <1>3 DEF Figured, Filled
<1>5. PICK rows : rows = u.rows
  OBVIOUS
<1>6. rows \in Seq(RowSet) /\ Len(rows) = 1 /\ \A i \in 1..Len(rows) : rows[i] = row
  BY <1>1, <1>3, <1>5
<1>7. RowsInv(rows, k)
  BY <1>3, <1>4, <1>6 DEF RowsInv, Rows, RowSet, InOrder
<1>8. u.tool = 0 /\ u.assistant = 0
  <2>1. u.tool = u["tool"] /\ u.assistant = u["assistant"] /\ "tool" \in Kinds /\ "assistant" \in Kinds
    BY DEF Kinds
  <2>. QED
    BY <2>1
<1>9. PositionsInv(u, 0, 0)
  BY <1>8 DEF PositionsInv, Names, ToolsLast, ActiveAfter, CopyOf
<1>. QED
  BY <1>5, <1>7, <1>8, <1>9 DEF Whole

\* The mouse is over a message, or clicks it.
LEMMA MessagesAre ==
  ASSUME TranscriptInv, NEW i \in Transcript!Messages
  PROVE  /\ Names(tui.rows, i, Speech) /\ i # 0
         /\ tui.rows[i].parts[1] \in 1..events
<1>1. events \in Nat /\ RowsInv(tui.rows, events) /\ tui.rows \in Seq(RowSet)
  BY BeforeStep DEF Whole, RowsInv, Rows, RowSet
<1>2. i \in 1..Len(tui.rows) /\ tui.rows[i].role \in Speech
  BY <1>1 DEF Transcript!Messages, Speech
<1>3. tui.rows[i].role \in Read
  BY <1>2 DEF Read
<1>4. /\ Len(tui.rows[i].parts) > 0 /\ tui.rows[i].parts[1] > 0 /\ Len(tui.rows[i].parts) \in Nat
      /\ \A p \in 1..Len(tui.rows[i].parts) : tui.rows[i].parts[p] \in Nat /\ tui.rows[i].parts[p] <= events
  BY <1>1, <1>2, <1>3, RowsAre
<1>5. 1 \in 1..Len(tui.rows[i].parts)
  BY <1>4
<1>6. tui.rows[i].parts[1] \in Nat /\ tui.rows[i].parts[1] <= events
  BY <1>4, <1>5
<1>. QED
  BY <1>1, <1>2, <1>4, <1>6 DEF Names

LEMMA HoverKeeps ==
  ASSUME NEW t, NEW k, NEW r, NEW c, Whole(t, k, r, c), NEW i, Names(t.rows, i, Speech)
  PROVE  LET u == [t EXCEPT !.hovered = i] IN Whole(u, k, r, c) /\ u.tool = t.tool
<1>1. PICK u : u = [t EXCEPT !.hovered = i]
  OBVIOUS
<1>2. /\ DOMAIN u = Fields /\ u.rows = t.rows /\ u.phase = t.phase /\ u.hovered = i /\ u.copied = t.copied
      /\ u.tool = t.tool /\ u.assistant = t.assistant /\ \A f \in Kinds : u[f] = t[f]
  BY <1>1 DEF Whole, Fields, Kinds
<1>3. PositionsInv(u, r, c)
  BY <1>2 DEF Whole, PositionsInv
<1>. QED
  BY <1>1, <1>2, <1>3 DEF Whole

LEMMA CopyKeeps ==
  ASSUME NEW t, NEW k, NEW r, NEW c, Whole(t, k, r, c), NEW i, Names(t.rows, i, Speech), i # 0,
         NEW d, d # 0, t.rows[i].parts[1] = d
  PROVE  LET u == [t EXCEPT !.hovered = i, !.copied = i] IN Whole(u, k, r, d) /\ u.tool = t.tool
<1>1. PICK u : u = [t EXCEPT !.hovered = i, !.copied = i]
  OBVIOUS
<1>2. /\ DOMAIN u = Fields /\ u.rows = t.rows /\ u.phase = t.phase /\ u.hovered = i /\ u.copied = i
      /\ u.tool = t.tool /\ u.assistant = t.assistant /\ \A f \in Kinds : u[f] = t[f]
  BY <1>1 DEF Whole, Fields, Kinds
<1>3. PositionsInv(u, r, d)
  BY <1>2 DEF Whole, PositionsInv, CopyOf
<1>. QED
  BY <1>1, <1>2, <1>3 DEF Whole

LEMMA TranscriptBegins == ASSUME Transcript!Init PROVE TranscriptInv
<1>1. /\ tui = Transcript!NewTranscript /\ run = Transcript!NoRun /\ events = 0
      /\ asked = {} /\ armed = FALSE /\ copied = 0
  BY DEF Transcript!Init
<1>2. PICK x : x = 0
  OBVIOUS
<1>3. Whole(tui, 0, 0, 0) /\ tui.tool = 0
  <2>1. /\ DOMAIN tui = Fields /\ tui.phase = "idle" /\ tui.rows = <<Transcript!Row("system", <<x>>)>>
        /\ \A f \in Kinds : tui[f] = 0
        /\ tui.hovered = 0 /\ tui.copied = 0
    BY <1>1, <1>2 DEF Transcript!NewTranscript, Fields, Kinds
  <2>2. tui.phase \in Transcript!Phases /\ x \in Nat /\ x <= x
    BY <1>2, <2>1 DEF Transcript!Phases
  <2>3. Whole(tui, x, 0, 0) /\ tui.tool = 0
    BY <2>1, <2>2, FreshIsWhole
  <2>. QED
    BY <1>2, <2>3
<1>4. RunOf(run, 0)
  <2>1. 0 \in Nat /\ 0 <= 0
    OBVIOUS
  <2>. QED
    BY <1>1, <2>1, RunBegins
<1>5. Awaited = 0
  BY <1>1 DEF Awaited, Transcript!NoRun
<1>6. armed \in BOOLEAN /\ events \in 0..MaxEvents /\ copied \in 0..events /\ asked \subseteq 1..events
  <2>1. MaxEvents \in Nat
    BY BoundsAssumption
  <2>2. events \in 0..MaxEvents /\ copied \in 0..events
    BY <1>1, <2>1
  <2>3. armed \in BOOLEAN
    BY <1>1
  <2>4. asked \subseteq 1..events
    BY <1>1
  <2>. QED
    BY <2>2, <2>3, <2>4
<1>. QED
  BY <1>1, <1>3, <1>4, <1>5, <1>6 DEF TranscriptInv

LEMMA TranscriptKeepsInv ==
  ASSUME TranscriptInv, [Transcript!Next]_(Transcript!vars) PROVE TranscriptInv'
<1>1. /\ events \in Nat /\ RunOf(run, events) /\ asked \subseteq 1..events
      /\ armed \in BOOLEAN /\ copied \in 0..events
      /\ run.at = "idle" => tui.tool = 0
      /\ Whole(tui, events, Awaited, copied)
      /\ \A k \in Nat : events <= events + k /\ events + k \in Nat
  BY BeforeStep
<1>2. /\ "user" \in Transcript!Roles /\ "system" \in Transcript!Roles /\ "warning" \in Transcript!Roles
      /\ "system" \notin Read /\ "warning" \notin Read
  BY DEF Transcript!Roles, Read, Speech
<1>3. PICK a, b, d : a = events + 1 /\ b = events + 2 /\ d = events + 3
  OBVIOUS
<1>4. /\ a \in Nat /\ b \in Nat /\ d \in Nat /\ events < a /\ a < b /\ b < d
      /\ TRUE \in BOOLEAN /\ FALSE \in BOOLEAN
  BY <1>1, <1>3
<1>5. run \in RunSet(events) /\ run.at \in Stages
  BY BeforeStep
<1>6. "turn" \in Stages \ {"tools"} /\ "compacting" \in Stages \ {"tools"}
      /\ "compacted" \in Stages \ {"tools"} /\ "waiting" \in Stages \ {"tools"}
  BY DEF Stages
<1>7. CASE Transcript!Submit
  <2>1. run.at = "idle" /\ tui.tool = 0
    BY <1>1, <1>7 DEF Transcript!Submit, Transcript!Running
  <2>2. PICK t : t = Transcript!PushMessage(tui, "user", <<a>>)
    OBVIOUS
  <2>3. Whole(t, a, Awaited, copied)
    BY <1>1, <1>2, <1>4, <2>1, <2>2, PushMessageKeeps
  <2>4. PICK u : u = Transcript!PushMessage(t, "system", <<b>>)
    OBVIOUS
  <2>5. Whole(u, b, Awaited, copied)
    BY <1>2, <1>4, <2>3, <2>4, PushMessageKeeps
  <2>6. /\ Transcript!Show(u, 2) \/ Transcript!Show(t, 1)
        /\ run' = [Transcript!NoRun EXCEPT !.at = "turn"]
        /\ armed' = FALSE /\ asked' = asked /\ copied' = copied
    BY <1>3, <1>7, <2>2, <2>4 DEF Transcript!Submit
  <2>7. RunOf(run', a) /\ RunOf(run', b) /\ run'.at = "turn"
    <3>1. run'.at = "turn"
      BY <2>6 DEF Transcript!NoRun
    <3>. QED
      BY <1>4, <1>6, <2>6, <3>1, RunBegins
  <2>8. CASE Transcript!Show(t, 1)
    BY <1>3, <1>4, <2>3, <2>6, <2>7, <2>8, RunMoved
  <2>9. CASE Transcript!Show(u, 2)
    BY <1>3, <1>4, <2>5, <2>6, <2>7, <2>9, RunMoved
  <2>. QED
    BY <2>6, <2>8, <2>9
<1>8. CASE Transcript!SubmitFails
  <2>1. run.at = "idle" /\ tui.tool = 0
    BY <1>1, <1>8 DEF Transcript!SubmitFails, Transcript!Running
  <2>2. PICK t : t = Transcript!PushMessage(tui, "user", <<a>>)
    OBVIOUS
  <2>3. Whole(t, a, Awaited, copied)
    BY <1>1, <1>2, <1>4, <2>1, <2>2, PushMessageKeeps
  <2>4. PICK s : s = Transcript!FinishActivity(t)
    OBVIOUS
  <2>5. Whole(s, a, Awaited, copied) /\ s.tool = 0
    BY <2>3, <2>4, FinishActivityKeeps
  <2>6. PICK u : u = Transcript!PushError(s, b)
    OBVIOUS
  <2>7. Whole(u, b, Awaited, copied) /\ u.tool = 0
    BY <1>4, <2>5, <2>6, PushErrorKeeps
  <2>8. Transcript!EndRun(u, 2)
    BY <1>3, <1>8, <2>2, <2>4, <2>6 DEF Transcript!SubmitFails
  <2>. QED
    BY <1>3, <2>7, <2>8, RunEnded
<1>9. CASE Transcript!StartCompaction
  <2>1. PICK u : u = Transcript!CompactionStart(tui, a)
    OBVIOUS
  <2>2. /\ run.at = "turn" /\ Transcript!Show(u, 1) /\ run' = [run EXCEPT !.at = "compacting"]
        /\ asked' = asked /\ armed' = armed /\ copied' = copied
    BY <1>3, <1>9, <2>1 DEF Transcript!StartCompaction
  <2>3. Whole(u, a, Awaited, copied)
    BY <1>1, <1>4, <2>1, CompactionStartKeeps
  <2>4. RunOf(run', a)
    BY <1>1, <1>3, <1>4, <1>6, <2>2, RunChanges
  <2>5. run'.at = "compacting"
    BY <1>5, <2>2 DEF RunSet
  <2>. QED
    BY <1>1, <1>3, <2>2, <2>3, <2>4, <2>5, RunMoved
<1>10. CASE Transcript!FinishCompaction
  <2>1. PICK u : u = Transcript!CompactionFinish(tui, a)
    OBVIOUS
  <2>2. /\ run.at = "compacting" /\ Transcript!Show(u, 1) /\ run' = [run EXCEPT !.at = "compacted"]
        /\ asked' = asked /\ armed' = armed /\ copied' = copied
    BY <1>3, <1>10, <2>1 DEF Transcript!FinishCompaction
  <2>3. Whole(u, a, Awaited, copied)
    BY <1>1, <1>4, <2>1, CompactionFinishKeeps
  <2>4. RunOf(run', a)
    BY <1>1, <1>3, <1>4, <1>6, <2>2, RunChanges
  <2>5. run'.at = "compacted"
    BY <1>5, <2>2 DEF RunSet
  <2>. QED
    BY <1>1, <1>3, <2>2, <2>3, <2>4, <2>5, RunMoved
<1>11. CASE Transcript!SendRequest
  <2>1. PICK u : u = Transcript!RequestStart(tui)
    OBVIOUS
  <2>2. /\ Transcript!Show(u, 1) /\ run' = [Transcript!NoRun EXCEPT !.at = "waiting"]
        /\ asked' = asked \cup {a} /\ armed' = armed /\ copied' = copied
    BY <1>3, <1>11, <2>1 DEF Transcript!SendRequest
  <2>3. RunOf(run', a) /\ run'.at = "waiting"
    <3>1. run'.at = "waiting"
      BY <2>2 DEF Transcript!NoRun
    <3>. QED
      BY <1>4, <1>6, <2>2, <3>1, RunBegins
  <2>4. Awaited' = a
    <3>1. asked \subseteq Nat /\ \A q \in asked : q < a
      BY <1>1, <1>3
    <3>2. Transcript!Request' = a
      BY <1>4, <2>2, <3>1, Latest DEF Transcript!Request
    <3>. QED
      BY <2>3, <3>2 DEF Awaited
  <2>5. Whole(u, a, a, copied)
    <3>1. a \in 0..a
      BY <1>4
    <3>. QED
      BY <1>1, <1>3, <1>4, <2>1, <3>1, RequestStartKeeps
  <2>6. asked' \subseteq 1..a
    BY <1>1, <1>3, <2>2
  <2>. QED
    BY <1>1, <1>3, <2>2, <2>3, <2>4, <2>5, <2>6, Shown
<1>12. CASE Transcript!Reason
  <2>1. run.at = "waiting" /\ asked' = asked /\ armed' = armed /\ copied' = copied /\ events + 0 = events
        /\ 0 \in Nat /\ events <= events
    BY <1>1, <1>12 DEF Transcript!Reason
  <2>2. ASSUME NEW flag \in BOOLEAN, run' = [run EXCEPT !.thinking = flag], NEW u, Transcript!Show(u, 0),
               Whole(u, events, Awaited, copied)
        PROVE  TranscriptInv'
    <3>1. RunOf(run', events)
      BY <1>1, <2>1, <2>2, RunChanges
    <3>2. run'.at = "waiting"
      BY <1>5, <2>1, <2>2 DEF RunSet
    <3>3. Awaited' = Awaited
      BY <2>1, <3>2, AwaitedIs
    <3>. QED
      BY <1>1, <2>1, <2>2, <3>1, <3>2, <3>3, Shown
  <2>3. CASE Transcript!Show(Transcript!ReasoningStart(tui), 0) /\ run' = [run EXCEPT !.thinking = TRUE]
    <3>1. Whole(Transcript!ReasoningStart(tui), events, Awaited, copied)
      BY <1>1, ReasoningStartKeeps
    <3>. QED
      BY <1>4, <2>2, <2>3, <3>1
  <2>4. CASE Transcript!Show(Transcript!FinishReasoning(tui), 0) /\ run' = [run EXCEPT !.thinking = FALSE]
    <3>1. Whole(Transcript!FinishReasoning(tui), events, Awaited, copied)
      BY <1>1, FinishReasoningKeeps
    <3>. QED
      BY <1>4, <2>2, <2>4, <3>1
  <2>5. CASE Transcript!Show(Transcript!ReasoningSummary(tui, a), 1) /\ run' = run
    <3>1. Whole(Transcript!ReasoningSummary(tui, a), a, Awaited, copied)
      BY <1>1, <1>4, ReasoningSummaryKeeps
    <3>. QED
      BY <1>1, <1>3, <2>1, <2>5, <3>1, ShownInRun
  <2>. QED
    BY <1>3, <1>12, <2>3, <2>4, <2>5 DEF Transcript!Reason
<1>13. CASE Transcript!SearchStarted
  <2>1. PICK t, u : t = Transcript!ToolBatchStart(tui, a) /\ u = Transcript!ToolLine(t, b)
    OBVIOUS
  <2>2. /\ run.at = "waiting" /\ Transcript!Show(u, 2) /\ run' = [run EXCEPT !.searches = run.searches + 1]
        /\ asked' = asked /\ armed' = armed /\ copied' = copied
    BY <1>3, <1>13, <2>1 DEF Transcript!SearchStarted
  <2>3. Whole(t, a, Awaited, copied)
    BY <1>1, <1>4, <2>1, ToolBatchStartKeeps
  <2>4. Whole(u, b, Awaited, copied)
    BY <1>4, <2>1, <2>3, ToolLineKeeps
  <2>5. RunOf(run', b) /\ run'.at = "waiting"
    <3>1. run.searches + 1 \in 0..b /\ events <= b
      BY <1>1, <1>3, RunIs
    <3>2. RunOf(run', b)
      BY <1>1, <1>4, <2>2, <3>1, RunChanges
    <3>. QED
      BY <1>5, <2>2, <3>2 DEF RunSet
  <2>6. asked' \subseteq 1..b /\ Awaited' = Awaited
    BY <1>1, <1>3, <2>2, <2>5, AwaitedIs, BeforeStep
  <2>. QED
    BY <1>1, <1>3, <2>2, <2>4, <2>5, <2>6, Shown
<1>14. CASE Transcript!SearchFinished
  <2>1. PICK u : u = Transcript!ToolLine(tui, a)
    OBVIOUS
  <2>2. /\ run.at = "waiting" /\ Transcript!Show(u, 1) /\ run' = [run EXCEPT !.searches = run.searches - 1]
        /\ asked' = asked /\ armed' = armed /\ copied' = copied /\ run.searches > 0
    BY <1>3, <1>14, <2>1 DEF Transcript!SearchFinished
  <2>3. Whole(u, a, Awaited, copied)
    BY <1>1, <1>4, <2>1, ToolLineKeeps
  <2>4. RunOf(run', a) /\ run'.at = "waiting"
    <3>1. run.searches - 1 \in 0..a /\ events <= a
      BY <1>1, <1>3, <2>2, RunIs
    <3>2. RunOf(run', a)
      BY <1>1, <1>4, <2>2, <3>1, RunChanges
    <3>. QED
      BY <1>5, <2>2, <3>2 DEF RunSet
  <2>5. asked' \subseteq 1..a /\ Awaited' = Awaited
    BY <1>1, <1>3, <2>2, <2>4, AwaitedIs, BeforeStep
  <2>. QED
    BY <1>1, <1>3, <2>2, <2>3, <2>4, <2>5, Shown
<1>15. CASE Transcript!Delta
  <2>1. PICK u : u = Transcript!AssistantDelta(tui, a)
    OBVIOUS
  <2>2. /\ run.at = "waiting" /\ Transcript!Show(u, 1) /\ run' = [run EXCEPT !.streamed = TRUE]
        /\ asked' = asked /\ armed' = armed /\ copied' = copied
    BY <1>3, <1>15, <2>1 DEF Transcript!Delta
  <2>3. Whole(u, a, Awaited, copied)
    BY <1>1, <1>4, <2>1, AssistantDeltaKeeps
  <2>4. RunOf(run', a) /\ run'.at = "waiting"
    <3>1. RunOf(run', a)
      BY <1>1, <1>3, <1>4, <2>2, RunChanges
    <3>. QED
      BY <1>5, <2>2, <3>1 DEF RunSet
  <2>5. asked' \subseteq 1..a /\ Awaited' = Awaited
    BY <1>1, <1>3, <2>2, <2>4, AwaitedIs, BeforeStep
  <2>. QED
    BY <1>1, <1>3, <2>2, <2>3, <2>4, <2>5, Shown
<1>16. ASSUME run.at = "waiting", NEW x \in 0..a,
              run' = [run EXCEPT !.retries = x, !.searches = 0, !.thinking = FALSE],
              asked' = asked, armed' = armed, copied' = copied,
              NEW u, Transcript!Show(u, 1), Whole(u, a, Awaited, copied)
       PROVE  TranscriptInv'
  <2>1. 0 \in 0..a /\ events <= a
    BY <1>1, <1>3
  <2>2. RunOf(run', a)
    BY <1>1, <1>4, <1>16, <2>1, RunChanges
  <2>3. run'.at = "waiting"
    BY <1>5, <1>16 DEF RunSet
  <2>4. asked' \subseteq 1..a /\ Awaited' = Awaited
    BY <1>1, <1>3, <1>16, <2>3, AwaitedIs, BeforeStep
  <2>. QED
    BY <1>1, <1>3, <1>16, <2>2, <2>3, <2>4, Shown
<1>17. CASE Transcript!Retry
  <2>1. PICK u : u = Transcript!ConnectionRetry(tui, a)
    OBVIOUS
  <2>2. /\ run.at = "waiting" /\ Transcript!Show(u, 1)
        /\ run' = [run EXCEPT !.retries = run.retries + 1, !.searches = 0, !.thinking = FALSE]
        /\ asked' = asked /\ armed' = armed /\ copied' = copied
    BY <1>3, <1>17, <2>1 DEF Transcript!Retry
  <2>3. Whole(u, a, Awaited, copied) /\ run.retries + 1 \in 0..a
    BY <1>1, <1>3, <1>4, <2>1, ConnectionRetryKeeps, RunIs
  <2>. QED
    BY <1>16, <2>2, <2>3
<1>18. CASE Transcript!FallBack
  <2>1. PICK u, s, v : /\ u = Transcript!TransportFallback(tui, a)
                       /\ s = Transcript!FinishReasoning(tui)
                       /\ v = Transcript!TransportFallback(s, a)
    OBVIOUS
  <2>2. /\ run.at = "waiting" /\ asked' = asked /\ armed' = armed /\ copied' = copied
        /\ \/ /\ Transcript!Show(u, 1)
              /\ run' = [run EXCEPT !.retries = 0, !.searches = 0, !.thinking = FALSE]
           \/ /\ Transcript!Show(v, 1)
              /\ run' = [run EXCEPT !.retries = run.retries + 1, !.searches = 0, !.thinking = FALSE]
    BY <1>3, <1>18, <2>1 DEF Transcript!FallBack
  <2>3. Whole(s, events, Awaited, copied)
    BY <1>1, <2>1, FinishReasoningKeeps
  <2>4. Whole(u, a, Awaited, copied) /\ Whole(v, a, Awaited, copied)
    BY <1>1, <1>4, <2>1, <2>3, TransportFallbackKeeps
  <2>5. 0 \in 0..a /\ run.retries + 1 \in 0..a
    BY <1>1, <1>3, RunIs
  <2>6. CASE /\ Transcript!Show(u, 1)
             /\ run' = [run EXCEPT !.retries = 0, !.searches = 0, !.thinking = FALSE]
    BY <1>16, <2>2, <2>4, <2>5, <2>6
  <2>7. CASE /\ Transcript!Show(v, 1)
             /\ run' = [run EXCEPT !.retries = run.retries + 1, !.searches = 0, !.thinking = FALSE]
    BY <1>16, <2>2, <2>4, <2>5, <2>7
  <2>. QED
    BY <2>2, <2>6, <2>7
<1>19. CASE Transcript!Answer
  <2>1. run.at = "waiting"
    BY <1>19 DEF Transcript!Answer
  <2>2. PICK text \in BOOLEAN, calls \in 0..MaxCalls :
          LET k == IF text THEN 2 ELSE 1
              recovered == IF run.retries > 0 THEN Transcript!ConnectionRecovered(tui, a) ELSE tui
              shown_ == CASE text /\ run.streamed  -> Transcript!AssistantDelta(recovered, b)
                          [] text /\ ~run.streamed -> Transcript!Assistant(recovered, b)
                          [] OTHER                 -> recovered
              done == Transcript!ResponseComplete(shown_, Transcript!Request)
          IN IF calls = 0 THEN Transcript!EndRun(Transcript!FinishActivity(done), k)
             ELSE /\ Transcript!Show(Transcript!ToolBatchStart(done, events + k + 1), k + 1)
                  /\ run' = [run EXCEPT !.at = "tools", !.calls = calls]
                  /\ UNCHANGED <<asked, armed, copied>>
    BY <1>3, <1>19 DEF Transcript!Answer
  <2>3. PICK k, x, y, z : /\ k = IF text THEN 2 ELSE 1
                          /\ x = IF run.retries > 0 THEN Transcript!ConnectionRecovered(tui, a) ELSE tui
                          /\ y = CASE text /\ run.streamed  -> Transcript!AssistantDelta(x, b)
                                   [] text /\ ~run.streamed -> Transcript!Assistant(x, b)
                                   [] OTHER                 -> x
                          /\ z = Transcript!ResponseComplete(y, Transcript!Request)
    OBVIOUS
  <2>4. k \in Nat /\ events + k \in Nat /\ events + k = IF text THEN b ELSE a
    BY <1>1, <1>3, <2>3
  <2>5. Whole(x, a, Awaited, copied)
    <3>1. Whole(Transcript!ConnectionRecovered(tui, a), a, Awaited, copied)
      BY <1>1, <1>4, ConnectionRecoveredKeeps
    <3>2. Whole(tui, a, Awaited, copied)
      <4>1. events <= a
        BY <1>1, <1>3
      <4>. QED
        BY <1>1, <1>4, <4>1, Later
    <3>. QED
      BY <2>3, <3>1, <3>2
  <2>6. Whole(y, events + k, Awaited, copied)
    <3>1. CASE text
      <4>1. y = Transcript!AssistantDelta(x, b) \/ y = Transcript!Assistant(x, b)
        <5>1. CASE run.streamed
          BY <2>3, <3>1, <5>1
        <5>2. CASE ~run.streamed
          BY <2>3, <3>1, <5>2
        <5>. QED
          BY <5>1, <5>2
      <4>2. Whole(Transcript!AssistantDelta(x, b), b, Awaited, copied)
        BY <1>4, <2>5, AssistantDeltaKeeps
      <4>3. Whole(Transcript!Assistant(x, b), b, Awaited, copied)
        BY <1>4, <2>5, AssistantKeeps
      <4>. QED
        BY <2>4, <3>1, <4>1, <4>2, <4>3
    <3>2. CASE ~text
      BY <2>3, <2>4, <2>5, <3>2
    <3>. QED
      BY <3>1, <3>2
  <2>7. Whole(z, events + k, Awaited, copied)
    <3>1. Awaited = Transcript!Request
      BY <2>1 DEF Awaited
    <3>2. Awaited \in Nat /\ Awaited <= Awaited
      BY <1>1 DEF Whole
    <3>. QED
      BY <2>3, <2>6, <3>1, <3>2, ResponseCompleteKeeps
  <2>8. CASE calls = 0
    <3>1. Transcript!EndRun(Transcript!FinishActivity(z), k)
      BY <2>2, <2>3, <2>8, Zenon
    <3>2. PICK u : u = Transcript!FinishActivity(z)
      OBVIOUS
    <3>3. Whole(u, events + k, Awaited, copied) /\ u.tool = 0
      BY <2>7, <3>2, FinishActivityKeeps
    <3>. QED
      BY <2>4, <3>1, <3>2, <3>3, RunEnded
  <2>9. CASE calls # 0
    <3>1. PICK m, u : m = k + 1 /\ u = Transcript!ToolBatchStart(z, events + k + 1)
      OBVIOUS
    <3>2. /\ Transcript!Show(u, m)
          /\ run' = [run EXCEPT !.at = "tools", !.calls = calls]
          /\ asked' = asked /\ armed' = armed /\ copied' = copied
      BY <2>2, <2>3, <2>9, <3>1, Zenon
    <3>3. /\ m \in Nat /\ events + k + 1 = events + m /\ events + m \in Nat
          /\ events + k < events + m /\ events <= events + m
      BY <1>1, <2>4, <3>1
    <3>4. Whole(u, events + m, Awaited, copied)
      BY <2>7, <3>1, <3>3, ToolBatchStartKeeps
    <3>5. RunOf(run', events + m)
      <4>1. run.at # "tools"
        BY <2>1
      <4>. QED
        BY <1>1, <3>2, <3>3, <4>1, RunChanges
    <3>6. run'.at = "tools"
      BY <1>5, <3>2 DEF RunSet
    <3>. QED
      BY <1>1, <3>2, <3>3, <3>4, <3>5, <3>6, RunMoved
  <2>. QED
    BY <2>8, <2>9
<1>20. CASE Transcript!ToolCall
  <2>1. PICK u : u = Transcript!ToolLine(tui, a)
    OBVIOUS
  <2>2. /\ run.at = "tools" /\ run.calls > 0 /\ Transcript!Show(u, 1)
        /\ run' = [run EXCEPT !.calls = run.calls - 1, !.due = run.due + 1]
        /\ asked' = asked /\ armed' = armed /\ copied' = copied
    BY <1>3, <1>20, <2>1 DEF Transcript!ToolCall
  <2>3. Whole(u, a, Awaited, copied)
    BY <1>1, <1>4, <2>1, ToolLineKeeps
  <2>4. RunOf(run', a) /\ run'.at = "tools"
    <3>1. events <= a
      BY <1>1, <1>3
    <3>2. RunOf(run', a)
      BY <1>1, <1>4, <2>2, <3>1, CallsChange
    <3>. QED
      BY <1>5, <2>2, <3>2 DEF RunSet
  <2>. QED
    BY <1>1, <1>3, <2>2, <2>3, <2>4, RunMoved
<1>21. CASE Transcript!ToolResult
  <2>1. PICK u : u = Transcript!ToolLine(tui, a)
    OBVIOUS
  <2>2. /\ run.at = "tools" /\ run.due > 0 /\ Transcript!Show(u, 1)
        /\ run' = [run EXCEPT !.due = run.due - 1,
                              !.at = IF run.calls + run.due = 1 THEN "turn" ELSE run.at]
        /\ asked' = asked /\ armed' = armed /\ copied' = copied
    BY <1>3, <1>21, <2>1 DEF Transcript!ToolResult
  <2>3. Whole(u, a, Awaited, copied)
    BY <1>1, <1>4, <2>1, ToolLineKeeps
  <2>4. RunOf(run', a) /\ run'.at \in {"tools", "turn"}
    <3>1. events <= a
      BY <1>1, <1>3
    <3>2. RunOf(run', a)
      BY <1>1, <1>4, <2>2, <3>1, CallsChange
    <3>3. PICK at : at = IF run.calls + run.due = 1 THEN "turn" ELSE run.at
      OBVIOUS
    <3>4. run'.at = at
      BY <1>5, <2>2, <3>3 DEF RunSet
    <3>. QED
      BY <2>2, <3>2, <3>3, <3>4
  <2>. QED
    BY <1>1, <1>3, <2>2, <2>3, <2>4, RunMoved
<1>22. CASE Transcript!RegistryWarning
  <2>1. PICK u : u = Transcript!Note(tui, "warning", a)
    OBVIOUS
  <2>2. /\ Transcript!Show(u, 1) /\ run' = run /\ asked' = asked /\ armed' = armed /\ copied' = copied
    BY <1>3, <1>22, <2>1 DEF Transcript!RegistryWarning, Transcript!OnlyShow
  <2>3. Whole(u, a, Awaited, copied) /\ u.tool = 0
    BY <1>1, <1>4, <2>1, NoteKeeps
  <2>. QED
    BY <1>1, <1>3, <2>2, <2>3, ShownInRun
<1>23. CASE Transcript!RunFails
  <2>1. PICK t, s, u : /\ t = Transcript!Note(tui, "warning", a) /\ s = Transcript!FinishActivity(t)
                       /\ u = Transcript!PushError(s, b)
    OBVIOUS
  <2>2. Whole(t, a, Awaited, copied)
    BY <1>1, <1>4, <2>1, NoteKeeps
  <2>3. Whole(s, a, Awaited, copied) /\ s.tool = 0
    BY <2>1, <2>2, FinishActivityKeeps
  <2>4. Whole(u, b, Awaited, copied) /\ u.tool = 0
    BY <1>4, <2>1, <2>3, PushErrorKeeps
  <2>5. Transcript!EndRun(u, 2)
    BY <1>3, <1>23, <2>1 DEF Transcript!RunFails
  <2>. QED
    BY <1>3, <2>4, <2>5, RunEnded
<1>24. CASE Transcript!Escape
  <2>1. PICK u : u = Transcript!PushMessage(tui, "warning", <<a>>)
    OBVIOUS
  <2>2. /\ Transcript!Show(u, 1) /\ run' = run /\ asked' = asked /\ armed' = TRUE /\ copied' = copied
    BY <1>3, <1>24, <2>1 DEF Transcript!Escape
  <2>3. Whole(u, a, Awaited, copied) /\ u.tool = tui.tool
    BY <1>1, <1>2, <1>4, <2>1, PushMessageKeeps
  <2>4. armed' \in BOOLEAN
    BY <2>2
  <2>. QED
    BY <1>1, <1>3, <2>2, <2>3, <2>4, ShownInRun
<1>25. CASE Transcript!StopRun
  <2>1. PICK s, u : s = Transcript!FinishActivity(tui) /\ u = Transcript!PushMessage(s, "warning", <<a>>)
    OBVIOUS
  <2>2. Whole(s, events, Awaited, copied) /\ s.tool = 0
    BY <1>1, <2>1, FinishActivityKeeps
  <2>3. Whole(u, a, Awaited, copied) /\ u.tool = 0
    BY <1>2, <1>4, <2>1, <2>2, PushMessageKeeps
  <2>4. Transcript!EndRun(u, 1)
    BY <1>3, <1>25, <2>1 DEF Transcript!StopRun
  <2>. QED
    BY <1>3, <2>3, <2>4, RunEnded
<1>26. CASE Transcript!ChangeReasoning \/ Transcript!Inform
  <2>1. PICK u : u = Transcript!PushMessage(tui, "system", <<a>>)
    OBVIOUS
  <2>2. /\ Transcript!Show(u, 1) /\ run' = run /\ asked' = asked /\ armed' = armed /\ copied' = copied
    BY <1>3, <1>26, <2>1 DEF Transcript!ChangeReasoning, Transcript!Inform, Transcript!OnlyShow
  <2>3. Whole(u, a, Awaited, copied) /\ u.tool = tui.tool
    BY <1>1, <1>2, <1>4, <2>1, PushMessageKeeps
  <2>. QED
    BY <1>1, <1>3, <2>2, <2>3, ShownInRun
<1>27. CASE Transcript!CommandFails
  <2>1. PICK u : u = Transcript!PushError(tui, a)
    OBVIOUS
  <2>2. /\ Transcript!Show(u, 1) /\ run' = run /\ asked' = asked /\ armed' = armed /\ copied' = copied
    BY <1>3, <1>27, <2>1 DEF Transcript!CommandFails, Transcript!OnlyShow
  <2>3. Whole(u, a, Awaited, copied) /\ u.tool = tui.tool
    BY <1>1, <1>4, <2>1, PushErrorKeeps
  <2>. QED
    BY <1>1, <1>3, <2>2, <2>3, ShownInRun
<1>28. CASE Transcript!Hover
  <2>1. PICK i \in Transcript!Messages \cup {0} : tui' = [tui EXCEPT !.hovered = i]
    BY <1>28 DEF Transcript!Hover
  <2>2. run' = run /\ events' = events /\ asked' = asked /\ armed' = armed /\ copied' = copied
    BY <1>28 DEF Transcript!Hover
  <2>3. Names(tui.rows, i, Speech)
    <3>1. CASE i = 0
      BY <3>1 DEF Names
    <3>2. CASE i \in Transcript!Messages
      BY <3>2, MessagesAre
    <3>. QED
      BY <3>1, <3>2
  <2>4. Whole(tui', events, Awaited, copied) /\ tui'.tool = tui.tool
    BY <1>1, <2>1, <2>3, HoverKeeps
  <2>5. Awaited' = Awaited
    BY <2>2, AwaitedIs
  <2>. QED
    BY <2>2, <2>4, <2>5 DEF TranscriptInv
<1>29. CASE Transcript!Copy
  <2>1. PICK i \in Transcript!Messages : /\ tui' = [tui EXCEPT !.hovered = i, !.copied = i]
                                         /\ copied' = tui.rows[i].parts[1]
    BY <1>29 DEF Transcript!Copy
  <2>2. run' = run /\ events' = events /\ asked' = asked /\ armed' = armed
    BY <1>29 DEF Transcript!Copy
  <2>3. Names(tui.rows, i, Speech) /\ i # 0 /\ copied' \in 1..events
    BY <2>1, MessagesAre
  <2>4. copied' # 0 /\ copied' \in 0..events
    BY <1>1, <2>3
  <2>5. Whole(tui', events, Awaited, copied') /\ tui'.tool = tui.tool
    BY <1>1, <2>1, <2>3, <2>4, CopyKeeps
  <2>6. Awaited' = Awaited
    BY <2>2, AwaitedIs
  <2>. QED
    BY <2>2, <2>4, <2>5, <2>6 DEF TranscriptInv
<1>30. CASE Transcript!Compact
  <2>1. PICK t, u, v, w, x :
          /\ t = Transcript!PushError(tui, a) /\ u = Transcript!CompactionStart(t, b)
          /\ v = Transcript!PushMessage(tui, "system", <<a>>)
          /\ w = Transcript!CompactionStart(v, b) /\ x = Transcript!CompactionFinish(w, d)
    OBVIOUS
  <2>2. /\ Transcript!Show(u, 2) \/ Transcript!Show(x, 3)
        /\ run' = run /\ asked' = asked /\ armed' = armed /\ copied' = copied
    BY <1>3, <1>30, <2>1 DEF Transcript!Compact, Transcript!OnlyShow
  <2>3. Whole(t, a, Awaited, copied) /\ Whole(v, a, Awaited, copied)
    BY <1>1, <1>2, <1>4, <2>1, PushErrorKeeps, PushMessageKeeps
  <2>4. Whole(u, b, Awaited, copied) /\ u.tool = 0 /\ Whole(w, b, Awaited, copied) /\ w.tool = 0
    BY <1>4, <2>1, <2>3, CompactionStartKeeps
  <2>5. Whole(x, d, Awaited, copied) /\ x.tool = 0
    BY <1>4, <2>1, <2>4, CompactionFinishKeeps
  <2>6. CASE Transcript!Show(u, 2)
    BY <1>1, <1>3, <2>2, <2>4, <2>6, ShownInRun
  <2>7. CASE Transcript!Show(x, 3)
    BY <1>1, <1>3, <2>2, <2>5, <2>7, ShownInRun
  <2>. QED
    BY <2>2, <2>6, <2>7
<1>31. CASE Transcript!GoalRun
  <2>1. /\ run.at = "idle" /\ tui.tool = 0 /\ Whole(tui, events, 0, copied)
        /\ run' = run /\ armed' = armed /\ copied' = copied /\ Awaited' = 0
    <3>1. run.at = "idle" /\ run' = run /\ armed' = armed /\ copied' = copied
      BY <1>31 DEF Transcript!GoalRun, Transcript!Running
    <3>. QED
      BY <1>1, <3>1, AwaitedIs, BeforeStep
  <2>2. PICK f, g : f = events + 4 /\ g = events + 5
    OBVIOUS
  <2>3. f \in Nat /\ g \in Nat /\ d < f /\ f < g /\ a <= b /\ b <= b /\ d <= f /\ f <= f
        /\ b \in 0..b /\ f \in 0..f /\ b \in Nat /\ 0 \in 0..b
    BY <1>1, <1>3, <2>2
  <2>4. PICK reported, erred :
          /\ reported = Transcript!PushMessage(tui, "system", <<a>>)
          /\ erred = Transcript!PushError(tui, a)
    OBVIOUS
  <2>5. /\ Whole(reported, a, 0, copied) /\ reported.tool = 0
        /\ Whole(erred, a, 0, copied) /\ erred.tool = 0
    BY <1>2, <1>4, <2>1, <2>4, PushErrorKeeps, PushMessageKeeps
  <2>6. ASSUME NEW t, NEW k, Whole(t, k, 0, copied), t.tool = 0, NEW p \in Nat, NEW q \in Nat,
               k <= p, p < q
        PROVE  LET u == Transcript!ResponseComplete(Transcript!Assistant(Transcript!RequestStart(t), q), p)
                   v == Transcript!ResponseComplete(Transcript!AssistantDelta(Transcript!RequestStart(t), q), p)
               IN  /\ Whole(u, q, 0, copied) /\ u.tool = 0
                   /\ Whole(v, q, 0, copied) /\ v.tool = 0
    <3>1. PICK s, x, y, u, v :
            /\ s = Transcript!RequestStart(t)
            /\ x = Transcript!Assistant(s, q) /\ u = Transcript!ResponseComplete(x, p)
            /\ y = Transcript!AssistantDelta(s, q) /\ v = Transcript!ResponseComplete(y, p)
      OBVIOUS
    <3>2. Whole(s, p, p, copied)
      <4>1. p \in 0..p
        OBVIOUS
      <4>. QED
        BY <2>6, <3>1, <4>1, RequestStartKeeps
    <3>3. Whole(x, q, p, copied) /\ x.tool = 0 /\ Whole(y, q, p, copied) /\ y.tool = 0
      BY <2>6, <3>1, <3>2, AssistantKeeps, AssistantDeltaKeeps
    <3>4. Whole(u, q, p, copied) /\ u.tool = 0 /\ Whole(v, q, p, copied) /\ v.tool = 0
      <4>1. p <= p
        OBVIOUS
      <4>. QED
        BY <3>1, <3>3, <4>1, ResponseCompleteKeeps
    <3>5. Whole(u, q, 0, copied) /\ Whole(v, q, 0, copied)
      <4>1. q <= q
        OBVIOUS
      <4>. QED
        BY <3>4, <4>1, Later
    <3>. QED
      BY <3>1, <3>4, <3>5
  <2>7. PICK one : one = Transcript!ResponseComplete(Transcript!Assistant(Transcript!RequestStart(reported), d), b)
    OBVIOUS
  <2>8. PICK half : half = Transcript!ResponseComplete(Transcript!AssistantDelta(Transcript!RequestStart(reported), d), b)
    OBVIOUS
  <2>9. PICK two : two = Transcript!ResponseComplete(Transcript!AssistantDelta(Transcript!RequestStart(half), g), f)
    OBVIOUS
  <2>10. PICK part_ : part_ = Transcript!ResponseComplete(Transcript!AssistantDelta(Transcript!RequestStart(erred), d), b)
    OBVIOUS
  <2>11. PICK again, failed : /\ again = Transcript!RequestStart(part_)
                              /\ failed = Transcript!Note(again, "warning", g)
    OBVIOUS
  <2>12. /\ Whole(one, d, 0, copied) /\ one.tool = 0 /\ Whole(half, d, 0, copied) /\ half.tool = 0
         /\ Whole(part_, d, 0, copied) /\ part_.tool = 0
    BY <1>4, <2>3, <2>5, <2>6, <2>7, <2>8, <2>10
  <2>13. Whole(two, g, 0, copied) /\ two.tool = 0
    BY <1>4, <2>3, <2>6, <2>9, <2>12
  <2>14. Whole(failed, g, 0, copied) /\ failed.tool = 0
    <3>1. Whole(again, f, 0, copied)
      <4>1. 0 \in 0..f
        BY <2>3
      <4>. QED
        BY <2>3, <2>11, <2>12, <4>1, RequestStartKeeps
    <3>. QED
      BY <2>3, <2>11, <3>1, NoteKeeps
  <2>15. /\ events + 2 = b /\ events + 4 = f /\ b + 1 = d /\ f + 1 = g /\ events + 5 = g
         /\ events + 1 = a /\ events + 3 = d
    BY <1>1, <1>3, <2>2
  <2>16. \/ Transcript!Show(one, 3) /\ asked' = asked \cup {b}
         \/ Transcript!Show(two, 5) /\ asked' = asked \cup {b, f}
         \/ Transcript!Show(failed, 5) /\ asked' = asked \cup {b, f}
    BY <1>31, <2>4, <2>7, <2>8, <2>9, <2>10, <2>11, <2>15, Zenon DEF Transcript!GoalRun
  <2>17. RunOf(run', events + 3) /\ RunOf(run', events + 5)
    <3>1. events <= events + 3 /\ events <= events + 5 /\ events + 3 \in Nat /\ events + 5 \in Nat
      BY <1>1
    <3>. QED
      BY <1>1, <2>1, <3>1, RunIsLater
  <2>18. armed' \in BOOLEAN
    BY <1>1, <2>1
  <2>19. CASE Transcript!Show(one, 3) /\ asked' = asked \cup {b}
    <3>1. asked' \subseteq 1..(events + 3)
      BY <1>1, <1>3, <2>19
    <3>. QED
      BY <1>3, <2>1, <2>12, <2>15, <2>17, <2>18, <2>19, <3>1, Shown
  <2>20. CASE (Transcript!Show(two, 5) \/ Transcript!Show(failed, 5)) /\ asked' = asked \cup {b, f}
    <3>1. asked' \subseteq 1..(events + 5)
      BY <1>1, <1>3, <2>2, <2>20
    <3>. QED
      BY <1>3, <2>1, <2>13, <2>14, <2>15, <2>17, <2>18, <2>20, <3>1, Shown
  <2>. QED
    BY <2>16, <2>19, <2>20
<1>32. CASE Transcript!Clear
  <2>1. PICK u : u = [Transcript!NewTranscript EXCEPT !.rows = <<Transcript!Row("system", <<a>>)>>,
                                                      !.phase = tui.phase]
    OBVIOUS
  <2>2. /\ Transcript!Show(u, 1) /\ run' = run /\ asked' = asked /\ armed' = armed /\ copied' = 0
        /\ run.at = "idle"
    BY <1>3, <1>32, <2>1 DEF Transcript!Clear, Transcript!Running
  <2>3. /\ DOMAIN u = Fields /\ u.phase = tui.phase /\ u.rows = <<Transcript!Row("system", <<a>>)>>
        /\ \A f \in Kinds : u[f] = 0
        /\ u.hovered = 0 /\ u.copied = 0
    BY <2>1 DEF Transcript!NewTranscript, Fields, Kinds
  <2>4. Whole(u, a, 0, 0) /\ u.tool = 0
    <3>1. u.phase \in Transcript!Phases /\ a <= a
      BY <1>1, <1>4, <2>3 DEF Whole
    <3>. QED
      BY <1>4, <2>3, <3>1, FreshIsWhole
  <2>5. /\ events' = a /\ tui' = u /\ events' \in 0..MaxEvents /\ copied' \in 0..events'
        /\ asked' \subseteq 1..events'
    <3>1. events' = events + 1 /\ events + 1 <= MaxEvents /\ tui' = u /\ MaxEvents \in Nat
      BY <2>2, BoundsAssumption DEF Transcript!Show
    <3>. QED
      BY <1>1, <1>3, <2>2, <3>1
  <2>6. RunOf(run', events')
    <3>1. events <= a
      BY <1>1, <1>3
    <3>. QED
      BY <1>1, <1>4, <2>2, <2>5, <3>1, RunIsLater
  <2>7. Awaited' = 0 /\ armed' \in BOOLEAN
    BY <1>1, <2>2, AwaitedIs
  <2>. QED
    BY <2>2, <2>4, <2>5, <2>6, <2>7 DEF TranscriptInv
<1>33. CASE UNCHANGED Transcript!vars
  <2>1. tui' = tui /\ run' = run /\ events' = events /\ asked' = asked /\ armed' = armed /\ copied' = copied
    BY <1>33 DEF Transcript!vars
  <2>2. Awaited' = Awaited
    BY <2>1, AwaitedIs
  <2>. QED
    BY <2>1, <2>2 DEF TranscriptInv
<1>. QED
  BY <1>7, <1>8, <1>9, <1>10, <1>11, <1>12, <1>13, <1>14, <1>15, <1>17, <1>18, <1>19, <1>20, <1>21,
     <1>22, <1>23, <1>24, <1>25, <1>26, <1>27, <1>28, <1>29, <1>30, <1>31, <1>32, <1>33
     DEF Transcript!Next

-----------------------------------------------------------------------------
(* What follows for the transcript.                                        *)

LEMMA TranscriptFollows ==
  ASSUME TranscriptInv
  PROVE  /\ Transcript!TypeOK /\ Transcript!ReadsInOrder
         /\ Transcript!PositionsNameTheirRow /\ Transcript!StatsBelongToAnswer
<1>1. /\ events \in Nat /\ RunOf(run, events) /\ asked \subseteq 1..events /\ armed \in BOOLEAN
      /\ copied \in 0..events /\ run \in RunSet(events)
      /\ RowsInv(tui.rows, events) /\ PositionsInv(tui, Awaited, copied)
      /\ tui.phase \in Transcript!Phases /\ DOMAIN tui = Fields
      /\ events \in 0..MaxEvents
      /\ MaxEvents \in Nat /\ MaxRetries \in Nat
  BY BeforeStep, BoundsAssumption DEF Whole, TranscriptInv
<1>2. tui.rows \in Seq(RowSet) /\ DOMAIN tui.rows = 1..Len(tui.rows) /\ Len(tui.rows) \in Nat
  BY <1>1 DEF RowsInv, Rows, RowSet
<1>3. /\ \A f \in Kinds : Names(tui.rows, tui[f], {f})
      /\ Names(tui.rows, tui.hovered, Speech) /\ Names(tui.rows, tui.copied, Speech)
      /\ CopyOf(tui.rows, tui.copied, copied)
  BY <1>1 DEF PositionsInv
<1>4. Transcript!TypeOK
  <2>1. tui.rows \in Seq([role : Transcript!Roles, parts : Seq(Nat), stats : Nat])
    BY <1>2 DEF RowSet
  <2>2. \A f \in {"tool", "compaction", "reasoning", "connection", "assistant", "hovered", "copied"} :
          tui[f] \in 0..Len(tui.rows)
    <3>1. \A f \in Kinds : tui[f] \in 0..Len(tui.rows)
      BY <1>2, <1>3 DEF Names
    <3>2. tui["hovered"] = tui.hovered /\ tui["copied"] = tui.copied
      OBVIOUS
    <3>3. tui["hovered"] \in 0..Len(tui.rows) /\ tui["copied"] \in 0..Len(tui.rows)
      BY <1>2, <1>3, <3>2 DEF Names
    <3>. QED
      BY <3>1, <3>3 DEF Kinds
  <2>3. run \in [at : {"idle", "turn", "compacting", "compacted", "waiting", "tools"},
                 thinking : BOOLEAN, streamed : BOOLEAN, retries : 0..(MaxRetries + MaxEvents),
                 searches : 0..MaxEvents, calls : 0..MaxCalls, due : 0..MaxCalls]
    <3>1. 0..events \subseteq 0..(MaxRetries + MaxEvents) /\ 0..events \subseteq 0..MaxEvents
      BY <1>1
    <3>. QED
      BY <1>1, <3>1, Zenon DEF RunSet, Stages
  <2>4. asked \subseteq 1..MaxEvents /\ copied \in 0..MaxEvents
    BY <1>1
  <2>. QED
    BY <1>1, <2>1, <2>2, <2>3, <2>4 DEF Transcript!TypeOK
<1>5. Transcript!ReadsInOrder
  <2>1. SUFFICES ASSUME NEW i \in DOMAIN tui.rows, NEW j \in DOMAIN tui.rows,
                        NEW p \in DOMAIN Transcript!Body(tui.rows[i]),
                        NEW q \in DOMAIN Transcript!Body(tui.rows[j]),
                        i < j \/ (i = j /\ p < q)
                 PROVE  Transcript!Body(tui.rows[i])[p] < Transcript!Body(tui.rows[j])[q]
    BY DEF Transcript!ReadsInOrder
  <2>2. ASSUME NEW row \in RowSet, NEW x \in DOMAIN Transcript!Body(row)
        PROVE  row.role \in Read /\ Transcript!Body(row) = row.parts /\ x \in 1..Len(row.parts)
    <3>1. DOMAIN <<>> = {}
      OBVIOUS
    <3>2. row.role \in Read
      BY <2>2, <3>1 DEF Transcript!Body, Read, Speech
    <3>3. row.parts \in Seq(Nat)
      BY DEF RowSet
    <3>. QED
      BY <2>2, <3>2, <3>3 DEF Transcript!Body, Read, Speech
  <2>3. tui.rows[i] \in RowSet /\ tui.rows[j] \in RowSet
    BY <1>2
  <2>. QED
    BY <1>1, <1>2, <2>1, <2>2, <2>3 DEF RowsInv, InOrder
<1>6. Transcript!PositionsNameTheirRow
  <2>1. ASSUME NEW f \in Kinds PROVE Transcript!PositionsName(f, tui[f])
    BY <1>2, <1>3 DEF Transcript!PositionsName, Transcript!IsRow, Names
  <2>2. /\ tui["tool"] = tui.tool /\ tui["compaction"] = tui.compaction
        /\ tui["reasoning"] = tui.reasoning /\ tui["connection"] = tui.connection
        /\ tui["assistant"] = tui.assistant
        /\ Kinds = {"tool", "compaction", "reasoning", "connection", "assistant"}
    BY DEF Kinds
  <2>3. ASSUME NEW i, Names(tui.rows, i, Speech) PROVE i \in Transcript!Messages \cup {0}
    BY <1>2, <2>3 DEF Transcript!Messages, Names, Speech
  <2>4. tui.hovered \in Transcript!Messages \cup {0} /\ tui.copied \in Transcript!Messages \cup {0}
    BY <1>3, <2>3
  <2>5. 0 \notin Transcript!Messages
    BY <1>2 DEF Transcript!Messages
  <2>6. IF copied = 0 THEN tui.copied = 0
        ELSE tui.copied \in Transcript!Messages /\ tui.rows[tui.copied].parts[1] = copied
    BY <1>3, <2>4 DEF CopyOf
  <2>7. /\ Transcript!PositionsName("tool", tui.tool)
        /\ Transcript!PositionsName("compaction", tui.compaction)
        /\ Transcript!PositionsName("reasoning", tui.reasoning)
        /\ Transcript!PositionsName("connection", tui.connection)
        /\ Transcript!PositionsName("assistant", tui.assistant)
    BY <2>1, <2>2
  <2>. QED
    BY <2>4, <2>6, <2>7 DEF Transcript!PositionsNameTheirRow
<1>7. Transcript!StatsBelongToAnswer
  <2>1. ASSUME NEW i \in DOMAIN tui.rows, tui.rows[i].stats # 0
        PROVE  Transcript!Last(tui.rows[i].parts) > tui.rows[i].stats
    BY <1>1, <1>2, <2>1 DEF RowsInv, Figured, End, Transcript!Last
  <2>. QED
    BY <2>1 DEF Transcript!StatsBelongToAnswer
<1>. QED
  BY <1>4, <1>5, <1>6, <1>7

-----------------------------------------------------------------------------
(* The parts together.                                                     *)

\* A behaviour stays in its part and takes the steps of it.
LEMMA PartsDoNotMeet ==
  ASSUME [Next]_vars
  PROVE  /\ part' = part
         /\ part = "transcript" => [Transcript!Next]_(Transcript!vars)
         /\ part = "composer" => [Composer!Next]_(Composer!vars)
         /\ part = "view" => [View!Next]_(View!vars)
<1>1. CASE UNCHANGED vars
  <2>1. UNCHANGED <<part, transcriptVars, composerVars, viewVars>>
    BY <1>1 DEF vars
  <2>2. UNCHANGED Transcript!vars
    BY <2>1 DEF transcriptVars, Transcript!vars
  <2>3. UNCHANGED Composer!vars
    BY <2>1 DEF composerVars, Composer!vars, Composer!composer, Composer!settings
  <2>4. UNCHANGED View!vars
    BY <2>1 DEF viewVars, View!vars
  <2>. QED
    BY <2>1, <2>2, <2>3, <2>4
<1>2. CASE Next
  BY <1>2, Zenon DEF Next
<1>. QED
  BY <1>1, <1>2

\* Each part: in it, its invariant.
PartsInv ==
  /\ part = "transcript" => TranscriptInv
  /\ part = "composer" => InputInv
  /\ part = "view" => ViewInv

LEMMA PartsKeepInv == (Init => PartsInv) /\ (PartsInv /\ [Next]_vars => PartsInv')
<1>1. Init => PartsInv
  BY TranscriptBegins, InputBegins, ViewBegins DEF Init, PartsInv
<1>2. PartsInv /\ [Next]_vars => PartsInv'
  BY PartsDoNotMeet, TranscriptKeepsInv, ComposerKeepsInv, ViewKeepsInv DEF PartsInv
<1>. QED
  BY <1>1, <1>2

\* Prompts, answers and tool lines are read in the order in which they came, the settings shown
\* between two runs are stored, and the end of the transcript can be seen (push_message, the
\* display events, the composer's keys and the drawing of ChatTui in chat/tui.rs).
THEOREM EveryPartIsWellFormed == Spec => []PartsAreWellFormed
<1>1. PartsInv => PartsAreWellFormed
  BY TranscriptFollows, ComposerFollows, ViewFollows DEF PartsInv, PartsAreWellFormed
<1>. QED
  BY <1>1, PartsKeepInv, PTL DEF Spec

\* The tool row, the compaction, the reasoning, the connection, the active answer, the message
\* under the mouse and the one copied are each the row they were set to, however many rows
\* were removed before them since (remove_message, adjust_removed_index).
THEOREM PositionsAreRight == Spec => []PositionsNameTheirRow
<1>1. PartsInv => PositionsNameTheirRow
  BY TranscriptFollows DEF PartsInv, PositionsNameTheirRow
<1>. QED
  BY <1>1, PartsKeepInv, PTL DEF Spec

\* The figures of a request are never shown under text that came before the request was made
\* (AgentDisplayEvent::RequestStart and ResponseComplete), for any number of requests and
\* retries.
THEOREM StatsAreOfTheAnswer == Spec => []StatsBelongToAnswer
<1>1. PartsInv => StatsBelongToAnswer
  BY TranscriptFollows DEF PartsInv, StatsBelongToAnswer
<1>. QED
  BY <1>1, PartsKeepInv, PTL DEF Spec

\* Without a run, a click takes the message that was drawn where it was made
\* (message_at_position in chat/tui.rs), at every height of the terminal and however far back
\* the transcript is scrolled.
THEOREM ClicksTakeWhatIsSeen == Spec => []ClickTakesWhatIsSeen
<1>1. PartsInv => ClickTakesWhatIsSeen
  BY DEF PartsInv, ViewInv, ClickTakesWhatIsSeen
<1>. QED
  BY <1>1, PartsKeepInv, PTL DEF Spec
=============================================================================
