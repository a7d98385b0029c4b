------------------------- MODULE ChatSessionsProofs -------------------------
(***************************************************************************)
(* Theorems about ChatSessions: with one program at a time a chat finds    *)
(* what it shows in the table, and no turn is lost that nobody gave up,    *)
(* for every number of names, turns and ticks.                             *)
(***************************************************************************)
EXTENDS ChatSessions, FiniteSetTheorems, TLAPS

\* Two programs on one session overwrite each other's turns.
OneProcess == \A p, q \in Procs : p = q

\* Names and the turns of the older version's files are numbered from 1, as is the clock.
Numbered == MaxTime >= 1 /\ \E n \in 0..MaxTurns : Names = 1..n

-----------------------------------------------------------------------------
(* The invariant.                                                          *)

Good(n) == files[n].kind = "good"
Live(p) == IF proc[p].at \in {"idle", "working"} THEN proc[p].conv ELSE {}

\* A turn that is safe was stored or given up, or is on the screen.
Safe(t) == t \in Stored \/ t \in discarded \/ \E p \in Procs : t \in Live(p)

RowsHoldTurns == \A n \in Names : ~Exists(n) => rows[n].turns = {}

\* A row stands at the name of a file only if the file was imported.
RowsAreOfImports == \A n \in Names : Good(n) /\ Exists(n) => n \in imported

\* What a start does with the files, and what it has in hand.
StartIsOrderly ==
  \A p \in Procs :
    /\ proc[p].at \in {"off", "look", "ready"} => proc[p].conv = {}
    /\ proc[p].at = "save" => /\ Good(proc[p].file) /\ ~Exists(proc[p].file)
                              /\ proc[p].conv = files[proc[p].file].turns
    /\ proc[p].at = "move" => proc[p].file \in imported
    /\ proc[p].at \in {"look", "save", "move"} =>
          \A n \in Names : Good(n) /\ n \notin imported =>
             n \in proc[p].todo \/ (proc[p].at = "save" /\ n = proc[p].file)
    /\ proc[p].at \in {"ready", "idle", "working"} =>
          \A n \in Names : Good(n) => n \in imported
    /\ proc[p].at # "off" /\ proc[p].kind = "chat" => proc[p].session # 0

\* The row of the session in hand has nothing that is not on the screen or given up.
RowIsOfTheChat ==
  \A p \in Procs :
    proc[p].at \in {"idle", "working"} /\ proc[p].session # 0 =>
      rows[proc[p].session].turns \subseteq proc[p].conv \cup discarded

TurnsAreSafe ==
  /\ \A t \in 1..turn : Safe(t) \/ \E n \in Names : t \in files[n].turns
  /\ \A n \in imported : \A t \in files[n].turns : Safe(t)

Inv == /\ TypeOK /\ RowsHoldTurns /\ RowsAreOfImports /\ StartIsOrderly /\ RowIsOfTheChat
       /\ TurnsAreSafe /\ StoredAsShown

-----------------------------------------------------------------------------
(* What is done to the table.                                              *)

LEMMA TimesAreNat == /\ MaxTime \in Nat /\ MaxTurns \in Nat /\ Names \subseteq Nat \ {0}
                     /\ \A x \in Times : x # Never
<1>. QED
  BY SessionAssumption DEF Times, Never

LEMMA NoRowTyped == NoRow \in Row /\ NoRow.turns = {} /\ NoRow.stored = FALSE
<1>1. 0 \in Times
  BY SessionAssumption DEF Times
<1>. QED
  BY <1>1 DEF NoRow, Row

LEMMA DeletedRows ==
  ASSUME NEW table \in [Names -> Row], NEW gone
  PROVE  /\ Deleted(table, gone) \in [Names -> Row]
         /\ \A m \in Names : Deleted(table, gone)[m] = IF m \in gone THEN NoRow ELSE table[m]
<1>. QED
  BY NoRowTyped DEF Deleted

-----------------------------------------------------------------------------
(* What a step has to show.                                                *)

\* The program that takes the step is the only one.
LEMMA Alone == ASSUME OneProcess, NEW p \in Procs PROVE \A q \in Procs : q = p
<1>. QED
  BY DEF OneProcess

LEMMA InStored == /\ \A t : t \in Stored <=> \E n \in Names : t \in rows[n].turns
                  /\ \A t : t \in Stored' <=> \E n \in Names : t \in rows'[n].turns
<1>. QED
  BY DEF Stored

\* No file is touched and nothing safe is lost.
LEMMA SafeStays ==
  ASSUME OneProcess, NEW p \in Procs, discarded \subseteq discarded',
         \A t : t \in Stored \/ t \in Live(p) =>
                  t \in Stored' \/ t \in discarded' \/ t \in Live(p)'
  PROVE  \A t : Safe(t) => Safe(t)'
<1>. QED
  BY Alone DEF Safe

\* A step of a program that runs or waits for input, and goes on doing so.
LEMMA ChatStep ==
  ASSUME Inv, OneProcess, NEW p \in Procs,
         UNCHANGED <<now, files, backups, imported, stuck>>,
         proc[p].at \in {"idle", "working"}, proc' \in [Procs -> Proc],
         proc'[p].at \in {"idle", "working"}, proc'[p].file = proc[p].file,
         proc'[p].kind = "chat" => proc'[p].session # 0,
         rows' \in [Names -> Row], \A n \in Names : ~rows'[n].stored => rows'[n].turns = {},
         discarded \subseteq discarded', discarded' \subseteq Turns, turn' \in 0..MaxTurns,
         \A t \in 1..turn' : t \in 1..turn \/ t \in proc'[p].conv,
         \A t : t \in Stored \/ t \in proc[p].conv =>
                  t \in Stored' \/ t \in discarded' \/ t \in proc'[p].conv,
         proc'[p].session # 0 =>
           rows'[proc'[p].session].turns \subseteq proc'[p].conv \cup discarded',
         proc'[p].at = "idle" /\ proc'[p].kind = "chat" /\ ~proc'[p].unsaved =>
           IF rows'[proc'[p].session].stored
           THEN rows'[proc'[p].session].turns = proc'[p].conv ELSE proc'[p].conv = {}
  PROVE  Inv'
<1>1. \A q \in Procs : q = p
  BY Alone
<1>2. TypeOK'
  BY <1>1 DEF Inv, TypeOK, StoreTypeOK
<1>3. RowsHoldTurns'
  BY DEF RowsHoldTurns, Exists
<1>4. \A n \in Names : Good(n) => n \in imported
  BY DEF Inv, StartIsOrderly
<1>5. RowsAreOfImports' /\ StartIsOrderly'
  BY <1>1, <1>4 DEF RowsAreOfImports, StartIsOrderly, Good
<1>6. RowIsOfTheChat'
  BY <1>1 DEF RowIsOfTheChat
<1>7. StoredAsShown'
  BY <1>1 DEF StoredAsShown, Idle, At, Exists
<1>8. TurnsAreSafe'
  <2>1. \A t : Safe(t) => Safe(t)'
    BY SafeStays DEF Live
  <2>2. \A t \in proc'[p].conv : Safe(t)'
    BY DEF Safe, Live
  <2>. QED
    BY <2>1, <2>2 DEF Inv, TurnsAreSafe
<1>. QED
  BY <1>2, <1>3, <1>5, <1>6, <1>7, <1>8 DEF Inv

\* What holds of it before the step.
LEMMA ChatBefore ==
  ASSUME Inv, NEW p \in Procs, proc[p].at \in {"idle", "working"}
  PROVE  /\ proc[p] \in Proc /\ proc[p].conv \subseteq Turns /\ proc[p].file = 0
         /\ rows \in [Names -> Row] /\ now \in Times /\ turn \in 0..MaxTurns
         /\ discarded \subseteq Turns
         /\ \A n \in Names : rows[n].turns \subseteq Turns /\ (~rows[n].stored => rows[n].turns = {})
         /\ proc[p].session \in Names \cup {0}
         /\ proc[p].kind = "chat" => proc[p].session \in Names
         /\ proc[p].session # 0 =>
              rows[proc[p].session].turns \subseteq proc[p].conv \cup discarded
<1>1. proc[p] \in Proc /\ rows \in [Names -> Row] /\ now \in Times
  BY DEF Inv, TypeOK, StoreTypeOK
<1>2. \A n \in Names : rows[n].turns \subseteq Turns
  BY <1>1 DEF Row
<1>3. proc[p].conv \subseteq Turns /\ proc[p].session \in Names \cup {0}
  BY <1>1 DEF Proc
<1>4. proc[p].file = 0 /\ turn \in 0..MaxTurns /\ discarded \subseteq Turns
  BY DEF Inv, TypeOK
<1>5. proc[p].kind = "chat" => proc[p].session # 0
  BY DEF Inv, StartIsOrderly
<1>6. proc[p].session # 0 =>
        rows[proc[p].session].turns \subseteq proc[p].conv \cup discarded
  BY DEF Inv, RowIsOfTheChat
<1>7. \A n \in Names : ~rows[n].stored => rows[n].turns = {}
  BY DEF Inv, RowsHoldTurns, Exists
<1>. QED
  BY <1>1, <1>2, <1>3, <1>4, <1>5, <1>6, <1>7

-----------------------------------------------------------------------------
(* Turns.                                                                  *)

LEMMA BeginRunKeepsInv == ASSUME Inv, OneProcess, NEW p \in Procs, BeginRun(p) PROVE Inv'
<1>0. /\ proc[p].at = "idle" /\ turn < MaxTurns /\ turn' = turn + 1
      /\ proc' = [proc EXCEPT ![p].at = "working", ![p].conv = @ \cup {turn + 1}]
      /\ UNCHANGED <<now, rows, files, backups, discarded, imported, stuck>>
  BY DEF BeginRun, At, storeVars
<1>b. /\ proc[p] \in Proc /\ proc[p].conv \subseteq Turns /\ turn \in 0..MaxTurns
      /\ rows \in [Names -> Row] /\ discarded \subseteq Turns
      /\ \A n \in Names : ~rows[n].stored => rows[n].turns = {}
      /\ proc[p].session # 0 => rows[proc[p].session].turns \subseteq proc[p].conv \cup discarded
      /\ proc[p].kind = "chat" => proc[p].session \in Names
  BY <1>0, ChatBefore
<1>1. /\ proc'[p] = [proc[p] EXCEPT !.at = "working", !.conv = proc[p].conv \cup {turn + 1}]
      /\ turn + 1 \in Turns
  BY <1>0, <1>b, TimesAreNat DEF Turns, Inv, TypeOK
<1>2. /\ proc'[p].at = "working" /\ proc'[p].file = proc[p].file
      /\ proc'[p].kind = proc[p].kind /\ proc'[p].session = proc[p].session
      /\ proc'[p].conv = proc[p].conv \cup {turn + 1}
      /\ proc'[p] \in Proc
  <2>1. proc[p].conv \cup {turn + 1} \in SUBSET Turns
    BY <1>1, <1>b
  <2>. QED
    BY <1>1, <1>b, <2>1 DEF Proc
<1>3. proc' \in [Procs -> Proc]
  BY <1>0, <1>1, <1>2 DEF Inv, TypeOK
<1>4. Stored' = Stored
  BY <1>0 DEF Stored
<1>5. 0 \notin Names /\ turn' \in 0..MaxTurns
      /\ \A t \in 1..turn' : t \in 1..turn \/ t \in proc'[p].conv
  <2>1. 0 \notin Names /\ turn' \in 0..MaxTurns
    BY <1>0, <1>b, TimesAreNat
  <2>2. \A t \in 1..(turn + 1) : t \in 1..turn \/ t = turn + 1
    BY <1>b
  <2>. QED
    BY <1>0, <1>2, <2>1, <2>2
<1>. QED
  BY <1>0, <1>b, <1>2, <1>3, <1>4, <1>5, ChatStep

\* The row of the session gets what is on the screen.
LEMMA SavedKeeps ==
  ASSUME Inv, NEW p \in Procs, proc[p].at \in {"idle", "working"}, proc[p].session # 0
  PROVE  LET table == Saved(rows, proc[p].session, proc[p].conv) IN
         /\ table \in [Names -> Row]
         /\ table[proc[p].session].turns = proc[p].conv /\ table[proc[p].session].stored = TRUE
         /\ \A m \in Names \ {proc[p].session} : table[m] = rows[m]
         /\ \A n \in Names : ~table[n].stored => table[n].turns = {}
         /\ \A n \in Names : table[n].turns \subseteq Turns
         /\ \A t : t \in Stored \/ t \in proc[p].conv =>
                     t \in discarded \/ \E n \in Names : t \in table[n].turns
<1>. DEFINE s == proc[p].session
            table == Saved(rows, s, proc[p].conv)
<1>1. /\ proc[p].conv \in SUBSET Turns /\ rows \in [Names -> Row] /\ now \in Times /\ s \in Names
      /\ \A n \in Names : rows[n].turns \subseteq Turns /\ (~rows[n].stored => rows[n].turns = {})
      /\ rows[s].turns \subseteq proc[p].conv \cup discarded
  BY ChatBefore
<1>2. /\ table \in [Names -> Row] /\ table[s].turns = proc[p].conv /\ table[s].stored = TRUE
      /\ \A m \in Names \ {s} : table[m] = rows[m]
  <2>1. rows[s] \in Row
    BY <1>1
  <2>2. [turns |-> proc[p].conv, updated |-> now, opened |-> rows[s].opened, stored |-> TRUE] \in Row
    BY <1>1, <2>1 DEF Row
  <2>. QED
    BY <1>1, <2>2 DEF Saved
<1>. HIDE DEF table
<1>3. \A n \in Names : (~table[n].stored => table[n].turns = {}) /\ table[n].turns \subseteq Turns
  BY <1>1, <1>2
<1>4. ASSUME NEW t, t \in Stored \/ t \in proc[p].conv
      PROVE  t \in discarded \/ \E n \in Names : t \in table[n].turns
  <2>1. CASE t \in proc[p].conv
    BY <1>1, <1>2, <2>1
  <2>2. CASE t \in Stored
    <3>1. PICK n \in Names : t \in rows[n].turns
      BY <2>2, InStored
    <3>. QED
      BY <1>1, <1>2, <3>1
  <2>. QED
    BY <1>4, <2>1, <2>2
<1>. QED
  BY <1>2, <1>3, <1>4 DEF table

LEMMA EndRunKeepsInv == ASSUME Inv, OneProcess, NEW p \in Procs, EndRun(p) PROVE Inv'
<1>0. /\ proc[p].at = "working" /\ proc[p].kind = "chat"
      /\ rows' = IF proc[p].session # 0 THEN Saved(rows, proc[p].session, proc[p].conv) ELSE rows
      /\ proc' = [proc EXCEPT ![p].at = "idle", ![p].unsaved = FALSE]
      /\ UNCHANGED <<now, files, backups, turn, discarded, imported, stuck>>
  BY DEF EndRun, At, Kept, SavesAfterRun
<1>b. /\ proc[p] \in Proc /\ turn \in 0..MaxTurns /\ proc[p].session \in Names
      /\ discarded \subseteq Turns
  BY <1>0, ChatBefore
<1>1. proc[p].session # 0 /\ rows' = Saved(rows, proc[p].session, proc[p].conv)
  BY <1>0, <1>b, TimesAreNat
<1>2. /\ rows' \in [Names -> Row]
      /\ rows'[proc[p].session].turns = proc[p].conv /\ rows'[proc[p].session].stored = TRUE
      /\ \A n \in Names : ~rows'[n].stored => rows'[n].turns = {}
      /\ \A t : t \in Stored \/ t \in proc[p].conv =>
                  t \in discarded \/ \E n \in Names : t \in rows'[n].turns
  BY <1>0, <1>1, SavedKeeps
<1>3. proc'[p] = [proc[p] EXCEPT !.at = "idle", !.unsaved = FALSE]
  BY <1>0 DEF Inv, TypeOK
<1>4. /\ proc'[p].at = "idle" /\ proc'[p].file = proc[p].file
      /\ proc'[p].kind = proc[p].kind /\ proc'[p].session = proc[p].session
      /\ proc'[p].conv = proc[p].conv /\ proc'[p] \in Proc
  BY <1>3, <1>b DEF Proc
<1>5. proc' \in [Procs -> Proc]
  BY <1>0, <1>3, <1>4 DEF Inv, TypeOK
<1>6. \A t : t \in Stored \/ t \in proc[p].conv => t \in discarded \/ t \in Stored'
  BY <1>2, InStored
<1>. QED
  BY <1>0, <1>b, <1>1, <1>2, <1>4, <1>5, <1>6, ChatStep

LEMMA GoalRunFailsKeepsInv == ASSUME Inv, OneProcess, NEW p \in Procs, GoalRunFails(p) PROVE Inv'
<1>0. /\ proc[p].at = "working" /\ proc[p].kind = "chat"
      /\ proc' = [proc EXCEPT ![p].at = "idle", ![p].unsaved = TRUE]
      /\ UNCHANGED <<now, rows, files, backups, turn, discarded, imported, stuck>>
  BY DEF GoalRunFails, At, OnlyProc, storeVars
<1>b. /\ proc[p] \in Proc /\ turn \in 0..MaxTurns /\ proc[p].session \in Names
      /\ rows \in [Names -> Row] /\ discarded \subseteq Turns
      /\ \A n \in Names : ~rows[n].stored => rows[n].turns = {}
      /\ proc[p].session # 0 => rows[proc[p].session].turns \subseteq proc[p].conv \cup discarded
  BY <1>0, ChatBefore
<1>3. proc'[p] = [proc[p] EXCEPT !.at = "idle", !.unsaved = TRUE]
  BY <1>0 DEF Inv, TypeOK
<1>4. /\ proc'[p].at = "idle" /\ proc'[p].file = proc[p].file /\ proc'[p].unsaved = TRUE
      /\ proc'[p].kind = proc[p].kind /\ proc'[p].session = proc[p].session
      /\ proc'[p].conv = proc[p].conv /\ proc'[p] \in Proc
  BY <1>3, <1>b DEF Proc
<1>5. proc' \in [Procs -> Proc]
  BY <1>0, <1>3, <1>4 DEF Inv, TypeOK
<1>6. Stored' = Stored /\ proc[p].session # 0
  BY <1>0, <1>b, TimesAreNat DEF Stored
<1>. QED
  BY <1>0, <1>b, <1>4, <1>5, <1>6, ChatStep

\* A program that ends, whether it was told to or not.
LEMMA OffStep ==
  ASSUME Inv, OneProcess, NEW p \in Procs,
         UNCHANGED <<now, files, backups, turn, imported, stuck>>,
         proc' = [proc EXCEPT ![p] = Off], rows' \in [Names -> Row],
         \A n \in Names : ~rows'[n].stored => rows'[n].turns = {},
         \A n \in Names : Good(n) /\ rows'[n].stored => n \in imported,
         discarded \subseteq discarded', discarded' \subseteq Turns,
         \A t : t \in Stored \/ t \in Live(p) => t \in Stored' \/ t \in discarded'
  PROVE  Inv'
<1>1. \A q \in Procs : q = p
  BY Alone
<1>2. proc'[p] = Off /\ Off \in Proc /\ proc' \in [Procs -> Proc]
  BY DEF Inv, TypeOK, Off, Proc
<1>3. Off.at = "off" /\ Off.file = 0 /\ Off.conv = {}
  BY DEF Off
<1>4. TypeOK'
  BY <1>1, <1>2, <1>3 DEF Inv, TypeOK, StoreTypeOK
<1>5. RowsHoldTurns' /\ RowsAreOfImports'
  BY DEF RowsHoldTurns, RowsAreOfImports, Exists, Good
<1>6. StartIsOrderly' /\ RowIsOfTheChat' /\ StoredAsShown'
  BY <1>1, <1>2, <1>3 DEF StartIsOrderly, RowIsOfTheChat, StoredAsShown, Idle, At
<1>7. \A t : Safe(t) => Safe(t)'
  BY SafeStays
<1>8. TurnsAreSafe'
  BY <1>7 DEF Inv, TurnsAreSafe
<1>. QED
  BY <1>4, <1>5, <1>6, <1>8 DEF Inv

LEMMA EndOnceKeepsInv == ASSUME Inv, OneProcess, NEW p \in Procs, EndOnce(p) PROVE Inv'
<1>0. /\ proc[p].at = "working" /\ proc' = [proc EXCEPT ![p] = Off]
      /\ UNCHANGED <<now, files, backups, turn, imported, stuck>>
      /\ \/ /\ proc[p].session # 0 /\ rows' = Saved(rows, proc[p].session, proc[p].conv)
            /\ discarded' = discarded
         \/ rows' = rows /\ discarded' = GiveUp(p)
  BY DEF EndOnce, At, Kept, SavesAfterRun
<1>b. /\ rows \in [Names -> Row] /\ discarded \subseteq Turns /\ proc[p].conv \subseteq Turns
      /\ \A n \in Names : ~rows[n].stored => rows[n].turns = {}
  BY <1>0, ChatBefore
<1>1. Live(p) = proc[p].conv
  BY <1>0 DEF Live
<1>2. \A n \in Names : Good(n) => n \in imported
  BY <1>0 DEF Inv, StartIsOrderly
<1>3. CASE /\ proc[p].session # 0 /\ rows' = Saved(rows, proc[p].session, proc[p].conv)
           /\ discarded' = discarded
  <2>1. /\ rows' \in [Names -> Row] /\ \A n \in Names : ~rows'[n].stored => rows'[n].turns = {}
        /\ \A t : t \in Stored \/ t \in proc[p].conv =>
                    t \in discarded \/ \E n \in Names : t \in rows'[n].turns
    BY <1>0, <1>3, SavedKeeps
  <2>2. \A t : t \in Stored \/ t \in proc[p].conv => t \in discarded' \/ t \in Stored'
    BY <1>3, <2>1, InStored
  <2>. QED
    BY <1>0, <1>b, <1>1, <1>2, <1>3, <2>1, <2>2, OffStep
<1>4. CASE rows' = rows /\ discarded' = GiveUp(p)
  <2>1. /\ discarded' \subseteq Turns /\ discarded \subseteq discarded'
        /\ \A t \in proc[p].conv : t \in discarded' \/ t \in Stored
    BY <1>b, <1>4 DEF GiveUp
  <2>2. Stored' = Stored
    BY <1>4 DEF Stored
  <2>. QED
    BY <1>0, <1>b, <1>1, <1>2, <1>4, <2>1, <2>2, OffStep
<1>. QED
  BY <1>0, <1>3, <1>4

LEMMA StopKeepsInv == ASSUME Inv, OneProcess, NEW p \in Procs, Stop(p) PROVE Inv'
<1>0. /\ proc' = [proc EXCEPT ![p] = Off] /\ discarded' = GiveUp(p)
      /\ UNCHANGED <<now, rows, files, backups, turn, imported, stuck>>
  BY DEF Stop, storeVars
<1>1. /\ proc[p].conv \subseteq Turns /\ rows \in [Names -> Row] /\ discarded \subseteq Turns
      /\ \A n \in Names : ~rows[n].stored => rows[n].turns = {}
      /\ \A n \in Names : Good(n) /\ rows[n].stored => n \in imported
  BY DEF Inv, TypeOK, StoreTypeOK, Proc, RowsHoldTurns, RowsAreOfImports, Exists
<1>2. /\ discarded' \subseteq Turns /\ discarded \subseteq discarded'
      /\ \A t \in Live(p) : t \in discarded' \/ t \in Stored
  BY <1>0, <1>1 DEF GiveUp, Live
<1>3. Stored' = Stored
  BY <1>0 DEF Stored
<1>. QED
  BY <1>0, <1>1, <1>2, <1>3, OffStep

-----------------------------------------------------------------------------
(* Session commands.                                                       *)

\* Before a command: a chat, whose row SavedKeeps speaks of.
LEMMA IdleBefore ==
  ASSUME Inv, NEW p \in Procs, Idle(p)
  PROVE  /\ proc[p].at = "idle" /\ proc[p].kind = "chat" /\ proc[p] \in Proc
         /\ proc[p].session \in Names /\ proc[p].session # 0 /\ 0 \notin Names
         /\ proc[p].conv \subseteq Turns /\ discarded \subseteq Turns /\ turn \in 0..MaxTurns
         /\ rows \in [Names -> Row] /\ now \in Times
         /\ \A n \in Names : rows[n].turns \subseteq Turns /\ (~rows[n].stored => rows[n].turns = {})
         /\ rows[proc[p].session].turns \subseteq proc[p].conv \cup discarded
         /\ ~proc[p].unsaved => IF rows[proc[p].session].stored
                                THEN rows[proc[p].session].turns = proc[p].conv
                                ELSE proc[p].conv = {}
<1>1. proc[p].at = "idle" /\ proc[p].kind = "chat"
  BY DEF Idle, At
<1>2. proc[p].session \in Names /\ proc[p].session # 0 /\ 0 \notin Names
  BY <1>1, ChatBefore, TimesAreNat
<1>3. ~proc[p].unsaved => IF rows[proc[p].session].stored
                          THEN rows[proc[p].session].turns = proc[p].conv
                          ELSE proc[p].conv = {}
  BY DEF Inv, StoredAsShown, Exists
<1>. QED
  BY <1>1, <1>2, <1>3, ChatBefore

LEMMA ClearKeepsInv == ASSUME Inv, OneProcess, NEW p \in Procs, Clear(p) PROVE Inv'
<1>0. /\ Idle(p) /\ rows' = Saved(rows, proc[p].session, {})
      /\ discarded' = discarded \cup proc[p].conv
      /\ proc' = [proc EXCEPT ![p].conv = {}, ![p].unsaved = FALSE]
      /\ UNCHANGED <<now, files, backups, turn, imported, stuck>>
  BY DEF Clear, Kept
<1>b. /\ proc[p].at = "idle" /\ proc[p].kind = "chat" /\ proc[p] \in Proc
      /\ proc[p].session \in Names /\ proc[p].session # 0
      /\ proc[p].conv \subseteq Turns /\ discarded \subseteq Turns /\ turn \in 0..MaxTurns
      /\ rows \in [Names -> Row] /\ now \in Times
      /\ \A n \in Names : ~rows[n].stored => rows[n].turns = {}
      /\ rows[proc[p].session].turns \subseteq proc[p].conv \cup discarded
  BY <1>0, IdleBefore
<1>1. /\ rows' \in [Names -> Row]
      /\ rows'[proc[p].session].turns = {} /\ rows'[proc[p].session].stored = TRUE
      /\ \A m \in Names \ {proc[p].session} : rows'[m] = rows[m]
  <2>1. rows[proc[p].session] \in Row
    BY <1>b
  <2>2. [turns |-> {}, updated |-> now, opened |-> rows[proc[p].session].opened,
         stored |-> TRUE] \in Row
    BY <1>b, <2>1 DEF Row
  <2>. QED
    BY <1>0, <1>b, <2>2 DEF Saved
<1>2. proc'[p] = [proc[p] EXCEPT !.conv = {}, !.unsaved = FALSE]
  BY <1>0 DEF Inv, TypeOK
<1>3. /\ proc'[p].at = "idle" /\ proc'[p].file = proc[p].file
      /\ proc'[p].kind = "chat" /\ proc'[p].session = proc[p].session
      /\ proc'[p].conv = {} /\ proc'[p] \in Proc
  BY <1>2, <1>b DEF Proc
<1>4. proc' \in [Procs -> Proc]
  BY <1>0, <1>2, <1>3 DEF Inv, TypeOK
<1>5. \A t : t \in Stored \/ t \in proc[p].conv => t \in Stored' \/ t \in discarded'
  <2>. SUFFICES ASSUME NEW t \in Stored PROVE t \in Stored' \/ t \in discarded'
    BY <1>0
  <2>1. PICK n \in Names : t \in rows[n].turns
    BY InStored
  <2>. QED
    BY <1>0, <1>b, <1>1, <2>1, InStored
<1>6. \A n \in Names : ~rows'[n].stored => rows'[n].turns = {}
  BY <1>b, <1>1
<1>7. discarded \subseteq discarded' /\ discarded' \subseteq Turns
  BY <1>0, <1>b
<1>. QED
  BY <1>0, <1>b, <1>1, <1>3, <1>4, <1>5, <1>6, <1>7, ChatStep

LEMMA NewSessionKeepsInv == ASSUME Inv, OneProcess, NEW p \in Procs, NewSession(p) PROVE Inv'
<1>. DEFINE left == Saved(rows, proc[p].session, proc[p].conv)
<1>0. PICK s \in Names :
        /\ Idle(p) /\ rows' = Saved(left, s, {}) /\ discarded' = discarded \cup left[s].turns
        /\ proc' = [proc EXCEPT ![p].session = s, ![p].conv = {}, ![p].unsaved = FALSE]
        /\ UNCHANGED <<now, files, backups, turn, imported, stuck>>
  BY DEF NewSession, Kept, LeaveSession
<1>b. /\ proc[p].at = "idle" /\ proc[p].kind = "chat" /\ proc[p] \in Proc
      /\ proc[p].session # 0 /\ 0 \notin Names /\ now \in Times
      /\ discarded \subseteq Turns /\ turn \in 0..MaxTurns
  BY <1>0, IdleBefore
<1>l. /\ left \in [Names -> Row]
      /\ \A n \in Names : left[n].turns \subseteq Turns /\ (~left[n].stored => left[n].turns = {})
      /\ \A t : t \in Stored \/ t \in proc[p].conv =>
                  t \in discarded \/ \E n \in Names : t \in left[n].turns
  BY <1>b, SavedKeeps
<1>. HIDE DEF left
<1>1. /\ rows' \in [Names -> Row] /\ rows'[s].turns = {} /\ rows'[s].stored = TRUE
      /\ \A m \in Names \ {s} : rows'[m] = left[m]
  <2>1. left[s] \in Row
    BY <1>l
  <2>2. [turns |-> {}, updated |-> now, opened |-> left[s].opened, stored |-> TRUE] \in Row
    BY <1>b, <2>1 DEF Row
  <2>. QED
    BY <1>0, <1>l, <2>2 DEF Saved
<1>2. proc'[p] = [proc[p] EXCEPT !.session = s, !.conv = {}, !.unsaved = FALSE]
  BY <1>0 DEF Inv, TypeOK
<1>3. /\ proc'[p].at = "idle" /\ proc'[p].file = proc[p].file
      /\ proc'[p].kind = "chat" /\ proc'[p].session = s
      /\ proc'[p].conv = {} /\ proc'[p] \in Proc
  BY <1>2, <1>b DEF Proc
<1>4. proc' \in [Procs -> Proc]
  BY <1>0, <1>2, <1>3 DEF Inv, TypeOK
<1>5. \A t : t \in Stored \/ t \in proc[p].conv => t \in Stored' \/ t \in discarded'
  <2>. SUFFICES ASSUME NEW t, t \in Stored \/ t \in proc[p].conv
                PROVE  t \in Stored' \/ t \in discarded'
    OBVIOUS
  <2>1. CASE t \in discarded
    BY <1>0, <2>1
  <2>2. ASSUME NEW n \in Names, t \in left[n].turns PROVE t \in Stored' \/ t \in discarded'
    BY <1>0, <1>1, <2>2, InStored
  <2>. QED
    BY <1>l, <2>1, <2>2
<1>6. \A n \in Names : ~rows'[n].stored => rows'[n].turns = {}
  BY <1>l, <1>1
<1>7. discarded \subseteq discarded' /\ discarded' \subseteq Turns
  BY <1>0, <1>b, <1>l
<1>. QED
  BY <1>0, <1>b, <1>1, <1>3, <1>4, <1>5, <1>6, <1>7, ChatStep

LEMMA SwitchSessionKeepsInv ==
  ASSUME Inv, OneProcess, NEW p \in Procs, SwitchSession(p) PROVE Inv'
<1>. DEFINE left == Saved(rows, proc[p].session, proc[p].conv)
<1>0. PICK s \in Names :
        /\ Idle(p) /\ rows[s].stored /\ rows' = Opened(left, s)
        /\ proc' = [proc EXCEPT ![p].session = s, ![p].conv = left[s].turns, ![p].unsaved = FALSE]
        /\ UNCHANGED <<now, files, backups, turn, discarded, imported, stuck>>
  BY DEF SwitchSession, Kept, LeaveSession, Exists
<1>b. /\ proc[p].at = "idle" /\ proc[p].kind = "chat" /\ proc[p] \in Proc
      /\ proc[p].session # 0 /\ 0 \notin Names /\ now \in Times
      /\ discarded \subseteq Turns /\ turn \in 0..MaxTurns
  BY <1>0, IdleBefore
<1>l. /\ left \in [Names -> Row]
      /\ left[proc[p].session].stored = TRUE
      /\ \A m \in Names \ {proc[p].session} : left[m] = rows[m]
      /\ \A n \in Names : left[n].turns \subseteq Turns /\ (~left[n].stored => left[n].turns = {})
      /\ \A t : t \in Stored \/ t \in proc[p].conv =>
                  t \in discarded \/ \E n \in Names : t \in left[n].turns
  BY <1>b, SavedKeeps
<1>s. left[s].stored
  BY <1>0, <1>l
<1>. HIDE DEF left
<1>1. /\ rows' \in [Names -> Row]
      /\ \A m \in Names : rows'[m].turns = left[m].turns /\ rows'[m].stored = left[m].stored
  <2>1. left[s] \in Row
    BY <1>l
  <2>2. [left[s] EXCEPT !.opened = now] \in Row
    BY <1>b, <2>1 DEF Row
  <2>. QED
    BY <1>0, <1>l, <2>1, <2>2 DEF Opened, Row
<1>2. proc'[p] = [proc[p] EXCEPT !.session = s, !.conv = left[s].turns, !.unsaved = FALSE]
  BY <1>0 DEF Inv, TypeOK
<1>3. /\ proc'[p].at = "idle" /\ proc'[p].file = proc[p].file
      /\ proc'[p].kind = "chat" /\ proc'[p].session = s
      /\ proc'[p].conv = left[s].turns /\ proc'[p] \in Proc
  BY <1>2, <1>b, <1>l DEF Proc
<1>4. proc' \in [Procs -> Proc]
  BY <1>0, <1>2, <1>3 DEF Inv, TypeOK
<1>5. \A t : t \in Stored \/ t \in proc[p].conv => t \in Stored' \/ t \in discarded'
  BY <1>0, <1>l, <1>1, InStored
<1>6. \A n \in Names : ~rows'[n].stored => rows'[n].turns = {}
  BY <1>l, <1>1
<1>7. /\ rows'[proc'[p].session].stored /\ rows'[proc'[p].session].turns = proc'[p].conv
      /\ proc'[p].session # 0
  BY <1>b, <1>s, <1>1, <1>3
<1>. QED
  BY <1>0, <1>b, <1>1, <1>3, <1>4, <1>5, <1>6, <1>7, ChatStep

LEMMA DeleteSessionKeepsInv ==
  ASSUME Inv, OneProcess, NEW p \in Procs, DeleteSession(p) PROVE Inv'
<1>0. PICK n \in Names \ {proc[p].session} :
        /\ Idle(p) /\ rows' = Deleted(rows, {n}) /\ discarded' = discarded \cup rows[n].turns
        /\ UNCHANGED <<proc, now, files, backups, turn, imported, stuck>>
  BY DEF DeleteSession, Kept
<1>b. /\ proc[p].at = "idle" /\ proc[p].kind = "chat"
      /\ proc[p].session \in Names /\ proc[p].session # 0
      /\ discarded \subseteq Turns /\ turn \in 0..MaxTurns /\ rows \in [Names -> Row]
      /\ \A m \in Names : rows[m].turns \subseteq Turns /\ (~rows[m].stored => rows[m].turns = {})
      /\ rows[proc[p].session].turns \subseteq proc[p].conv \cup discarded
      /\ ~proc[p].unsaved => IF rows[proc[p].session].stored
                             THEN rows[proc[p].session].turns = proc[p].conv
                             ELSE proc[p].conv = {}
  BY <1>0, IdleBefore
<1>1. /\ rows' \in [Names -> Row]
      /\ \A m \in Names : rows'[m] = IF m = n THEN NoRow ELSE rows[m]
  BY <1>0, <1>b, DeletedRows
<1>2. \A m \in Names : ~rows'[m].stored => rows'[m].turns = {}
  BY <1>b, <1>1, NoRowTyped
<1>3. \A t : t \in Stored => t \in Stored' \/ t \in discarded'
  <2>. SUFFICES ASSUME NEW t \in Stored PROVE t \in Stored' \/ t \in discarded'
    OBVIOUS
  <2>1. PICK m \in Names : t \in rows[m].turns
    BY InStored
  <2>. QED
    BY <1>0, <1>1, <2>1, InStored
<1>4. rows'[proc[p].session] = rows[proc[p].session]
  BY <1>0, <1>b, <1>1
<1>5. discarded \subseteq discarded' /\ discarded' \subseteq Turns
  BY <1>0, <1>b
<1>6. proc' \in [Procs -> Proc]
  BY <1>0 DEF Inv, TypeOK
<1>. QED
  BY <1>0, <1>b, <1>1, <1>2, <1>3, <1>4, <1>5, <1>6, ChatStep

\* What renaming does to a table that holds its turns.
LEMMA RenamedRows ==
  ASSUME NEW old \in Names, NEW new \in Names \ {old}, rows \in [Names -> Row], now \in Times,
         rows' = Renamed(rows, old, new)
  PROVE  /\ rows' \in [Names -> Row]
         /\ rows'[old].turns = {} /\ rows'[old].stored = FALSE
         /\ rows'[new].turns = rows[old].turns /\ rows'[new].stored = rows[old].stored
         /\ \A m \in Names \ {old, new} : rows'[m] = rows[m]
<1>1. rows[old] \in Row
  OBVIOUS
<1>2. [rows[old] EXCEPT !.updated = now] \in Row
  BY <1>1 DEF Row
<1>3. /\ [rows[old] EXCEPT !.updated = now].turns = rows[old].turns
      /\ [rows[old] EXCEPT !.updated = now].stored = rows[old].stored
  BY <1>1 DEF Row
<1>. QED
  BY <1>2, <1>3, NoRowTyped DEF Renamed

LEMMA RenameSessionKeepsInv ==
  ASSUME Inv, OneProcess, NEW p \in Procs, RenameSession(p) PROVE Inv'
<1>0. Idle(p) /\ UNCHANGED <<now, files, backups, turn, imported, stuck>>
  BY DEF RenameSession, Kept
<1>b. /\ proc[p].at = "idle" /\ proc[p].kind = "chat" /\ proc[p] \in Proc
      /\ proc[p].session \in Names /\ proc[p].session # 0 /\ 0 \notin Names /\ now \in Times
      /\ discarded \subseteq Turns /\ turn \in 0..MaxTurns /\ rows \in [Names -> Row]
      /\ \A m \in Names : rows[m].turns \subseteq Turns /\ (~rows[m].stored => rows[m].turns = {})
      /\ rows[proc[p].session].turns \subseteq proc[p].conv \cup discarded
      /\ ~proc[p].unsaved => IF rows[proc[p].session].stored
                             THEN rows[proc[p].session].turns = proc[p].conv
                             ELSE proc[p].conv = {}
  BY <1>0, IdleBefore
<1>1. ASSUME NEW new \in Names \ {proc[p].session},
             MayRename(Saved(rows, proc[p].session, proc[p].conv), proc[p].session, new),
             rows' = Renamed(Saved(rows, proc[p].session, proc[p].conv), proc[p].session, new),
             proc' = [proc EXCEPT ![p].session = new, ![p].unsaved = FALSE],
             discarded' = discarded
      PROVE  Inv'
  <2>. DEFINE s == proc[p].session
              left == Saved(rows, s, proc[p].conv)
  <2>l. /\ left \in [Names -> Row] /\ left[s].turns = proc[p].conv /\ left[s].stored = TRUE
        /\ \A n \in Names : left[n].turns \subseteq Turns /\ (~left[n].stored => left[n].turns = {})
        /\ \A t : t \in Stored \/ t \in proc[p].conv =>
                    t \in discarded \/ \E n \in Names : t \in left[n].turns
    BY <1>b, SavedKeeps
  <2>0. discarded' = discarded
    BY <1>1
  <2>1. ~left[new].stored /\ rows' = Renamed(left, s, new)
    BY <1>1 DEF MayRename
  <2>. HIDE DEF left
  <2>2. /\ rows' \in [Names -> Row] /\ rows'[s].turns = {}
        /\ rows'[new].turns = proc[p].conv /\ rows'[new].stored = TRUE
        /\ \A m \in Names \ {s, new} : rows'[m] = left[m]
    <3>1. left[s] \in Row
      BY <1>b, <2>l
    <3>2. /\ [left[s] EXCEPT !.updated = now] \in Row
          /\ [left[s] EXCEPT !.updated = now].turns = proc[p].conv
          /\ [left[s] EXCEPT !.updated = now].stored = TRUE
      BY <1>b, <2>l, <3>1 DEF Row
    <3>. QED
      BY <1>b, <2>l, <2>1, <3>2, NoRowTyped DEF Renamed
  <2>3. \A n \in Names : ~rows'[n].stored => rows'[n].turns = {}
    BY <2>l, <2>2
  <2>4. proc'[p] = [proc[p] EXCEPT !.session = new, !.unsaved = FALSE]
    BY <1>1 DEF Inv, TypeOK
  <2>5. /\ proc'[p].at = "idle" /\ proc'[p].file = proc[p].file
        /\ proc'[p].kind = "chat" /\ proc'[p].session = new
        /\ proc'[p].conv = proc[p].conv /\ proc'[p] \in Proc
    BY <2>4, <1>b DEF Proc
  <2>6. proc' \in [Procs -> Proc]
    BY <1>1, <2>4, <2>5 DEF Inv, TypeOK
  <2>7. \A t : t \in Stored \/ t \in proc[p].conv =>
                 t \in Stored' \/ t \in discarded' \/ t \in proc'[p].conv
    <3>. SUFFICES ASSUME NEW t \in Stored, t \notin proc[p].conv, t \notin discarded
                  PROVE  t \in Stored'
      BY <1>1, <2>5
    <3>1. PICK n \in Names : t \in left[n].turns
      BY <2>l
    <3>2. n # s /\ n # new
      BY <2>l, <2>1, <3>1
    <3>. QED
      BY <2>2, <3>1, <3>2, InStored
  <2>. QED
    BY <1>0, <1>b, <2>0, <2>2, <2>3, <2>5, <2>6, <2>7, ChatStep
<1>2. ASSUME NEW old \in Names \ {proc[p].session}, NEW new \in Names \ {old},
             MayRename(rows, old, new), rows' = Renamed(rows, old, new),
             \/ new # proc[p].session /\ UNCHANGED <<proc, discarded>>
             \/ /\ new = proc[p].session /\ discarded' = discarded \cup rows[old].turns
                /\ proc' = [proc EXCEPT ![p].unsaved = TRUE]
      PROVE  Inv'
  <2>1. /\ rows' \in [Names -> Row]
        /\ rows'[old].turns = {} /\ rows'[old].stored = FALSE
        /\ rows'[new].turns = rows[old].turns /\ rows'[new].stored = rows[old].stored
        /\ \A m \in Names \ {old, new} : rows'[m] = rows[m]
    BY <1>b, <1>2, RenamedRows
  <2>2. ~rows[new].stored /\ rows[new].turns = {} /\ rows[old].stored
    BY <1>b, <1>2 DEF MayRename
  <2>3. \A n \in Names : ~rows'[n].stored => rows'[n].turns = {}
    BY <1>b, <2>1, <2>2
  <2>4. \A t : t \in Stored => t \in Stored'
    <3>. SUFFICES ASSUME NEW t \in Stored PROVE t \in Stored'
      OBVIOUS
    <3>1. PICK n \in Names : t \in rows[n].turns
      BY InStored
    <3>. QED
      BY <1>2, <2>1, <2>2, <3>1, InStored
  <2>5. CASE new # proc[p].session /\ UNCHANGED <<proc, discarded>>
    <3>1. rows'[proc[p].session] = rows[proc[p].session]
      BY <1>b, <1>2, <2>1, <2>5
    <3>2. proc' \in [Procs -> Proc]
      BY <2>5 DEF Inv, TypeOK
    <3>. QED
      BY <1>0, <1>b, <2>1, <2>3, <2>4, <2>5, <3>1, <3>2, ChatStep
  <2>6. CASE /\ new = proc[p].session /\ discarded' = discarded \cup rows[old].turns
             /\ proc' = [proc EXCEPT ![p].unsaved = TRUE]
    <3>0. new = proc[p].session
      BY <2>6
    <3>1. proc'[p] = [proc[p] EXCEPT !.unsaved = TRUE]
      BY <2>6 DEF Inv, TypeOK
    <3>2. /\ proc'[p].at = "idle" /\ proc'[p].file = proc[p].file /\ proc'[p].unsaved = TRUE
          /\ proc'[p].kind = "chat" /\ proc'[p].session = new
          /\ proc'[p].conv = proc[p].conv /\ proc'[p] \in Proc
      BY <3>0, <3>1, <1>b DEF Proc
    <3>3. proc' \in [Procs -> Proc]
      BY <2>6, <3>1, <3>2 DEF Inv, TypeOK
    <3>4. discarded \subseteq discarded' /\ discarded' \subseteq Turns
      BY <1>b, <2>6
    <3>5. rows'[proc'[p].session].turns \subseteq discarded' /\ proc'[p].session # 0
      BY <1>b, <2>1, <2>6, <3>2
    <3>. QED
      BY <1>0, <1>b, <2>1, <2>3, <2>4, <2>6, <3>2, <3>3, <3>4, <3>5, ChatStep
  <2>. QED
    BY <1>2, <2>5, <2>6
<1>. QED
  BY <1>1, <1>2 DEF RenameSession, LeaveSession

-----------------------------------------------------------------------------
(* Starts.                                                                 *)

\* A step of a program that is starting, before it opens its session.
LEMMA StartStep ==
  ASSUME Inv, OneProcess, NEW p \in Procs, turn' = turn,
         proc[p].at \in {"off", "look", "save", "move"}, proc' \in [Procs -> Proc],
         proc'[p].at \in {"look", "save", "move", "ready"},
         proc'[p].at \in {"save", "move"} <=> proc'[p].file # 0,
         StoreTypeOK', discarded \subseteq discarded', discarded' \subseteq Turns,
         imported' \subseteq Names, stuck' \subseteq Names,
         RowsHoldTurns', RowsAreOfImports', StartIsOrderly',
         \A t \in Stored : t \in Stored' \/ t \in discarded',
         \A n \in Names : \A t \in files[n].turns : Safe(t) \/ t \in files'[n].turns,
         \A n \in imported' : \A t \in files'[n].turns :
             Safe(t)' \/ (n \in imported /\ t \in files[n].turns)
  PROVE  Inv'
<1>1. \A q \in Procs : q = p
  BY Alone
<1>2. TypeOK'
  BY <1>1 DEF Inv, TypeOK
<1>3. RowIsOfTheChat' /\ StoredAsShown'
  BY <1>1 DEF RowIsOfTheChat, StoredAsShown, Idle, At
<1>4. \A t : Safe(t) => Safe(t)'
  BY SafeStays DEF Live
<1>5. TurnsAreSafe'
  BY <1>4 DEF Inv, TurnsAreSafe
<1>. QED
  BY <1>2, <1>3, <1>5 DEF Inv

\* What holds of the store and of a file in hand.
LEMMA StoreBefore ==
  ASSUME Inv, NEW p \in Procs
  PROVE  /\ StoreTypeOK /\ rows \in [Names -> Row] /\ files \in [Names -> File] /\ now \in Times
         /\ proc \in [Procs -> Proc] /\ proc[p] \in Proc /\ proc[p].conv \subseteq Turns
         /\ proc[p].file \in Names \cup {0} /\ proc[p].todo \subseteq Names
         /\ proc[p].at \in {"save", "move"} <=> proc[p].file # 0
         /\ discarded \subseteq Turns /\ imported \subseteq Names /\ stuck \subseteq Names
         /\ 0 \notin Names
         /\ \A n \in Names : /\ rows[n].turns \subseteq Turns /\ (~rows[n].stored => rows[n].turns = {})
                             /\ files[n].turns \subseteq Turns
                             /\ Good(n) /\ rows[n].stored => n \in imported
<1>1. /\ rows \in [Names -> Row] /\ files \in [Names -> File] /\ now \in Times /\ StoreTypeOK
      /\ proc \in [Procs -> Proc]
  BY DEF Inv, TypeOK, StoreTypeOK
<1>2. \A n \in Names : rows[n].turns \subseteq Turns /\ files[n].turns \subseteq Turns
  BY <1>1 DEF Row, File
<1>3. /\ proc[p] \in Proc /\ proc[p].conv \subseteq Turns /\ proc[p].file \in Names \cup {0}
      /\ proc[p].todo \subseteq Names
  BY <1>1 DEF Proc
<1>4. /\ proc[p].at \in {"save", "move"} <=> proc[p].file # 0
      /\ discarded \subseteq Turns /\ imported \subseteq Names /\ stuck \subseteq Names
  BY DEF Inv, TypeOK
<1>5. \A n \in Names : /\ ~rows[n].stored => rows[n].turns = {}
                       /\ Good(n) /\ rows[n].stored => n \in imported
  BY DEF Inv, RowsHoldTurns, RowsAreOfImports, Exists
<1>. QED
  BY <1>1, <1>2, <1>3, <1>4, <1>5, TimesAreNat

\* Nothing but the program's own state.
LEMMA QuietStart ==
  ASSUME Inv, OneProcess, NEW p \in Procs,
         UNCHANGED <<now, rows, files, backups, turn, discarded, imported>>,
         stuck' \subseteq Names,
         proc[p].at \in {"off", "look", "save", "move"}, proc' \in [Procs -> Proc],
         proc'[p].at \in {"look", "save", "move", "ready"},
         proc'[p].at \in {"save", "move"} <=> proc'[p].file # 0, StartIsOrderly'
  PROVE  Inv'
<1>1. /\ StoreTypeOK' /\ RowsHoldTurns' /\ RowsAreOfImports' /\ Stored' = Stored
  BY DEF Inv, TypeOK, StoreTypeOK, RowsHoldTurns, RowsAreOfImports, Exists, Good, Stored
<1>. QED
  BY <1>1, StartStep, StoreBefore

LEMMA StartKeepsInv == ASSUME Inv, OneProcess, NEW p \in Procs, Start(p) PROVE Inv'
<1>1. PICK kind \in {"chat", "once"}, s \in Names \cup {0}, fresh \in BOOLEAN :
        /\ kind = "chat" => s # 0
        /\ proc' = [proc EXCEPT ![p] =
              [Off EXCEPT !.at = "look", !.kind = kind, !.session = s, !.fresh = fresh,
                          !.todo = {n \in Names : files[n].kind # "none"}]]
        /\ UNCHANGED <<now, rows, files, backups, turn, discarded, imported, stuck>>
        /\ proc[p].at = "off"
  BY DEF Start, At, OnlyProc, storeVars
<1>2. proc'[p] = [Off EXCEPT !.at = "look", !.kind = kind, !.session = s, !.fresh = fresh,
                             !.todo = {n \in Names : files[n].kind # "none"}]
  BY <1>1, StoreBefore
<1>3. /\ proc'[p].at = "look" /\ proc'[p].conv = {} /\ proc'[p].file = 0
      /\ proc'[p].kind = kind /\ proc'[p].session = s
      /\ proc'[p].todo = {n \in Names : files[n].kind # "none"}
      /\ proc'[p] \in Proc
  BY <1>2 DEF Off, Proc
<1>4. proc' \in [Procs -> Proc]
  BY <1>1, <1>2, <1>3, StoreBefore
<1>5. StartIsOrderly'
  <2>1. \A q \in Procs : q = p
    BY Alone
  <2>2. \A n \in Names : Good(n)' => n \in proc'[p].todo
    BY <1>1, <1>3 DEF Good
  <2>. QED
    BY <1>1, <1>3, <2>1, <2>2 DEF StartIsOrderly
<1>. QED
  BY <1>1, <1>3, <1>4, <1>5, StoreBefore, QuietStart

LEMMA SkipFileKeepsInv == ASSUME Inv, OneProcess, NEW p \in Procs, SkipFile(p) PROVE Inv'
<1>1. PICK n \in proc[p].todo :
        /\ ~Good(n) /\ proc' = [proc EXCEPT ![p].todo = @ \ {n}]
        /\ UNCHANGED <<now, rows, files, backups, turn, discarded, imported, stuck>>
        /\ proc[p].at = "look"
  BY DEF SkipFile, At, OnlyProc, storeVars, Good
<1>2. proc'[p] = [proc[p] EXCEPT !.todo = proc[p].todo \ {n}]
  BY <1>1, StoreBefore
<1>3. /\ proc'[p].at = "look" /\ proc'[p].conv = proc[p].conv /\ proc'[p].file = proc[p].file
      /\ proc'[p].kind = proc[p].kind /\ proc'[p].session = proc[p].session
      /\ proc'[p].todo = proc[p].todo \ {n} /\ proc'[p] \in Proc
  <2>1. proc[p].todo \ {n} \in SUBSET Names /\ proc[p] \in Proc /\ proc[p].at = "look"
    BY <1>1, StoreBefore
  <2>. QED
    BY <1>2, <2>1 DEF Proc
<1>4. proc' \in [Procs -> Proc]
  BY <1>1, <1>2, <1>3, StoreBefore
<1>5. StartIsOrderly'
  <2>1. \A q \in Procs : q = p
    BY Alone
  <2>2. \A m \in Names : Good(m)' => Good(m) /\ m # n
    BY <1>1 DEF Good
  <2>. QED
    BY <1>1, <1>3, <2>1, <2>2 DEF Inv, StartIsOrderly
<1>. QED
  BY <1>1, <1>3, <1>4, <1>5, StoreBefore, QuietStart

LEMMA LookAtFileKeepsInv == ASSUME Inv, OneProcess, NEW p \in Procs, LookAtFile(p) PROVE Inv'
<1>1. PICK n \in proc[p].todo :
        /\ Good(n)
        /\ proc' = [proc EXCEPT ![p].todo = @ \ {n}, ![p].file = n, ![p].at = AfterLook(n),
                                ![p].conv = files[n].turns]
        /\ UNCHANGED <<now, rows, files, backups, turn, discarded, imported, stuck>>
        /\ proc[p].at = "look"
  BY DEF LookAtFile, At, OnlyProc, storeVars, Good
<1>2. PICK place \in {"save", "move"} :
        /\ place = "save" <=> ~rows[n].stored
        /\ proc' = [proc EXCEPT ![p].todo = @ \ {n}, ![p].file = n, ![p].at = place,
                                ![p].conv = files[n].turns]
  BY <1>1 DEF AfterLook, Exists
<1>3. proc'[p] = [proc[p] EXCEPT !.todo = proc[p].todo \ {n}, !.file = n, !.at = place,
                                 !.conv = files[n].turns]
  BY <1>2, StoreBefore
<1>4. /\ proc'[p].at = place /\ proc'[p].conv = files[n].turns /\ proc'[p].file = n
      /\ proc'[p].kind = proc[p].kind /\ proc'[p].session = proc[p].session
      /\ proc'[p].todo = proc[p].todo \ {n} /\ proc'[p] \in Proc
  <2>1. /\ proc[p].todo \ {n} \in SUBSET Names /\ proc[p] \in Proc /\ n \in Names
        /\ files[n].turns \in SUBSET Turns
    BY <1>1, StoreBefore
  <2>. QED
    BY <1>3, <2>1 DEF Proc
<1>5. proc' \in [Procs -> Proc]
  BY <1>2, <1>3, <1>4, StoreBefore
<1>6. n \in Names /\ n # 0 /\ (place = "move" => n \in imported)
  BY <1>1, <1>2, StoreBefore
<1>7. StartIsOrderly'
  <2>1. \A q \in Procs : q = p
    BY Alone
  <2>2. \A m : Good(m)' = Good(m) /\ Exists(m)' = Exists(m)
    BY <1>1 DEF Good, Exists
  <2>3. /\ proc[p].at = "look" /\ Good(n) /\ imported' = imported /\ files' = files
        /\ \A m \in Names : Good(m) /\ m \notin imported => m \in proc[p].todo
        /\ proc[p].kind = "chat" => proc[p].session # 0
    BY <1>1 DEF Inv, StartIsOrderly
  <2>4. place = "save" => ~Exists(n)
    BY <1>2 DEF Exists
  <2>5. \A m \in Names : Good(m)' /\ m \notin imported' =>
           m \in proc'[p].todo \/ (place = "save" /\ m = n)
    BY <1>2, <1>4, <1>6, <2>2, <2>3
  <2>6. place = "save" => Good(n)' /\ ~Exists(n)' /\ proc'[p].conv = files'[n].turns
    BY <1>4, <2>2, <2>3, <2>4
  <2>. QED
    BY <1>4, <1>6, <2>1, <2>3, <2>5, <2>6 DEF StartIsOrderly
<1>. QED
  BY <1>1, <1>4, <1>5, <1>6, <1>7, StoreBefore, QuietStart

LEMMA ImportFileKeepsInv == ASSUME Inv, OneProcess, NEW p \in Procs, ImportFile(p) PROVE Inv'
<1>1. PICK n \in Names :
        /\ n = proc[p].file /\ proc[p].at = "save"
        /\ rows' = Saved(rows, n, proc[p].conv) /\ imported' = imported \cup {n}
        /\ proc' = [proc EXCEPT ![p].at = "move"]
        /\ UNCHANGED <<now, files, backups, turn, discarded, stuck>>
  BY StoreBefore DEF ImportFile, At
<1>b. /\ rows \in [Names -> Row] /\ now \in Times /\ proc[p].conv \subseteq Turns
      /\ proc[p] \in Proc /\ proc \in [Procs -> Proc] /\ n # 0
      /\ \A m \in Names : /\ ~rows[m].stored => rows[m].turns = {}
                          /\ Good(m) /\ rows[m].stored => m \in imported
      /\ imported \subseteq Names /\ discarded \subseteq Turns /\ stuck \subseteq Names
  BY StoreBefore
<1>c. Good(n) /\ rows[n].turns = {} /\ proc[p].conv = files[n].turns
  BY <1>1, <1>b DEF Inv, StartIsOrderly, Exists
<1>2. /\ rows' \in [Names -> Row] /\ rows'[n].turns = files[n].turns /\ rows'[n].stored = TRUE
      /\ \A m \in Names \ {n} : rows'[m] = rows[m]
  <2>1. rows[n] \in Row
    BY <1>b
  <2>2. [turns |-> proc[p].conv, updated |-> now, opened |-> rows[n].opened,
         stored |-> TRUE] \in Row
    BY <1>b, <2>1 DEF Row
  <2>. QED
    BY <1>1, <1>b, <1>c, <2>2 DEF Saved
<1>3. proc'[p] = [proc[p] EXCEPT !.at = "move"]
  BY <1>1, <1>b
<1>4. /\ proc'[p].at = "move" /\ proc'[p].file = n /\ proc'[p].todo = proc[p].todo
      /\ proc'[p].kind = proc[p].kind /\ proc'[p].session = proc[p].session /\ proc'[p] \in Proc
  BY <1>1, <1>3, <1>b DEF Proc
<1>5. proc' \in [Procs -> Proc]
  BY <1>1, <1>3, <1>4, <1>b
<1>6. StoreTypeOK'
  BY <1>1, <1>2, StoreBefore DEF StoreTypeOK
<1>7. RowsHoldTurns' /\ RowsAreOfImports'
  BY <1>1, <1>b, <1>2 DEF RowsHoldTurns, RowsAreOfImports, Exists, Good
<1>8. StartIsOrderly'
  <2>1. \A q \in Procs : q = p
    BY Alone
  <2>2. /\ \A m \in Names : Good(m) /\ m \notin imported => m \in proc[p].todo \/ m = n
        /\ proc[p].kind = "chat" => proc[p].session # 0
    BY <1>1 DEF Inv, StartIsOrderly
  <2>3. \A m \in Names : Good(m)' /\ m \notin imported' => m \in proc'[p].todo
    BY <1>1, <1>4, <2>2 DEF Good
  <2>4. n \in imported'
    BY <1>1
  <2>. QED
    BY <1>4, <2>1, <2>2, <2>3, <2>4 DEF StartIsOrderly
<1>9. \A t \in Stored : t \in Stored'
  BY <1>c, <1>2, InStored
<1>10. \A t \in files'[n].turns : Safe(t)'
  BY <1>1, <1>2, InStored DEF Safe
<1>11. \A m \in imported' : \A t \in files'[m].turns :
         Safe(t)' \/ (m \in imported /\ t \in files[m].turns)
  BY <1>1, <1>10
<1>12. imported' \subseteq Names /\ discarded' = discarded /\ stuck' = stuck /\ files' = files
  BY <1>1, <1>b
<1>. QED
  BY <1>1, <1>b, <1>4, <1>5, <1>6, <1>7, <1>8, <1>9, <1>11, <1>12, StartStep

\* With a file done the program looks at the next.
LEMMA FileDoneLooks ==
  ASSUME Inv, NEW p \in Procs, proc[p].at = "move", proc' = FileDone(p)
  PROVE  /\ proc' \in [Procs -> Proc] /\ proc'[p].at = "look" /\ proc'[p].file = 0
         /\ proc'[p].conv = {} /\ proc'[p].todo = proc[p].todo
         /\ proc'[p].kind = proc[p].kind /\ proc'[p].session = proc[p].session
         /\ \A n \in Names : Good(n) /\ n \notin imported => n \in proc[p].todo
         /\ proc[p].kind = "chat" => proc[p].session # 0
         /\ proc[p].file \in imported /\ proc[p].file \in Names
<1>b. proc[p] \in Proc /\ proc \in [Procs -> Proc] /\ imported \subseteq Names
  BY StoreBefore
<1>1. proc'[p] = [proc[p] EXCEPT !.at = "look", !.file = 0, !.conv = {}]
  BY <1>b DEF FileDone
<1>2. /\ proc'[p].at = "look" /\ proc'[p].file = 0
      /\ proc'[p].conv = {} /\ proc'[p].todo = proc[p].todo
      /\ proc'[p].kind = proc[p].kind /\ proc'[p].session = proc[p].session /\ proc'[p] \in Proc
  BY <1>1, <1>b DEF Proc
<1>3. proc' \in [Procs -> Proc]
  BY <1>b, <1>2 DEF FileDone
<1>4. /\ \A n \in Names : Good(n) /\ n \notin imported => n \in proc[p].todo
      /\ proc[p].kind = "chat" => proc[p].session # 0
      /\ proc[p].file \in imported
  BY DEF Inv, StartIsOrderly
<1>. QED
  BY <1>b, <1>2, <1>3, <1>4

LEMMA MoveFailsKeepsInv == ASSUME Inv, OneProcess, NEW p \in Procs, MoveFails(p) PROVE Inv'
<1>1. /\ proc[p].at = "move" /\ proc' = FileDone(p) /\ stuck' = stuck \cup {proc[p].file}
      /\ UNCHANGED <<now, rows, files, backups, turn, discarded, imported>>
  BY DEF MoveFails, At, storeVars
<1>2. /\ proc' \in [Procs -> Proc] /\ proc'[p].at = "look" /\ proc'[p].file = 0
      /\ proc'[p].conv = {} /\ proc'[p].todo = proc[p].todo
      /\ proc'[p].kind = proc[p].kind /\ proc'[p].session = proc[p].session
      /\ \A n \in Names : Good(n) /\ n \notin imported => n \in proc[p].todo
      /\ proc[p].kind = "chat" => proc[p].session # 0
      /\ proc[p].file \in imported /\ proc[p].file \in Names
  BY <1>1, FileDoneLooks
<1>3. StartIsOrderly'
  <2>1. \A q \in Procs : q = p
    BY Alone
  <2>2. \A n \in Names : Good(n)' /\ n \notin imported' => n \in proc'[p].todo
    BY <1>1, <1>2 DEF Good
  <2>. QED
    BY <1>2, <2>1, <2>2 DEF StartIsOrderly
<1>4. stuck' \subseteq Names
  BY <1>1, <1>2, StoreBefore
<1>. QED
  BY <1>1, <1>2, <1>3, <1>4, QuietStart

LEMMA MoveFileKeepsInv == ASSUME Inv, OneProcess, NEW p \in Procs, MoveFile(p) PROVE Inv'
<1>1. PICK n \in Names :
        /\ n = proc[p].file /\ proc[p].at = "move" /\ proc' = FileDone(p)
        /\ backups' = backups \cup {[name |-> n, turns |-> files[n].turns,
                                     written |-> files[n].written, moved |-> now]}
        /\ files' = [files EXCEPT ![n] = NoFile]
        /\ UNCHANGED <<now, rows, turn, discarded, imported, stuck>>
  BY StoreBefore DEF MoveFile, MoveToBackup, At
<1>2. /\ proc' \in [Procs -> Proc] /\ proc'[p].at = "look" /\ proc'[p].file = 0
      /\ proc'[p].conv = {} /\ proc'[p].todo = proc[p].todo
      /\ proc'[p].kind = proc[p].kind /\ proc'[p].session = proc[p].session
      /\ \A m \in Names : Good(m) /\ m \notin imported => m \in proc[p].todo
      /\ proc[p].kind = "chat" => proc[p].session # 0
      /\ n \in imported
  BY <1>1, FileDoneLooks
<1>3. /\ files' \in [Names -> File] /\ files'[n] = NoFile
      /\ \A m \in Names \ {n} : files'[m] = files[m]
      /\ NoFile.turns = {} /\ NoFile.kind = "none"
  <2>1. NoFile \in File /\ NoFile.turns = {} /\ NoFile.kind = "none"
    <3>1. 0 \in Times
      BY SessionAssumption DEF Times
    <3>. QED
      BY <3>1 DEF NoFile, File
  <2>. QED
    BY <1>1, <2>1, StoreBefore
<1>4. StoreTypeOK'
  <2>1. files[n] \in File /\ now \in Times
    BY StoreBefore
  <2>2. [name |-> n, turns |-> files[n].turns, written |-> files[n].written, moved |-> now]
          \in Backup
    BY <2>1 DEF File, Backup
  <2>. QED
    BY <1>1, <1>3, <2>2, StoreBefore DEF StoreTypeOK
<1>5. RowsHoldTurns' /\ RowsAreOfImports'
  BY <1>1, <1>3, StoreBefore DEF RowsHoldTurns, RowsAreOfImports, Exists, Good
<1>6. StartIsOrderly'
  <2>1. \A q \in Procs : q = p
    BY Alone
  <2>2. \A m \in Names : Good(m)' /\ m \notin imported' => m \in proc'[p].todo
    BY <1>1, <1>2, <1>3 DEF Good
  <2>. QED
    BY <1>2, <2>1, <2>2 DEF StartIsOrderly
<1>7. Stored' = Stored
  BY <1>1 DEF Stored
<1>8. \A t \in files[n].turns : Safe(t)
  BY <1>2 DEF Inv, TurnsAreSafe
<1>9. \A m \in Names : \A t \in files[m].turns : Safe(t) \/ t \in files'[m].turns
  BY <1>3, <1>8
<1>10. \A m \in imported' : \A t \in files'[m].turns : m \in imported /\ t \in files[m].turns
  BY <1>1, <1>3, StoreBefore
<1>11. discarded \subseteq Turns /\ imported \subseteq Names /\ stuck \subseteq Names
  BY StoreBefore
<1>. QED
  BY <1>1, <1>2, <1>4, <1>5, <1>6, <1>7, <1>9, <1>10, <1>11, StartStep

LEMMA CleanUpKeepsInv == ASSUME Inv, OneProcess, NEW p \in Procs, CleanUp(p) PROVE Inv'
<1>1. PICK gone : /\ proc[p].at = "look" /\ proc[p].todo = {} /\ rows' = Deleted(rows, gone)
                  /\ backups' \subseteq backups
                  /\ proc' = [proc EXCEPT ![p].at = "ready"]
                  /\ discarded' = discarded \cup (Stored \ Stored')
                  /\ UNCHANGED <<now, files, turn, imported, stuck>>
  BY DEF CleanUp, Cleanup, At, Stored
<1>b. /\ rows \in [Names -> Row] /\ proc[p] \in Proc /\ proc \in [Procs -> Proc]
      /\ discarded \subseteq Turns /\ imported \subseteq Names /\ stuck \subseteq Names
      /\ proc[p].file = 0
      /\ \A n \in Names : /\ rows[n].turns \subseteq Turns /\ (~rows[n].stored => rows[n].turns = {})
                          /\ Good(n) /\ rows[n].stored => n \in imported
  BY <1>1, StoreBefore
<1>2. /\ rows' \in [Names -> Row]
      /\ \A n \in Names : rows'[n] = NoRow \/ rows'[n] = rows[n]
  BY <1>1, <1>b, DeletedRows
<1>3. proc'[p] = [proc[p] EXCEPT !.at = "ready"]
  BY <1>1, <1>b
<1>4. /\ proc'[p].at = "ready" /\ proc'[p].conv = proc[p].conv /\ proc'[p].file = 0
      /\ proc'[p].kind = proc[p].kind /\ proc'[p].session = proc[p].session /\ proc'[p] \in Proc
  BY <1>3, <1>b DEF Proc
<1>5. proc' \in [Procs -> Proc]
  BY <1>1, <1>3, <1>4, <1>b
<1>6. StoreTypeOK'
  BY <1>1, <1>2, StoreBefore DEF StoreTypeOK
<1>7. RowsHoldTurns' /\ RowsAreOfImports'
  BY <1>1, <1>b, <1>2, NoRowTyped DEF RowsHoldTurns, RowsAreOfImports, Exists, Good
<1>8. StartIsOrderly'
  <2>1. \A q \in Procs : q = p
    BY Alone
  <2>2. /\ \A n \in Names : Good(n) => n \in imported
        /\ proc[p].conv = {} /\ (proc[p].kind = "chat" => proc[p].session # 0)
    BY <1>1 DEF Inv, StartIsOrderly
  <2>3. \A n \in Names : Good(n)' => n \in imported'
    BY <1>1, <2>2 DEF Good
  <2>. QED
    BY <1>4, <2>1, <2>2, <2>3 DEF StartIsOrderly
<1>9. discarded \subseteq discarded' /\ discarded' \subseteq Turns
  <2>1. Stored \subseteq Turns
    BY <1>b, InStored
  <2>. QED
    BY <1>1, <1>b, <2>1
<1>10. \A t \in Stored : t \in Stored' \/ t \in discarded'
  BY <1>1
<1>. QED
  BY <1>1, <1>b, <1>4, <1>5, <1>6, <1>7, <1>8, <1>9, <1>10, StartStep

LEMMA OpenSessionKeepsInv == ASSUME Inv, OneProcess, NEW p \in Procs, OpenSession(p) PROVE Inv'
<1>b. /\ rows \in [Names -> Row] /\ now \in Times /\ proc[p] \in Proc /\ proc \in [Procs -> Proc]
      /\ discarded \subseteq Turns /\ proc[p].session \in Names \cup {0} /\ 0 \notin Names
      /\ \A n \in Names : /\ rows[n].turns \subseteq Turns /\ (~rows[n].stored => rows[n].turns = {})
                          /\ Good(n) /\ rows[n].stored => n \in imported
  BY StoreBefore DEF Proc
<1>0. /\ proc[p].at = "ready" /\ proc[p].conv = {} /\ proc[p].file = 0
      /\ \A n \in Names : Good(n) => n \in imported
      /\ proc[p].kind = "chat" => proc[p].session # 0
      /\ UNCHANGED <<now, files, backups, turn, imported, stuck>>
  BY StoreBefore DEF OpenSession, At, Kept, Inv, StartIsOrderly
<1>1. ASSUME NEW conv \in SUBSET Turns,
             \/ proc' = [proc EXCEPT ![p].at = "idle"] /\ conv = {}
             \/ proc' = [proc EXCEPT ![p].at = "idle", ![p].conv = conv],
             rows' \in [Names -> Row], \A n \in Names : ~rows'[n].stored => rows'[n].turns = {},
             discarded \subseteq discarded', discarded' \subseteq Turns,
             \A t \in Stored : t \in Stored' \/ t \in discarded',
             proc[p].session # 0 => rows'[proc[p].session].turns = conv,
             proc[p].session = 0 => conv = {}
      PROVE  Inv'
  <2>1. \A q \in Procs : q = p
    BY Alone
  <2>3. /\ proc'[p].at = "idle" /\ proc'[p].conv = conv /\ proc'[p].file = 0
        /\ proc'[p].kind = proc[p].kind /\ proc'[p].session = proc[p].session
        /\ proc'[p] \in Proc
    <3>1. CASE proc' = [proc EXCEPT ![p].at = "idle"] /\ conv = {}
      <4>1. proc'[p] = [proc[p] EXCEPT !.at = "idle"]
        BY <3>1, <1>b
      <4>. QED
        BY <3>1, <4>1, <1>b, <1>0 DEF Proc
    <3>2. CASE proc' = [proc EXCEPT ![p].at = "idle", ![p].conv = conv]
      <4>1. proc'[p] = [proc[p] EXCEPT !.at = "idle", !.conv = conv]
        BY <3>2, <1>b
      <4>. QED
        BY <4>1, <1>1, <1>b, <1>0 DEF Proc
    <3>. QED
      BY <1>1, <3>1, <3>2
  <2>4. proc' \in [Procs -> Proc]
    BY <1>1, <1>b, <2>3
  <2>5. TypeOK'
    BY <1>0, <1>1, <2>1, <2>3, <2>4 DEF Inv, TypeOK, StoreTypeOK
  <2>6. RowsHoldTurns' /\ RowsAreOfImports'
    BY <1>0, <1>1 DEF RowsHoldTurns, RowsAreOfImports, Exists, Good
  <2>7. StartIsOrderly'
    BY <1>0, <2>1, <2>3 DEF StartIsOrderly, Good
  <2>8. RowIsOfTheChat'
    BY <1>1, <2>1, <2>3 DEF RowIsOfTheChat
  <2>9. StoredAsShown'
    <3>1. proc[p].session # 0 /\ ~rows'[proc[p].session].stored => conv = {}
      BY <1>1, <1>b
    <3>. QED
      BY <1>0, <1>1, <2>1, <2>3, <3>1 DEF StoredAsShown, Idle, At, Exists
  <2>10. TurnsAreSafe'
    <3>1. \A t : Safe(t) => Safe(t)'
      BY <1>0, <1>1, SafeStays DEF Live
    <3>. QED
      BY <1>0, <3>1 DEF Inv, TurnsAreSafe
  <2>. QED
    BY <2>5, <2>6, <2>7, <2>8, <2>9, <2>10 DEF Inv
<1>2. CASE /\ proc[p].session # 0
           /\ rows' = Saved(rows, proc[p].session, {})
           /\ discarded' = discarded \cup rows[proc[p].session].turns
           /\ proc' = [proc EXCEPT ![p].at = "idle"]
  <2>1. /\ rows' \in [Names -> Row] /\ rows'[proc[p].session].turns = {}
        /\ rows'[proc[p].session].stored = TRUE
        /\ \A m \in Names \ {proc[p].session} : rows'[m] = rows[m]
    <3>1. rows[proc[p].session] \in Row /\ proc[p].session \in Names
      BY <1>b, <1>2
    <3>2. [turns |-> {}, updated |-> now, opened |-> rows[proc[p].session].opened,
           stored |-> TRUE] \in Row
      BY <1>b, <3>1 DEF Row
    <3>. QED
      BY <1>b, <1>2, <3>1, <3>2 DEF Saved
  <2>2. \A t \in Stored : t \in Stored' \/ t \in discarded'
    BY <1>2, <2>1, InStored
  <2>3. {} \in SUBSET Turns /\ \A n \in Names : ~rows'[n].stored => rows'[n].turns = {}
    BY <1>b, <2>1
  <2>4. discarded \subseteq discarded' /\ discarded' \subseteq Turns
    BY <1>b, <1>2
  <2>. QED
    BY <1>1, <1>2, <2>1, <2>2, <2>3, <2>4
<1>3. CASE /\ proc[p].session # 0 /\ Exists(proc[p].session)
           /\ rows' = Opened(rows, proc[p].session)
           /\ proc' = [proc EXCEPT ![p].at = "idle", ![p].conv = rows[proc[p].session].turns]
           /\ discarded' = discarded
  <2>1. /\ rows' \in [Names -> Row]
        /\ \A m \in Names : rows'[m].turns = rows[m].turns /\ rows'[m].stored = rows[m].stored
    <3>1. rows[proc[p].session] \in Row /\ proc[p].session \in Names
      BY <1>b, <1>3
    <3>2. [rows[proc[p].session] EXCEPT !.opened = now] \in Row
      BY <1>b, <3>1 DEF Row
    <3>. QED
      BY <1>b, <1>3, <3>1, <3>2 DEF Opened, Row
  <2>2. \A t \in Stored : t \in Stored'
    BY <2>1, InStored
  <2>3. /\ rows[proc[p].session].turns \in SUBSET Turns
        /\ \A n \in Names : ~rows'[n].stored => rows'[n].turns = {}
        /\ rows'[proc[p].session].turns = rows[proc[p].session].turns
    BY <1>b, <1>3, <2>1
  <2>. QED
    BY <1>1, <1>3, <1>b, <2>1, <2>2, <2>3
<1>4. CASE /\ proc[p].session # 0 => ~Exists(proc[p].session)
           /\ proc' = [proc EXCEPT ![p].at = "idle"]
           /\ UNCHANGED <<rows, discarded>>
  <2>1. Stored' = Stored /\ {} \in SUBSET Turns
    BY <1>4 DEF Stored
  <2>2. proc[p].session # 0 => rows'[proc[p].session].turns = {}
    BY <1>b, <1>4 DEF Exists
  <2>. QED
    BY <1>1, <1>4, <1>b, <2>1, <2>2
<1>. QED
  BY <1>2, <1>3, <1>4 DEF OpenSession

LEMMA TimePassesKeepsInv == ASSUME Inv, TimePasses PROVE Inv'
<1>1. /\ now' \in Times
      /\ UNCHANGED <<rows, files, backups, proc, turn, discarded, imported, stuck>>
  <2>1. now \in Times
    BY DEF Inv, TypeOK, StoreTypeOK
  <2>. QED
    BY <2>1, TimesAreNat DEF TimePasses, Tick, Times
<1>2. TypeOK'
  BY <1>1 DEF Inv, TypeOK, StoreTypeOK
<1>3. \A t : Safe(t)' <=> Safe(t)
  BY <1>1 DEF Safe, Live, Stored
<1>4. TurnsAreSafe'
  BY <1>1, <1>3 DEF Inv, TurnsAreSafe
<1>. QED
  BY <1>1, <1>2, <1>4 DEF Inv, RowsHoldTurns, RowsAreOfImports, StartIsOrderly, RowIsOfTheChat,
     StoredAsShown, Exists, Good, Idle, At

-----------------------------------------------------------------------------
(* The theorems.                                                           *)

LEMMA InitInv == ASSUME Numbered, Init PROVE Inv
<1>1. PICK k \in 0..MaxTurns : Names = 1..k
  BY DEF Numbered
<1>2. k \in Nat /\ MaxTurns \in Nat /\ MaxTime \in Nat /\ MaxTime >= 1
  BY <1>1, TimesAreNat DEF Numbered
<1>3. Cardinality(Names) = k
  <2>1. Cardinality(1..k) = IF 1 > k THEN 0 ELSE k - 1 + 1
    BY <1>2, FS_Interval
  <2>. QED
    BY <1>1, <1>2, <2>1
<1>4. turn = k /\ turn \in 0..MaxTurns /\ Names = 1..turn /\ Names \subseteq Turns
  BY <1>1, <1>2, <1>3 DEF Init, Turns
<1>5. PICK legacy \in SUBSET Names, old \in 0..1, bad \in SUBSET Names :
        files = [n \in Names |->
           IF n \notin legacy THEN NoFile
           ELSE [turns |-> {n}, written |-> old, kind |-> IF n \in bad THEN "bad" ELSE "good"]]
  BY DEF Init, StoreInit
<1>6. \A n \in Names : files[n] \in File /\ (files[n].kind = "none" \/ n \in files[n].turns)
  <2>1. old \in Times /\ 0 \in Times
    BY <1>2 DEF Times
  <2>. TAKE n \in Names
  <2>2. CASE n \notin legacy
    <3>1. files[n] = [turns |-> {}, written |-> 0, kind |-> "none"]
      BY <1>5, <2>2 DEF NoFile
    <3>. QED
      BY <2>1, <3>1 DEF File
  <2>3. CASE n \in legacy
    <3>1. files[n] = [turns |-> {n}, written |-> old,
                      kind |-> IF n \in bad THEN "bad" ELSE "good"]
      BY <1>5, <2>3
    <3>2. {n} \in SUBSET Turns
      BY <1>4
    <3>. QED
      BY <2>1, <3>1, <3>2 DEF File
  <2>. QED
    BY <2>2, <2>3
<1>7. /\ now = 1 /\ rows = [n \in Names |-> NoRow] /\ backups = {}
      /\ proc = [p \in Procs |-> Off] /\ imported = {} /\ stuck = {}
      /\ discarded = {n \in Names : files[n].kind = "none"}
  BY DEF Init, StoreInit
<1>8. /\ NoRow \in Row /\ NoRow.turns = {} /\ NoRow.stored = FALSE
      /\ \A n \in Names : rows[n] = NoRow
  BY <1>7, NoRowTyped
<1>9. /\ Off \in Proc /\ Off.at = "off" /\ Off.file = 0 /\ Off.conv = {}
      /\ \A p \in Procs : proc[p] = Off
  BY <1>7 DEF Off, Proc
<1>10. TypeOK
  <2>1. now \in Times /\ rows \in [Names -> Row] /\ files \in [Names -> File]
    BY <1>2, <1>5, <1>6, <1>7, <1>8 DEF Times
  <2>2. proc \in [Procs -> Proc] /\ discarded \subseteq Turns
    BY <1>4, <1>7, <1>9
  <2>. QED
    BY <1>4, <1>7, <1>9, <2>1, <2>2 DEF TypeOK, StoreTypeOK
<1>11. RowsHoldTurns /\ RowsAreOfImports
  BY <1>8 DEF RowsHoldTurns, RowsAreOfImports, Exists
<1>12. StartIsOrderly /\ RowIsOfTheChat /\ StoredAsShown
  BY <1>9 DEF StartIsOrderly, RowIsOfTheChat, StoredAsShown, Idle, At
<1>13. TurnsAreSafe
  BY <1>4, <1>6, <1>7 DEF TurnsAreSafe, Safe
<1>. QED
  BY <1>10, <1>11, <1>12, <1>13 DEF Inv

LEMMA StutterKeepsInv == ASSUME Inv, UNCHANGED vars PROVE Inv'
<1>1. \A t : Safe(t)' <=> Safe(t)
  BY DEF vars, Safe, Live, Stored
<1>. QED
  BY <1>1 DEF vars, Inv, TypeOK, StoreTypeOK, RowsHoldTurns, RowsAreOfImports, StartIsOrderly,
     RowIsOfTheChat, TurnsAreSafe, StoredAsShown, Exists, Good, Idle, At

LEMMA NextKeepsInv == ASSUME OneProcess, Inv, [Next]_vars PROVE Inv'
<1>1. CASE UNCHANGED vars
  BY <1>1, StutterKeepsInv
<1>2. CASE TimePasses
  BY <1>2, TimePassesKeepsInv
<1>3. ASSUME NEW p \in Procs,
             \/ Start(p) \/ SkipFile(p) \/ LookAtFile(p) \/ ImportFile(p) \/ MoveFile(p)
             \/ MoveFails(p) \/ CleanUp(p) \/ OpenSession(p)
      PROVE  Inv'
  BY <1>3, StartKeepsInv, SkipFileKeepsInv, LookAtFileKeepsInv, ImportFileKeepsInv,
     MoveFileKeepsInv, MoveFailsKeepsInv, CleanUpKeepsInv, OpenSessionKeepsInv
<1>4. ASSUME NEW p \in Procs, BeginRun(p) \/ EndRun(p) \/ GoalRunFails(p) \/ EndOnce(p)
      PROVE  Inv'
  BY <1>4, BeginRunKeepsInv, EndRunKeepsInv, GoalRunFailsKeepsInv, EndOnceKeepsInv
<1>5. ASSUME NEW p \in Procs,
             \/ Clear(p) \/ NewSession(p) \/ SwitchSession(p) \/ RenameSession(p)
             \/ DeleteSession(p) \/ Stop(p)
      PROVE  Inv'
  BY <1>5, ClearKeepsInv, NewSessionKeepsInv, SwitchSessionKeepsInv, RenameSessionKeepsInv,
     DeleteSessionKeepsInv, StopKeepsInv
<1>. QED
  BY <1>1, <1>2, <1>3, <1>4, <1>5 DEF Next

\* With one program at a time a chat that waits for input has the conversation on its
\* screen in the row of its session (save_session in src/chat/, load in store.rs).
THEOREM ShownIsStored ==
  ASSUME OneProcess, Numbered
  PROVE  Spec => []StoredAsShown
<1>1. Init => Inv
  BY InitInv
<1>2. Inv /\ [Next]_vars => Inv'
  BY NextKeepsInv
<1>3. Inv => StoredAsShown
  BY DEF Inv
<1>. QED
  BY <1>1, <1>2, <1>3, PTL DEF Spec

\* With one program at a time a turn nobody gave up is in the table, in a file that waits
\* to be imported, or in the conversation of a program that runs.
THEOREM TurnsStay ==
  ASSUME OneProcess, Numbered
  PROVE  Spec => []TurnsAreKept
<1>1. Init => Inv
  BY InitInv
<1>2. Inv /\ [Next]_vars => Inv'
  BY NextKeepsInv
<1>3. Inv => TurnsAreKept
  <2>. SUFFICES ASSUME Inv, NEW t \in (1..turn) \ discarded
                PROVE  t \in Stored \/ (\E p \in Procs : t \in proc[p].conv)
                                    \/ \E n \in Names : t \in files[n].turns
    BY DEF TurnsAreKept
  <2>1. Safe(t) \/ \E n \in Names : t \in files[n].turns
    BY DEF Inv, TurnsAreSafe
  <2>2. \A p \in Procs : t \in Live(p) => t \in proc[p].conv
    BY DEF Live
  <2>. QED
    BY <2>1, <2>2 DEF Safe
<1>. QED
  BY <1>1, <1>2, <1>3, PTL DEF Spec
=============================================================================
