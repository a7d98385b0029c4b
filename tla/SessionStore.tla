----------------------------- MODULE SessionStore -----------------------------
(***************************************************************************)
(* The table of saved sessions (src/session/store.rs): rows of a SQLite    *)
(* file, the JSON files an older version left, their backups, and the      *)
(* upkeep every start of the program does.  A conversation is the set of   *)
(* its turns.  Time passes in ticks; a tick stands for days.               *)
(***************************************************************************)
EXTENDS Naturals, FiniteSets

CONSTANTS Names,            \* session names; numbers, in the order of the names
          Retention,        \* inactive_session_retention
          BackupRetention,  \* migrated_json_retention
          MinKeep,          \* min_sessions_to_keep
          MaxTime,          \* bound on the clock
          MaxTurns          \* bound on the turns of all conversations

ASSUME SessionAssumption ==
    /\ Names \subseteq Nat \ {0} /\ IsFiniteSet(Names)
    /\ {Retention, BackupRetention, MinKeep, MaxTime, MaxTurns} \subseteq Nat

VARIABLES now,      \* the clock, unix_time_secs
          rows,     \* name -> row of the table, or NoRow
          files,    \* name -> JSON file of the older version, or NoFile
          backups   \* the files that were moved to migrated/

storeVars == <<now, rows, files, backups>>

Turns == 1..MaxTurns
Times == 0..MaxTime
Never == MaxTime + 1        \* NULL of last_opened_at
NoRow == [turns |-> {}, updated |-> 0, opened |-> Never, stored |-> FALSE]
Row == [turns : SUBSET Turns, updated : Times, opened : Times \cup {Never}, stored : BOOLEAN]
NoFile == [turns |-> {}, written |-> 0, kind |-> "none"]
File == [turns : SUBSET Turns, written : Times, kind : {"none", "good", "bad"}]
Backup == [name : Names, turns : SUBSET Turns, written : Times, moved : Times]

Exists(n) == rows[n].stored

\* INSERT ... ON CONFLICT(name) DO UPDATE: what was stored under the name is replaced,
\* the time it was last opened stays.
Saved(table, n, turns) ==
    [table EXCEPT ![n] = [turns |-> turns, updated |-> now, opened |-> @.opened, stored |-> TRUE]]

\* load touches the row it reads.
Opened(table, n) == [table EXCEPT ![n].opened = now]

Deleted(table, gone) == [n \in Names |-> IF n \in gone THEN NoRow ELSE table[n]]

MayRename(table, old, new) == table[old].stored /\ ~table[new].stored

Renamed(table, old, new) ==
    [table EXCEPT ![old] = NoRow, ![new] = [table[old] EXCEPT !.updated = now]]

-----------------------------------------------------------------------------
\* COALESCE(last_opened_at, updated_at, created_at)
TouchedAt(n) == IF rows[n].opened = Never THEN rows[n].updated ELSE rows[n].opened

\* ORDER BY touched_at DESC, name ASC
Before(m, n) == \/ TouchedAt(m) > TouchedAt(n)
                \/ TouchedAt(m) = TouchedAt(n) /\ m < n
Index(n) == Cardinality({m \in Names : Exists(m) /\ Before(m, n)})

Inactive(n) == Exists(n) /\ Index(n) >= MinKeep /\ TouchedAt(n) + Retention < now

\* (Fault: the session named on the command line is not spared.)
RemovableEvenIfNamed(protected) == {n \in Names : Inactive(n)}

Removable(protected) == {n \in Names : Inactive(n) /\ n # protected}

Expired(b) == now - b.written >= BackupRetention

\* Both halves of cleanup_old_sessions; a row whose removal fails stays.
Cleanup(protected) ==
    /\ backups' = {b \in backups : ~Expired(b)}
    /\ \E gone \in SUBSET Removable(protected) : rows' = Deleted(rows, gone)
    /\ UNCHANGED <<now, files>>

\* (Fault: the file is copied.)
CopyToBackup(n) ==
    /\ backups' = backups \cup {[name |-> n, turns |-> files[n].turns,
                                 written |-> files[n].written, moved |-> now]}
    /\ UNCHANGED files

MoveToBackup(n) ==
    /\ backups' = backups \cup {[name |-> n, turns |-> files[n].turns,
                                 written |-> files[n].written, moved |-> now]}
    /\ files' = [files EXCEPT ![n] = NoFile]

Tick == now < MaxTime /\ now' = now + 1 /\ UNCHANGED <<rows, files, backups>>

\* The clock starts at 1, so that a file of the older version may be older.
StoreInit ==
    /\ now = 1
    /\ rows = [n \in Names |-> NoRow]
    /\ backups = {}
    /\ \E legacy \in SUBSET Names, old \in 0..1, bad \in SUBSET Names :
          files = [n \in Names |->
             IF n \notin legacy THEN NoFile
             ELSE [turns |-> {n}, written |-> old, kind |-> IF n \in bad THEN "bad" ELSE "good"]]

StoreTypeOK ==
    /\ now \in Times
    /\ rows \in [Names -> Row]
    /\ files \in [Names -> File]
    /\ backups \subseteq Backup
=============================================================================
