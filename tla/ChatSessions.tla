----------------------------- MODULE ChatSessions -----------------------------
(***************************************************************************)
(* Programs that use the session store: their start (migration of the      *)
(* older version's files, cleanup, resume), the prompts and the session    *)
(* commands of a chat, and the one-shot command (src/main.rs,              *)
(* src/session/mod.rs, src/chat/).  Each program is a process of its own   *)
(* and may be killed at any time.  A run is one turn.                      *)
(***************************************************************************)
EXTENDS SessionStore

CONSTANTS Procs

VARIABLES proc,       \* what each process does and holds
          turn,       \* the turns taken so far
          discarded,  \* turns the user gave up, or a process that was killed
          imported,   \* names a file was imported under
          stuck       \* names whose file could not be moved away

vars == <<now, rows, files, backups, proc, turn, discarded, imported, stuck>>

Off == [at |-> "off", kind |-> "chat", session |-> 0, fresh |-> FALSE, conv |-> {},
        todo |-> {}, file |-> 0, unsaved |-> FALSE]

Proc == [at : {"off", "look", "save", "move", "ready", "idle", "working"},
         kind : {"chat", "once"}, session : Names \cup {0}, fresh : BOOLEAN,
         conv : SUBSET Turns, todo : SUBSET Names, file : Names \cup {0}, unsaved : BOOLEAN]

Stored == UNION {rows[n].turns : n \in Names}

At(p, place) == proc[p].at = place
Idle(p) == At(p, "idle") /\ proc[p].kind = "chat"
Kept == <<now, files, backups, turn, imported, stuck>>
OnlyProc(p) == UNCHANGED <<storeVars, turn, discarded, imported, stuck>>

Init ==
    /\ StoreInit
    /\ proc = [p \in Procs |-> Off]
    /\ turn = Cardinality(Names)      \* the first turns are those in the files
    /\ discarded = {n \in Names : files[n].kind = "none"}
    /\ imported = {} /\ stuck = {}

-----------------------------------------------------------------------------
(* Start: prepare_default_session_store, then the session is resumed or    *)
(* written anew.  A chat always has a session, a one-shot run may not.     *)

Start(p) ==
    /\ At(p, "off")
    /\ \E kind \in {"chat", "once"}, s \in Names \cup {0}, fresh \in BOOLEAN :
          /\ kind = "chat" => s # 0
          /\ proc' = [proc EXCEPT ![p] =
                [Off EXCEPT !.at = "look", !.kind = kind, !.session = s, !.fresh = fresh,
                            !.todo = {n \in Names : files[n].kind # "none"}]]
    /\ OnlyProc(p)

\* A file that is not a session, or has gone, is reported and left.
SkipFile(p) ==
    /\ At(p, "look")
    /\ \E n \in proc[p].todo :
          /\ files[n].kind # "good"
          /\ proc' = [proc EXCEPT ![p].todo = @ \ {n}]
    /\ OnlyProc(p)

AfterLook(n) == IF Exists(n) THEN "move" ELSE "save"

LookAtFile(p) ==
    /\ At(p, "look")
    /\ \E n \in proc[p].todo :
          /\ files[n].kind = "good"
          /\ proc' = [proc EXCEPT ![p].todo = @ \ {n}, ![p].file = n, ![p].at = AfterLook(n),
                                  ![p].conv = files[n].turns]
    /\ OnlyProc(p)

\* (Fault: the next file is looked at with the one before still in hand.)
FileInHand(p) == [proc EXCEPT ![p].at = "look", ![p].conv = {}]

FileDone(p) == [proc EXCEPT ![p].at = "look", ![p].file = 0, ![p].conv = {}]

ImportFile(p) ==
    LET n == proc[p].file IN
    /\ At(p, "save")
    /\ rows' = Saved(rows, n, proc[p].conv)
    /\ imported' = imported \cup {n}
    /\ proc' = [proc EXCEPT ![p].at = "move"]
    /\ UNCHANGED <<now, files, backups, turn, discarded, stuck>>

MoveFile(p) ==
    /\ At(p, "move")
    /\ files[proc[p].file].kind = "good"
    /\ MoveToBackup(proc[p].file)
    /\ proc' = FileDone(p)
    /\ UNCHANGED <<now, rows, turn, discarded, imported, stuck>>

MoveFails(p) ==
    /\ At(p, "move")
    /\ stuck' = stuck \cup {proc[p].file}
    /\ proc' = FileDone(p)
    /\ UNCHANGED <<storeVars, turn, discarded, imported>>

CleanUp(p) ==
    /\ At(p, "look") /\ proc[p].todo = {}
    /\ Cleanup(proc[p].session)
    /\ proc' = [proc EXCEPT ![p].at = "ready"]
    /\ discarded' = discarded \cup (Stored \ UNION {rows'[n].turns : n \in Names})
    /\ UNCHANGED <<turn, imported, stuck>>

OpenSession(p) ==
    LET s == proc[p].session IN
    /\ At(p, "ready")
    /\ \/ /\ s # 0 /\ proc[p].fresh
          /\ rows' = Saved(rows, s, {})
          /\ discarded' = discarded \cup rows[s].turns
          /\ proc' = [proc EXCEPT ![p].at = "idle"]
       \/ /\ s # 0 /\ ~proc[p].fresh /\ Exists(s)
          /\ rows' = Opened(rows, s)
          /\ proc' = [proc EXCEPT ![p].at = "idle", ![p].conv = rows[s].turns]
          /\ UNCHANGED discarded
       \/ /\ s # 0 => ~proc[p].fresh /\ ~Exists(s)
          /\ proc' = [proc EXCEPT ![p].at = "idle"]
          /\ UNCHANGED <<rows, discarded>>
    /\ UNCHANGED Kept

-----------------------------------------------------------------------------
(* Turns.                                                                  *)

BeginRun(p) ==
    /\ At(p, "idle") /\ turn < MaxTurns
    /\ turn' = turn + 1
    /\ proc' = [proc EXCEPT ![p].at = "working", ![p].conv = @ \cup {turn + 1}]
    /\ UNCHANGED <<storeVars, discarded, imported, stuck>>

\* (Fault: only a one-shot run saves what it did.)
OnceSaves(p) == proc[p].session # 0 /\ proc[p].kind = "once"

SavesAfterRun(p) == proc[p].session # 0

\* A chat saves whether the run answered, failed or was stopped.
EndRun(p) ==
    /\ At(p, "working") /\ proc[p].kind = "chat"
    /\ rows' = IF SavesAfterRun(p) THEN Saved(rows, proc[p].session, proc[p].conv) ELSE rows
    /\ proc' = [proc EXCEPT ![p].at = "idle", ![p].unsaved = FALSE]
    /\ UNCHANGED <<discarded, Kept>>

\* /goal run: an error is shown, and what its earlier checkpoints did is not saved.
GoalRunFails(p) ==
    /\ At(p, "working") /\ proc[p].kind = "chat"
    /\ proc' = [proc EXCEPT ![p].at = "idle", ![p].unsaved = TRUE]
    /\ OnlyProc(p)

GiveUp(p) == discarded \cup (proc[p].conv \ Stored)

\* A one-shot run saves its answer and ends, or fails and ends.
EndOnce(p) ==
    /\ At(p, "working") /\ proc[p].kind = "once"
    /\ \/ /\ rows' = IF SavesAfterRun(p) THEN Saved(rows, proc[p].session, proc[p].conv) ELSE rows
          /\ discarded' = IF SavesAfterRun(p) THEN discarded ELSE GiveUp(p)
       \/ rows' = rows /\ discarded' = GiveUp(p)
    /\ proc' = [proc EXCEPT ![p] = Off]
    /\ UNCHANGED Kept

-----------------------------------------------------------------------------
(* The session commands of a chat.  An error of one of them ends the chat. *)

Clear(p) ==
    /\ Idle(p)
    /\ rows' = Saved(rows, proc[p].session, {})
    /\ discarded' = discarded \cup proc[p].conv
    /\ proc' = [proc EXCEPT ![p].conv = {}, ![p].unsaved = FALSE]
    /\ UNCHANGED Kept

\* (Fault: what is on the screen is taken to be saved.)
LeaveUnsaved(p) == rows

\* switch_session saves the current session first.
LeaveSession(p) == Saved(rows, proc[p].session, proc[p].conv)

\* /new, /session new, and /session use of a name that is not there
NewSession(p) ==
    /\ Idle(p)
    /\ \E s \in Names :
          LET left == LeaveSession(p) IN
          /\ rows' = Saved(left, s, {})
          /\ discarded' = discarded \cup left[s].turns
          /\ proc' = [proc EXCEPT ![p].session = s, ![p].conv = {}, ![p].unsaved = FALSE]
    /\ UNCHANGED Kept

\* /session open, and /session use of a name that is there
SwitchSession(p) ==
    /\ Idle(p)
    /\ \E s \in {n \in Names : Exists(n)} :
          LET left == LeaveSession(p) IN
          /\ rows' = Opened(left, s)
          /\ proc' = [proc EXCEPT ![p].session = s, ![p].conv = left[s].turns, ![p].unsaved = FALSE]
    /\ UNCHANGED <<discarded, Kept>>

\* The active session is saved before it is renamed, and followed.
RenameSession(p) ==
    /\ Idle(p)
    /\ \E old \in Names, new \in Names :
          LET active == old = proc[p].session
              table == IF active THEN LeaveSession(p) ELSE rows IN
          /\ old # new
          /\ MayRename(table, old, new)
          /\ rows' = Renamed(table, old, new)
          /\ \/ /\ active
                /\ proc' = [proc EXCEPT ![p].session = new, ![p].unsaved = FALSE]
                /\ UNCHANGED discarded
             \/ /\ ~active /\ new # proc[p].session
                /\ UNCHANGED <<proc, discarded>>
             \* The name of the active session is free as long as it was never saved.
             \/ /\ ~active /\ new = proc[p].session
                /\ proc' = [proc EXCEPT ![p].unsaved = TRUE]
                /\ discarded' = discarded \cup rows[old].turns
    /\ UNCHANGED Kept

DeleteSession(p) ==
    /\ Idle(p)
    /\ \E n \in {m \in Names : Exists(m)} \ {proc[p].session} :
          /\ rows' = Deleted(rows, {n})
          /\ discarded' = discarded \cup rows[n].turns
    /\ UNCHANGED <<proc, Kept>>

\* /exit, an error of a session command, or the process is killed, at any time.
Stop(p) ==
    /\ ~At(p, "off")
    /\ proc' = [proc EXCEPT ![p] = Off]
    /\ discarded' = GiveUp(p)
    /\ UNCHANGED <<storeVars, turn, imported, stuck>>

TimePasses == Tick /\ UNCHANGED <<proc, turn, discarded, imported, stuck>>

Next ==
    \/ TimePasses
    \/ \E p \in Procs :
          \/ Start(p) \/ SkipFile(p) \/ LookAtFile(p) \/ ImportFile(p) \/ MoveFile(p)
          \/ MoveFails(p) \/ CleanUp(p) \/ OpenSession(p)
          \/ BeginRun(p) \/ EndRun(p) \/ GoalRunFails(p) \/ EndOnce(p)
          \/ Clear(p) \/ NewSession(p) \/ SwitchSession(p) \/ RenameSession(p) \/ DeleteSession(p)
          \/ Stop(p)

Spec == Init /\ [][Next]_vars
-----------------------------------------------------------------------------
\* Variables hold what their comments say; a file is in hand while it is migrated.
TypeOK ==
    /\ StoreTypeOK
    /\ proc \in [Procs -> Proc]
    /\ \A p \in Procs : proc[p].at \in {"save", "move"} <=> proc[p].file # 0
    /\ turn \in 0..MaxTurns
    /\ discarded \subseteq Turns
    /\ imported \subseteq Names /\ stuck \subseteq Names

\* Whatever the last command was, a chat that waits for input has the conversation on its
\* screen in the row of its session (two exceptions are told below).
StoredAsShown ==
    \A p \in Procs :
       Idle(p) /\ ~proc[p].unsaved =>
          IF Exists(proc[p].session) THEN rows[proc[p].session].turns = proc[p].conv
                                     ELSE proc[p].conv = {}

\* A turn nobody gave up is in the table, in a file that waits to be imported, or in a
\* conversation that is running: through migration, renaming, switching, and kills between
\* any two steps.  A backup does not count, since backups expire.
TurnsAreKept ==
    \A t \in (1..turn) \ discarded :
       \/ t \in Stored
       \/ \E p \in Procs : t \in proc[p].conv
       \/ \E n \in Names : t \in files[n].turns

\* A file is imported once: what the user deleted or renamed since does not come back,
\* unless the file could not be moved away.
ImportedOnce ==
    [][\A p \in Procs : ImportFile(p) => proc[p].file \notin imported \ stuck]_vars

\* The cleanup of a start never removes the session that start was asked to resume.
NamedSessionIsKept ==
    [][\A p \in Procs :
          CleanUp(p) /\ proc[p].session # 0 => rows'[proc[p].session] = rows[proc[p].session]]_vars

-----------------------------------------------------------------------------
(* What the texts say and the code does not do.                            *)

\* (violated) "persistent chat sessions": quitting a chat loses nothing that was
\* said.
IdleChatIsStored == \A p \in Procs : Idle(p) => proc[p].conv \subseteq Stored

\* (violated) The same: what a chat saves after a run continues what was stored
\* under the name.
SavesOnlyAdd ==
    [][\A p \in Procs :
          EndRun(p) => rows[proc[p].session].turns \subseteq rows'[proc[p].session].turns]_vars

\* (violated) "Start a new session": starting one erases none that is stored.
NewSessionIsNew ==
    [][\A p \in Procs : NewSession(p) => \A n \in Names : rows[n].turns \subseteq rows'[n].turns]_vars

\* (violated) Retention of inactive sessions: one that was saved within the time is
\* not inactive.
OnlyInactiveRemoved ==
    [][\A p \in Procs, n \in Names :
          CleanUp(p) /\ Exists(n) /\ ~rows'[n].stored => rows[n].updated + Retention < now]_vars

\* (violated) Retention of migrated files: a backup is kept that long after it was
\* made.
BackupsAreKept == [][\A b \in backups \ backups' : now - b.moved >= BackupRetention]_vars

\* (violated) "skipped_existing": a file is not imported over a session that is
\* there.
MigrationSkipsExisting == [][\A p \in Procs : ImportFile(p) => ~Exists(proc[p].file)]_vars
=============================================================================
