----------------------------- MODULE RunnerState -----------------------------
(***************************************************************************)
(* What one runner carries from prompt to prompt (src/agent/mod.rs): the   *)
(* skills it was told, the memory that goes with its instructions          *)
(* (src/memory.rs), the numbers of its trace files (src/agent/trace.rs),   *)
(* and how clearing a conversation and opening a session move them.  A     *)
(* user edits the skill's file and other programs append to the memory     *)
(* while it works.  Texts are versions of the file they are of.  The goal  *)
(* is in GoalRuns, the table of sessions in SessionStore.                  *)
(***************************************************************************)
EXTENDS Naturals, FiniteSets

CONSTANTS MaxEdits,    \* bound: versions of the skill file and of the memory
          MaxSeq,      \* bound: requests between two resets
          MaxRequests  \* bound: requests in all

VARIABLES source, cached,  \* the skill's SKILL.md; its compiled form: hash and summary
          compiling,       \* text that is at the model to be summarised, and what for
          told, loaded,    \* messages of the skill in the conversation; loaded_skills
          memory,          \* the file, memory_enabled, and the text in the instructions
          running,         \* a prompt is being run
          trace,           \* request_seq, the file counts, the files, files written
          other            \* what is stored of the other session

skillVars == <<source, cached, compiling, told, loaded>>
vars == <<skillVars, memory, running, trace, other>>

Snapshot == [told |-> told, loaded |-> loaded, on |-> memory.on, seq |-> trace.seq]

Init ==
    /\ source = 1 /\ cached = [hash |-> 0, summary |-> 0]
    /\ compiling = [text |-> 0, load |-> FALSE]
    /\ told = 0 /\ loaded = FALSE
    /\ memory = [file |-> 0, on |-> FALSE, context |-> 0]
    /\ running = FALSE
    /\ trace = [seq |-> 0, counts |-> [t \in 0..MaxSeq |-> 0], files |-> {}, writes |-> 0]
    /\ other = Snapshot

Free == ~running /\ compiling.text = 0

-----------------------------------------------------------------------------
(* Skills.  /skill load and a mention in a prompt load one, /skill refresh *)
(* only compiles it.                                                       *)

EditSkill ==
    /\ source < MaxEdits /\ source' = source + 1
    /\ UNCHANGED <<cached, compiling, told, loaded, memory, running, trace, other>>

LoadSkillContext == /\ loaded' = TRUE
                    /\ told' = IF loaded THEN told ELSE told + 1

LoadCached ==
    /\ Free /\ cached.hash = source
    /\ LoadSkillContext
    /\ UNCHANGED <<source, cached, compiling, memory, running, trace, other>>

CompileSkill ==
    /\ Free
    /\ \E load \in BOOLEAN :
          /\ load => cached.hash # source
          /\ compiling' = [text |-> source, load |-> load]
    /\ UNCHANGED <<source, cached, told, loaded, memory, running, trace, other>>

\* compile_skill_summary: of the text it was given, or nothing, and then the
\* text stands for it.
Summaries == {compiling.text, source}

\* The file is read again for its hash, and for its text if that is needed.
SkillCompiled ==
    /\ compiling.text # 0
    /\ \E s \in Summaries : cached' = [hash |-> source, summary |-> s]
    /\ IF compiling.load THEN LoadSkillContext ELSE UNCHANGED <<told, loaded>>
    /\ compiling' = [text |-> 0, load |-> FALSE]
    /\ UNCHANGED <<source, memory, running, trace, other>>

-----------------------------------------------------------------------------
(* Memory.                                                                 *)

\* (Fault: without memory the text is left as it is.)
RefreshIfOn(m) == IF m.on THEN [m EXCEPT !.context = m.file] ELSE m

\* refresh_memory_context
Refresh(m) == [m EXCEPT !.context = IF m.on THEN m.file ELSE 0]

\* The files cannot be read: what was in the instructions stays.
RefreshFails(m) == m.on /\ memory' = m

AnotherProgramNotes ==
    /\ memory.file < MaxEdits
    /\ memory' = [memory EXCEPT !.file = @ + 1]
    /\ UNCHANGED <<skillVars, running, trace, other>>

EnsureFiles(m) == [m EXCEPT !.file = IF @ = 0 THEN 1 ELSE @]

MemoryCommand ==
    /\ Free
    /\ \/ \E on \in BOOLEAN :                             \* on, off
             LET m == [memory EXCEPT !.on = on]
             IN memory' = Refresh(IF on THEN EnsureFiles(m) ELSE m)
       \/ memory' = [memory EXCEPT !.on = TRUE]           \* on, and the files cannot be made
       \/ /\ memory.file < MaxEdits                       \* add
          /\ memory' = Refresh([memory EXCEPT !.file = @ + 1])
    /\ UNCHANGED <<skillVars, running, trace, other>>

-----------------------------------------------------------------------------
(* A prompt: the memory is read, requests are made and traced, and the     *)
(* exchange is remembered.                                                 *)

\* (Fault: the name of a trace file is the number of the request.)
WrittenOver(t) == [t EXCEPT !.files = @ \cup {<<t.seq, 1>>}, !.writes = @ + 1]

\* TraceWriter::write: the count of a name is part of the file's name.
Written(t) == LET n == t.counts[t.seq] + 1
              IN [t EXCEPT !.counts[t.seq] = n, !.files = @ \cup {<<t.seq, n>>}, !.writes = @ + 1]

Prompt ==
    /\ Free
    /\ running' = TRUE
    /\ memory' = Refresh(memory)
    /\ UNCHANGED <<skillVars, trace, other>>

Request ==
    /\ running /\ trace.seq < MaxSeq /\ trace.writes < MaxRequests
    /\ trace' = Written([trace EXCEPT !.seq = @ + 1])
    /\ UNCHANGED <<skillVars, memory, running, other>>

Remembered(m) == IF m.on /\ m.file < MaxEdits THEN Refresh([m EXCEPT !.file = @ + 1]) ELSE m

\* The exchange of a run that succeeds is remembered.
EndPrompt ==
    /\ running
    /\ running' = FALSE
    /\ memory' \in {memory, Remembered(memory)}
    /\ UNCHANGED <<skillVars, trace, other>>

-----------------------------------------------------------------------------
(* Sessions.                                                               *)

\* clear_conversation; for /new after the session was saved.
Clear ==
    /\ Free
    /\ told' = 0 /\ loaded' = FALSE /\ trace' = [trace EXCEPT !.seq = 0]
    /\ other' \in {other, Snapshot}
    /\ UNCHANGED <<source, cached, compiling, memory, running>>

\* (Fault: which skills were loaded is not restored.)
RestoredConversation(row) == told' = row.told /\ loaded' = (loaded /\ row.loaded)

RestoreConversation(row) == told' = row.told /\ loaded' = row.loaded

\* The open session is saved, and restore_snapshot takes the other one.
OpenSession ==
    /\ Free
    /\ other' = Snapshot
    /\ RestoreConversation(other)
    /\ trace' = [trace EXCEPT !.seq = other.seq]
    /\ LET m == [memory EXCEPT !.on = other.on]
       IN memory' = Refresh(m) \/ RefreshFails(m)
    /\ UNCHANGED <<source, cached, compiling, running>>

Next ==
    \/ EditSkill \/ LoadCached \/ CompileSkill \/ SkillCompiled
    \/ AnotherProgramNotes \/ MemoryCommand
    \/ Prompt \/ Request \/ EndPrompt
    \/ Clear \/ OpenSession

Spec == Init /\ [][Next]_vars

-----------------------------------------------------------------------------
(* Properties.                                                             *)

\* However sessions are cleared, saved and opened, the conversation holds a
\* skill's text at most once, and then the skill counts as loaded.
SkillsAreToldOnce == told <= 1 /\ (told = 1 => loaded)

\* Without memory no text of it is in the instructions, whichever session was
\* opened and whatever of the files could be read.
MemoryOffIsOff == ~memory.on => memory.context = 0

\* No trace file is written over an older one, although clearing and opening a
\* session make the numbers of requests start again.
TracesAreKept == Cardinality(trace.files) = trace.writes

\* (violated) A compiled skill whose hash is that of the file summarises that text.
SummaryIsOfItsHash == cached.hash = source => cached.summary = source
=============================================================================
