---------------------------- MODULE MCWorkspace -----------------------------
(***************************************************************************)
(* What an agent keeps and what its file tools do, in four parts that      *)
(* share no variable, each in behaviours of its own: the state a runner    *)
(* carries from prompt to prompt, a goal and its runs, reading and         *)
(* changing a file, and looking through the workspace.                     *)
(***************************************************************************)
EXTENDS Naturals, Sequences, FiniteSets

CONSTANTS MaxEdits, MaxSeq, MaxRequests,      \* of RunnerState
          MaxLog, MaxRun,                     \* of GoalRuns
          Agents, Limit, PageChars, MaxCalls, MaxLines,
                                              \* of WorkspaceFiles
          Paths, Trees, Matching, Ignored, Linked, Reference, Moves,
          MaxLimit, MaxDepth, MaxDirs, MaxFiles, MaxChanges
                                              \* of WorkspaceSearch

\* A page of fs.read has at least a line (fs_read_with_read_roots clamps the limit).
ASSUME LimitsAssumption ==
    /\ {MaxEdits, MaxSeq, MaxRequests, MaxLog, MaxRun} \subseteq Nat
    /\ {MaxLimit, MaxDepth, MaxDirs, MaxFiles, MaxChanges} \subseteq Nat
    /\ Limit \in Nat \ {0} /\ PageChars \in Nat

VARIABLES part,   \* the part that this behaviour is of
          source, cached, compiling, told, loaded, memory, running, trace,
          other,
          goal, saved, work, report,
          file, view, call, calls,
          tree, walk, created, changes

runnerVars == <<source, cached, compiling, told, loaded, memory, running,
                trace, other>>
goalsVars == <<goal, saved, work, report>>
filesVars == <<file, view, call, calls>>
searchVars == <<tree, walk, created, changes>>
vars == <<part, runnerVars, goalsVars, filesVars, searchVars>>

Runner == INSTANCE RunnerState
Goals == INSTANCE GoalRuns
Files == INSTANCE WorkspaceFiles
Search == INSTANCE WorkspaceSearch WITH report <- created

-----------------------------------------------------------------------------
(* The workspace of the runs.  One that a program finds has a directory    *)
(* above everything, and no link to a directory.                           *)

WorkspacePaths == {<<>>, <<"a">>, <<"a", "b">>, <<"a", "b", "f">>, <<"a", "g">>,
                   <<"target">>, <<"target", "f">>, <<"h">>, <<"l">>}

Tree == [p \in WorkspacePaths |->
           CASE p \in {<<"a", "b", "f">>, <<"a", "g">>, <<"target", "f">>} -> "text"
             [] p = <<"h">> -> "odd"
             [] p = <<"l">> -> "link"
             [] OTHER -> "dir"]

\* One with a file that is too large to be searched, and one without a/b and with a file
\* that may not be opened.
WorkspaceTrees == {[Tree EXCEPT ![<<"target", "f">>] = "large"],
                   [Tree EXCEPT ![<<"a", "b">>] = "none", ![<<"a", "b", "f">>] = "none",
                                ![<<"h">>] = "locked"]}

LinkedFile == <<"a", "g">>
MatchingLines == [p \in WorkspacePaths |-> IF p = LinkedFile THEN 2 ELSE 1]
IgnoredPaths == {<<"h">>}

\* A reference root that has no a/b, and whose .git is not read.
ReferencePaths == {<<>>, <<"a">>, <<"a", "g">>, <<"r">>, <<".git">>}

WorkspaceMoves == {<<"a">>, <<"a", "g">>, <<"h">>, <<"target">>}
                    \X {<<"a", "b">>, <<"a", "b", "f">>, <<"target", "f">>, <<"a">>}

ASSUME PathsAssumption ==
    /\ IsFiniteSet(Paths) /\ Paths \subseteq Seq(STRING) /\ <<>> \in Paths
    /\ \A p \in Paths : Search!Above(p) \subseteq Paths
    /\ Linked \in Paths
    /\ Matching \in [Paths -> Nat]
    /\ Moves \subseteq Paths \X Paths

ASSUME TreesAssumption ==
    \A t \in Trees :
        /\ t \in [Paths -> {"none", "dir", "text", "odd", "large", "locked", "link"}]
        /\ t[<<>>] = "dir" /\ t[Linked] # "dir"
        /\ \A p \in Paths : t[p] # "none" => \A q \in Search!Above(p) : t[q] = "dir"

-----------------------------------------------------------------------------
\* A part that a behaviour is not of has no state.
NoRunner == /\ source = 0 /\ cached = 0 /\ compiling = 0 /\ told = 0
            /\ loaded = 0 /\ memory = 0 /\ running = 0 /\ trace = 0
            /\ other = 0
NoGoals == /\ goal = 0 /\ saved = 0 /\ work = 0 /\ report = 0
NoFiles == /\ file = 0 /\ view = 0 /\ call = 0 /\ calls = 0
NoSearch == /\ tree = 0 /\ walk = 0 /\ created = 0 /\ changes = 0

Init ==
    \/ /\ part = "runner" /\ Runner!Init
       /\ NoGoals /\ NoFiles /\ NoSearch
    \/ /\ part = "goals" /\ Goals!Init
       /\ NoRunner /\ NoFiles /\ NoSearch
    \/ /\ part = "files" /\ Files!Init
       /\ NoRunner /\ NoGoals /\ NoSearch
    \/ /\ part = "search" /\ Search!Init
       /\ NoRunner /\ NoGoals /\ NoFiles

Next ==
    \/ /\ part = "runner" /\ Runner!Next
       /\ UNCHANGED <<part, goalsVars, filesVars, searchVars>>
    \/ /\ part = "goals" /\ Goals!Next
       /\ UNCHANGED <<part, runnerVars, filesVars, searchVars>>
    \/ /\ part = "files" /\ Files!Next
       /\ UNCHANGED <<part, runnerVars, goalsVars, searchVars>>
    \/ /\ part = "search" /\ Search!Next
       /\ UNCHANGED <<part, runnerVars, goalsVars, filesVars>>

Spec == Init /\ [][Next]_vars

-----------------------------------------------------------------------------
\* However sessions are cleared, saved and opened, the conversation holds a
\* skill's text at most once and then the skill counts as loaded; without
\* memory no text of it is in the instructions; and no file of a trace is
\* written over.
RunnerIsConsistent ==
    part = "runner" =>
        /\ Runner!SkillsAreToldOnce
        /\ Runner!MemoryOffIsOff
        /\ Runner!TracesAreKept

\* What a goal run reports is what it did, whatever the answers said and the
\* commands between two runs changed.
GoalRunIsCounted == part = "goals" => Goals!GoalRunIsCounted

\* Every page of a file that says there is more has brought a line, and following
\* next_offset through a file nobody changes reads every line once.
PagesCoverTheFile == part = "files" => Files!PagesCoverTheFile

\* Of the text it was planned on, an edit takes only the lines it names and keeps the
\* others, and a replacement that did not guess the indentation changes only the lines
\* that hold the old text, which are as many as it reports and was asked for.
ChangesAreAsPlanned == part = "files" => Files!ChangesAreAsPlanned

\* A list that leaves out a file or a directory it was asked for, or a search that leaves
\* out a match in a text file of up to 1 MiB that can be opened, says that it was cut; and
\* a write or a move leaves out no directory it created.
NothingIsLeftOutSilently ==
    part = "search" => /\ Search!NothingIsLeftOutSilently
                       /\ Search!CreatedDirectoriesAreReported
=============================================================================
