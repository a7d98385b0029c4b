--------------------------- MODULE WorkspaceProofs ---------------------------
(***************************************************************************)
(* What holds of a runner's state, of a goal and its runs and of the file  *)
(* tools, for any bounds.  Each part is proved in behaviours of its own    *)
(* and the parts are put together at the end.                              *)
(***************************************************************************)
EXTENDS MCWorkspace, FiniteSetTheorems, SequenceTheorems, WellFoundedInduction, TLAPS

EditLimits == {MaxEdits, MaxSeq, MaxRequests} \subseteq Nat
LimitOfRun == MaxRun \in Nat
PageHasLines == Limit \in Nat \ {0}

-----------------------------------------------------------------------------
(* A runner: the invariant.                                                *)

\* A conversation that was not told a skill has not loaded it, here and in the session
\* that is stored.
ToldOnce(count, isLoaded) == count \in {0, 1} /\ isLoaded \in BOOLEAN /\ (count = 1 => isLoaded)

Memory == [file : Nat, on : BOOLEAN, context : Nat]
Trace == [seq : 0..MaxSeq, counts : [0..MaxSeq -> Nat], files : SUBSET ((0..MaxSeq) \X Nat),
          writes : Nat]
Stored == [told : {0, 1}, loaded : BOOLEAN, on : BOOLEAN, seq : 0..MaxSeq]

\* The numbers of a name's files go up to its count, so the next one is new.
TraceCounted(t) ==
  /\ t \in Trace /\ IsFiniteSet(t.files) /\ Cardinality(t.files) = t.writes
  /\ \A f \in t.files : f[2] <= t.counts[f[1]]

RunnerInv ==
  /\ ToldOnce(told, loaded)
  /\ memory \in Memory /\ Runner!MemoryOffIsOff
  /\ TraceCounted(trace)
  /\ other \in Stored /\ ToldOnce(other.told, other.loaded)

-----------------------------------------------------------------------------
(* What the operations of a runner do.                                     *)

LEMMA RefreshedMemory ==
  ASSUME NEW m \in Memory
  PROVE  Runner!Refresh(m) \in Memory /\ Runner!Refresh(m).on = m.on /\ (~m.on => Runner!Refresh(m).context = 0)
<1>1. m.on \in BOOLEAN /\ m.file \in Nat
  BY DEF Memory
<1>2. PICK c \in Nat : c = (IF m.on THEN m.file ELSE 0) /\ (~m.on => c = 0)
  BY <1>1
<1>3. Runner!Refresh(m) = [m EXCEPT !.context = c]
  BY <1>2 DEF Runner!Refresh
<1>. QED
  BY <1>2, <1>3 DEF Memory

\* A file that is written has a name no file has.
LEMMA WrittenIsNew ==
  ASSUME NEW t, TraceCounted(t)
  PROVE  TraceCounted(Runner!Written(t))
<1>t. t \in Trace /\ t.seq \in 0..MaxSeq /\ t.counts \in [0..MaxSeq -> Nat] /\ t.writes \in Nat
  BY DEF TraceCounted, Trace
<1>k. PICK k \in Nat : k = t.counts[t.seq]
  BY <1>t
<1>. DEFINE n == k + 1
            f == <<t.seq, n>>
            counts == [t.counts EXCEPT ![t.seq] = n]
            files == t.files \cup {f}
<1>f. t.files \in SUBSET ((0..MaxSeq) \X Nat)
  BY DEF TraceCounted, Trace
<1>1. /\ IsFiniteSet(t.files) /\ Cardinality(t.files) = t.writes
      /\ \A g \in t.files : g[2] <= t.counts[g[1]]
  BY DEF TraceCounted
<1>2. n \in Nat /\ k < n /\ ~(n <= k)
  OBVIOUS
<1>3. /\ counts \in [0..MaxSeq -> Nat] /\ counts[t.seq] = n
      /\ \A s \in 0..MaxSeq : t.counts[s] <= counts[s]
  <2>1. /\ counts \in [0..MaxSeq -> Nat] /\ counts[t.seq] = n
        /\ \A s \in 0..MaxSeq : s # t.seq => counts[s] = t.counts[s]
    BY <1>t, <1>2
  <2>2. ASSUME NEW s \in 0..MaxSeq PROVE t.counts[s] <= counts[s]
    <3>1. t.counts[s] \in Nat
      BY <1>t
    <3>2. CASE s = t.seq
      BY <2>1, <3>2, <1>k, <1>2
    <3>3. CASE s # t.seq
      BY <2>1, <3>1, <3>3
    <3>. QED
      BY <3>2, <3>3
  <2>. QED
    BY <2>1, <2>2
<1>4. f \in (0..MaxSeq) \X Nat /\ f[1] = t.seq /\ f[2] = n
  BY <1>t, <1>2
<1>5. f \notin t.files
  BY <1>1, <1>k, <1>2, <1>4
<1>6. Runner!Written(t) = [t EXCEPT !.counts = counts, !.files = files, !.writes = t.writes + 1]
  BY <1>t, <1>k DEF Runner!Written, Trace
<1>7. files \in SUBSET ((0..MaxSeq) \X Nat)
  BY <1>f, <1>4
<1>8. IsFiniteSet(files) /\ Cardinality(files) = t.writes + 1
  BY <1>1, <1>5, FS_AddElement
<1>9. ASSUME NEW g \in files PROVE g[2] <= counts[g[1]]
  <2>1. CASE g = f
    BY <1>2, <1>3, <1>4, <2>1
  <2>2. CASE g \in t.files
    <3>1. g \in (0..MaxSeq) \X Nat
      BY <1>f, <2>2
    <3>2. g[1] \in 0..MaxSeq /\ g[2] \in Nat /\ t.counts[g[1]] \in Nat /\ counts[g[1]] \in Nat
      BY <3>1, <1>t, <1>3
    <3>3. g[2] <= t.counts[g[1]] /\ t.counts[g[1]] <= counts[g[1]]
      BY <1>1, <1>3, <2>2, <3>2
    <3>. QED
      BY <3>2, <3>3
  <2>. QED
    BY <2>1, <2>2
<1>. HIDE DEF n, f, counts, files
<1>10. t.writes + 1 \in Nat
  BY <1>t
<1>11. /\ Runner!Written(t) \in Trace /\ Runner!Written(t).counts = counts /\ Runner!Written(t).files = files
       /\ Runner!Written(t).writes = t.writes + 1
  BY <1>t, <1>3, <1>6, <1>7, <1>10 DEF Trace
<1>. QED
  BY <1>8, <1>9, <1>11 DEF TraceCounted

\* A request number that begins again leaves the files and their counts.
LEMMA RenumberedTrace ==
  ASSUME NEW t, TraceCounted(t), NEW s \in 0..MaxSeq
  PROVE  TraceCounted([t EXCEPT !.seq = s])
<1>1. t \in Trace
  BY DEF TraceCounted
<1>2. /\ [t EXCEPT !.seq = s] \in Trace
      /\ [t EXCEPT !.seq = s].files = t.files /\ [t EXCEPT !.seq = s].writes = t.writes
      /\ [t EXCEPT !.seq = s].counts = t.counts
  BY <1>1 DEF Trace
<1>. QED
  BY <1>2 DEF TraceCounted

LEMMA SnapshotIsStored ==
  ASSUME RunnerInv
  PROVE  Runner!Snapshot \in Stored /\ ToldOnce(Runner!Snapshot.told, Runner!Snapshot.loaded)
<1>1. told \in {0, 1} /\ loaded \in BOOLEAN /\ memory.on \in BOOLEAN /\ trace.seq \in 0..MaxSeq
  BY DEF RunnerInv, ToldOnce, Memory, TraceCounted, Trace
<1>2. Runner!Snapshot.told = told /\ Runner!Snapshot.loaded = loaded
  BY DEF Runner!Snapshot
<1>3. Runner!Snapshot \in Stored
  BY <1>1 DEF Runner!Snapshot, Stored
<1>. QED
  BY <1>2, <1>3 DEF RunnerInv

-----------------------------------------------------------------------------
(* Steps.                                                                  *)

LEMMA RunnerBegins == ASSUME EditLimits, Runner!Init PROVE RunnerInv
<1>1. MaxSeq \in Nat /\ 0 \in 0..MaxSeq
  BY DEF EditLimits
<1>2. told = 0 /\ loaded = FALSE /\ memory = [file |-> 0, on |-> FALSE, context |-> 0]
  BY DEF Runner!Init
<1>a. ToldOnce(told, loaded)
  <2>1. told \in {0, 1} /\ told # 1
    BY <1>2
  <2>. QED
    BY <1>2, <2>1, Zenon DEF ToldOnce
<1>b. memory \in Memory /\ Runner!MemoryOffIsOff
  BY <1>2 DEF Memory, Runner!MemoryOffIsOff
<1>3. trace.seq = 0 /\ trace.files = {} /\ trace.writes = 0 /\ trace \in Trace
  BY <1>1 DEF Runner!Init, Trace
<1>4. TraceCounted(trace)
  BY <1>3, FS_EmptySet DEF TraceCounted
<1>5. other \in Stored /\ ToldOnce(other.told, other.loaded)
  <2>1. other = [told |-> 0, loaded |-> FALSE, on |-> FALSE, seq |-> 0]
    <3>1. memory.on = FALSE
      BY <1>2
    <3>. QED
      BY <1>2, <1>3, <3>1, Zenon DEF Runner!Init, Runner!Snapshot
  <2>2. other \in Stored
    BY <2>1, <1>1, Zenon DEF Stored
  <2>3. other.told \in {0, 1} /\ other.told # 1 /\ other.loaded = FALSE
    BY <2>1
  <2>. QED
    BY <2>2, <2>3, Zenon DEF ToldOnce
<1>. QED
  BY <1>a, <1>b, <1>4, <1>5 DEF RunnerInv

LEMMA SkillStep ==
  ASSUME RunnerInv, Runner!EditSkill \/ Runner!LoadCached \/ Runner!CompileSkill \/ Runner!SkillCompiled
  PROVE  RunnerInv'
<1>1. UNCHANGED <<memory, trace, other>>
  BY DEF Runner!EditSkill, Runner!LoadCached, Runner!CompileSkill, Runner!SkillCompiled
<1>2. Runner!LoadSkillContext \/ UNCHANGED <<told, loaded>>
  BY DEF Runner!EditSkill, Runner!LoadCached, Runner!CompileSkill, Runner!SkillCompiled
<1>3. ToldOnce(told, loaded)'
  <2>1. told \in {0, 1} /\ loaded \in BOOLEAN /\ (told = 1 => loaded)
    BY Zenon DEF RunnerInv, ToldOnce
  <2>2. CASE UNCHANGED <<told, loaded>>
    BY <2>1, <2>2, Zenon DEF ToldOnce
  <2>3. CASE Runner!LoadSkillContext
    <3>1. loaded' = TRUE /\ (told' = told \/ (~loaded /\ told' = told + 1))
      BY <2>3, Zenon DEF Runner!LoadSkillContext
    <3>2. ~loaded => told = 0
      BY <2>1, Zenon
    <3>3. told' \in {0, 1}
      BY <3>1, <3>2, <2>1
    <3>. QED
      BY <3>1, <3>3, Zenon DEF ToldOnce
  <2>. QED
    BY <1>2, <2>2, <2>3
<1>. QED
  BY <1>1, <1>3 DEF RunnerInv, Runner!MemoryOffIsOff

LEMMA MemoryStep ==
  ASSUME EditLimits, RunnerInv, Runner!AnotherProgramNotes \/ Runner!MemoryCommand \/ Runner!Prompt \/ Runner!EndPrompt
  PROVE  RunnerInv'
<1>1. UNCHANGED <<told, loaded, trace, other>>
  BY DEF Runner!AnotherProgramNotes, Runner!MemoryCommand, Runner!Prompt, Runner!EndPrompt,
     Runner!skillVars
<1>2. memory \in Memory /\ Runner!MemoryOffIsOff /\ memory.file + 1 \in Nat
  BY DEF RunnerInv, Memory
<1>3. memory' \in Memory /\ Runner!MemoryOffIsOff'
  <2>1. CASE Runner!AnotherProgramNotes
    <3>1. memory' = [memory EXCEPT !.file = memory.file + 1]
      BY <2>1 DEF Runner!AnotherProgramNotes
    <3>2. memory' \in Memory /\ memory'.on = memory.on /\ memory'.context = memory.context
      BY <3>1, <1>2 DEF Memory
    <3>. QED
      BY <3>2, <1>2 DEF Runner!MemoryOffIsOff
  <2>2. ASSUME NEW m \in Memory, memory' = Runner!Refresh(m)
        PROVE memory' \in Memory /\ Runner!MemoryOffIsOff'
    BY <2>2, RefreshedMemory DEF Runner!MemoryOffIsOff
  <2>3. CASE Runner!MemoryCommand
    <3>1. ASSUME NEW on \in BOOLEAN
          PROVE  /\ [memory EXCEPT !.on = on] \in Memory
                 /\ Runner!EnsureFiles([memory EXCEPT !.on = on]) \in Memory
      <4>1. [memory EXCEPT !.on = on] \in Memory
        BY <1>2 DEF Memory
      <4>2. ASSUME NEW m \in Memory PROVE Runner!EnsureFiles(m) \in Memory
        <5>1. PICK k \in Nat : k = (IF m.file = 0 THEN 1 ELSE m.file)
          BY DEF Memory
        <5>2. Runner!EnsureFiles(m) = [m EXCEPT !.file = k]
          BY <5>1 DEF Runner!EnsureFiles
        <5>. QED
          BY <5>2 DEF Memory
      <4>. QED
        BY <4>1, <4>2
    <3>2. CASE \E on \in BOOLEAN :
                 LET m == [memory EXCEPT !.on = on]
                 IN memory' = Runner!Refresh(IF on THEN Runner!EnsureFiles(m) ELSE m)
      BY <2>2, <3>1, <3>2
    <3>3. CASE memory' = [memory EXCEPT !.on = TRUE]
      <4>1. memory'.on = TRUE
        BY <3>3, <1>2 DEF Memory
      <4>. QED
        BY <3>1, <3>3, <4>1 DEF Runner!MemoryOffIsOff
    <3>4. CASE memory' = Runner!Refresh([memory EXCEPT !.file = memory.file + 1])
      <4>1. [memory EXCEPT !.file = memory.file + 1] \in Memory
        BY <1>2 DEF Memory
      <4>. QED
        BY <2>2, <3>4, <4>1
    <3>. QED
      BY <2>3, <3>2, <3>3, <3>4 DEF Runner!MemoryCommand
  <2>4. CASE Runner!Prompt
    BY <2>2, <2>4, <1>2 DEF Runner!Prompt
  <2>5. CASE Runner!EndPrompt
    <3>1. CASE memory' = memory
      BY <3>1, <1>2 DEF Runner!MemoryOffIsOff
    <3>2. CASE memory' = Runner!Refresh([memory EXCEPT !.file = memory.file + 1])
      <4>1. [memory EXCEPT !.file = memory.file + 1] \in Memory
        BY <1>2 DEF Memory
      <4>. QED
        BY <2>2, <3>2, <4>1
    <3>. QED
      BY <2>5, <3>1, <3>2 DEF Runner!EndPrompt, Runner!Remembered
  <2>. QED
    BY <2>1, <2>3, <2>4, <2>5
<1>. QED
  BY <1>1, <1>3 DEF RunnerInv

LEMMA RequestStep == ASSUME EditLimits, RunnerInv, Runner!Request PROVE RunnerInv'
<1>1. UNCHANGED <<told, loaded, memory, other>> /\ trace' = Runner!Written([trace EXCEPT !.seq = trace.seq + 1])
  BY DEF Runner!Request, Runner!skillVars
<1>2. trace.seq + 1 \in 0..MaxSeq
  BY DEF Runner!Request, RunnerInv, TraceCounted, Trace, EditLimits
<1>3. TraceCounted([trace EXCEPT !.seq = trace.seq + 1])
  BY <1>2, RenumberedTrace DEF RunnerInv
<1>4. TraceCounted(trace')
  BY <1>1, <1>3, WrittenIsNew
<1>. QED
  BY <1>1, <1>4 DEF RunnerInv, Runner!MemoryOffIsOff

LEMMA SessionStep == ASSUME EditLimits, RunnerInv, Runner!Clear \/ Runner!OpenSession
  PROVE RunnerInv'
<1>0. /\ other \in Stored /\ ToldOnce(other.told, other.loaded) /\ other.seq \in 0..MaxSeq
      /\ other.on \in BOOLEAN /\ memory \in Memory /\ Runner!MemoryOffIsOff /\ 0 \in 0..MaxSeq
  BY DEF RunnerInv, Stored, EditLimits
<1>1. CASE Runner!Clear
  <2>1. /\ told' = 0 /\ loaded' = FALSE /\ trace' = [trace EXCEPT !.seq = 0] /\ memory' = memory
        /\ other' \in {other, Runner!Snapshot}
    BY <1>1 DEF Runner!Clear
  <2>2. TraceCounted(trace')
    BY <1>0, <2>1, RenumberedTrace DEF RunnerInv
  <2>3. other' \in Stored /\ ToldOnce(other'.told, other'.loaded)
    BY <1>0, <2>1, SnapshotIsStored
  <2>4. ToldOnce(told, loaded)'
    <3>1. told' \in {0, 1} /\ told' # 1 /\ loaded' = FALSE
      BY <2>1
    <3>. QED
      BY <3>1, Zenon DEF ToldOnce
  <2>5. memory' \in Memory /\ Runner!MemoryOffIsOff'
    BY <1>0, <2>1 DEF Runner!MemoryOffIsOff
  <2>. QED
    BY <2>2, <2>3, <2>4, <2>5 DEF RunnerInv
<1>2. CASE Runner!OpenSession
  <2>1. /\ told' = other.told /\ loaded' = other.loaded /\ other' = Runner!Snapshot
        /\ trace' = [trace EXCEPT !.seq = other.seq]
    BY <1>2 DEF Runner!OpenSession, Runner!RestoreConversation
  <2>2. PICK m \in Memory : /\ m = [memory EXCEPT !.on = other.on]
                            /\ memory' = Runner!Refresh(m) \/ Runner!RefreshFails(m)
    <3>1. [memory EXCEPT !.on = other.on] \in Memory
      BY <1>0 DEF Memory
    <3>. QED
      BY <3>1, <1>2 DEF Runner!OpenSession
  <2>3. memory' \in Memory /\ Runner!MemoryOffIsOff'
    <3>1. CASE memory' = Runner!Refresh(m)
      BY <3>1, RefreshedMemory DEF Runner!MemoryOffIsOff
    <3>2. CASE Runner!RefreshFails(m)
      BY <3>2 DEF Runner!RefreshFails, Runner!MemoryOffIsOff
    <3>. QED
      BY <2>2, <3>1, <3>2
  <2>4. TraceCounted(trace')
    BY <1>0, <2>1, RenumberedTrace DEF RunnerInv
  <2>. QED
    BY <1>0, <2>1, <2>3, <2>4, SnapshotIsStored DEF RunnerInv
<1>. QED
  BY <1>1, <1>2

LEMMA RunnerKeepsInv == ASSUME EditLimits, RunnerInv, [Runner!Next]_(Runner!vars) PROVE RunnerInv'
<1>1. CASE UNCHANGED Runner!vars
  BY <1>1 DEF Runner!vars, Runner!skillVars, RunnerInv, Runner!MemoryOffIsOff
<1>. QED
  BY <1>1, SkillStep, MemoryStep, RequestStep, SessionStep DEF Runner!Next

LEMMA CountedTheSame == \A S : Runner!Cardinality(S) = Cardinality(S)
  BY DEF Runner!Cardinality, Cardinality, Runner!IsFiniteSet, IsFiniteSet

LEMMA RunnerConsistent ==
  ASSUME RunnerInv PROVE Runner!SkillsAreToldOnce /\ Runner!MemoryOffIsOff /\ Runner!TracesAreKept
<1>. QED
  BY CountedTheSame DEF RunnerInv, ToldOnce, TraceCounted, Runner!SkillsAreToldOnce,
                        Runner!TracesAreKept

-----------------------------------------------------------------------------
(* The invariant.                                                          *)

LogEntry == [checkpoint : Nat, status : Goals!Status]
Goal == [status : Goals!Status \cup {"none"}, checkpoint : Nat, log : Seq(LogEntry)]

\* The log names every checkpoint once and in order; the other session's goal too, since
\* it may be opened.
Logged(g) == /\ g \in Goal
             /\ Len(g.log) = g.checkpoint
             /\ \A i \in 1..Len(g.log) : g.log[i].checkpoint = i

\* A run has taken the checkpoints its goal went on by since it began.
WorkIsCounted ==
  /\ work \in [left : Nat, start : Nat, worked : Nat]
  /\ ~Goals!Free => /\ goal.status = "running" /\ work.start <= goal.checkpoint
              /\ work.worked = goal.checkpoint - work.start

GoalInv == Logged(goal) /\ Logged(saved) /\ WorkIsCounted /\ report.run = report.worked

-----------------------------------------------------------------------------
(* What an answer does to a goal.                                          *)

LEMMA NoGoalLogged == Logged(Goals!NoGoal) /\ Logged(Goals!NewGoal)
<1>1. <<>> \in Seq(LogEntry) /\ Len(<<>>) = 0
  OBVIOUS
<1>2. Goals!NoGoal \in Goal /\ Goals!NewGoal \in Goal /\ Goals!NewGoal.log = <<>> /\ Goals!NewGoal.checkpoint = 0
  BY <1>1 DEF Goals!NoGoal, Goals!NewGoal, Goal, Goals!Status
<1>. QED
  BY <1>1, <1>2 DEF Logged, Goals!NoGoal

LEMMA ProgressLogs ==
  ASSUME NEW g, Logged(g), NEW s \in Goals!Status
  PROVE  /\ Logged(Goals!Progress(g, s))
         /\ Goals!Progress(g, s).checkpoint = g.checkpoint + 1
         /\ Goals!Progress(g, s).status = s
<1>. DEFINE entry == [checkpoint |-> g.checkpoint + 1, status |-> s]
            log == Append(g.log, entry)
<1>1. g \in Goal /\ g.checkpoint \in Nat /\ g.log \in Seq(LogEntry) /\ entry \in LogEntry
  BY DEF Logged, Goal, LogEntry
<1>2. Goals!Progress(g, s) = [g EXCEPT !.status = s, !.checkpoint = g.checkpoint + 1, !.log = log]
  BY <1>1 DEF Goals!Progress, Goal
<1>3. /\ log \in Seq(LogEntry) /\ Len(log) = Len(g.log) + 1 /\ Len(g.log) \in Nat
      /\ log[Len(g.log) + 1] = entry
      /\ \A i \in 1..Len(g.log) : log[i] = g.log[i]
  BY <1>1
<1>4. entry.checkpoint = g.checkpoint + 1
  OBVIOUS
<1>3a. Len(g.log) = g.checkpoint /\ \A i \in 1..Len(g.log) : g.log[i].checkpoint = i
  BY DEF Logged
<1>. HIDE DEF log, entry
<1>5. ASSUME NEW i \in 1..Len(log) PROVE log[i].checkpoint = i
  <2>1. CASE i = Len(g.log) + 1
    BY <1>3, <1>4, <1>3a, <2>1
  <2>2. CASE i # Len(g.log) + 1
    <3>1. i \in 1..Len(g.log)
      BY <1>3, <2>2
    <3>. QED
      BY <1>3, <1>3a, <3>1
  <2>. QED
    BY <2>1, <2>2
<1>6. /\ Goals!Progress(g, s) \in Goal /\ Goals!Progress(g, s).log = log
      /\ Goals!Progress(g, s).checkpoint = g.checkpoint + 1 /\ Goals!Progress(g, s).status = s
  <2>1. s \in Goals!Status \cup {"none"} /\ g.checkpoint + 1 \in Nat
    BY <1>1
  <2>2. log \in Seq(LogEntry)
    BY <1>3
  <2>3. g \in Goal
    BY <1>1
  <2>. QED
    BY <1>2, <2>1, <2>2, <2>3 DEF Goal
<1>. QED
  BY <1>3, <1>5, <1>6 DEF Logged

\* An answer to a checkpoint's prompt makes one checkpoint, with a marker or without.
LEMMA AnswerMakesOne ==
  ASSUME NEW g, Logged(g), g.status = "running", NEW marker \in Goals!Status \cup {"none"}
  PROVE  \E s \in Goals!Status : Goals!AfterPrompt(g, Goals!Decided(g, marker)) = Goals!Progress(g, s)
<1>1. g # Goals!NoGoal /\ "running" \in Goals!Status /\ g.checkpoint \in Nat
  BY DEF Goals!NoGoal, Goals!Status, Logged, Goal
<1>2. CASE marker = "none"
  <2>1. Goals!Decided(g, marker) = g
    BY <1>2 DEF Goals!Decided
  <2>. QED
    BY <1>1, <2>1 DEF Goals!AfterPrompt
<1>3. CASE marker # "none"
  <2>1. marker \in Goals!Status /\ Goals!Decided(g, marker) = Goals!Progress(g, marker)
    BY <1>1, <1>3 DEF Goals!Decided
  <2>2. Goals!Progress(g, marker).checkpoint # g.checkpoint
    BY <1>1, <2>1, ProgressLogs
  <2>. QED
    BY <2>1, <2>2 DEF Goals!AfterPrompt
<1>. QED
  BY <1>2, <1>3

-----------------------------------------------------------------------------
(* Steps.                                                                  *)

LEMMA GoalBegins == Goals!Init => GoalInv
<1>. QED
  BY NoGoalLogged DEF Goals!Init, GoalInv, WorkIsCounted, Goals!Idle, Goals!NoReport, Goals!Free

LEMMA GoalCommandKeepsInv == ASSUME GoalInv, Goals!GoalCommand PROVE GoalInv'
<1>1. Logged(goal')
  <2>1. CASE goal' \in {Goals!NewGoal, Goals!NoGoal}
    BY <2>1, NoGoalLogged
  <2>2. CASE \E s \in {"paused", "running"} : goal' = [goal EXCEPT !.status = s]
    <3>1. PICK s \in {"paused", "running"} : goal' = [goal EXCEPT !.status = s]
      BY <2>2
    <3>2. goal \in Goal
      BY DEF GoalInv, Logged
    <3>3. /\ goal' \in Goal /\ goal'.log = goal.log /\ goal'.checkpoint = goal.checkpoint
      BY <3>1, <3>2 DEF Goal, Goals!Status
    <3>. QED
      BY <3>3 DEF GoalInv, Logged
  <2>. QED
    BY <2>1, <2>2 DEF Goals!GoalCommand
<1>. QED
  BY <1>1 DEF Goals!GoalCommand, GoalInv, WorkIsCounted, Goals!Free, Logged

LEMMA OrdinaryAnswerKeepsInv == ASSUME GoalInv, Goals!OrdinaryAnswer PROVE GoalInv'
<1>1. PICK marker \in Goals!Status : goal' = Goals!Decided(goal, marker)
  BY DEF Goals!OrdinaryAnswer
<1>2. goal' = goal \/ goal' = Goals!Progress(goal, marker)
  BY <1>1 DEF Goals!Decided
<1>3. Logged(Goals!Progress(goal, marker))
  BY ProgressLogs DEF GoalInv
<1>4. Logged(goal')
  BY <1>2, <1>3 DEF GoalInv
<1>. QED
  BY <1>4 DEF Goals!OrdinaryAnswer, GoalInv, WorkIsCounted, Goals!Free, Logged

LEMMA GoalRunKeepsInv == ASSUME LimitOfRun, GoalInv, Goals!GoalRun PROVE GoalInv'
<1>1. PICK n \in 1..MaxRun :
        IF goal.status = "running"
        THEN /\ work' = [left |-> n, start |-> goal.checkpoint, worked |-> 0]
             /\ report' = Goals!NoReport
        ELSE /\ report' = [run |-> 0, worked |-> 0, status |-> goal.status]
             /\ UNCHANGED work
  BY DEF Goals!GoalRun
<1>2. n \in Nat /\ goal.checkpoint \in Nat /\ Goals!Free /\ UNCHANGED <<goal, saved>>
  BY <1>1 DEF LimitOfRun, GoalInv, Logged, Goal, Goals!GoalRun
<1>3. WorkIsCounted' /\ report'.run = report'.worked
  <2>1. CASE goal.status = "running"
    BY <1>1, <1>2, <2>1 DEF WorkIsCounted, Goals!NoReport
  <2>2. CASE goal.status # "running"
    BY <1>1, <1>2, <2>2 DEF GoalInv, WorkIsCounted, Goals!Free
  <2>. QED
    BY <2>1, <2>2
<1>. QED
  BY <1>2, <1>3 DEF GoalInv, Logged

LEMMA CheckpointKeepsInv == ASSUME GoalInv, Goals!Checkpoint PROVE GoalInv'
<1>0. /\ ~Goals!Free /\ UNCHANGED saved /\ goal.status = "running" /\ Logged(goal)
      /\ work \in [left : Nat, start : Nat, worked : Nat]
      /\ work.start <= goal.checkpoint /\ work.worked = goal.checkpoint - work.start
      /\ goal.checkpoint \in Nat
  BY DEF Goals!Checkpoint, GoalInv, WorkIsCounted, Logged, Goal
<1>1. PICK marker \in Goals!Status \cup {"none"} : goal' = Goals!AfterPrompt(goal, Goals!Decided(goal, marker))
  BY DEF Goals!Checkpoint
<1>2. PICK s \in Goals!Status : goal' = Goals!Progress(goal, s)
  BY <1>0, <1>1, AnswerMakesOne
<1>3. Logged(Goals!Progress(goal, s)) /\ Goals!Progress(goal, s).checkpoint = goal.checkpoint + 1
  BY <1>0, ProgressLogs
<1>4. Logged(goal') /\ goal'.checkpoint = goal.checkpoint + 1
  BY <1>2, <1>3
<1>5. CASE /\ work' = Goals!Idle
           /\ report' = [run |-> goal'.checkpoint - work.start,
                         worked |-> work.worked + 1, status |-> goal'.status]
  <2>1. report'.run = report'.worked
    BY <1>0, <1>4, <1>5
  <2>2. WorkIsCounted'
    BY <1>5 DEF WorkIsCounted, Goals!Idle, Goals!Free
  <2>. QED
    BY <1>0, <1>4, <2>1, <2>2 DEF GoalInv, Logged
<1>6. CASE /\ goal'.status = "running" /\ work.left # 1
           /\ work' = [work EXCEPT !.left = @ - 1, !.worked = @ + 1] /\ UNCHANGED report
  <2>1. work.left \in Nat \ {0, 1}
    BY <1>0, <1>6 DEF Goals!Free
  <2>a. work' = [work EXCEPT !.left = work.left - 1, !.worked = work.worked + 1]
    BY <1>6
  <2>b. work.left - 1 \in Nat /\ work.worked + 1 \in Nat /\ work.start \in Nat
    BY <1>0, <2>1
  <2>2. /\ work' \in [left : Nat, start : Nat, worked : Nat]
        /\ work'.start = work.start /\ work'.worked = work.worked + 1
    BY <1>0, <2>a, <2>b
  <2>3. WorkIsCounted'
    BY <1>0, <1>4, <1>6, <2>2 DEF WorkIsCounted
  <2>. QED
    BY <1>0, <1>4, <1>6, <2>3 DEF GoalInv, Logged
<1>. QED
  BY <1>5, <1>6 DEF Goals!Checkpoint

LEMMA OthersKeepInv ==
  ASSUME GoalInv, Goals!CheckpointFails \/ Goals!OpenSession \/ UNCHANGED Goals!vars
    PROVE GoalInv'
<1>. QED
  BY DEF Goals!CheckpointFails, Goals!OpenSession, Goals!vars, GoalInv, Logged, WorkIsCounted,
     Goals!Idle, Goals!Free

-----------------------------------------------------------------------------
(* A file and its readers: the invariant.                                  *)

Words == {"f", "g", "wide", "n", "#", " "}
Ends == {"lf", "crlf", "none"}
Lines == [indent : Nat, words : Seq(Words), eol : Ends]
Text == Seq(Lines) \ {<<>>}

\* What an agent read has a line for every page that said there is more; of a text that
\* is still the file's it is the lines before the next offset, all of them at the end.
ReadView == [lines : Seq(Lines), pages : Nat \ {0}, next : Nat \ {0}, more : BOOLEAN,
             of : Seq(Lines)]
Read(v) ==
  /\ v \in ReadView
  /\ v.pages <= Len(v.lines) + (IF v.more THEN 0 ELSE 1)
  /\ v.of # <<>> =>
       /\ v.next <= Len(v.of) + 1 /\ v.lines = SubSeq(v.of, 1, v.next - 1)
       /\ ~v.more => v.next = Len(v.of) + 1

\* What the line numbers and the words of an edit promise, and the count of a replacement.
EditKeeps(c) ==
  LET after == SubSeq(c.text, c.first + c.size, Len(c.text)) IN
  /\ c.seen # <<>> =>
       /\ c.number \in {0, c.first}
       /\ \A i \in DOMAIN c.seen : Files!Unindented(c.seen[i], c.base[c.first + i - 1])
  /\ c.text # <<Files!Line(0, <<>>, Files!Newline(c.base))>> =>
       /\ Files!SameLines(SubSeq(c.text, 1, c.first - 1), SubSeq(c.base, 1, c.first - 1))
       /\ Files!SameLines(after, SubSeq(c.base, c.last + 1, Len(c.base)))

Planned(c) ==
  /\ c.op = "edit" => EditKeeps(c)
  /\ c.op = "replace" /\ c.how # "indented" => Files!ReplaceCounts(c)

FilesInv ==
  /\ file \in Text
  /\ \A a \in Agents : view[a] = Files!NoView \/ Read(view[a])
  /\ \A a \in Agents : call[a] # Files!NoCall => call[a].text \in Text
  /\ \A a \in Agents : Planned(call[a])
  /\ DOMAIN view = Agents /\ DOMAIN call = Agents

-----------------------------------------------------------------------------
(* The numbers: a set of them has a smallest one, and they begin at 0.     *)

LEMMA Smallest == ASSUME NEW S \in SUBSET Nat, S # {} PROVE \E m \in S : \A k \in S : m <= k
<1>1. \E m \in S : \A k \in S : ~(<<k, m>> \in OpToRel(<, Nat))
  BY NatLessThanWellFounded, WFMin, Zenon
<1>2. \A m \in S, k \in S : <<k, m>> \notin OpToRel(<, Nat) => m <= k
  BY DEF OpToRel
<1>. QED
  BY <1>1, <1>2, Zenon

LEMMA NumbersFromZero ==
  ASSUME NEW S \in SUBSET Nat, 0 \in S, \A n \in S : n + 1 \in S PROVE S = Nat
<1>1. SUFFICES ASSUME S # Nat PROVE FALSE
  OBVIOUS
<1>2. PICK m \in Nat \ S : \A k \in Nat \ S : m <= k
  BY <1>1, Smallest
<1>3. m - 1 \in S
  BY <1>2
<1>. QED
  BY <1>2, <1>3

-----------------------------------------------------------------------------
(* A page of a file.                                                       *)

LEMMA PageIsTheNextLines ==
  ASSUME PageHasLines, NEW c \in Text, NEW offset \in Nat \ {0}
  PROVE  \E end \in 0..Len(c) :
           /\ Files!Page(c, offset).lines = SubSeq(c, offset, end)
           /\ Files!Page(c, offset).next = end + 1 /\ Files!Page(c, offset).more \in BOOLEAN
           /\ ~Files!Page(c, offset).more => end = Len(c)
           /\ Files!Page(c, offset).more => offset <= end
           /\ IF offset <= Len(c) THEN offset <= end ELSE end = Len(c)
<1>. DEFINE last == IF Len(c) < offset + Limit - 1 THEN Len(c) ELSE offset + Limit - 1
            over == Files!Over(c, offset, last)
            fits == IF over = {} THEN last ELSE (CHOOSE i \in over : \A j \in over : i <= j) - 1
            end == IF over # {} /\ fits < offset THEN offset ELSE fits
            more == end < Len(c) \/ over # {}
<1>0. over \subseteq offset..last
  BY DEF Files!Over
<1>1. Files!Page(c, offset) = [lines |-> SubSeq(c, offset, end), next |-> end + 1, more |-> more]
  BY DEF Files!Page
<1>2. Len(c) \in Nat /\ last \in Nat /\ last <= Len(c)
      /\ (offset <= Len(c) => offset <= last) /\ (offset > Len(c) => last = Len(c))
  BY DEF Text, PageHasLines
<1>. HIDE DEF over, last, end
<1>3. end \in 0..Len(c) /\ (IF offset <= Len(c) THEN offset <= end ELSE end = Len(c))
  <2>1. CASE over = {}
    <3>1. end = last
      BY <2>1 DEF end
    <3>. QED
      BY <1>2, <3>1
  <2>2. CASE over # {}
    <3>0. PICK k \in over : k \in offset..last
      BY <1>0, <2>2
    <3>1. over \in SUBSET Nat /\ offset <= last
      <4>1. \A j \in offset..last : j \in Nat
        BY <1>2
      <4>. QED
        BY <1>0, <1>2, <3>0, <4>1
    <3>2. \E m \in over : \A j \in over : m <= j
      BY <3>1, <2>2, Smallest
    <3>3. PICK m \in over : fits = m - 1
      BY <3>2, <2>2
    <3>4. m \in Nat /\ offset <= m /\ m <= last
      BY <3>3, <1>0, <1>2
    <3>. HIDE DEF fits
    <3>5. end = (IF fits < offset THEN offset ELSE fits)
      BY <2>2 DEF end
    <3>. QED
      BY <1>2, <3>1, <3>3, <3>4, <3>5
  <2>. QED
    BY <2>1, <2>2
<1>. HIDE DEF fits
<1>4. /\ Files!Page(c, offset).lines = SubSeq(c, offset, end) /\ Files!Page(c, offset).next = end + 1
      /\ Files!Page(c, offset).more = more
  <2>1. ASSUME NEW l, NEW n, NEW m, NEW q, q = [lines |-> l, next |-> n, more |-> m]
        PROVE  q.lines = l /\ q.next = n /\ q.more = m
    BY <2>1
  <2>2. PICK l, n, m : l = SubSeq(c, offset, end) /\ n = end + 1 /\ m = more
    OBVIOUS
  <2>. HIDE DEF more
  <2>3. PICK q : q = Files!Page(c, offset)
    OBVIOUS
  <2>4. q = [lines |-> l, next |-> n, more |-> m]
    BY <1>1, <2>2, <2>3, Zenon
  <2>5. q.lines = l /\ q.next = n /\ q.more = m
    BY <2>1, <2>4
  <2>. QED
    BY <2>2, <2>3, <2>5, Zenon
<1>5. Files!Page(c, offset).more \in BOOLEAN
  BY <1>4, Zenon
<1>6. ~Files!Page(c, offset).more => end = Len(c)
  <2>1. ~Files!Page(c, offset).more => ~(end < Len(c))
    BY <1>4, Zenon
  <2>. QED
    BY <1>2, <1>3, <2>1
<1>7. Files!Page(c, offset).more => offset <= end
  <2>1. offset > Len(c) => over = {} /\ end = Len(c)
    BY <1>0, <1>2, <1>3
  <2>2. Files!Page(c, offset).more => end < Len(c) \/ over # {}
    BY <1>4, Zenon
  <2>3. offset <= Len(c) \/ offset > Len(c)
    BY <1>2
  <2>4. offset > Len(c) => ~Files!Page(c, offset).more
    <3>1. end = Len(c) => ~(end < Len(c))
      BY <1>2
    <3>. QED
      BY <2>1, <2>2, <3>1
  <2>. QED
    BY <1>3, <2>3, <2>4
<1>. QED
  BY <1>3, <1>4, <1>5, <1>6, <1>7

\* A page that says there is more has a line, so there are as many lines as pages.
LEMMA OnePageMore ==
  ASSUME NEW g \in Nat, NEW k \in Nat, NEW n \in Nat, NEW m, NEW more \in BOOLEAN,
         g <= k, m = k + n, more => n >= 1
  PROVE  g + 1 <= m + (IF more THEN 0 ELSE 1)
<1>. QED
  OBVIOUS

\* A page put to what was read before.
LEMMA PageIsRead ==
  ASSUME PageHasLines, FilesInv, NEW v, v = Files!NoView \/ Read(v), v.more
  PROVE  Read([lines |-> v.lines \o Files!Page(file, v.next).lines, pages |-> v.pages + 1,
               next |-> Files!Page(file, v.next).next, more |-> Files!Page(file, v.next).more,
               of |-> IF v = Files!NoView \/ v.of = file THEN file ELSE <<>>])
<1>. DEFINE p == Files!Page(file, v.next)
            new == [lines |-> v.lines \o p.lines, pages |-> v.pages + 1, next |-> p.next,
                    more |-> p.more,
                    of |-> IF v = Files!NoView \/ v.of = file THEN file ELSE <<>>]
<1>1. file \in Seq(Lines) /\ file # <<>> /\ Len(file) \in Nat \ {0} /\ <<>> \in Seq(Lines)
  BY EmptySeq DEF FilesInv, Text
<1>2. /\ v.lines \in Seq(Lines) /\ v.next \in Nat \ {0} /\ v.pages \in Nat
      /\ v.pages <= Len(v.lines)
  <2>1. CASE v = Files!NoView
    BY <1>1, <2>1 DEF Files!NoView
  <2>. QED
    BY <2>1 DEF Read, ReadView
<1>3. PICK end \in 0..Len(file) :
           /\ p.lines = SubSeq(file, v.next, end)
           /\ p.next = end + 1 /\ p.more \in BOOLEAN
           /\ ~p.more => end = Len(file)
           /\ p.more => v.next <= end
           /\ IF v.next <= Len(file) THEN v.next <= end ELSE end = Len(file)
  BY <1>1, <1>2, PageIsTheNextLines DEF FilesInv
<1>. HIDE DEF p
<1>4. p.lines \in Seq(Lines) /\ v.lines \o p.lines \in Seq(Lines)
  <2>1. \A i \in v.next..end : file[i] \in Lines
    BY <1>1, <1>2, <1>3, ElementOfSeq
  <2>2. p.lines \in Seq(Lines)
    BY <1>2, <1>3, <2>1, SubSeqProperties
  <2>. QED
    BY <2>2, <1>2, ConcatProperties
<1>n. v.pages + 1 <= Len(v.lines \o p.lines) + (IF p.more THEN 0 ELSE 1)
  <2>1. Len(v.lines \o p.lines) = Len(v.lines) + Len(p.lines) /\ Len(p.lines) \in Nat
    BY <1>2, <1>4, ConcatProperties
  <2>2. ASSUME p.more PROVE Len(p.lines) >= 1
    <3>1. \A i \in v.next..end : file[i] \in Lines
      BY <1>1, <1>2, <1>3, ElementOfSeq
    <3>2. Len(p.lines) = end - v.next + 1
      BY <1>2, <1>3, <2>2, <3>1, SubSeqProperties
    <3>. QED
      BY <1>2, <1>3, <2>2, <3>2
  <2>3. Len(v.lines) \in Nat
    BY <1>2
  <2>. QED
    BY <1>2, <1>3, <2>1, <2>2, <2>3, OnePageMore, Zenon
<1>5. CASE v = Files!NoView \/ v.of = file
  <2>1. v.next <= Len(file) + 1 /\ v.lines = SubSeq(file, 1, v.next - 1)
    <3>1. CASE v = Files!NoView
      BY <3>1, <1>1, SubSeqEmpty DEF Files!NoView
    <3>2. CASE v # Files!NoView
      BY <3>2, <1>5, <1>1 DEF Read
    <3>. QED
      BY <3>1, <3>2
  <2>2. v.next - 1 \in 0..Len(file) /\ end \in (v.next - 1)..Len(file) /\ 1 <= end
    BY <1>1, <1>2, <1>3, <2>1
  <2>3. v.lines \o p.lines = SubSeq(file, 1, end)
    <3>1. 1 \in 1..(Len(file) + 1) /\ v.next - 1 \in (1 - 1)..Len(file) /\ (v.next - 1) + 1 = v.next
      BY <1>1, <1>2, <2>2
    <3>2. SubSeq(file, 1, v.next - 1) \o SubSeq(file, (v.next - 1) + 1, end) = SubSeq(file, 1, end)
      BY <1>1, <2>2, <3>1, ConcatAdjacentSubSeq
    <3>. QED
      BY <1>3, <2>1, <3>1, <3>2
  <2>5. /\ new.lines = v.lines \o p.lines /\ new.next = end + 1 /\ new.more = p.more
        /\ new.of = file /\ new.pages = v.pages + 1
    BY <1>3, <1>5
  <2>6. new \in ReadView
    BY <1>1, <1>2, <1>3, <1>4, <1>5 DEF ReadView
  <2>7. (end + 1) - 1 = end /\ end + 1 <= Len(file) + 1
    BY <1>1, <1>3
  <2>. HIDE DEF new
  <2>8. Read(new)
    BY <2>3, <2>5, <2>6, <2>7, <1>3, <1>n DEF Read
  <2>. QED
    BY <2>8 DEF new, p
<1>6. CASE ~(v = Files!NoView \/ v.of = file)
  <2>3. /\ new.lines = v.lines \o p.lines /\ new.more = p.more /\ new.of = <<>>
        /\ new.pages = v.pages + 1
    BY <1>6
  <2>4. new \in ReadView
    BY <1>1, <1>2, <1>3, <1>4, <1>6 DEF ReadView
  <2>. HIDE DEF new
  <2>5. Read(new)
    BY <2>3, <2>4, <1>n DEF Read
  <2>. QED
    BY <2>5 DEF new, p
<1>. QED
  BY <1>5, <1>6

LEMMA FsReadStep == ASSUME PageHasLines, FilesInv, NEW a \in Agents, Files!FsRead(a)
  PROVE FilesInv'
<1>1. PICK v \in {Files!NoView, view[a]} :
        /\ v.more
        /\ view' = [view EXCEPT ![a] =
             [lines |-> v.lines \o Files!Page(file, v.next).lines, pages |-> v.pages + 1,
              next |-> Files!Page(file, v.next).next, more |-> Files!Page(file, v.next).more,
              of |-> IF v = Files!NoView \/ v.of = file THEN file ELSE <<>>]]
  BY DEF Files!FsRead
<1>2. UNCHANGED <<file, call>> /\ DOMAIN view = Agents
  BY DEF Files!FsRead, FilesInv
<1>. DEFINE new == [lines |-> v.lines \o Files!Page(file, v.next).lines, pages |-> v.pages + 1,
                    next |-> Files!Page(file, v.next).next, more |-> Files!Page(file, v.next).more,
                    of |-> IF v = Files!NoView \/ v.of = file THEN file ELSE <<>>]
<1>3. Read(new)
  <2>1. v = Files!NoView \/ Read(v)
    BY DEF FilesInv
  <2>. QED
    BY <1>1, <2>1, PageIsRead
<1>. HIDE DEF new
<1>4. view' = [view EXCEPT ![a] = new]
  BY <1>1 DEF new
<1>5. \A b \in Agents : view'[b] = Files!NoView \/ Read(view'[b])
  BY <1>2, <1>3, <1>4 DEF FilesInv
<1>6. DOMAIN view' = Agents
  BY <1>2, <1>4
<1>. QED
  BY <1>2, <1>5, <1>6 DEF FilesInv

-----------------------------------------------------------------------------
(* A replacement.                                                          *)

\* Pieces put one after the other, as the loop does.
Glued(F, p, n) == F = [i \in 0..n |-> IF i = 0 THEN <<>> ELSE F[i - 1] \o p[i]]

LEMMA PiecesCanBeGlued == ASSUME NEW p, NEW n \in Nat PROVE \E F : Glued(F, p, n)
<1>. DEFINE S == {k \in Nat : \E F : Glued(F, p, k)}
<1>1. 0 \in S
  <2>. DEFINE F == [i \in 0..0 |-> <<>>]
  <2>1. Glued(F, p, 0)
    BY DEF Glued
  <2>. QED
    BY <2>1
<1>2. ASSUME NEW k \in S PROVE k + 1 \in S
  <2>1. PICK F : Glued(F, p, k)
    OBVIOUS
  <2>. DEFINE G == [i \in 0..(k + 1) |-> IF i = k + 1 THEN F[k] \o p[k + 1] ELSE F[i]]
  <2>2. \A i \in 0..k : F[i] = IF i = 0 THEN <<>> ELSE F[i - 1] \o p[i]
    BY <2>1 DEF Glued
  <2>3. \A i \in 0..k : G[i] = F[i] /\ (i # 0 => G[i - 1] = F[i - 1])
    OBVIOUS
  <2>4. G[k + 1] = F[k] \o p[k + 1] /\ G[(k + 1) - 1] = F[k]
    OBVIOUS
  <2>5. ASSUME NEW i \in 0..(k + 1) PROVE G[i] = IF i = 0 THEN <<>> ELSE G[i - 1] \o p[i]
    <3>1. CASE i = k + 1
      BY <2>4, <3>1
    <3>2. CASE i \in 0..k
      BY <2>2, <2>3, <3>2
    <3>. QED
      BY <3>1, <3>2
  <2>6. G = [i \in 0..(k + 1) |-> G[i]]
    OBVIOUS
  <2>7. Glued(G, p, k + 1)
    <3>. HIDE DEF G
    <3>. QED
      BY <2>5, <2>6 DEF Glued
  <2>. QED
    BY <2>7
<1>. HIDE DEF S
<1>3. S = Nat
  <2>1. S \in SUBSET Nat
    BY DEF S
  <2>. QED
    BY <1>1, <1>2, <2>1, NumbersFromZero
<1>. QED
  BY <1>3 DEF S

\* The first k pieces make a text, of a line each when every piece is a line.
GluedTo(F, p, k, n) ==
  /\ F[k] \in Seq(Lines) /\ (k # 0 => F[k] # <<>>)
  /\ (\A i \in 1..n : Len(p[i]) = 1) => Len(F[k]) = k /\ \A i \in 1..k : F[k][i] = p[i][1]

LEMMA GluedPieces ==
  ASSUME NEW n \in Nat, NEW p \in [1..n -> Text], NEW F, Glued(F, p, n)
  PROVE  GluedTo(F, p, n, n)
<1>. DEFINE S == {k \in Nat : k <= n => GluedTo(F, p, k, n)}
<1>1. 0 \in S
  <2>1. 0 \in 0..n
    OBVIOUS
  <2>2. F[0] = <<>>
    BY <2>1 DEF Glued
  <2>3. F[0] \in Seq(Lines) /\ Len(F[0]) = 0
    BY <2>2, EmptySeq
  <2>. QED
    BY <2>3 DEF GluedTo
<1>2. ASSUME NEW k \in S, k + 1 <= n PROVE GluedTo(F, p, k + 1, n)
  <2>1. k \in Nat /\ k + 1 \in 1..n /\ k + 1 \in 0..n /\ (k + 1) - 1 = k /\ k + 1 # 0
    BY <1>2
  <2>2. F[k + 1] = F[k] \o p[k + 1] /\ p[k + 1] \in Text
    BY <2>1 DEF Glued
  <2>3. GluedTo(F, p, k, n)
    BY <1>2
  <2>4. /\ F[k] \in Seq(Lines) /\ p[k + 1] \in Seq(Lines) /\ p[k + 1] # <<>>
        /\ Len(F[k]) \in Nat /\ Len(p[k + 1]) \in Nat
    BY <2>2, <2>3 DEF Text, GluedTo
  <2>. DEFINE one == F[k]
              two == p[k + 1]
              both == F[k + 1]
  <2>5. one \in Seq(Lines) /\ two \in Seq(Lines) /\ two # <<>> /\ both = one \o two
    BY <2>2, <2>4
  <2>6. /\ both \in Seq(Lines) /\ Len(both) = Len(one) + Len(two) /\ both # <<>>
        /\ \A i \in 1..(Len(one) + Len(two)) : both[i] = IF i <= Len(one) THEN one[i] ELSE two[i - Len(one)]
    <3>. HIDE DEF one, two, both
    <3>. QED
      BY <2>5, ConcatProperties, ConcatEqualIffEmpty
  <2>7. ASSUME \A i \in 1..n : Len(p[i]) = 1
        PROVE  Len(both) = k + 1 /\ \A i \in 1..(k + 1) : both[i] = p[i][1]
    <3>1. Len(two) = 1 /\ Len(one) = k /\ \A i \in 1..k : one[i] = p[i][1]
      BY <2>1, <2>3, <2>7 DEF GluedTo
    <3>2. two[1] = p[k + 1][1]
      OBVIOUS
    <3>. HIDE DEF one, two, both
    <3>3. ASSUME NEW i \in 1..(k + 1) PROVE both[i] = p[i][1]
      <4>1. CASE i \in 1..k
        <5>1. i \in 1..(Len(one) + Len(two)) /\ i <= Len(one)
          BY <2>1, <3>1, <4>1
        <5>2. both[i] = one[i]
          BY <2>6, <5>1
        <5>. QED
          BY <3>1, <4>1, <5>2
      <4>2. CASE i = k + 1
        <5>1. i \in 1..(Len(one) + Len(two)) /\ ~(i <= Len(one)) /\ i - Len(one) = 1
          BY <2>1, <3>1, <4>2
        <5>2. both[i] = two[1]
          BY <2>6, <5>1
        <5>. QED
          BY <3>2, <4>2, <5>2
      <4>. QED
        BY <2>1, <4>1, <4>2
    <3>. QED
      BY <2>1, <2>6, <3>1, <3>3
  <2>. QED
    BY <2>6, <2>7 DEF GluedTo
<1>. HIDE DEF S
<1>3. \A k \in S : k + 1 \in S
  BY <1>2 DEF S
<1>4. S = Nat
  <2>1. S \in SUBSET Nat
    BY DEF S
  <2>. QED
    BY <1>1, <1>3, <2>1, NumbersFromZero
<1>. QED
  BY <1>4 DEF S

\* A line is put back as a line, or as two when the new text ends one the old did not.
LEMMA PutMakesText ==
  ASSUME NEW l \in Lines, NEW old \in Lines, NEW new \in Lines, Files!Contains(l, old)
  PROVE  /\ Files!Put(l, old, new) \in Text
         /\ (old.eol = "none" => new.eol = "none") => Len(Files!Put(l, old, new)) = 1
<1>. DEFINE rest == SubSeq(l.words, Len(old.words) + 1, Len(l.words))
            indent == (l.indent - old.indent) + new.indent
            ended == Files!Line(indent, new.words, new.eol)
            left == Files!Line(0, rest, l.eol)
            whole == Files!Line(indent, new.words \o rest, l.eol)
<1>1. /\ l.words \in Seq(Words) /\ old.words \in Seq(Words) /\ new.words \in Seq(Words)
      /\ l.indent \in Nat /\ old.indent \in Nat /\ new.indent \in Nat
      /\ l.eol \in Ends /\ new.eol \in Ends
  BY DEF Lines
<1>2. rest \in Seq(Words)
  <2>1. Len(old.words) \in Nat /\ Len(l.words) \in Nat
    BY <1>1
  <2>2. \A i \in (Len(old.words) + 1)..Len(l.words) : l.words[i] \in Words
    BY <1>1, <2>1, ElementOfSeq
  <2>3. Len(old.words) + 1 \in Int /\ Len(l.words) \in Int
    BY <2>1
  <2>. QED
    BY <2>2, <2>3, SubSeqProperties
<1>3. indent \in Nat
  BY <1>1 DEF Files!Contains
<1>4. new.words \o rest \in Seq(Words)
  BY <1>1, <1>2, ConcatProperties
<1>. HIDE DEF rest, indent
<1>5. ended \in Lines /\ whole \in Lines /\ left \in Lines
  BY <1>1, <1>2, <1>3, <1>4 DEF Files!Line, Lines
<1>6. Files!Put(l, old, new) = IF old.eol = "none" /\ new.eol # "none"
                         THEN <<ended>> \o (IF rest = <<>> /\ l.eol = "none" THEN <<>> ELSE <<left>>)
                         ELSE <<whole>>
  BY DEF Files!Put, rest, indent
<1>. HIDE DEF ended, whole, left
<1>7. <<ended>> \in Text /\ <<whole>> \in Text /\ Len(<<whole>>) = 1
  BY <1>5 DEF Text
<1>8. <<ended>> \o <<>> \in Text /\ <<ended>> \o <<left>> \in Text
  <2>1. <<ended>> \in Seq(Lines) /\ <<left>> \in Seq(Lines) /\ <<>> \in Seq(Lines)
    BY <1>5
  <2>. QED
    BY <2>1, <1>7, ConcatProperties, ConcatEqualIffEmpty DEF Text
<1>. QED
  BY <1>6, <1>7, <1>8

Piece(c, old, new, i) == IF Files!Contains(c[i], old) THEN Files!Put(c[i], old, new) ELSE <<c[i]>>

\* What replaces a text is a text; line for line when both ends are line ends or neither,
\* and then only lines that hold the old text change.
LEMMA ReplacedText ==
  ASSUME NEW c \in Text, NEW old \in Lines, NEW new \in Lines
  PROVE  /\ Files!ReplaceAll(c, old, new) \in Text
         /\ (old.eol = "none" => new.eol = "none") =>
              /\ Len(Files!ReplaceAll(c, old, new)) = Len(c)
              /\ \A i \in 1..Len(c) : Files!ReplaceAll(c, old, new)[i] # c[i] => i \in Files!Matches(c, old)
<1>. DEFINE p == [i \in 1..Len(c) |-> Piece(c, old, new, i)]
            Of(F) == F = [i \in 0..Len(c) |-> IF i = 0 THEN <<>>
              ELSE F[i - 1] \o (IF Files!Contains(c[i], old) THEN Files!Put(c[i], old, new) ELSE <<c[i]>>)]
<1>1. /\ Len(c) \in Nat \ {0} /\ DOMAIN c = 1..Len(c)
      /\ \A i \in 1..Len(c) : c[i] \in Lines /\ <<c[i]>> \in Text /\ Len(<<c[i]>>) = 1
  <2>1. c \in Seq(Lines) /\ c # <<>>
    BY DEF Text
  <2>2. Len(c) \in Nat \ {0} /\ DOMAIN c = 1..Len(c) /\ \A i \in 1..Len(c) : c[i] \in Lines
    BY <2>1
  <2>. QED
    BY <2>2 DEF Text
<1>2. ASSUME NEW i \in 1..Len(c)
      PROVE  /\ p[i] = Piece(c, old, new, i) /\ p[i] \in Text
             /\ (old.eol = "none" => new.eol = "none") => Len(p[i]) = 1
             /\ i \notin Files!Matches(c, old) => p[i] = <<c[i]>>
  <2>1. p[i] = Piece(c, old, new, i)
    OBVIOUS
  <2>. HIDE DEF p
  <2>2. CASE Files!Contains(c[i], old)
    <3>1. p[i] = Files!Put(c[i], old, new) /\ i \in Files!Matches(c, old)
      BY <1>1, <2>1, <2>2 DEF Piece, Files!Matches
    <3>2. /\ Files!Put(c[i], old, new) \in Text
          /\ (old.eol = "none" => new.eol = "none") => Len(Files!Put(c[i], old, new)) = 1
      BY <1>1, <2>2, PutMakesText
    <3>. QED
      BY <2>1, <3>1, <3>2, Zenon
  <2>3. CASE ~Files!Contains(c[i], old)
    <3>1. p[i] = <<c[i]>>
      BY <2>1, <2>3 DEF Piece
    <3>. QED
      BY <1>1, <2>1, <3>1
  <2>. QED
    BY <2>2, <2>3
<1>3. p \in [1..Len(c) -> Text]
  BY <1>2
<1>4. ASSUME NEW F PROVE Of(F) <=> Glued(F, p, Len(c))
  <2>1. \A i \in 0..Len(c) : i # 0 =>
          p[i] = IF Files!Contains(c[i], old) THEN Files!Put(c[i], old, new) ELSE <<c[i]>>
    BY <1>1 DEF Piece
  <2>2. [i \in 0..Len(c) |-> IF i = 0 THEN <<>>
           ELSE F[i - 1] \o (IF Files!Contains(c[i], old) THEN Files!Put(c[i], old, new) ELSE <<c[i]>>)]
        = [i \in 0..Len(c) |-> IF i = 0 THEN <<>> ELSE F[i - 1] \o p[i]]
    BY <2>1
  <2>. QED
    BY <2>2, Zenon DEF Glued
<1>5. Files!ReplaceAll(c, old, new) = (CHOOSE F : Of(F))[Len(c)]
  BY Zenon DEF Files!ReplaceAll
<1>. HIDE DEF Of, p
<1>6. PICK F : Glued(F, p, Len(c)) /\ Files!ReplaceAll(c, old, new) = F[Len(c)]
  <2>1. \E F : Glued(F, p, Len(c))
    BY <1>1, PiecesCanBeGlued
  <2>. QED
    BY <1>4, <1>5, <2>1
<1>7. GluedTo(F, p, Len(c), Len(c))
  BY <1>1, <1>3, <1>6, GluedPieces
<1>8. Files!ReplaceAll(c, old, new) \in Text
  BY <1>1, <1>6, <1>7 DEF GluedTo, Text
<1>9. ASSUME old.eol = "none" => new.eol = "none"
      PROVE  /\ Len(F[Len(c)]) = Len(c)
             /\ \A i \in 1..Len(c) : F[Len(c)][i] # c[i] => i \in Files!Matches(c, old)
  <2>1. \A i \in 1..Len(c) : Len(p[i]) = 1
    BY <1>2, <1>9
  <2>2. Len(F[Len(c)]) = Len(c) /\ \A i \in 1..Len(c) : F[Len(c)][i] = p[i][1]
    BY <2>1, <1>7 DEF GluedTo
  <2>3. ASSUME NEW i \in 1..Len(c), i \notin Files!Matches(c, old) PROVE F[Len(c)][i] = c[i]
    <3>1. p[i] = <<c[i]>> /\ <<c[i]>>[1] = c[i]
      BY <1>2, <2>3
    <3>. QED
      BY <2>2, <3>1
  <2>. QED
    BY <2>2, <2>3
<1>. QED
  BY <1>6, <1>8, <1>9

LEMMA NewlineEnds == \A c : Files!Newline(c) \in {"lf", "crlf"}
  BY DEF Files!Newline

LEMMA EndedLine ==
  ASSUME NEW l \in Lines, NEW c
  PROVE  Files!Ended(l, c) \in Lines /\ (Files!Ended(l, c).eol = "none" <=> l.eol = "none")
<1>1. PICK e : e = (IF l.eol = "none" THEN "none" ELSE Files!Newline(c))
  OBVIOUS
<1>2. e \in Ends /\ (e = "none" <=> l.eol = "none")
  BY <1>1, NewlineEnds DEF Ends
<1>3. Files!Ended(l, c) = [l EXCEPT !.eol = e]
  BY <1>1 DEF Files!Ended
<1>. QED
  BY <1>2, <1>3 DEF Lines

LEMMA LinesCountedTheSame == \A S : Files!Cardinality(S) = Cardinality(S)
  BY DEF Files!Cardinality, Cardinality, Files!IsFiniteSet, IsFiniteSet

\* The lines a plan counts are those its old text is in, unless it guesses the indentation.
LEMMA PlanCounts ==
  ASSUME NEW c \in Text, NEW old \in Lines, NEW new \in Lines, old.eol = new.eol,
         NEW plan, plan = Files!ReplacementPlan(c, old, new), plan.n > 0
  PROVE  /\ plan.old \in Lines /\ plan.new \in Lines
         /\ plan.how # "indented" =>
              /\ plan.n = Cardinality(Files!Matches(c, plan.old))
              /\ plan.old.eol = "none" => plan.new.eol = "none"
<1>. DEFINE exact == Files!Matches(c, old)
            ended == Files!Matches(c, Files!Ended(old, c))
            indented == Files!Indented(c, old)
            one == c[CHOOSE i \in indented : TRUE]
<1>1. CASE exact # {}
  <2>1. plan = Files!Plan(old, new, Cardinality(exact), "exact")
    BY <1>1, LinesCountedTheSame DEF Files!ReplacementPlan
  <2>. HIDE DEF exact
  <2>2. plan.old = old /\ plan.new = new /\ plan.n = Cardinality(exact)
    BY <2>1 DEF Files!Plan
  <2>. QED
    BY <2>2 DEF exact
<1>2. CASE exact = {} /\ ended # {}
  <2>1. plan = Files!Plan(Files!Ended(old, c), Files!Ended(new, c), Cardinality(ended), "ended")
    BY <1>2, LinesCountedTheSame DEF Files!ReplacementPlan
  <2>. HIDE DEF ended
  <2>2. plan.old = Files!Ended(old, c) /\ plan.new = Files!Ended(new, c) /\ plan.n = Cardinality(ended)
    BY <2>1 DEF Files!Plan
  <2>3. /\ Files!Ended(old, c) \in Lines /\ (Files!Ended(old, c).eol = "none" <=> old.eol = "none")
        /\ Files!Ended(new, c) \in Lines /\ (Files!Ended(new, c).eol = "none" <=> new.eol = "none")
    BY EndedLine
  <2>. QED
    BY <2>2, <2>3 DEF ended
<1>3. CASE exact = {} /\ ended = {} /\ Cardinality(indented) = 1
  <2>1. plan = Files!Plan([one EXCEPT !.eol = "none"], Files!Ended(new, c), 1, "indented")
    BY <1>3, LinesCountedTheSame DEF Files!ReplacementPlan
  <2>2. one \in Lines
    <3>1. indented # {}
      <4>1. Cardinality({}) = 0
        BY FS_EmptySet
      <4>. QED
        BY <4>1, <1>3
    <3>2. (CHOOSE i \in indented : TRUE) \in DOMAIN c
      BY <3>1 DEF Files!Indented
    <3>. QED
      BY <3>2 DEF Text
  <2>. HIDE DEF one
  <2>3. [one EXCEPT !.eol = "none"] \in Lines
    BY <2>2 DEF Lines, Ends
  <2>4. /\ plan.old = [one EXCEPT !.eol = "none"] /\ plan.new = Files!Ended(new, c)
        /\ plan.how = "indented"
    BY <2>1 DEF Files!Plan
  <2>. QED
    BY <2>3, <2>4, EndedLine
<1>4. CASE exact = {} /\ ended = {} /\ Cardinality(indented) # 1
  <2>1. \E how : plan = Files!Plan(old, new, 0, how)
    BY <1>4, LinesCountedTheSame DEF Files!ReplacementPlan
  <2>. QED
    BY <2>1 DEF Files!Plan
<1>. QED
  BY <1>1, <1>2, <1>3, <1>4

\* A line with its number and the line under it end alike.
LEMMA StrippedLines ==
  ASSUME NEW l \in Lines
  PROVE  /\ Files!Shown(l) \in Lines /\ Files!Shown(l).eol = l.eol
         /\ Files!Stripped(l) \in Lines /\ Files!Stripped(l).eol = l.eol
<1>1. l.words \in Seq(Words) /\ l.indent \in Nat /\ l.eol \in Ends
  BY DEF Lines
<1>2. <<"#">> \o [i \in 1..l.indent |-> " "] \o l.words \in Seq(Words)
  <2>1. "#" \in Words /\ " " \in Words
    BY DEF Words
  <2>2. <<"#">> \in Seq(Words)
    <3>1. PICK x \in Words : x = "#"
      BY <2>1
    <3>. QED
      BY <3>1
  <2>3. [i \in 1..l.indent |-> " "] \in Seq(Words)
    <3>1. PICK n \in Nat, x \in Words : n = l.indent /\ x = " "
      BY <1>1, <2>1
    <3>2. [i \in 1..n |-> x] \in [1..n -> Words]
      OBVIOUS
    <3>3. [i \in 1..n |-> x] \in Seq(Words)
      BY <3>2, SeqDef, Zenon
    <3>. QED
      BY <3>1, <3>3
  <2>4. <<"#">> \o [i \in 1..l.indent |-> " "] \in Seq(Words)
    BY <2>2, <2>3, ConcatProperties
  <2>. QED
    BY <1>1, <2>4, ConcatProperties
<1>3. Files!Shown(l) \in Lines /\ Files!Shown(l).eol = l.eol
  <2>1. PICK w \in Seq(Words) : w = <<"#">> \o [i \in 1..l.indent |-> " "] \o l.words
    BY <1>2
  <2>2. Files!Shown(l) = [indent |-> 0, words |-> w, eol |-> l.eol]
    BY <2>1 DEF Files!Shown, Files!Line
  <2>. QED
    BY <1>1, <2>2 DEF Lines
<1>4. PICK spaces : spaces = Cardinality({i \in DOMAIN l.words : l.words[i] = " "})
  OBVIOUS
<1>5. spaces \in Nat
  <2>1. Len(l.words) \in Nat /\ DOMAIN l.words = 1..Len(l.words)
    BY <1>1
  <2>2. IsFiniteSet(1..Len(l.words))
    BY <2>1, FS_Interval
  <2>3. IsFiniteSet({i \in DOMAIN l.words : l.words[i] = " "})
    BY <2>1, <2>2, FS_Subset
  <2>. QED
    BY <1>4, <2>3, FS_CardinalityType
<1>6. SubSeq(l.words, spaces + 2, Len(l.words)) \in Seq(Words)
  <2>1. \A i \in (spaces + 2)..Len(l.words) : l.words[i] \in Words
    BY <1>1, <1>5, ElementOfSeq
  <2>. QED
    BY <1>1, <1>5, <2>1, SubSeqProperties
<1>7. PICK w \in Seq(Words) : w = SubSeq(l.words, spaces + 2, Len(l.words))
  BY <1>6
<1>8. Files!Stripped(l) = [indent |-> spaces, words |-> w, eol |-> l.eol]
  BY <1>4, <1>7, LinesCountedTheSame DEF Files!Stripped, Files!Line
<1>. QED
  BY <1>1, <1>3, <1>5, <1>8 DEF Lines

\* The plan that is carried out is a plan for two lines that end alike.
LEMMA StrippedPlanCounts ==
  ASSUME NEW c \in Text, NEW old \in Lines, NEW new \in Lines, old.eol = new.eol,
         NEW plan, plan = Files!StrippedPlan(c, old, new), plan.n > 0
  PROVE  /\ plan.old \in Lines /\ plan.new \in Lines
         /\ plan.how # "indented" =>
              /\ plan.n = Cardinality(Files!Matches(c, plan.old))
              /\ plan.old.eol = "none" => plan.new.eol = "none"
<1>1. \/ plan = Files!ReplacementPlan(c, old, new)
      \/ plan = Files!ReplacementPlan(c, Files!Stripped(old), Files!Stripped(new))
  BY DEF Files!StrippedPlan
<1>2. /\ Files!Stripped(old) \in Lines /\ Files!Stripped(new) \in Lines
      /\ Files!Stripped(old).eol = Files!Stripped(new).eol
  BY StrippedLines
<1>3. PICK o \in Lines, n \in Lines : o.eol = n.eol /\ plan = Files!ReplacementPlan(c, o, n)
  BY <1>1, <1>2
<1>. QED
  BY <1>3, PlanCounts

\* A change that is planned leaves what was read and the file.
LEMMA PlannedChange ==
  ASSUME FilesInv, NEW a \in Agents, NEW c, call' = [call EXCEPT ![a] = c],
         c.text \in Text, Planned(c), UNCHANGED <<file, view>>
  PROVE  FilesInv'
<1>1. DOMAIN call' = Agents /\ \A b \in Agents : call'[b] = IF b = a THEN c ELSE call[b]
  BY DEF FilesInv
<1>2. ASSUME NEW b \in Agents
      PROVE  (call'[b] # Files!NoCall => call'[b].text \in Text) /\ Planned(call'[b])
  BY <1>1 DEF FilesInv
<1>. QED
  BY <1>1, <1>2 DEF FilesInv

LEMMA ViewLines == ASSUME FilesInv, NEW a \in Agents PROVE view[a].lines \in Seq(Lines)
<1>1. <<>> \in Seq(Lines)
  BY EmptySeq
<1>2. Files!NoView.lines = <<>>
  BY DEF Files!NoView
<1>3. view[a] = Files!NoView \/ view[a].lines \in Seq(Lines)
  BY DEF FilesInv, Read, ReadView
<1>. QED
  BY <1>1, <1>2, <1>3

LEMMA StartReplaceStep == ASSUME FilesInv, NEW a \in Agents, Files!StartReplace(a) PROVE FilesInv'
<1>1. PICK i \in DOMAIN view[a].lines, indent \in 0..2, end \in {"none", "lf"}, expected \in 0..1,
           numbered \in SUBSET {"old", "new"} :
        LET old == Files!Line(indent, view[a].lines[i].words, end)
            new == Files!Line(indent, <<"n">>, end)
            plan == Files!StrippedPlan(file, IF "old" \in numbered THEN Files!Shown(old) ELSE old,
                                             IF "new" \in numbered THEN Files!Shown(new) ELSE new)
        IN /\ Files!Counted(plan, expected)
           /\ call' = [call EXCEPT ![a] =
                         [op |-> "replace", base |-> file, old |-> plan.old, n |-> plan.n,
                          how |-> plan.how, expected |-> expected,
                          text |-> Files!ReplaceAll(file, plan.old, plan.new)]]
  BY DEF Files!StartReplace
<1>. DEFINE bare == Files!Line(indent, view[a].lines[i].words, end)
            fresh == Files!Line(indent, <<"n">>, end)
            old == IF "old" \in numbered THEN Files!Shown(bare) ELSE bare
            new == IF "new" \in numbered THEN Files!Shown(fresh) ELSE fresh
            plan == Files!StrippedPlan(file, old, new)
            text == Files!ReplaceAll(file, plan.old, plan.new)
            c == [op |-> "replace", base |-> file, old |-> plan.old, n |-> plan.n,
                  how |-> plan.how, expected |-> expected, text |-> text]
<1>2. UNCHANGED <<file, view>> /\ Files!Counted(plan, expected) /\ call' = [call EXCEPT ![a] = c]
  BY <1>1 DEF Files!StartReplace
<1>3. old \in Lines /\ new \in Lines /\ old.eol = new.eol
  <2>1. view[a].lines \in Seq(Lines)
    BY ViewLines
  <2>2. view[a].lines[i] \in Lines
    BY <2>1
  <2>3. view[a].lines[i].words \in Seq(Words) /\ <<"n">> \in Seq(Words)
    <3>1. "n" \in Words
      BY DEF Words
    <3>. QED
      BY <2>2, <3>1 DEF Lines
  <2>4. indent \in Nat /\ end \in Ends
    BY DEF Ends
  <2>5. bare \in Lines /\ fresh \in Lines /\ bare.eol = end /\ fresh.eol = end
    BY <2>3, <2>4 DEF Files!Line, Lines
  <2>. HIDE DEF bare, fresh
  <2>. QED
    BY <2>5, StrippedLines
<1>. HIDE DEF bare, fresh, old, new
<1>4. file \in Text /\ plan.n > 0 /\ (expected # 0 => plan.n = expected)
  BY <1>2 DEF FilesInv, Files!Counted
<1>5. PICK q : q = plan
  OBVIOUS
<1>6. /\ q.old \in Lines /\ q.new \in Lines
      /\ q.how # "indented" =>
           /\ q.n = Cardinality(Files!Matches(file, q.old))
           /\ q.old.eol = "none" => q.new.eol = "none"
  <2>1. q = Files!StrippedPlan(file, old, new) /\ q.n > 0
    BY <1>4, <1>5
  <2>. QED
    BY <2>1, <1>3, <1>4, StrippedPlanCounts
<1>7. /\ Files!ReplaceAll(file, q.old, q.new) \in Text
      /\ (q.old.eol = "none" => q.new.eol = "none") =>
           /\ Len(Files!ReplaceAll(file, q.old, q.new)) = Len(file)
           /\ \A j \in 1..Len(file) :
                Files!ReplaceAll(file, q.old, q.new)[j] # file[j] => j \in Files!Matches(file, q.old)
  BY <1>4, <1>6, ReplacedText
<1>8. text = Files!ReplaceAll(file, q.old, q.new)
  BY <1>5
<1>9. c = [op |-> "replace", base |-> file, old |-> q.old, n |-> q.n, how |-> q.how,
           expected |-> expected, text |-> text]
  BY <1>5
<1>. HIDE DEF text, plan
<1>10. /\ c.op = "replace" /\ c.base = file /\ c.n = q.n /\ c.how = q.how
       /\ c.old = q.old /\ c.expected = expected /\ c.text = text
  BY <1>9
<1>. HIDE DEF c
<1>11. ASSUME c.how # "indented" PROVE Files!ReplaceCounts(c)
  <2>1. /\ Len(text) = Len(file) /\ q.n = Cardinality(Files!Matches(file, q.old))
        /\ \A j \in 1..Len(file) : text[j] # file[j] => j \in Files!Matches(file, q.old)
    BY <1>6, <1>7, <1>8, <1>10, <1>11
  <2>2. file \in Seq(Lines) /\ Len(file) \in Nat /\ DOMAIN file = 1..Len(file)
    BY <1>4 DEF Text
  <2>3. \A j \in DOMAIN c.base : c.text[j] # c.base[j] => j \in Files!Matches(c.base, c.old)
    BY <2>1, <2>2, <1>10
  <2>4. c.n = Cardinality(Files!Matches(c.base, c.old))
    BY <2>1, <1>10
  <2>5. Len(c.text) = Len(c.base) /\ (c.expected # 0 => c.n = c.expected)
    BY <2>1, <1>4, <1>5, <1>10
  <2>. QED
    BY <2>3, <2>4, <2>5, LinesCountedTheSame DEF Files!ReplaceCounts
<1>12. Planned(c)
  BY <1>10, <1>11 DEF Planned
<1>13. c.text \in Text
  BY <1>7, <1>8, <1>10
<1>. QED
  BY <1>2, <1>12, <1>13, PlannedChange

-----------------------------------------------------------------------------
(* An edit and a write.                                                    *)

\* Joined lines keep their words; none of them make a line end, when there is one.
LEMMA JoinedText ==
  ASSUME NEW s \in Seq(Lines), NEW newline \in {"lf", "crlf"}, NEW final
  PROVE  /\ s # <<>> => /\ Files!Joined(s, newline, final) \in Text
                        /\ Len(Files!Joined(s, newline, final)) = Len(s)
                        /\ \A i \in 1..Len(s) : Files!Same(Files!Joined(s, newline, final)[i], s[i])
         /\ s = <<>> /\ final =>
              /\ Files!Joined(s, newline, final) = <<Files!Line(0, <<>>, newline)>>
              /\ Files!Joined(s, newline, final) \in Text
<1>1. CASE s # <<>>
  <2>. DEFINE e(i) == IF i < Len(s) \/ final THEN newline ELSE "none"
              t == [i \in 1..Len(s) |-> [s[i] EXCEPT !.eol = e(i)]]
  <2>1. Files!Joined(s, newline, final) = t
    BY <1>1 DEF Files!Joined
  <2>2. ASSUME NEW i \in 1..Len(s) PROVE t[i] \in Lines /\ Files!Same(t[i], s[i])
    <3>1. PICK x : x = e(i)
      OBVIOUS
    <3>2. x \in Ends
      BY <3>1 DEF Ends
    <3>3. t[i] = [s[i] EXCEPT !.eol = x] /\ s[i] \in Lines
      BY <3>1
    <3>. HIDE DEF t
    <3>. QED
      BY <3>2, <3>3 DEF Lines, Files!Same
  <2>3. Len(s) \in Nat \ {0}
    BY <1>1
  <2>4. t \in Seq(Lines) /\ Len(t) = Len(s)
    BY <2>2, <2>3
  <2>. HIDE DEF t
  <2>5. t # <<>>
    BY <2>3, <2>4
  <2>. QED
    BY <1>1, <2>1, <2>2, <2>4, <2>5 DEF Text
<1>2. CASE s = <<>> /\ final
  <2>1. Files!Joined(s, newline, final) = <<Files!Line(0, <<>>, newline)>>
    BY <1>2 DEF Files!Joined
  <2>2. Files!Line(0, <<>>, newline) \in Lines
    <3>1. <<>> \in Seq(Words) /\ newline \in Ends
      BY DEF Ends
    <3>. QED
      BY <3>1 DEF Files!Line, Lines
  <2>3. ASSUME NEW x \in Lines PROVE <<x>> \in Text
    BY DEF Text
  <2>. QED
    BY <1>2, <2>1, <2>2, <2>3
<1>. QED
  BY <1>1, <1>2

\* The lines before and after the range stay, and the new ones come between.
LEMMA SplicedText ==
  ASSUME NEW c \in Seq(Lines), NEW lines \in Seq(Lines), NEW first \in 1..(Len(c) + 1),
         NEW last \in {first - 1, first}, last <= Len(c)
  PROVE  LET s == Files!Splice(c, first, last, lines) IN
         /\ s \in Seq(Lines) /\ Len(s) = (first - 1) + Len(lines) + (Len(c) - last)
         /\ \A i \in 1..(first - 1) : s[i] = c[i]
         /\ \A i \in 1..(Len(c) - last) : s[first - 1 + Len(lines) + i] = c[last + i]
<1>. DEFINE s == Files!Splice(c, first, last, lines)
            head == SubSeq(c, 1, first - 1)
            tail == SubSeq(c, last + 1, Len(c))
<1>1. Len(c) \in Nat /\ Len(lines) \in Nat /\ first \in Nat \ {0} /\ last \in Nat
  OBVIOUS
<1>2. /\ head \in Seq(Lines) /\ Len(head) = first - 1
      /\ \A i \in 1..(first - 1) : head[i] = c[i]
  <2>1. \A i \in 1..(first - 1) : c[i] \in Lines
    BY <1>1, ElementOfSeq
  <2>2. 1 \in Int /\ first - 1 \in Int
    BY <1>1
  <2>3. /\ head \in Seq(Lines) /\ Len(head) = IF 1 <= first - 1 THEN (first - 1) - 1 + 1 ELSE 0
        /\ \A i \in 1..((first - 1) - 1 + 1) : head[i] = c[1 + i - 1]
    BY <2>1, <2>2, SubSeqProperties
  <2>. HIDE DEF head
  <2>. QED
    BY <1>1, <2>3
<1>3. /\ tail \in Seq(Lines) /\ Len(tail) = Len(c) - last
      /\ \A i \in 1..(Len(c) - last) : tail[i] = c[last + i]
  <2>1. \A i \in (last + 1)..Len(c) : c[i] \in Lines
    BY <1>1, ElementOfSeq
  <2>2. last + 1 \in Int /\ Len(c) \in Int
    BY <1>1
  <2>3. /\ tail \in Seq(Lines)
        /\ Len(tail) = IF last + 1 <= Len(c) THEN Len(c) - (last + 1) + 1 ELSE 0
        /\ \A i \in 1..(Len(c) - (last + 1) + 1) : tail[i] = c[(last + 1) + i - 1]
    BY <2>1, <2>2, SubSeqProperties
  <2>. HIDE DEF tail
  <2>. QED
    BY <1>1, <2>3
<1>4. s = (head \o lines) \o tail
  BY DEF Files!Splice
<1>. HIDE DEF head, tail, s
<1>5. PICK h : h = head \o lines
  OBVIOUS
<1>6. /\ h \in Seq(Lines) /\ Len(h) = (first - 1) + Len(lines)
      /\ \A i \in 1..(first - 1) : h[i] = c[i]
  <2>1. /\ h \in Seq(Lines) /\ Len(h) = Len(head) + Len(lines)
        /\ \A i \in 1..(Len(head) + Len(lines)) :
             h[i] = IF i <= Len(head) THEN head[i] ELSE lines[i - Len(head)]
    BY <1>2, <1>5, ConcatProperties
  <2>2. ASSUME NEW i \in 1..(first - 1) PROVE h[i] = c[i]
    <3>1. i \in 1..(Len(head) + Len(lines)) /\ i <= Len(head)
      BY <1>1, <1>2
    <3>. QED
      BY <1>2, <2>1, <3>1
  <2>. QED
    BY <1>2, <2>1, <2>2
<1>7. /\ s \in Seq(Lines) /\ Len(s) = Len(h) + Len(tail)
      /\ \A i \in 1..(Len(h) + Len(tail)) : s[i] = IF i <= Len(h) THEN h[i] ELSE tail[i - Len(h)]
  <2>1. s = h \o tail /\ h \in Seq(Lines) /\ tail \in Seq(Lines)
    BY <1>3, <1>4, <1>5, <1>6
  <2>. QED
    BY <2>1, ConcatProperties
<1>8. ASSUME NEW i \in 1..(first - 1) PROVE s[i] = c[i]
  <2>1. i \in 1..(Len(h) + Len(tail)) /\ i <= Len(h)
    BY <1>1, <1>3, <1>6
  <2>. QED
    BY <1>6, <1>7, <2>1
<1>9. ASSUME NEW i \in 1..(Len(c) - last) PROVE s[first - 1 + Len(lines) + i] = c[last + i]
  <2>1. PICK k : k = first - 1 + Len(lines) + i
    OBVIOUS
  <2>2. k \in 1..(Len(h) + Len(tail)) /\ ~(k <= Len(h)) /\ k - Len(h) = i
    BY <1>1, <1>3, <1>6, <2>1
  <2>3. s[k] = tail[i]
    BY <1>7, <2>2
  <2>. QED
    BY <1>3, <2>1, <2>3
<1>10. Len(s) = (first - 1) + Len(lines) + (Len(c) - last)
  BY <1>3, <1>6, <1>7
<1>. QED
  BY <1>7, <1>8, <1>9, <1>10 DEF s

\* What takes the place of a range is as long as it was given, and the range holds the
\* words that the edit names.
LEMMA AcceptedLines ==
  ASSUME NEW expected \in Seq(Lines), NEW number, NEW first, NEW old \in Seq(Lines),
         NEW lines \in Seq(Lines), NEW new \in Files!Accepted(expected, number, first, old, lines)
  PROVE  /\ new \in Seq(Lines) /\ Len(new) = Len(lines)
         /\ expected # <<>> =>
              /\ number \in {0, first}
              /\ \A i \in DOMAIN expected : Files!Unindented(expected[i], old[i])
<1>1. CASE expected = <<>>
  <2>1. new = lines
    BY <1>1 DEF Files!Accepted
  <2>. QED
    BY <1>1, <2>1
<1>2. CASE expected # <<>>
  <2>1. Files!NumberFits(number, first)
    BY <1>2 DEF Files!Accepted
  <2>2. \/ Files!SameLines(expected, old) /\ new = lines
        \/ Files!Tolerated(expected, old, lines) /\ new = Files!Reindented(old, lines)
    BY <1>2, <2>1 DEF Files!Accepted
  <2>3. CASE Files!SameLines(expected, old) /\ new = lines
    BY <2>1, <2>3 DEF Files!NumberFits, Files!SameLines, Files!Same, Files!Unindented
  <2>4. CASE Files!Tolerated(expected, old, lines) /\ new = Files!Reindented(old, lines)
    <3>1. /\ Len(expected) = Len(old) /\ Len(lines) = Len(old)
          /\ \A i \in DOMAIN old : Files!Unindented(expected[i], old[i])
      BY <2>4 DEF Files!Tolerated
    <3>2. DOMAIN expected = DOMAIN old /\ DOMAIN lines = 1..Len(lines) /\ Len(lines) \in Nat
      BY <3>1
    <3>3. ASSUME NEW i \in 1..Len(lines)
          PROVE  (IF lines[i].indent = 0 THEN [lines[i] EXCEPT !.indent = old[i].indent]
                                         ELSE lines[i]) \in Lines
      <4>1. lines[i] \in Lines /\ old[i] \in Lines
        BY <3>1
      <4>2. PICK k : k = old[i].indent
        OBVIOUS
      <4>3. k \in Nat
        BY <4>1, <4>2 DEF Lines
      <4>4. [lines[i] EXCEPT !.indent = k] \in Lines
        BY <4>1, <4>3 DEF Lines
      <4>. QED
        BY <4>1, <4>2, <4>4
    <3>4. new = [i \in 1..Len(lines) |-> IF lines[i].indent = 0
                   THEN [lines[i] EXCEPT !.indent = old[i].indent] ELSE lines[i]]
      BY <2>4, <3>2 DEF Files!Reindented
    <3>5. new \in Seq(Lines) /\ Len(new) = Len(lines)
      BY <3>2, <3>3, <3>4
    <3>. QED
      BY <2>1, <3>1, <3>2, <3>5 DEF Files!NumberFits
  <2>. QED
    BY <2>2, <2>3, <2>4
<1>. QED
  BY <1>1, <1>2

\* The edited text: a line end alone, or the old lines with those of the range replaced.
LEMMA EditedText ==
  ASSUME NEW c \in Text, NEW lines \in Seq(Lines), NEW first \in 1..(Len(c) + 1),
         NEW last \in {first - 1, first}, last <= Len(c), NEW ends \in BOOLEAN,
         lines # <<>> \/ ends
  PROVE  LET t == Files!Edited(c, first, last, lines, ends) IN
         /\ t \in Text
         /\ t # <<Files!Line(0, <<>>, Files!Newline(c))>> =>
              /\ Files!SameLines(SubSeq(t, 1, first - 1), SubSeq(c, 1, first - 1))
              /\ Files!SameLines(SubSeq(t, first + Len(lines), Len(t)), SubSeq(c, last + 1, Len(c)))
<1>. DEFINE s == Files!Splice(c, first, last, lines)
            final == (c # <<>> /\ c[Len(c)].eol # "none") \/ ends
            t == Files!Edited(c, first, last, lines, ends)
<1>1. /\ c \in Seq(Lines) /\ Len(c) \in Nat /\ Len(lines) \in Nat
      /\ first \in Nat \ {0} /\ last \in Nat
  BY DEF Text
<1>2. /\ s \in Seq(Lines) /\ Len(s) = (first - 1) + Len(lines) + (Len(c) - last)
      /\ \A i \in 1..(first - 1) : s[i] = c[i]
      /\ \A i \in 1..(Len(c) - last) : s[first - 1 + Len(lines) + i] = c[last + i]
  BY <1>1, SplicedText
<1>3. t = Files!Joined(s, Files!Newline(c), final)
  BY DEF Files!Edited
<1>4. /\ s # <<>> => t \in Text /\ Len(t) = Len(s) /\ \A i \in 1..Len(s) : Files!Same(t[i], s[i])
      /\ s = <<>> /\ final => t = <<Files!Line(0, <<>>, Files!Newline(c))>> /\ t \in Text
  <2>. HIDE DEF s, t, final
  <2>. QED
    BY <1>2, <1>3, JoinedText, NewlineEnds
<1>5. s # <<>> \/ final
  <2>1. CASE ends
    BY <2>1
  <2>2. CASE ~ends
    <3>1. Len(lines) # 0
      BY <2>2, EmptySeq
    <3>2. Len(s) # 0
      <4>. HIDE DEF s
      <4>. QED
        BY <1>1, <1>2, <3>1
    <3>. QED
      BY <3>2
  <2>. QED
    BY <2>1, <2>2
<1>. HIDE DEF s, t, final
<1>6. ASSUME t # <<Files!Line(0, <<>>, Files!Newline(c))>>
      PROVE  /\ Files!SameLines(SubSeq(t, 1, first - 1), SubSeq(c, 1, first - 1))
             /\ Files!SameLines(SubSeq(t, first + Len(lines), Len(t)), SubSeq(c, last + 1, Len(c)))
  <2>1. t \in Seq(Lines) /\ Len(t) = Len(s) /\ \A i \in 1..Len(s) : Files!Same(t[i], s[i])
    BY <1>4, <1>5, <1>6 DEF Text
  <2>2. PICK n, m : n = first - 1 /\ m = first + Len(lines)
    OBVIOUS
  <2>3. /\ n \in Nat /\ m \in Nat /\ Len(s) = (m - 1) + (Len(c) - last) /\ n <= m - 1
        /\ n <= last /\ last <= Len(c) /\ Len(s) \in Nat
    BY <1>1, <1>2, <2>2
  <2>4. /\ \A i \in 1..n : t[i] \in Lines /\ c[i] \in Lines /\ Files!Same(t[i], c[i])
    <3>1. ASSUME NEW i \in 1..n PROVE i \in 1..Len(s) /\ i \in 1..Len(c) /\ i \in 1..(first - 1)
      BY <1>1, <2>2, <2>3
    <3>2. ASSUME NEW i \in 1..n PROVE t[i] \in Lines /\ c[i] \in Lines /\ Files!Same(t[i], c[i])
      BY <1>1, <1>2, <2>1, <3>1, ElementOfSeq
    <3>. QED
      BY <3>2
  <2>5. Files!SameLines(SubSeq(t, 1, n), SubSeq(c, 1, n))
    <3>1. 1 \in Int /\ n \in Int /\ (IF 1 <= n THEN n - 1 + 1 ELSE 0) = n /\ n - 1 + 1 = n
      BY <2>3
    <3>2. /\ SubSeq(t, 1, n) \in Seq(Lines) /\ Len(SubSeq(t, 1, n)) = n
          /\ \A i \in 1..n : SubSeq(t, 1, n)[i] = t[1 + i - 1]
      BY <2>4, <3>1, SubSeqProperties
    <3>3. /\ SubSeq(c, 1, n) \in Seq(Lines) /\ Len(SubSeq(c, 1, n)) = n
          /\ \A i \in 1..n : SubSeq(c, 1, n)[i] = c[1 + i - 1]
      BY <2>4, <3>1, SubSeqProperties
    <3>4. DOMAIN SubSeq(t, 1, n) = 1..n /\ \A i \in 1..n : 1 + i - 1 = i
      BY <2>3, <3>2
    <3>. QED
      BY <2>4, <3>2, <3>3, <3>4 DEF Files!SameLines
  <2>6. Files!SameLines(SubSeq(t, m, Len(t)), SubSeq(c, last + 1, Len(c)))
    <3>1. PICK k : k = Len(c) - last
      OBVIOUS
    <3>2. k \in Nat /\ Len(t) = (m - 1) + k /\ Len(c) = last + k /\ m \in Nat \ {0}
      BY <1>1, <2>1, <2>2, <2>3, <3>1
    <3>3. ASSUME NEW i \in 1..k
          PROVE  /\ m + i - 1 \in 1..Len(s) /\ last + 1 + i - 1 \in 1..Len(c)
                 /\ s[m + i - 1] = c[last + 1 + i - 1]
      <4>1. first - 1 + Len(lines) + i = m + i - 1 /\ last + i = last + 1 + i - 1
        BY <1>1, <2>2, <3>2
      <4>2. s[first - 1 + Len(lines) + i] = c[last + i]
        BY <1>2, <3>1
      <4>3. m + i - 1 \in 1..Len(s) /\ last + 1 + i - 1 \in 1..Len(c)
        BY <1>1, <2>1, <3>2
      <4>. QED
        BY <4>1, <4>2, <4>3
    <3>4. ASSUME NEW i \in 1..k PROVE Files!Same(t[m + i - 1], c[last + 1 + i - 1])
      BY <2>1, <3>3
    <3>5. /\ Len(SubSeq(t, m, Len(t))) = k /\ DOMAIN SubSeq(t, m, Len(t)) = 1..k
          /\ \A i \in 1..k : SubSeq(t, m, Len(t))[i] = t[m + i - 1]
      <4>1. \A j \in m..Len(t) : t[j] \in Lines
        BY <2>1, <3>2, ElementOfSeq
      <4>2. /\ m \in Int /\ Len(t) \in Int /\ Len(t) - m + 1 = k
            /\ (IF m <= Len(t) THEN Len(t) - m + 1 ELSE 0) = k
        BY <3>2
      <4>3. /\ SubSeq(t, m, Len(t)) \in Seq(Lines) /\ Len(SubSeq(t, m, Len(t))) = k
            /\ \A i \in 1..k : SubSeq(t, m, Len(t))[i] = t[m + i - 1]
        BY <4>1, <4>2, SubSeqProperties
      <4>. QED
        BY <4>3
    <3>6. /\ Len(SubSeq(c, last + 1, Len(c))) = k
          /\ \A i \in 1..k : SubSeq(c, last + 1, Len(c))[i] = c[last + 1 + i - 1]
      <4>1. \A j \in (last + 1)..Len(c) : c[j] \in Lines
        BY <1>1, ElementOfSeq
      <4>2. /\ last + 1 \in Int /\ Len(c) \in Int /\ Len(c) - (last + 1) + 1 = k
            /\ (IF last + 1 <= Len(c) THEN Len(c) - (last + 1) + 1 ELSE 0) = k
        BY <1>1, <3>2
      <4>. QED
        BY <4>1, <4>2, SubSeqProperties
    <3>. QED
      BY <3>4, <3>5, <3>6 DEF Files!SameLines
  <2>. QED
    BY <2>2, <2>5, <2>6
<1>7. t \in Text
  BY <1>4, <1>5
<1>. QED
  BY <1>6, <1>7 DEF t

LEMMA StartEditStep == ASSUME FilesInv, NEW a \in Agents, Files!StartEdit(a) PROVE FilesInv'
<1>1. PICK first \in 1..(Len(file) + 1), size \in 0..1, number \in 0..MaxLines,
           given \in {"none", "read", "unindented"}, k \in 0..1, ends \in BOOLEAN :
        LET last == first + size - 1
            read == SubSeq(view[a].lines, first, last)
            seen == IF given = "none" THEN <<>>
                    ELSE [i \in DOMAIN read |->
                            IF given = "read" THEN read[i] ELSE [read[i] EXCEPT !.indent = 0]]
            old == SubSeq(file, first, last)
            lines == [i \in 1..k |-> Files!Line(0, <<"n">>, "lf")]
        IN /\ last <= Len(file)
           /\ k = 0 => ends
           /\ given # "none" => size = 1 /\ first \in DOMAIN view[a].lines
           /\ \E new \in Files!Accepted(seen, number, first, old, lines) :
                 call' = [call EXCEPT ![a] =
                            [op |-> "edit", base |-> file, first |-> first, last |-> last,
                             seen |-> seen, number |-> number, size |-> Len(new),
                             text |-> Files!Edited(file, first, last, new, ends)]]
  BY DEF Files!StartEdit
<1>. DEFINE last == first + size - 1
            read == SubSeq(view[a].lines, first, last)
            seen == IF given = "none" THEN <<>>
                    ELSE [i \in DOMAIN read |->
                            IF given = "read" THEN read[i] ELSE [read[i] EXCEPT !.indent = 0]]
            old == SubSeq(file, first, last)
            lines == [i \in 1..k |-> Files!Line(0, <<"n">>, "lf")]
<1>2. PICK new \in Files!Accepted(seen, number, first, old, lines) :
        call' = [call EXCEPT ![a] =
                   [op |-> "edit", base |-> file, first |-> first, last |-> last,
                    seen |-> seen, number |-> number, size |-> Len(new),
                    text |-> Files!Edited(file, first, last, new, ends)]]
  BY <1>1
<1>3. /\ last <= Len(file) /\ (k = 0 => ends) /\ UNCHANGED <<file, view>>
      /\ given # "none" => size = 1 /\ first \in DOMAIN view[a].lines
  BY <1>1 DEF Files!StartEdit
<1>4. /\ file \in Text /\ file \in Seq(Lines) /\ Len(file) \in Nat /\ DOMAIN file = 1..Len(file)
      /\ view[a].lines \in Seq(Lines) /\ <<>> \in Seq(Lines)
  BY ViewLines, EmptySeq DEF FilesInv, Text
<1>5. first \in Nat \ {0} /\ last \in {first - 1, first} /\ first \in Int /\ last \in Int
  BY <1>4
<1>6. /\ old \in Seq(Lines) /\ \A i \in 1..(last - first + 1) : old[i] = file[first + i - 1]
      /\ Len(old) = (IF first <= last THEN last - first + 1 ELSE 0)
  <2>1. \A i \in first..last : file[i] \in Lines
    BY <1>3, <1>4, <1>5, ElementOfSeq
  <2>. HIDE DEF last
  <2>. QED
    BY <1>5, <2>1, SubSeqProperties
<1>7. lines \in Seq(Lines) /\ Len(lines) = k
  <2>1. Files!Line(0, <<"n">>, "lf") \in Lines
    BY DEF Files!Line, Lines, Words, Ends
  <2>. QED
    BY <2>1
<1>8. seen \in Seq(Lines) /\ (seen # <<>> => last = first /\ DOMAIN seen = 1..1)
  <2>1. CASE given = "none"
    BY <1>4, <2>1
  <2>2. CASE given # "none"
    <3>1. last = first /\ first \in 1..Len(view[a].lines)
      BY <1>3, <1>4, <1>5, <2>2
    <3>2. view[a].lines[first] \in Lines
      BY <1>4, <3>1
    <3>3. \A i \in first..last : view[a].lines[i] \in Lines
      BY <1>5, <3>1, <3>2
    <3>4. /\ read \in Seq(Lines)
          /\ Len(read) = (IF first <= last THEN last - first + 1 ELSE 0)
      <4>. HIDE DEF last
      <4>. QED
        BY <1>5, <3>3, SubSeqProperties
    <3>5. Len(read) = 1 /\ DOMAIN read = 1..1 /\ read[1] \in Lines
      <4>. HIDE DEF last, read
      <4>1. Len(read) = 1
        BY <1>5, <3>1, <3>4
      <4>2. DOMAIN read = 1..1
        BY <3>4, <4>1, LenProperties
      <4>3. 1 \in 1..Len(read)
        BY <4>1
      <4>4. read[1] \in Lines
        BY <3>4, <4>3, ElementOfSeq
      <4>. QED
        BY <4>1, <4>2, <4>4
    <3>. HIDE DEF read
    <3>6. ASSUME NEW l \in Lines PROVE [l EXCEPT !.indent = 0] \in Lines
      BY DEF Lines
    <3>7. seen = [i \in 1..1 |-> IF given = "read" THEN read[i] ELSE [read[i] EXCEPT !.indent = 0]]
      BY <2>2, <3>5
    <3>8. PICK x \in Lines : x = (IF given = "read" THEN read[1] ELSE [read[1] EXCEPT !.indent = 0])
      BY <3>5, <3>6
    <3>9. seen = [i \in 1..1 |-> x]
      BY <3>7, <3>8
    <3>. HIDE DEF seen
    <3>. QED
      BY <3>1, <3>9
  <2>. QED
    BY <2>1, <2>2
<1>. HIDE DEF seen, read, old, lines
<1>9. /\ new \in Seq(Lines) /\ Len(new) = k
      /\ seen # <<>> =>
           /\ number \in {0, first}
           /\ \A i \in DOMAIN seen : Files!Unindented(seen[i], old[i])
  BY <1>2, <1>6, <1>7, <1>8, AcceptedLines
<1>10. new # <<>> \/ ends
  BY <1>3, <1>9
<1>. DEFINE t == Files!Edited(file, first, last, new, ends)
<1>11. /\ t \in Text
       /\ t # <<Files!Line(0, <<>>, Files!Newline(file))>> =>
            /\ Files!SameLines(SubSeq(t, 1, first - 1), SubSeq(file, 1, first - 1))
            /\ Files!SameLines(SubSeq(t, first + Len(new), Len(t)), SubSeq(file, last + 1, Len(file)))
  <2>. HIDE DEF last
  <2>. QED
    BY <1>3, <1>4, <1>5, <1>9, <1>10, EditedText
<1>. DEFINE c == [op |-> "edit", base |-> file, first |-> first, last |-> last,
                  seen |-> seen, number |-> number, size |-> Len(new), text |-> t]
<1>12. call' = [call EXCEPT ![a] = c]
  BY <1>2
<1>13. PICK size2, last2 : size2 = Len(new) /\ last2 = last
  OBVIOUS
<1>. HIDE DEF t, last
<1>14. c = [op |-> "edit", base |-> file, first |-> first, last |-> last2,
            seen |-> seen, number |-> number, size |-> size2, text |-> t]
  BY <1>13
<1>15. /\ c.op = "edit" /\ c.base = file /\ c.first = first /\ c.last = last /\ c.seen = seen
       /\ c.number = number /\ c.size = Len(new) /\ c.text = t
  <2>. HIDE DEF c
  <2>. QED
    BY <1>13, <1>14
<1>. HIDE DEF c
<1>16. ASSUME seen # <<>>
       PROVE  number \in {0, first} /\ \A i \in DOMAIN seen : Files!Unindented(seen[i], file[first + i - 1])
  <2>1. \A i \in DOMAIN seen : i \in 1..(last - first + 1)
    BY <1>5, <1>8, <1>16
  <2>. QED
    BY <1>6, <1>9, <1>16, <2>1
<1>17. EditKeeps(c)
  BY <1>11, <1>15, <1>16 DEF EditKeeps
<1>18. Planned(c) /\ c.text \in Text
  BY <1>11, <1>15, <1>17 DEF Planned
<1>. QED
  BY <1>3, <1>12, <1>18, PlannedChange

LEMMA StartWriteStep == ASSUME FilesInv, NEW a \in Agents, Files!StartWrite(a) PROVE FilesInv'
<1>. DEFINE joined == Files!Joined(view[a].lines, "lf", TRUE)
            text == Append(joined, Files!Line(0, <<"f">>, "lf"))
            c == [op |-> "write", base |-> file, text |-> text]
<1>1. view[a].lines # <<>> /\ call' = [call EXCEPT ![a] = c] /\ UNCHANGED <<file, view>>
  BY DEF Files!StartWrite
<1>2. joined \in Seq(Lines)
  BY <1>1, ViewLines, JoinedText DEF Text
<1>3. Files!Line(0, <<"f">>, "lf") \in Lines
  BY DEF Files!Line, Lines, Words, Ends
<1>. HIDE DEF joined
<1>4. text \in Text
  <2>1. text \in Seq(Lines) /\ Len(text) = Len(joined) + 1 /\ Len(joined) \in Nat
    BY <1>2, <1>3
  <2>. HIDE DEF text
  <2>2. text # <<>>
    BY <2>1
  <2>. QED
    BY <2>1, <2>2 DEF Text
<1>. HIDE DEF text
<1>5. c.op = "write" /\ c.text = text
  OBVIOUS
<1>. HIDE DEF c
<1>6. Planned(c)
  BY <1>5 DEF Planned
<1>. QED
  BY <1>1, <1>4, <1>5, <1>6, PlannedChange

LEMMA WriteStep == ASSUME FilesInv, NEW a \in Agents, Files!Write(a) PROVE FilesInv'
<1>1. /\ call[a] # Files!NoCall /\ file' = call[a].text /\ call' = [call EXCEPT ![a] = Files!NoCall]
      /\ view' = view
  BY DEF Files!Write
<1>2. file' \in Text
  BY <1>1 DEF FilesInv
<1>3. Planned(Files!NoCall)
  BY DEF Planned, Files!NoCall
<1>4. ASSUME NEW b \in Agents
      PROVE  (call'[b] # Files!NoCall => call'[b].text \in Text) /\ Planned(call'[b])
  <2>1. call'[b] = IF b = a THEN Files!NoCall ELSE call[b]
    BY <1>1 DEF FilesInv
  <2>. QED
    BY <2>1, <1>3 DEF FilesInv
<1>5. DOMAIN call' = Agents
  BY <1>1 DEF FilesInv
<1>. QED
  BY <1>1, <1>2, <1>4, <1>5 DEF FilesInv

-----------------------------------------------------------------------------
(* Together.                                                               *)

LEMMA FilesBegin == ASSUME Files!Init PROVE FilesInv
<1>1. file \in Text
  <2>1. \A i \in Nat, w \in Seq(Words), e \in Ends : Files!Line(i, w, e) \in Lines
    BY DEF Files!Line, Lines
  <2>2. /\ <<"f">> \in Seq(Words) /\ <<"f", "g">> \in Seq(Words) /\ <<"wide">> \in Seq(Words)
        /\ "lf" \in Ends /\ "none" \in Ends /\ "crlf" \in Ends
    BY DEF Words, Ends
  <2>3. ASSUME NEW l \in Lines, NEW m \in Lines PROVE <<l, m>> \in Text
    BY DEF Text
  <2>. QED
    BY <2>1, <2>2, <2>3 DEF Files!Init, Files!Texts
<1>2. Planned(Files!NoCall)
  BY DEF Planned, Files!NoCall
<1>3. view = [a \in Agents |-> Files!NoView] /\ call = [a \in Agents |-> Files!NoCall]
  BY DEF Files!Init
<1>. QED
  BY <1>1, <1>2, <1>3 DEF FilesInv

LEMMA FilesKeepInv == ASSUME PageHasLines, FilesInv, [Files!Next]_(Files!vars) PROVE FilesInv'
<1>1. CASE UNCHANGED Files!vars
  BY <1>1 DEF Files!vars, FilesInv
<1>2. CASE Files!Next
  BY <1>2, FsReadStep, StartReplaceStep, StartEditStep, StartWriteStep, WriteStep DEF Files!Next
<1>. QED
  BY <1>1, <1>2

LEMMA PagesFollow == ASSUME FilesInv PROVE Files!PagesCoverTheFile
<1>1. file \in Seq(Lines) /\ file # <<>>
  BY DEF FilesInv, Text
<1>2. ASSUME NEW a \in Agents, view[a] # Files!NoView
      PROVE  /\ view[a].pages <= Len(view[a].lines) + (IF view[a].more THEN 0 ELSE 1)
             /\ view[a].of = file =>
                  /\ view[a].lines = SubSeq(file, 1, view[a].next - 1)
                  /\ ~view[a].more => view[a].lines = file
  <2>1. Read(view[a])
    BY <1>2 DEF FilesInv
  <2>2. ASSUME view[a].of = file, ~view[a].more PROVE view[a].lines = file
    <3>1. view[a].lines = SubSeq(file, 1, view[a].next - 1) /\ view[a].next = Len(file) + 1
      BY <1>1, <2>1, <2>2 DEF Read
    <3>2. view[a].next - 1 = Len(file)
      BY <1>1, <3>1
    <3>. QED
      BY <1>1, <3>1, <3>2, SubSeqFull
  <2>. QED
    BY <1>1, <2>1, <2>2 DEF Read
<1>3. Files!NoView.pages <= Len(Files!NoView.lines) + (IF Files!NoView.more THEN 0 ELSE 1)
  BY DEF Files!NoView
<1>. QED
  BY <1>2, <1>3 DEF Files!PagesCoverTheFile

LEMMA ChangesFollow == ASSUME FilesInv PROVE Files!ChangesAreAsPlanned
<1>1. Files!EditTakesWhatItNames
  BY DEF FilesInv, Planned, EditKeeps, Files!EditTakesWhatItNames
<1>2. Files!ExactReplaceCounts
  BY DEF FilesInv, Planned, Files!ExactReplaceCounts
<1>. QED
  BY <1>1, <1>2 DEF Files!ChangesAreAsPlanned

-----------------------------------------------------------------------------
(* Finding and moving files: what is above what.                           *)

LEMMA APathIsAbove ==
  ASSUME NEW p \in Paths, NEW q
  PROVE  /\ q \in Search!Above(p) <=> q \in Paths /\ q # p /\ Search!IsPrefix(q, p)
         /\ q \in Search!Above(p) => Len(q) < Len(p)
<1>1. p \in Seq(STRING) /\ Len(p) \in Nat /\ Search!Above(p) \subseteq Paths
  BY PathsAssumption
<1>2. ASSUME q \in Search!Above(p) PROVE q \in Paths /\ Len(q) < Len(p) /\ Search!IsPrefix(q, p)
  <2>1. PICK n \in 0..(Len(p) - 1) : q = SubSeq(p, 1, n)
    BY <1>2 DEF Search!Above
  <2>2. q \in Seq(STRING) /\ Len(q) = n /\ n < Len(p)
    BY <1>1, <2>1
  <2>3. SubSeq(q, 1, Len(q)) = q
    BY <2>2, SubSeqFull
  <2>. QED
    BY <1>1, <1>2, <2>1, <2>2, <2>3 DEF Search!IsPrefix
<1>3. ASSUME q \in Paths, q # p, Search!IsPrefix(q, p) PROVE q \in Search!Above(p)
  <2>1. q \in Seq(STRING) /\ Len(q) \in Nat
    BY <1>3, PathsAssumption
  <2>2. q = SubSeq(p, 1, Len(q)) /\ Len(q) <= Len(p)
    BY <1>3, <2>1, SubSeqFull DEF Search!IsPrefix
  <2>3. Len(q) # Len(p)
    BY <1>1, <1>3, <2>2, SubSeqFull
  <2>4. Len(q) \in 0..(Len(p) - 1)
    BY <1>1, <2>1, <2>2, <2>3
  <2>. QED
    BY <2>2, <2>4 DEF Search!Above
<1>4. q \in Search!Above(p) => q # p
  BY <1>1, <1>2
<1>. QED
  BY <1>2, <1>3, <1>4

\* A path is a prefix of another when the other begins with its names.
LEMMA PrefixByNames ==
  ASSUME NEW p \in Seq(STRING), NEW q \in Seq(STRING)
  PROVE  Search!IsPrefix(p, q) <=> Len(p) <= Len(q) /\ \A i \in 1..Len(p) : p[i] = q[i]
<1>1. SubSeq(p, 1, Len(p)) = p
  BY SubSeqFull
<1>2. ASSUME Len(p) <= Len(q) PROVE /\ SubSeq(q, 1, Len(p)) \in Seq(STRING)
                                    /\ Len(SubSeq(q, 1, Len(p))) = Len(p)
                                    /\ \A i \in 1..Len(p) : SubSeq(q, 1, Len(p))[i] = q[i]
  BY <1>2
<1>3. ASSUME Len(p) <= Len(q), \A i \in 1..Len(p) : p[i] = q[i] PROVE p = SubSeq(q, 1, Len(p))
  BY <1>2, <1>3, SeqEqual
<1>. QED
  BY <1>1, <1>2, <1>3 DEF Search!IsPrefix

LEMMA PrefixesAreOrdered ==
  ASSUME NEW p \in Paths, NEW q \in Paths, NEW r \in Paths
  PROVE  /\ Search!IsPrefix(p, p)
         /\ Search!IsPrefix(p, q) => Len(p) <= Len(q)
         /\ Search!IsPrefix(p, q) /\ Len(p) = Len(q) => p = q
         /\ Search!IsPrefix(p, q) /\ Search!IsPrefix(q, r) => Search!IsPrefix(p, r)
         /\ Search!IsPrefix(p, r) /\ Search!IsPrefix(q, r) /\ Len(p) <= Len(q) => Search!IsPrefix(p, q)
<1>1. p \in Seq(STRING) /\ q \in Seq(STRING) /\ r \in Seq(STRING)
  BY PathsAssumption
<1>2. Len(p) \in Nat /\ Len(q) \in Nat /\ Len(r) \in Nat
  BY <1>1
<1>3. Search!IsPrefix(p, p)
  BY <1>1, <1>2, PrefixByNames
<1>4. Search!IsPrefix(p, q) => Len(p) <= Len(q)
  BY <1>1, PrefixByNames
<1>5. ASSUME Search!IsPrefix(p, q), Len(p) = Len(q) PROVE p = q
  BY <1>1, <1>5, PrefixByNames, SeqEqual
<1>6. ASSUME Search!IsPrefix(p, q), Search!IsPrefix(q, r) PROVE Search!IsPrefix(p, r)
  BY <1>1, <1>2, <1>6, PrefixByNames
<1>7. ASSUME Search!IsPrefix(p, r), Search!IsPrefix(q, r), Len(p) <= Len(q) PROVE Search!IsPrefix(p, q)
  BY <1>1, <1>2, <1>7, PrefixByNames
<1>. QED
  BY <1>3, <1>4, <1>5, <1>6, <1>7

LEMMA RootIsAboveAll ==
  ASSUME NEW p \in Paths PROVE <<>> \in Paths /\ Search!IsPrefix(<<>>, p) /\ Search!Above(<<>>) = {}
<1>1. p \in Seq(STRING) /\ <<>> \in Seq(STRING) /\ <<>> \in Paths /\ Len(<<>>) = 0 /\ Len(p) \in Nat
  BY PathsAssumption
<1>2. Search!Above(<<>>) = {}
  BY <1>1 DEF Search!Above
<1>3. Search!IsPrefix(<<>>, p) <=> Len(<<>>) <= Len(p) /\ \A i \in 1..Len(<<>>) : <<>>[i] = p[i]
  BY <1>1, PrefixByNames
<1>4. 1..Len(<<>>) = {}
  BY <1>1
<1>. QED
  BY <1>1, <1>2, <1>3, <1>4

\* The entries of a directory are one name longer.
LEMMA EntryOfDirectory ==
  ASSUME NEW p \in Paths, NEW c \in Search!Children(p)
  PROVE  /\ c \in Paths /\ Len(c) = Len(p) + 1 /\ Search!IsPrefix(p, c)
         /\ Search!Above(c) = Search!Above(p) \cup {p}
<1>1. c \in Paths /\ c # <<>> /\ p = SubSeq(c, 1, Len(c) - 1)
  BY DEF Search!Children, Search!Parent, Search!Root
<1>2. c \in Seq(STRING) /\ Len(c) \in Nat
  BY <1>1, PathsAssumption
<1>3. Len(c) # 0
  BY <1>1, <1>2, EmptySeq
<1>4. Len(p) = Len(c) - 1
  <2>1. PICK n \in Nat : n = Len(c) - 1
    BY <1>2, <1>3
  <2>2. Len(SubSeq(c, 1, n)) = n
    BY <1>2, <2>1
  <2>. QED
    BY <1>1, <2>1, <2>2
<1>5. p \in Search!Above(c)
  <2>1. PICK n \in 0..(Len(c) - 1) : n = Len(c) - 1
    BY <1>2, <1>3
  <2>2. p = SubSeq(c, 1, n)
    BY <1>1, <2>1
  <2>. QED
    BY <2>2 DEF Search!Above
<1>6. Search!IsPrefix(p, c)
  BY <1>1, <1>5, APathIsAbove
<1>7. ASSUME NEW q \in Search!Above(c) PROVE q \in Search!Above(p) \cup {p}
  <2>1. q \in Paths /\ Search!IsPrefix(q, c) /\ Len(q) < Len(c) /\ Len(q) \in Nat
    BY <1>1, <1>7, APathIsAbove, PathsAssumption
  <2>2. Search!IsPrefix(q, p)
    <3>1. Len(q) <= Len(p)
      BY <1>2, <1>3, <1>4, <2>1
    <3>. QED
      BY <1>1, <1>6, <2>1, <3>1, PrefixesAreOrdered
  <2>. QED
    BY <2>1, <2>2, APathIsAbove
<1>8. ASSUME NEW q \in Search!Above(p) PROVE q \in Search!Above(c)
  <2>1. q \in Paths /\ Search!IsPrefix(q, p) /\ Len(q) < Len(p)
    BY <1>8, APathIsAbove
  <2>2. Search!IsPrefix(q, c) /\ Len(q) \in Nat
    BY <1>1, <1>6, <2>1, PrefixesAreOrdered, PathsAssumption
  <2>. QED
    <3>1. q # c
      BY <1>2, <1>4, <2>1, <2>2, PathsAssumption
    <3>. QED
      BY <1>1, <2>1, <2>2, <3>1, APathIsAbove
<1>9. Search!Above(c) = Search!Above(p) \cup {p}
  BY <1>5, <1>7, <1>8
<1>. QED
  BY <1>1, <1>2, <1>4, <1>6, <1>9

\* Whatever is below a directory is at or below an entry of it.
LEMMA EntryTowards ==
  ASSUME NEW p \in Paths, NEW q \in Paths, Search!IsPrefix(p, q), p # q
  PROVE  \E c \in Search!Children(p) : Search!IsPrefix(c, q)
<1>1. p \in Seq(STRING) /\ q \in Seq(STRING) /\ Len(p) \in Nat /\ Len(q) \in Nat
  BY PathsAssumption
<1>2. Len(p) < Len(q) /\ \A i \in 1..Len(p) : p[i] = q[i]
  BY <1>1, PrefixesAreOrdered, PrefixByNames
<1>. DEFINE c == SubSeq(q, 1, Len(p) + 1)
<1>3. c \in Seq(STRING) /\ Len(c) = Len(p) + 1 /\ \A i \in 1..(Len(p) + 1) : c[i] = q[i]
  BY <1>1, <1>2
<1>4. c \in Paths
  <2>1. CASE Len(p) + 1 = Len(q)
    BY <1>1, <2>1, SubSeqFull
  <2>2. CASE Len(p) + 1 < Len(q)
    <3>1. Len(p) + 1 \in 0..(Len(q) - 1)
      BY <1>1, <2>2
    <3>2. c \in Search!Above(q)
      BY <3>1 DEF Search!Above
    <3>. QED
      BY <3>2, PathsAssumption
  <2>. QED
    BY <1>1, <1>2, <2>1, <2>2
<1>. HIDE DEF c
<1>5. Search!IsPrefix(c, q)
  BY <1>1, <1>2, <1>3, PrefixByNames
<1>6. SubSeq(c, 1, Len(c) - 1) = p
  <2>1. SubSeq(c, 1, Len(p)) \in Seq(STRING) /\ Len(SubSeq(c, 1, Len(p))) = Len(p)
        /\ \A i \in 1..Len(p) : SubSeq(c, 1, Len(p))[i] = c[i]
    BY <1>1, <1>3
  <2>2. SubSeq(c, 1, Len(p)) = p
    BY <1>1, <1>2, <1>3, <2>1, SeqEqual
  <2>. QED
    BY <1>1, <1>3, <2>2
<1>7. c # <<>>
  BY <1>1, <1>3
<1>8. c \in Search!Children(p)
  BY <1>4, <1>6, <1>7 DEF Search!Children, Search!Parent, Search!Root
<1>. QED
  BY <1>5, <1>8

\* The entries of a directory in some order are all of them, each once.
LEMMA EntriesInOrder ==
  ASSUME NEW S, IsFiniteSet(S), NEW f, f \in Search!SetToSeqs(S) \/ f = Search!SetToSeq(S)
  PROVE  /\ f \in Seq(S)
         /\ \A x \in S : \E i \in DOMAIN f : f[i] = x
         /\ \A i, j \in DOMAIN f : f[i] = f[j] => i = j
<1>1. \A T : Search!Cardinality(T) = Cardinality(T)
  BY DEF Search!Cardinality, Cardinality, Search!IsFiniteSet, IsFiniteSet
<1>2. PICK n \in Nat : n = Cardinality(S)
  BY FS_CardinalityType
<1>3. f \in [1..n -> S] /\ \A i, j \in 1..n : f[i] = f[j] => i = j
  <2>1. CASE f \in Search!SetToSeqs(S)
    BY <1>1, <1>2, <2>1 DEF Search!SetToSeqs
  <2>2. CASE f = Search!SetToSeq(S)
    <3>1. \E g : g \in [1..n -> S] /\ \A i, j \in 1..n : g[i] = g[j] => i = j
      <4>1. PICK g : g \in Bijection(1..n, S)
        BY <1>2, FS_CardinalityType DEF ExistsBijection
      <4>. QED
        BY <4>1 DEF Bijection, Injection, IsInjective
    <3>2. f = CHOOSE g \in [1..n -> S] : Search!IsInjective(g)
      BY <1>1, <1>2, <2>2 DEF Search!SetToSeq
    <3>3. \E g \in [1..n -> S] : Search!IsInjective(g)
      <4>1. PICK g : g \in [1..n -> S] /\ \A i, j \in 1..n : g[i] = g[j] => i = j
        BY <3>1
      <4>2. Search!IsInjective(g)
        BY <4>1 DEF Search!IsInjective
      <4>. QED
        BY <4>1, <4>2
    <3>4. f \in [1..n -> S] /\ Search!IsInjective(f)
      BY <3>2, <3>3, Zenon
    <3>. QED
      BY <3>4 DEF Search!IsInjective
  <2>. QED
    BY <2>1, <2>2
<1>4. f \in Injection(1..n, S)
  BY <1>3 DEF Injection, IsInjective
<1>5. f \in Surjection(1..n, S)
  BY <1>2, <1>4, FS_Injection, FS_Interval
<1>. QED
  BY <1>3, <1>5 DEF Surjection

-----------------------------------------------------------------------------
(* The workspace stays a tree.                                             *)

Kinds == {"none", "dir", "text", "odd", "large", "locked", "link"}

\* What is above a path that exists is a directory.
Whole(t) ==
  /\ t \in [Paths -> Kinds] /\ t[<<>>] = "dir"
  /\ \A p \in Paths : t[p] # "none" => \A q \in Search!Above(p) : t[q] = "dir"

LEMMA ParentsAreMade ==
  ASSUME Whole(tree), NEW p \in Paths, Search!Creatable(p), NEW t, t = Search!WithParents(p)
  PROVE  /\ Whole(t)
         /\ \A q \in Search!Above(p) : t[q] = "dir"
         /\ \A q \in Paths \ Search!Above(p) : t[q] = tree[q]
<1>1. tree \in [Paths -> Kinds] /\ Search!Above(p) \subseteq Paths
  BY PathsAssumption DEF Whole
<1>2. ASSUME NEW q \in Paths
      PROVE  t[q] = IF q \in Search!Above(p) /\ tree[q] = "none" THEN "dir" ELSE tree[q]
  BY <1>2, <1>1 DEF Search!WithParents, Search!Missing, Search!Exists
<1>3. DOMAIN t = Paths
  BY DEF Search!WithParents
<1>4. \A q \in Search!Above(p) : t[q] = "dir"
  BY <1>1, <1>2 DEF Search!Creatable
<1>5. \A q \in Paths \ Search!Above(p) : t[q] = tree[q]
  BY <1>2
<1>6. t \in [Paths -> Kinds]
  <2>1. \A q \in Paths : t[q] \in Kinds
    BY <1>1, <1>2 DEF Kinds
  <2>2. t = [q \in Paths |-> t[q]]
    BY DEF Search!WithParents
  <2>. QED
    BY <2>1, <2>2
<1>7. ASSUME NEW r \in Paths, t[r] # "none", NEW q \in Search!Above(r) PROVE t[q] = "dir"
  <2>1. q \in Paths
    BY PathsAssumption
  <2>2. CASE r \in Search!Above(p)
    <3>1. q \in Search!Above(p)
      <4>1. Search!IsPrefix(q, r) /\ Len(q) < Len(r) /\ Search!IsPrefix(r, p) /\ Len(r) < Len(p)
        BY <1>7, <2>1, <2>2, APathIsAbove
      <4>2. Search!IsPrefix(q, p)
        BY <2>1, <4>1, PrefixesAreOrdered
      <4>3. q # p
        BY <2>1, <4>1, PathsAssumption
      <4>. QED
        BY <2>1, <4>2, <4>3, APathIsAbove
    <3>. QED
      BY <1>4, <3>1
  <2>3. CASE r \notin Search!Above(p)
    BY <1>2, <1>7, <2>1, <2>3 DEF Whole
  <2>. QED
    BY <2>2, <2>3
<1>8. t[<<>>] = "dir"
  BY <1>2, PathsAssumption DEF Whole
<1>. QED
  BY <1>4, <1>5, <1>6, <1>7, <1>8 DEF Whole

LEMMA JoinedPath ==
  ASSUME NEW a \in Seq(STRING), NEW b \in Seq(STRING), NEW ab, ab = a \o b
  PROVE  /\ ab \in Seq(STRING) /\ Len(ab) = Len(a) + Len(b)
         /\ \A i \in 1..Len(a) : ab[i] = a[i]
         /\ \A i \in 1..Len(b) : ab[Len(a) + i] = b[i]
<1>1. Len(a) \in Nat /\ Len(b) \in Nat
  OBVIOUS
<1>2. ab \in Seq(STRING) /\ Len(ab) = Len(a) + Len(b)
  OBVIOUS
<1>3. \A i \in 1..(Len(a) + Len(b)) : (a \o b)[i] = IF i <= Len(a) THEN a[i] ELSE b[i - Len(a)]
  BY ConcatProperties
<1>4. ASSUME NEW i \in 1..Len(a) PROVE ab[i] = a[i]
  <2>1. i \in 1..(Len(a) + Len(b)) /\ i <= Len(a)
    BY <1>1
  <2>. QED
    BY <1>3, <2>1
<1>5. ASSUME NEW i \in 1..Len(b) PROVE ab[Len(a) + i] = b[i]
  <2>1. Len(a) + i \in 1..(Len(a) + Len(b)) /\ ~(Len(a) + i <= Len(a)) /\ Len(a) + i - Len(a) = i
    BY <1>1
  <2>. QED
    BY <1>3, <2>1
<1>. QED
  BY <1>2, <1>4, <1>5

LEMMA PlacedNames ==
  ASSUME NEW p \in Paths, NEW from \in Paths, NEW to \in Paths, Len(from) <= Len(p),
         NEW o, o = Search!Placed(p, from, to)
  PROVE  /\ o \in Seq(STRING) /\ Len(o) = Len(to) + (Len(p) - Len(from))
         /\ \A i \in 1..Len(to) : o[i] = to[i]
         /\ \A i \in 1..(Len(p) - Len(from)) : o[Len(to) + i] = p[Len(from) + i]
<1>1. /\ p \in Seq(STRING) /\ from \in Seq(STRING) /\ to \in Seq(STRING)
      /\ Len(p) \in Nat /\ Len(from) \in Nat /\ Len(to) \in Nat
  BY PathsAssumption
<1>2. PICK t : t = SubSeq(p, Len(from) + 1, Len(p))
  OBVIOUS
<1>3. /\ t \in Seq(STRING) /\ Len(t) = Len(p) - Len(from)
      /\ \A i \in 1..(Len(p) - Len(from)) : t[i] = p[Len(from) + i]
  BY <1>1, <1>2
<1>4. o = to \o t
  BY <1>2 DEF Search!Placed
<1>5. o \in Seq(STRING) /\ Len(o) = Len(to) + Len(t)
  BY <1>1, <1>3, <1>4, JoinedPath
<1>6. \A i \in 1..Len(to) : o[i] = to[i]
  BY <1>1, <1>3, <1>4, JoinedPath
<1>7. \A i \in 1..Len(t) : o[Len(to) + i] = t[i]
  BY <1>1, <1>3, <1>4, JoinedPath
<1>. QED
  BY <1>3, <1>5, <1>6, <1>7

\* The path that a moved path comes from, or goes to.
LEMMA PlacedPath ==
  ASSUME NEW p \in Paths, NEW q \in Paths, NEW from \in Paths, NEW to \in Paths,
         Search!IsPrefix(from, p), Search!IsPrefix(from, q), q \in Search!Above(p),
         Search!Placed(p, from, to) \in Paths
  PROVE  Search!Placed(q, from, to) \in Search!Above(Search!Placed(p, from, to))
<1>1. /\ p \in Seq(STRING) /\ q \in Seq(STRING) /\ from \in Seq(STRING) /\ to \in Seq(STRING)
      /\ Len(p) \in Nat /\ Len(q) \in Nat /\ Len(from) \in Nat /\ Len(to) \in Nat
  BY PathsAssumption
<1>2. Len(from) <= Len(q) /\ Len(q) < Len(p) /\ \A i \in 1..Len(q) : p[i] = q[i]
  BY <1>1, APathIsAbove, PrefixesAreOrdered, PrefixByNames
<1>. DEFINE o == Search!Placed(p, from, to)
            r == Search!Placed(q, from, to)
            f == Len(from)
<1>3. f <= Len(p) /\ f <= Len(q)
  BY <1>1, <1>2
<1>5. /\ o \in Seq(STRING) /\ Len(o) = Len(to) + (Len(p) - f)
      /\ \A i \in 1..Len(to) : o[i] = to[i]
      /\ \A i \in 1..(Len(p) - f) : o[Len(to) + i] = p[f + i]
  <2>1. o \in Seq(STRING) /\ Len(o) = Len(to) + (Len(p) - f)
    BY <1>3, PlacedNames
  <2>2. \A i \in 1..Len(to) : o[i] = to[i]
    BY <1>3, PlacedNames
  <2>3. \A i \in 1..(Len(p) - f) : o[Len(to) + i] = p[f + i]
    BY <1>3, PlacedNames
  <2>. QED
    BY <2>1, <2>2, <2>3
<1>6. /\ r \in Seq(STRING) /\ Len(r) = Len(to) + (Len(q) - f)
      /\ \A i \in 1..Len(to) : r[i] = to[i]
      /\ \A i \in 1..(Len(q) - f) : r[Len(to) + i] = q[f + i]
  <2>1. r \in Seq(STRING) /\ Len(r) = Len(to) + (Len(q) - f)
    BY <1>3, PlacedNames
  <2>2. \A i \in 1..Len(to) : r[i] = to[i]
    BY <1>3, PlacedNames
  <2>3. \A i \in 1..(Len(q) - f) : r[Len(to) + i] = q[f + i]
    BY <1>3, PlacedNames
  <2>. QED
    BY <2>1, <2>2, <2>3
<1>. HIDE DEF o, r, f
<1>7. f \in Nat /\ f <= Len(q)
  BY <1>1, <1>2 DEF f
<1>8. ASSUME NEW i \in 1..Len(r) PROVE r[i] = o[i]
  <2>1. CASE i <= Len(to)
    BY <1>1, <1>5, <1>6, <2>1
  <2>2. CASE i > Len(to)
    <3>1. PICK k \in 1..(Len(q) - f) : i = Len(to) + k
      <4>1. i - Len(to) \in 1..(Len(q) - f) /\ i = Len(to) + (i - Len(to))
        BY <1>1, <1>6, <1>7, <1>8, <2>2
      <4>. QED
        BY <4>1
    <3>2. k \in 1..(Len(p) - f) /\ f + k \in 1..Len(q)
      BY <1>1, <1>2, <1>7, <3>1
    <3>. QED
      BY <1>2, <1>5, <1>6, <3>1, <3>2
  <2>. QED
    BY <1>1, <1>6, <1>7, <2>1, <2>2
<1>9. Len(r) < Len(o) /\ Len(r) \in Nat /\ Len(o) \in Nat
  BY <1>1, <1>2, <1>5, <1>6, <1>7
<1>10. /\ SubSeq(o, 1, Len(r)) \in Seq(STRING) /\ Len(SubSeq(o, 1, Len(r))) = Len(r)
       /\ \A i \in 1..Len(r) : SubSeq(o, 1, Len(r))[i] = o[i]
  BY <1>5, <1>9
<1>11. r = SubSeq(o, 1, Len(r))
  BY <1>6, <1>8, <1>10, SeqEqual
<1>12. Len(r) \in 0..(Len(o) - 1)
  BY <1>9
<1>13. r \in Search!Above(o)
  BY <1>11, <1>12 DEF Search!Above
<1>. QED
  BY <1>13 DEF o, r

LEMMA MovedIsWhole ==
  ASSUME Whole(tree), NEW from \in Paths, NEW to \in Paths, Search!Exists(from), ~Search!Exists(to),
         Search!Creatable(to), from \notin Search!Above(to), NEW t, t = Search!Moved(from, to)
  PROVE  Whole(t) /\ \A q \in Search!Above(to) : t[q] = "dir"
<1>1. PICK m : m = Search!WithParents(to)
  OBVIOUS
<1>2. Whole(m) /\ \A q \in Search!Above(to) : m[q] = "dir"
  BY <1>1, ParentsAreMade
<1>3. /\ \A p \in Paths : Search!IsPrefix(to, p) =>
           t[p] = IF Search!Exists(Search!Placed(p, to, from)) THEN tree[Search!Placed(p, to, from)] ELSE "none"
      /\ \A p \in Paths : ~Search!IsPrefix(to, p) /\ Search!IsPrefix(from, p) => t[p] = "none"
      /\ \A p \in Paths : ~Search!IsPrefix(to, p) /\ ~Search!IsPrefix(from, p) => t[p] = m[p]
      /\ t = [p \in Paths |-> t[p]]
  <2>1. ASSUME NEW p \in Paths, Search!IsPrefix(to, p)
        PROVE  t[p] = IF Search!Exists(Search!Placed(p, to, from)) THEN tree[Search!Placed(p, to, from)] ELSE "none"
    BY <2>1 DEF Search!Moved
  <2>2. ASSUME NEW p \in Paths, ~Search!IsPrefix(to, p), Search!IsPrefix(from, p) PROVE t[p] = "none"
    BY <2>2 DEF Search!Moved
  <2>3. ASSUME NEW p \in Paths, ~Search!IsPrefix(to, p), ~Search!IsPrefix(from, p) PROVE t[p] = m[p]
    BY <1>1, <2>3 DEF Search!Moved
  <2>4. t = [p \in Paths |-> t[p]]
    BY DEF Search!Moved
  <2>. QED
    BY <2>1, <2>2, <2>3, <2>4
<1>4. tree \in [Paths -> Kinds] /\ m \in [Paths -> Kinds] /\ "none" \in Kinds
  BY <1>2 DEF Whole, Kinds
<1>5. t \in [Paths -> Kinds]
  <2>1. ASSUME NEW p \in Paths PROVE t[p] \in Kinds
    <3>1. CASE Search!IsPrefix(to, p)
      BY <1>3, <1>4, <3>1 DEF Search!Exists
    <3>2. CASE ~Search!IsPrefix(to, p)
      BY <1>3, <1>4, <3>2
    <3>. QED
      BY <3>1, <3>2
  <2>. QED
    BY <1>3, <2>1
<1>6. ASSUME NEW q \in Search!Above(to) PROVE ~Search!IsPrefix(to, q) /\ ~Search!IsPrefix(from, q)
  <2>1. q \in Paths /\ q # to /\ Search!IsPrefix(q, to) /\ Len(q) < Len(to) /\ Len(q) \in Nat /\ Len(to) \in Nat
    BY APathIsAbove, PathsAssumption
  <2>2. ~Search!IsPrefix(to, q)
    BY <2>1, PrefixesAreOrdered
  <2>3. ASSUME Search!IsPrefix(from, q) PROVE FALSE
    <3>1. Search!IsPrefix(from, to)
      BY <2>1, <2>3, PrefixesAreOrdered
    <3>2. from # to
      OBVIOUS
    <3>. QED
      BY <3>1, <3>2, APathIsAbove
  <2>. QED
    BY <2>2, <2>3
<1>7. ASSUME NEW q \in Search!Above(to) PROVE t[q] = "dir"
  <2>1. q \in Paths
    BY APathIsAbove
  <2>. QED
    BY <1>2, <1>3, <1>6, <2>1
<1>8. ASSUME NEW p \in Paths, t[p] # "none", NEW q \in Search!Above(p) PROVE t[q] = "dir"
  <2>1. q \in Paths /\ q # p /\ Search!IsPrefix(q, p) /\ Len(q) < Len(p) /\ Len(q) \in Nat /\ Len(p) \in Nat
    BY APathIsAbove, PathsAssumption
  <2>2. CASE Search!IsPrefix(to, p) /\ Search!IsPrefix(to, q)
    <3>1. PICK o : o = Search!Placed(p, to, from)
      OBVIOUS
    <3>2. Search!Exists(o) /\ t[p] = tree[o]
      BY <1>3, <1>8, <2>2, <3>1
    <3>3. o \in Paths /\ tree[o] # "none"
      BY <3>2 DEF Search!Exists
    <3>4. Search!Placed(q, to, from) \in Search!Above(o)
      BY <2>1, <2>2, <3>1, <3>3, PlacedPath
    <3>5. tree[Search!Placed(q, to, from)] = "dir" /\ Search!Placed(q, to, from) \in Paths
      BY <3>3, <3>4, PathsAssumption DEF Whole
    <3>6. Search!Exists(Search!Placed(q, to, from))
      BY <3>5 DEF Search!Exists
    <3>. QED
      BY <1>3, <2>1, <2>2, <3>5, <3>6
  <2>3. CASE Search!IsPrefix(to, p) /\ ~Search!IsPrefix(to, q)
    <3>1. Len(to) \in Nat
      BY PathsAssumption
    <3>2. ~(Len(to) <= Len(q))
      BY <2>1, <2>3, PrefixesAreOrdered
    <3>3. Search!IsPrefix(q, to)
      BY <2>1, <2>3, <3>1, <3>2, PrefixesAreOrdered
    <3>4. q # to
      BY <2>1, <3>1, <3>2
    <3>5. q \in Search!Above(to)
      BY <2>1, <3>3, <3>4, APathIsAbove
    <3>. QED
      BY <1>7, <3>5
  <2>4. CASE ~Search!IsPrefix(to, p)
    <3>1. ~Search!IsPrefix(from, p) /\ t[p] = m[p]
      BY <1>3, <1>8, <2>4
    <3>2. ~Search!IsPrefix(from, q) /\ ~Search!IsPrefix(to, q)
      BY <2>1, <2>4, <3>1, PrefixesAreOrdered
    <3>3. m[q] = "dir"
      BY <1>2, <1>8, <3>1 DEF Whole
    <3>. QED
      BY <1>3, <2>1, <3>2, <3>3
  <2>. QED
    BY <2>2, <2>3, <2>4
<1>9. t[<<>>] = "dir"
  <2>1. to # <<>>
    BY PathsAssumption DEF Whole, Search!Exists
  <2>2. <<>> \in Search!Above(to)
    BY <2>1, RootIsAboveAll, APathIsAbove
  <2>. QED
    BY <1>7, <2>2
<1>. QED
  BY <1>5, <1>7, <1>8, <1>9 DEF Whole

\* What a write, a move or another program leaves is a tree, and the directories it says it
\* created are those it did.
LEMMA ChangeLeavesATree ==
  ASSUME Whole(tree), created.said = created.made, Search!FsWrite \/ Search!FsRename \/ Search!Removed
  PROVE  /\ Whole(tree') /\ created'.said = created'.made
         /\ \E t : Search!Change(t)
<1>1. ASSUME NEW p \in Paths, Search!Creatable(p), NEW t, \A q \in Search!Above(p) : t[q] = "dir",
             created' = Search!CreatedReport(p, t)
      PROVE  created'.said = created'.made
  <2>1. tree \in [Paths -> Kinds] /\ Search!Above(p) \subseteq Paths
    BY PathsAssumption DEF Whole
  <2>2. created'.said = Search!Missing(p)
        /\ created'.made = {q \in Search!Above(p) : tree[q] = "none" /\ t[q] = "dir"}
    BY <1>1 DEF Search!CreatedReport
  <2>3. Search!Missing(p) = {q \in Search!Above(p) : tree[q] = "none"}
    BY <2>1 DEF Search!Missing, Search!Exists
  <2>4. {q \in Search!Above(p) : tree[q] = "none" /\ t[q] = "dir"} = {q \in Search!Above(p) : tree[q] = "none"}
    BY <1>1
  <2>. QED
    BY <2>2, <2>3, <2>4
<1>2. CASE Search!FsWrite
  <2>1. PICK p \in Paths \ {<<>>} :
          /\ Search!Creatable(p) /\ tree[p] \in {"none", "text", "odd", "large"}
          /\ Search!Change([Search!WithParents(p) EXCEPT ![p] = "text"])
          /\ created' = Search!CreatedReport(p, [Search!WithParents(p) EXCEPT ![p] = "text"])
    BY <1>2 DEF Search!FsWrite, Search!Root
  <2>2. PICK m, t : m = Search!WithParents(p) /\ t = [m EXCEPT ![p] = "text"]
    OBVIOUS
  <2>3. /\ Whole(m) /\ \A q \in Search!Above(p) : m[q] = "dir"
        /\ \A q \in Paths \ Search!Above(p) : m[q] = tree[q]
    BY <2>1, <2>2, ParentsAreMade
  <2>4. m \in [Paths -> Kinds] /\ "text" \in Kinds
    BY <2>3 DEF Whole, Kinds
  <2>5. t \in [Paths -> Kinds] /\ \A q \in Paths : t[q] = IF q = p THEN "text" ELSE m[q]
    BY <2>1, <2>2, <2>4
  <2>6. p \notin Search!Above(p)
    BY <2>1, APathIsAbove
  <2>7. ASSUME NEW r \in Paths, t[r] # "none", NEW q \in Search!Above(r) PROVE t[q] = "dir"
    <3>1. q \in Paths
      BY PathsAssumption
    <3>2. m[q] = "dir"
      BY <2>3, <2>5, <2>7 DEF Whole
    <3>3. q # p
      <4>1. ASSUME q = p PROVE FALSE
        <5>1. m[p] = tree[p]
          BY <2>1, <2>3, <2>6
        <5>. QED
          BY <2>1, <3>2, <4>1, <5>1
      <4>. QED
        BY <4>1
    <3>. QED
      BY <2>5, <3>1, <3>2, <3>3
  <2>8. t[<<>>] = "dir"
    BY <2>1, <2>3, <2>5, PathsAssumption DEF Whole
  <2>9. \A q \in Search!Above(p) : t[q] = "dir"
    <3>1. Search!Above(p) \subseteq Paths
      BY <2>1, PathsAssumption
    <3>. QED
      BY <2>3, <2>5, <2>6, <3>1
  <2>10. Whole(t)
    BY <2>5, <2>7, <2>8 DEF Whole
  <2>11. Search!Change(t) /\ created' = Search!CreatedReport(p, t)
    BY <2>1, <2>2
  <2>. QED
    <3>1. created'.said = created'.made
      BY <1>1, <2>1, <2>9, <2>11
    <3>2. tree' = t
      BY <2>11 DEF Search!Change
    <3>. QED
      BY <2>10, <2>11, <3>1, <3>2
<1>3. CASE Search!FsRename
  <2>1. PICK move \in Moves :
          /\ ~Search!Exists(move[2]) /\ Search!Creatable(move[2])
          /\ IF ~Search!Exists(move[1]) \/ move[1] \in Search!Above(move[2])
             THEN Search!Change(Search!WithParents(move[2])) /\ created' = created
             ELSE /\ Search!Change(Search!Moved(move[1], move[2]))
                  /\ created' = Search!CreatedReport(move[2], Search!Moved(move[1], move[2]))
    BY <1>3 DEF Search!FsRename
  <2>2. PICK from \in Paths, to \in Paths : from = move[1] /\ to = move[2]
    BY PathsAssumption
  <2>3. CASE ~Search!Exists(from) \/ from \in Search!Above(to)
    <3>1. Search!Change(Search!WithParents(to)) /\ created' = created /\ Search!Creatable(to)
      BY <2>1, <2>2, <2>3
    <3>2. Whole(Search!WithParents(to))
      BY <3>1, ParentsAreMade
    <3>. QED
      BY <3>1, <3>2 DEF Search!Change
  <2>4. CASE Search!Exists(from) /\ from \notin Search!Above(to)
    <3>1. PICK t : t = Search!Moved(from, to)
      OBVIOUS
    <3>2. /\ Search!Change(t) /\ created' = Search!CreatedReport(to, t)
          /\ Search!Creatable(to) /\ ~Search!Exists(to)
      BY <2>1, <2>2, <2>4, <3>1
    <3>3. Whole(t) /\ \A q \in Search!Above(to) : t[q] = "dir"
      BY <2>4, <3>1, <3>2, MovedIsWhole
    <3>. QED
      BY <1>1, <3>2, <3>3 DEF Search!Change
  <2>. QED
    BY <2>3, <2>4
<1>4. CASE Search!Removed
  <2>1. PICK p \in Paths \ {<<>>} :
          /\ \A q \in Search!Children(p) : ~Search!Exists(q)
          /\ Search!Change([tree EXCEPT ![p] = "none"]) /\ created' = created
    BY <1>4 DEF Search!Removed, Search!Root
  <2>2. PICK t : t = [tree EXCEPT ![p] = "none"]
    OBVIOUS
  <2>3. t \in [Paths -> Kinds] /\ \A q \in Paths : t[q] = IF q = p THEN "none" ELSE tree[q]
    BY <2>1, <2>2 DEF Whole, Kinds
  <2>4. ASSUME NEW r \in Paths, t[r] # "none", NEW q \in Search!Above(r) PROVE t[q] = "dir"
    <3>1. q \in Paths /\ q # r /\ Search!IsPrefix(q, r)
      BY APathIsAbove
    <3>2. tree[r] # "none" /\ tree[q] = "dir"
      BY <2>3, <2>4 DEF Whole
    <3>3. q # p
      <4>1. ASSUME q = p PROVE FALSE
        <5>1. PICK c \in Search!Children(p) : Search!IsPrefix(c, r)
          BY <3>1, <4>1, EntryTowards
        <5>2. c \in Paths /\ ~Search!Exists(c)
          BY <2>1, <5>1, EntryOfDirectory
        <5>3. c = r \/ c \in Search!Above(r)
          BY <5>1, <5>2, APathIsAbove
        <5>4. tree[c] # "none"
          BY <3>2, <5>3 DEF Whole
        <5>. QED
          BY <5>2, <5>4 DEF Search!Exists
      <4>. QED
        BY <4>1
    <3>. QED
      BY <2>3, <3>1, <3>2, <3>3
  <2>5. Whole(t)
    BY <2>1, <2>3, <2>4, PathsAssumption DEF Whole
  <2>. QED
    BY <2>1, <2>2, <2>5 DEF Search!Change
<1>. QED
  BY <1>2, <1>3, <1>4

-----------------------------------------------------------------------------
(* A walk: what it has to find, and where it still has to look.            *)

ListDepth == IF walk.recursive THEN walk.depth + 1 ELSE 1
Listed == {p \in Search!Below(ListDepth) : tree[p] # "link"}
Sought == {p \in Search!Below(walk.depth + 1) \cup {walk.root} : tree[Search!Followed(p)] = "text"}
Asked == {p \in Search!Below(walk.depth) \cup {walk.root} :
            tree[p] = "text" /\ (p \in Ignored => p = walk.root \/ Search!Generated(walk.root))}
HitsOf(S) == UNION {Search!Hits(p) : p \in S}

Walks == [op : {"list", "ripgrep", "inprocess"}, root : Paths, limit : Nat \ {0}, depth : Nat,
          recursive : BOOLEAN, stack : Seq(Paths \X Nat),
          found : SUBSET (Paths \cup (Paths \X Nat)), visited : Nat,
          truncated : BOOLEAN, clean : BOOLEAN, out : {"none", "ok", "error"}]

\* A place that waits to be looked at is as deep below the root as it says, and not in a
\* directory that is skipped.
Waiting(e) ==
  /\ Search!IsPrefix(walk.root, e[1]) /\ Len(e[1]) = Len(walk.root) + e[2]
  /\ \A q \in Search!Above(e[1]) : Len(q) > Len(walk.root) => ~Search!Skipped(walk.root, q)

\* What was not listed yet is below a directory that waits.
ListGoesOn ==
  /\ \A i \in DOMAIN walk.stack :
       /\ Waiting(walk.stack[i]) /\ ~Search!Skipped(walk.root, walk.stack[i][1])
       /\ walk.stack[i][2] > 0 => walk.recursive /\ walk.stack[i][2] <= walk.depth
  /\ walk.found \subseteq Listed
  /\ \A q \in Listed : q \in walk.found \/ \E i \in DOMAIN walk.stack : walk.stack[i][1] \in Search!Above(q)

\* A file has all of its matches found, or none and waits with what it is in; no file waits
\* twice.
SearchGoesOn ==
  /\ \A i \in DOMAIN walk.stack : Waiting(walk.stack[i]) /\ walk.stack[i][2] <= walk.depth + 1
  /\ \A i, j \in DOMAIN walk.stack : Search!IsPrefix(walk.stack[i][1], walk.stack[j][1]) => i = j
  /\ walk.found \subseteq HitsOf(Sought)
  /\ \A p \in Paths, i \in DOMAIN walk.stack :
       Search!IsPrefix(walk.stack[i][1], p) => walk.found \cap Search!Hits(p) = {}
  /\ \A q \in Sought : \/ Search!Hits(q) \subseteq walk.found
                       \/ \E i \in DOMAIN walk.stack : Search!IsPrefix(walk.stack[i][1], q)

\* The walk goes on, nothing was left out so far and nobody changed the workspace.
Looking == walk.out = "none" /\ walk.clean /\ ~walk.truncated

FoundInPlace ==
  /\ walk.op = "list" => ListGoesOn
  /\ walk.op = "inprocess" => SearchGoesOn
  /\ walk.op = "ripgrep" => walk.found \subseteq HitsOf(Asked)

\* A list that was cut is at its end, and a search with ripgrep ended with it.
Tidy ==
  /\ walk.out = "none" /\ walk.truncated => walk.op = "inprocess" \/ (walk.op = "list" /\ walk.stack = <<>>)
  /\ walk.op = "inprocess" => IsFiniteSet(walk.found)

SearchInv ==
  /\ Whole(tree)
  /\ created.said = created.made
  /\ walk = Search!Idle \/ (walk \in Walks /\ Tidy)
  /\ walk # Search!Idle /\ Looking => FoundInPlace
  /\ Search!NothingIsLeftOutSilently

LEMMA LookedForTheSame ==
  ASSUME tree' = tree, walk'.op = walk.op, walk'.root = walk.root, walk'.depth = walk.depth,
         walk'.recursive = walk.recursive
  PROVE  /\ Listed' = Listed /\ Sought' = Sought /\ Asked' = Asked
         /\ HitsOf(Sought)' = HitsOf(Sought) /\ HitsOf(Asked)' = HitsOf(Asked)
         /\ \A p : Search!Hits(p)' = Search!Hits(p)
         /\ \A e : Waiting(e)' <=> Waiting(e)
<1>1. \A d : Search!Below(d)' = Search!Below(d)
  BY DEF Search!Below, Search!Exists
<1>2. \A p : Search!Followed(p)' = Search!Followed(p)
  BY DEF Search!Followed
<1>3. \A p : Search!Hits(p)' = Search!Hits(p)
  BY <1>2 DEF Search!Hits
<1>4. Listed' = Listed
  BY <1>1 DEF Listed, ListDepth
<1>5. Sought' = Sought
  BY <1>1, <1>2 DEF Sought
<1>6. Asked' = Asked
  BY <1>1 DEF Asked
<1>7. \A S : HitsOf(S)' = HitsOf(S)
  BY <1>3 DEF HitsOf
<1>8. HitsOf(Sought)' = HitsOf(Sought) /\ HitsOf(Asked)' = HitsOf(Asked)
  BY <1>3, <1>5, <1>6 DEF HitsOf
<1>9. \A e : Waiting(e)' <=> Waiting(e)
  BY DEF Waiting
<1>. QED
  BY <1>3, <1>4, <1>5, <1>6, <1>8, <1>9

\* What is below a path that exists is in a directory there and at or below an entry of it.
LEMMA BelowADirectory ==
  ASSUME Whole(tree), NEW p \in Paths, NEW q \in Paths, Search!IsPrefix(p, q), p # q, tree[q] # "none"
  PROVE  /\ tree[p] = "dir" /\ p \in Search!Above(q)
         /\ \E c \in Search!Children(p) :
               /\ c \in Paths /\ Search!IsPrefix(c, q) /\ Len(c) <= Len(q) /\ tree[c] # "none"
               /\ c # q => c \in Search!Above(q) /\ tree[c] = "dir" /\ Len(c) < Len(q)
<1>1. p \in Search!Above(q)
  BY APathIsAbove
<1>2. tree[p] = "dir"
  BY <1>1 DEF Whole
<1>3. PICK c \in Search!Children(p) : Search!IsPrefix(c, q)
  BY EntryTowards
<1>4. c \in Paths
  BY <1>3, EntryOfDirectory
<1>5. Len(c) <= Len(q)
  BY <1>3, <1>4, PrefixesAreOrdered
<1>6. c # q => c \in Search!Above(q) /\ tree[c] = "dir" /\ Len(c) < Len(q)
  BY <1>3, <1>4, APathIsAbove DEF Whole
<1>. QED
  BY <1>1, <1>2, <1>3, <1>4, <1>5, <1>6

-----------------------------------------------------------------------------
(* The stack of a walk.                                                    *)

Places == Paths \X Nat

LEMMA TakenFromTheTop ==
  ASSUME NEW stack \in Seq(Places), stack # <<>>, NEW rest, rest = SubSeq(stack, 1, Len(stack) - 1)
  PROVE  /\ Len(stack) \in DOMAIN stack /\ stack[Len(stack)] \in Places
         /\ rest \in Seq(Places)
         /\ \A i \in DOMAIN rest : i \in DOMAIN stack /\ i # Len(stack) /\ rest[i] = stack[i]
         /\ \A i \in DOMAIN stack : i = Len(stack) \/ i \in DOMAIN rest
<1>1. PICK n \in Nat : n + 1 = Len(stack)
  <2>1. Len(stack) \in Nat \ {0}
    BY EmptySeq
  <2>. QED
    BY <2>1
<1>2. DOMAIN stack = 1..(n + 1) /\ Len(stack) \in DOMAIN stack
  BY <1>1
<1>3. rest = SubSeq(stack, 1, n)
  BY <1>1
<1>4. rest \in Seq(Places) /\ Len(rest) = n /\ \A i \in 1..n : rest[i] = stack[i]
  BY <1>1, <1>3
<1>5. DOMAIN rest = 1..n
  BY <1>4
<1>. QED
  BY <1>1, <1>2, <1>4, <1>5

LEMMA PutOnTop ==
  ASSUME NEW rest \in Seq(Places), NEW more \in Seq(Places), NEW new, new = rest \o more
  PROVE  /\ new \in Seq(Places)
         /\ \A i \in DOMAIN rest : i \in DOMAIN new /\ new[i] = rest[i]
         /\ \A i \in DOMAIN more : Len(rest) + i \in DOMAIN new /\ new[Len(rest) + i] = more[i]
         /\ \A k \in DOMAIN new : k \in DOMAIN rest \/ \E i \in DOMAIN more : k = Len(rest) + i
<1>1. PICK m \in Nat, n \in Nat : m = Len(rest) /\ n = Len(more)
  OBVIOUS
<1>2. DOMAIN rest = 1..m /\ DOMAIN more = 1..n
  BY <1>1
<1>3. new \in Seq(Places)
  OBVIOUS
<1>4. Len(new) = Len(rest) + Len(more)
  OBVIOUS
<1>5. DOMAIN new = 1..(m + n)
  BY <1>1, <1>3, <1>4
<1>11. \A i \in 1..(m + n) : (rest \o more)[i] = IF i <= m THEN rest[i] ELSE more[i - m]
  BY <1>1, ConcatProperties
<1>6. ASSUME NEW i \in 1..Len(rest) PROVE new[i] = rest[i]
  <2>1. i \in 1..(m + n) /\ i <= m
    BY <1>1
  <2>. QED
    BY <1>11, <2>1
<1>7. ASSUME NEW i \in 1..Len(more) PROVE new[Len(rest) + i] = more[i]
  <2>1. m + i \in 1..(m + n) /\ ~(m + i <= m) /\ m + i - m = i
    BY <1>1
  <2>. QED
    BY <1>1, <1>11, <2>1
<1>8. \A i \in DOMAIN rest : i \in DOMAIN new /\ new[i] = rest[i]
  BY <1>1, <1>2, <1>5, <1>6
<1>9. \A i \in DOMAIN more : Len(rest) + i \in DOMAIN new /\ new[Len(rest) + i] = more[i]
  <2>1. \A i \in 1..n : m + i \in 1..(m + n)
    OBVIOUS
  <2>. QED
    BY <1>1, <1>2, <1>5, <1>7, <2>1
<1>10. \A k \in DOMAIN new : k \in DOMAIN rest \/ \E i \in DOMAIN more : k = Len(rest) + i
  <2>1. ASSUME NEW k \in 1..(m + n), k \notin 1..m PROVE \E i \in 1..n : k = m + i
    <3>1. k - m \in 1..n /\ k = m + (k - m)
      BY <2>1
    <3>. QED
      BY <3>1
  <2>. QED
    BY <1>1, <1>2, <1>5, <2>1
<1>. QED
  BY <1>3, <1>8, <1>9, <1>10

\* new is the stack without its top, and with the members of S at depth d.
StackedOn(stack, S, d, new) ==
  /\ new \in Seq(Places)
  /\ \A k \in DOMAIN new :
       \/ \E i \in DOMAIN stack : i # Len(stack) /\ new[k] = stack[i]
       \/ \E c \in S : new[k] = <<c, d>>
  /\ \A i \in DOMAIN stack : i = Len(stack) \/ \E k \in DOMAIN new : new[k] = stack[i]
  /\ \A c \in S : \E k \in DOMAIN new : new[k] = <<c, d>>
  /\ \A i, j \in DOMAIN new : i = j \/
       \/ \E a, b \in DOMAIN stack : a # Len(stack) /\ b # Len(stack) /\ a # b
                                     /\ new[i] = stack[a] /\ new[j] = stack[b]
       \/ \E a \in DOMAIN stack, c \in S :
            /\ a # Len(stack)
            /\ \/ new[i] = stack[a] /\ new[j] = <<c, d>>
               \/ new[j] = stack[a] /\ new[i] = <<c, d>>
       \/ \E c, e \in S : c # e /\ new[i] = <<c, d>> /\ new[j] = <<e, d>>

\* The stack after a directory was taken from it and some entries were put there.
LEMMA StackOfEntries ==
  ASSUME NEW stack \in Seq(Places), stack # <<>>, NEW rest, rest = SubSeq(stack, 1, Len(stack) - 1),
         NEW S \in SUBSET Paths, NEW order, order \in Search!SetToSeqs(S) \/ order = Search!SetToSeq(S),
         NEW d \in Nat, NEW more, more = [i \in DOMAIN order |-> <<order[i], d>>],
         NEW new, new = rest \o more
  PROVE  StackedOn(stack, S, d, new)
<1>1. /\ order \in Seq(S)
      /\ \A x \in S : \E i \in DOMAIN order : order[i] = x
      /\ \A i, j \in DOMAIN order : order[i] = order[j] => i = j
  <2>1. IsFiniteSet(S)
    BY FS_Subset, PathsAssumption
  <2>. QED
    BY <2>1, EntriesInOrder
<1>2. /\ rest \in Seq(Places)
      /\ \A i \in DOMAIN rest : i \in DOMAIN stack /\ i # Len(stack) /\ rest[i] = stack[i]
      /\ \A i \in DOMAIN stack : i = Len(stack) \/ i \in DOMAIN rest
  BY TakenFromTheTop
<1>13. more \in Seq(Places) /\ DOMAIN more = DOMAIN order /\ \A i \in DOMAIN order : more[i] = <<order[i], d>>
  <2>1. PICK n \in Nat : DOMAIN order = 1..n
    BY <1>1
  <2>2. more \in [1..n -> Places] /\ \A i \in 1..n : more[i] = <<order[i], d>>
    <3>1. \A i \in 1..n : order[i] \in Paths
      BY <1>1, <2>1
    <3>2. \A i \in 1..n : <<order[i], d>> \in Places
      BY <3>1 DEF Places
    <3>3. more = [i \in 1..n |-> <<order[i], d>>]
      BY <2>1
    <3>. QED
      BY <3>2, <3>3
  <2>. QED
    BY <2>1, <2>2
<1>14. \A m \in Seq(Places) : \A all : all = rest \o m =>
        /\ all \in Seq(Places)
        /\ \A i \in DOMAIN rest : i \in DOMAIN all /\ all[i] = rest[i]
        /\ \A i \in DOMAIN m : Len(rest) + i \in DOMAIN all /\ all[Len(rest) + i] = m[i]
        /\ \A k \in DOMAIN all : k \in DOMAIN rest \/ \E i \in DOMAIN m : k = Len(rest) + i
  BY <1>2, PutOnTop
<1>15. /\ new \in Seq(Places)
       /\ \A i \in DOMAIN rest : i \in DOMAIN new /\ new[i] = rest[i]
       /\ \A i \in DOMAIN more : Len(rest) + i \in DOMAIN new /\ new[Len(rest) + i] = more[i]
       /\ \A k \in DOMAIN new : k \in DOMAIN rest \/ \E i \in DOMAIN more : k = Len(rest) + i
  <2>1. more \in Seq(Places)
    BY <1>13
  <2>2. new = rest \o more
    OBVIOUS
  <2>3. \A all : all = rest \o more =>
        /\ all \in Seq(Places)
        /\ \A i \in DOMAIN rest : i \in DOMAIN all /\ all[i] = rest[i]
        /\ \A i \in DOMAIN more : Len(rest) + i \in DOMAIN all /\ all[Len(rest) + i] = more[i]
        /\ \A k \in DOMAIN all : k \in DOMAIN rest \/ \E i \in DOMAIN more : k = Len(rest) + i
    BY <1>14, <2>1
  <2>. QED
    BY <2>2, <2>3, Zenon
<1>3. /\ new \in Seq(Places)
      /\ \A i \in DOMAIN rest : i \in DOMAIN new /\ new[i] = rest[i]
      /\ \A i \in DOMAIN order : Len(rest) + i \in DOMAIN new /\ new[Len(rest) + i] = <<order[i], d>>
      /\ \A k \in DOMAIN new : k \in DOMAIN rest \/ \E i \in DOMAIN order : k = Len(rest) + i
  BY <1>13, <1>15
<1>4. \A i \in DOMAIN order : order[i] \in S
  BY <1>1
<1>5. ASSUME NEW k \in DOMAIN new
      PROVE  \/ k \in DOMAIN rest /\ k \in DOMAIN stack /\ k # Len(stack) /\ new[k] = stack[k]
             \/ \E i \in DOMAIN order : k = Len(rest) + i /\ order[i] \in S /\ new[k] = <<order[i], d>>
  BY <1>2, <1>3, <1>4, Zenon
<1>6. ASSUME NEW i \in DOMAIN new, NEW j \in DOMAIN new, i # j
      PROVE  \/ \E a, b \in DOMAIN stack : a # Len(stack) /\ b # Len(stack) /\ a # b
                                            /\ new[i] = stack[a] /\ new[j] = stack[b]
             \/ \E a \in DOMAIN stack, c \in S :
                   /\ a # Len(stack)
                   /\ \/ new[i] = stack[a] /\ new[j] = <<c, d>>
                      \/ new[j] = stack[a] /\ new[i] = <<c, d>>
             \/ \E c, e \in S : c # e /\ new[i] = <<c, d>> /\ new[j] = <<e, d>>
  <2>1. CASE i \in DOMAIN stack /\ i # Len(stack) /\ new[i] = stack[i]
    <3>1. CASE j \in DOMAIN stack /\ j # Len(stack) /\ new[j] = stack[j]
      BY <1>6, <2>1, <3>1, Zenon
    <3>2. CASE \E c \in S : new[j] = <<c, d>>
      BY <2>1, <3>2, Zenon
    <3>. QED
      BY <1>5, <3>1, <3>2, Zenon
  <2>2. CASE \E m \in DOMAIN order : i = Len(rest) + m /\ order[m] \in S /\ new[i] = <<order[m], d>>
    <3>1. CASE j \in DOMAIN stack /\ j # Len(stack) /\ new[j] = stack[j]
      BY <2>2, <3>1, Zenon
    <3>2. CASE \E n \in DOMAIN order : j = Len(rest) + n /\ order[n] \in S /\ new[j] = <<order[n], d>>
      <4>1. PICK m \in DOMAIN order : i = Len(rest) + m /\ order[m] \in S /\ new[i] = <<order[m], d>>
        BY <2>2
      <4>2. PICK n \in DOMAIN order : j = Len(rest) + n /\ order[n] \in S /\ new[j] = <<order[n], d>>
        BY <3>2
      <4>3. m # n
        BY <1>6, <4>1, <4>2
      <4>4. order[m] # order[n]
        BY <1>1, <4>3
      <4>. QED
        BY <4>1, <4>2, <4>4, Zenon
    <3>. QED
      BY <1>5, <3>1, <3>2, Zenon
  <2>. QED
    BY <1>5, <2>1, <2>2, Zenon
<1>7. \A i \in DOMAIN stack : i = Len(stack) \/ \E k \in DOMAIN new : new[k] = stack[i]
  BY <1>2, <1>3, Zenon
<1>8. \A c \in S : \E k \in DOMAIN new : new[k] = <<c, d>>
  <2>1. ASSUME NEW c \in S PROVE \E k \in DOMAIN new : new[k] = <<c, d>>
    <3>1. PICK i \in DOMAIN order : order[i] = c
      BY <1>1
    <3>2. Len(rest) + i \in DOMAIN new /\ new[Len(rest) + i] = <<c, d>>
      BY <1>3, <3>1, Zenon
    <3>. QED
      BY <3>2, Zenon
  <2>. QED
    BY <2>1
<1>9. \A k \in DOMAIN new :
              \/ \E i \in DOMAIN stack : i # Len(stack) /\ new[k] = stack[i]
              \/ \E c \in S : new[k] = <<c, d>>
  BY <1>5, Zenon
<1>10. \A i, j \in DOMAIN new : i = j \/
              \/ \E a, b \in DOMAIN stack : a # Len(stack) /\ b # Len(stack) /\ a # b
                                            /\ new[i] = stack[a] /\ new[j] = stack[b]
              \/ \E a \in DOMAIN stack, c \in S :
                   /\ a # Len(stack)
                   /\ \/ new[i] = stack[a] /\ new[j] = <<c, d>>
                      \/ new[j] = stack[a] /\ new[i] = <<c, d>>
              \/ \E c, e \in S : c # e /\ new[i] = <<c, d>> /\ new[j] = <<e, d>>
  <2>1. ASSUME NEW i \in DOMAIN new, NEW j \in DOMAIN new
        PROVE  i = j \/
              \/ \E a, b \in DOMAIN stack : a # Len(stack) /\ b # Len(stack) /\ a # b
                                            /\ new[i] = stack[a] /\ new[j] = stack[b]
              \/ \E a \in DOMAIN stack, c \in S :
                   /\ a # Len(stack)
                   /\ \/ new[i] = stack[a] /\ new[j] = <<c, d>>
                      \/ new[j] = stack[a] /\ new[i] = <<c, d>>
              \/ \E c, e \in S : c # e /\ new[i] = <<c, d>> /\ new[j] = <<e, d>>
    <3>1. CASE i = j
      BY <3>1, Zenon
    <3>. QED
      BY <1>6, <3>1, Zenon
  <2>. QED
    BY <2>1, Zenon
<1>16. new \in Seq(Places)
  BY <1>3
<1>. QED
  BY <1>7, <1>8, <1>9, <1>10, <1>16, Zenon DEF StackedOn

-----------------------------------------------------------------------------
(* The steps of a list.                                                    *)

LEMMA EndedWalk ==
  ASSUME SearchInv, walk # Search!Idle, tree' = tree, created' = created,
         walk' = [walk EXCEPT !.out = "error"]
  PROVE  SearchInv'
<1>1. walk \in Walks /\ Tidy /\ Whole(tree) /\ created.said = created.made
  BY DEF SearchInv
<1>2. walk' \in Walks /\ walk'.out = "error" /\ walk'.op = walk.op /\ walk'.found = walk.found
  BY <1>1 DEF Walks
<1>3. Tidy' /\ ~Looking' /\ Search!NothingIsLeftOutSilently'
  BY <1>1, <1>2 DEF Tidy, Looking, Search!NothingIsLeftOutSilently
<1>4. Whole(tree)' /\ created'.said = created'.made
  BY <1>1 DEF Whole
<1>. QED
  BY <1>2, <1>3, <1>4 DEF SearchInv

\* Below the directory that is taken, what has to be listed is an entry or below one.
LEMMA EntriesCover ==
  ASSUME SearchInv, Search!Going("list"), walk.stack # <<>>, Looking, NEW q \in Listed,
         Search!Top[1] \in Search!Above(q)
  PROVE  \/ q \in Search!Listable
         \/ /\ walk.recursive /\ Search!Top[2] < walk.depth
            /\ \E c \in Search!Listable : tree[c] = "dir" /\ c \in Search!Above(q)
<1>1. walk \in Walks /\ ListGoesOn /\ Whole(tree) /\ walk.op = "list"
  BY DEF SearchInv, Search!Going, Search!Idle, FoundInPlace
<1>2. /\ walk.stack \in Seq(Places) /\ walk.root \in Paths /\ walk.depth \in Nat
      /\ walk.recursive \in BOOLEAN
  BY <1>1 DEF Walks, Places
<1>3. PICK p, d : p = Search!Top[1] /\ d = Search!Top[2]
  OBVIOUS
<1>4. /\ p \in Paths /\ d \in Nat /\ Len(p) = Len(walk.root) + d /\ Search!IsPrefix(walk.root, p)
      /\ d > 0 => walk.recursive /\ d <= walk.depth
  <2>1. Len(walk.stack) \in DOMAIN walk.stack /\ walk.stack[Len(walk.stack)] \in Places
    BY <1>2, TakenFromTheTop
  <2>2. Search!Top = walk.stack[Len(walk.stack)]
    BY DEF Search!Top
  <2>. QED
    BY <1>1, <1>3, <2>1, <2>2 DEF ListGoesOn, Waiting, Places
<1>5. /\ q \in Paths /\ tree[q] # "none" /\ tree[q] # "link"
      /\ Len(q) - Len(walk.root) <= ListDepth
      /\ \A r \in Search!Above(q) \cup {q} :
            Len(r) > Len(walk.root) /\ tree[r] = "dir" => ~Search!Skipped(walk.root, r)
  BY <1>1 DEF Listed, Search!Below, Search!Exists
<1>6. Search!IsPrefix(p, q) /\ p # q
  BY <1>3, <1>4, <1>5, APathIsAbove
<1>7. PICK c \in Search!Children(p) :
               /\ c \in Paths /\ Search!IsPrefix(c, q) /\ Len(c) <= Len(q) /\ tree[c] # "none"
               /\ c # q => c \in Search!Above(q) /\ tree[c] = "dir" /\ Len(c) < Len(q)
  BY <1>1, <1>4, <1>5, <1>6, BelowADirectory
<1>8. Len(c) = Len(p) + 1 /\ Len(p) \in Nat /\ Len(walk.root) \in Nat /\ Len(q) \in Nat
  <2>1. Len(c) = Len(p) + 1
    BY <1>4, <1>7, EntryOfDirectory
  <2>2. \A r \in Paths : Len(r) \in Nat
    BY PathsAssumption
  <2>. QED
    BY <1>2, <1>4, <1>5, <2>1, <2>2
<1>9. Len(c) > Len(walk.root)
  BY <1>4, <1>8
<1>10. c \in Search!Listable
  <2>1. tree[c] # "link"
    BY <1>5, <1>7
  <2>2. ~(tree[c] = "dir" /\ Search!Skipped(walk.root, c))
    BY <1>5, <1>7, <1>9
  <2>. QED
    BY <1>3, <1>7, <2>1, <2>2 DEF Search!Listable
<1>11. CASE c # q
  <2>1. walk.recursive /\ d < walk.depth
    <3>1. PICK x \in Int, depth \in Nat : x = Len(q) - Len(walk.root) /\ depth = walk.depth
      <4>1. Len(q) - Len(walk.root) \in Int
        BY <1>8
      <4>. QED
        BY <1>2, <4>1
    <3>4. x >= d + 2
      <4>1. Len(c) < Len(q)
        BY <1>7, <1>11
      <4>2. \A k, m, n \in Nat : m = n + d + 1 /\ m < k => k - n >= d + 2
        BY <1>4
      <4>3. Len(c) \in Nat /\ Len(c) = Len(walk.root) + d + 1
        BY <1>4, <1>8
      <4>. QED
        BY <1>8, <3>1, <4>1, <4>2, <4>3
    <3>2. CASE walk.recursive
      <4>1. ListDepth = depth + 1
        BY <3>1, <3>2 DEF ListDepth
      <4>2. x <= depth + 1
        BY <1>5, <3>1, <4>1
      <4>3. d < depth
        BY <1>4, <3>1, <3>4, <4>2
      <4>. QED
        BY <3>1, <3>2, <4>3
    <3>3. CASE ~walk.recursive
      <4>1. ListDepth = 1
        BY <3>3 DEF ListDepth
      <4>2. x <= 1
        BY <1>5, <3>1, <4>1
      <4>. QED
        <5>1. d \in Nat
          BY <1>4
        <5>. QED
          BY <3>4, <4>2, <5>1
    <3>. QED
      BY <3>2, <3>3
  <2>. QED
    BY <1>3, <1>7, <1>10, <1>11, <2>1
<1>. QED
  BY <1>10, <1>11

LEMMA ListableIsListed ==
  ASSUME SearchInv, Search!Going("list"), walk.stack # <<>>, Looking, NEW c \in Search!Listable
  PROVE  /\ c \in Listed
         /\ tree[c] = "dir" /\ Search!Top[2] < walk.depth =>
              Waiting(<<c, Search!Top[2] + 1>>) /\ ~Search!Skipped(walk.root, c)
<1>1. walk \in Walks /\ ListGoesOn /\ Whole(tree) /\ walk.op = "list"
  BY DEF SearchInv, Search!Going, Search!Idle, FoundInPlace
<1>2. /\ walk.stack \in Seq(Places) /\ walk.root \in Paths /\ walk.depth \in Nat
      /\ walk.recursive \in BOOLEAN
  BY <1>1 DEF Walks, Places
<1>3. PICK p, d : p = Search!Top[1] /\ d = Search!Top[2]
  OBVIOUS
<1>4. /\ p \in Paths /\ d \in Nat /\ Len(p) = Len(walk.root) + d /\ Search!IsPrefix(walk.root, p)
      /\ \A q \in Search!Above(p) : Len(q) > Len(walk.root) => ~Search!Skipped(walk.root, q)
      /\ ~Search!Skipped(walk.root, p)
      /\ d > 0 => walk.recursive /\ d <= walk.depth
  <2>1. Len(walk.stack) \in DOMAIN walk.stack /\ walk.stack[Len(walk.stack)] \in Places
    BY <1>2, TakenFromTheTop
  <2>2. Search!Top = walk.stack[Len(walk.stack)]
    BY DEF Search!Top
  <2>. QED
    BY <1>1, <1>3, <2>1, <2>2 DEF ListGoesOn, Waiting, Places
<1>5. /\ c \in Search!Children(p) /\ tree[c] # "none" /\ tree[c] # "link"
      /\ ~(tree[c] = "dir" /\ Search!Skipped(walk.root, c))
  BY <1>3 DEF Search!Listable
<1>6. /\ c \in Paths /\ Len(c) = Len(p) + 1 /\ Search!IsPrefix(p, c)
      /\ Search!Above(c) = Search!Above(p) \cup {p}
  BY <1>4, <1>5, EntryOfDirectory
<1>7. Search!IsPrefix(walk.root, c) /\ Len(walk.root) \in Nat /\ Len(c) = Len(walk.root) + (d + 1)
  <2>1. Search!IsPrefix(walk.root, c)
    BY <1>2, <1>4, <1>6, PrefixesAreOrdered
  <2>2. Len(walk.root) \in Nat
    BY <1>2, PathsAssumption
  <2>3. d \in Nat /\ Len(c) = (Len(walk.root) + d) + 1
    BY <1>4, <1>6
  <2>4. \A n \in Nat : (n + d) + 1 = n + (d + 1)
    BY <2>3
  <2>. QED
    BY <2>1, <2>2, <2>3, <2>4
<1>8. \A q \in Search!Above(c) : Len(q) > Len(walk.root) => ~Search!Skipped(walk.root, q)
  BY <1>4, <1>6
<1>9. Len(c) - Len(walk.root) <= ListDepth /\ c # walk.root
  <2>1. Len(c) - Len(walk.root) = d + 1
    BY <1>4, <1>7
  <2>2. d + 1 <= ListDepth
    <3>1. CASE d > 0
      <4>1. walk.recursive /\ d <= walk.depth
        BY <1>4, <3>1
      <4>2. ListDepth = walk.depth + 1
        BY <4>1 DEF ListDepth
      <4>. QED
        BY <1>2, <1>4, <4>1, <4>2
    <3>2. CASE d = 0
      <4>1. ListDepth = IF walk.recursive THEN walk.depth + 1 ELSE 1
        BY DEF ListDepth
      <4>2. \A k \in Nat : 0 + 1 <= k + 1 /\ 0 + 1 <= 1
        OBVIOUS
      <4>. QED
        BY <1>2, <3>2, <4>1, <4>2
    <3>3. d \in Nat
      BY <1>4
    <3>. QED
      BY <3>1, <3>2, <3>3
  <2>3. c # walk.root
    <3>1. \A m \in Nat : m # m + (d + 1)
      BY <1>4
    <3>. QED
      BY <1>7, <3>1
  <2>. QED
    BY <2>1, <2>2, <2>3
<1>10. c \in Listed
  BY <1>5, <1>6, <1>7, <1>8, <1>9 DEF Listed, Search!Below, Search!Exists
<1>11. ASSUME tree[c] = "dir" PROVE Waiting(<<c, d + 1>>) /\ ~Search!Skipped(walk.root, c)
  BY <1>5, <1>7, <1>8, <1>11 DEF Waiting
<1>. QED
  BY <1>3, <1>10, <1>11

\* Nothing of what a list has to find depends on more than the call and the workspace.
LEMMA ListStillGoesOn ==
  ASSUME tree' = tree, walk'.op = walk.op, walk'.root = walk.root, walk'.depth = walk.depth,
         walk'.recursive = walk.recursive,
         \A i \in DOMAIN walk'.stack :
            /\ Waiting(walk'.stack[i]) /\ ~Search!Skipped(walk.root, walk'.stack[i][1])
            /\ walk'.stack[i][2] > 0 => walk.recursive /\ walk'.stack[i][2] <= walk.depth,
         walk'.found \subseteq Listed,
         \A q \in Listed : q \in walk'.found \/ \E i \in DOMAIN walk'.stack : walk'.stack[i][1] \in Search!Above(q)
  PROVE  ListGoesOn'
<1>1. Listed' = Listed
  BY LookedForTheSame
<1>2. \A i \in DOMAIN walk'.stack : Waiting(walk.stack[i])'
  BY DEF Waiting
<1>. QED
  BY <1>1, <1>2 DEF ListGoesOn

LEMMA ListDirectoryStep ==
  ASSUME SearchInv, Search!ListDirectory
  PROVE  SearchInv'
<1>1. /\ walk \in Walks /\ Tidy /\ Whole(tree) /\ created.said = created.made
      /\ walk.op = "list" /\ walk.out = "none" /\ walk.stack # <<>>
      /\ tree' = tree /\ created' = created
  <2>1. /\ walk.op = "list" /\ walk.out = "none" /\ walk.stack # <<>>
        /\ tree' = tree /\ created' = created
    BY DEF Search!ListDirectory, Search!Going, Search!Still
  <2>2. walk # Search!Idle
    BY <2>1 DEF Search!Idle
  <2>. QED
    BY <2>1, <2>2 DEF SearchInv
<1>2. CASE Search!Fails
  <2>1. walk # Search!Idle
    BY <1>1 DEF Search!Idle
  <2>. QED
    BY <1>1, <1>2, <2>1, EndedWalk DEF Search!Fails
<1>3. CASE ~Search!Fails
  <2>1. PICK seen \in SUBSET Search!Listable,
             order \in Search!SetToSeqs({q \in Search!Listable : tree[q] = "dir"}) :
          LET found == walk.found \cup seen
              deeper == walk.recursive /\ Search!Top[2] < walk.depth
          IN /\ IF Search!Cardinality(walk.found \cup Search!Listable) >= walk.limit
                THEN Search!Cardinality(found) = walk.limit ELSE seen = Search!Listable
             /\ walk' = [walk EXCEPT !.found = found, !.visited = @ + 1,
                           !.truncated = Search!Full(found),
                           !.stack = IF Search!Cardinality(found) >= walk.limit THEN <<>>
                                     ELSE IF deeper
                                     THEN Search!Rest \o [i \in DOMAIN order |-> <<order[i], Search!Top[2] + 1>>]
                                     ELSE Search!Rest]
    BY <1>3 DEF Search!ListDirectory
  <2>2. PICK found, d, rest, pushed, new :
          /\ found = walk.found \cup seen /\ d = Search!Top[2] /\ rest = Search!Rest
          /\ pushed = rest \o [i \in DOMAIN order |-> <<order[i], d + 1>>]
          /\ new = IF Search!Full(found) THEN <<>> ELSE IF walk.recursive /\ d < walk.depth THEN pushed ELSE rest
    OBVIOUS
  <2>3. walk' = [walk EXCEPT !.found = found, !.visited = @ + 1, !.truncated = Search!Full(found), !.stack = new]
    BY <2>1, <2>2 DEF Search!Full
  <2>4. /\ walk'.found = found /\ walk'.visited = walk.visited + 1
        /\ walk'.truncated = Search!Full(found) /\ walk'.stack = new
        /\ walk'.op = walk.op /\ walk'.root = walk.root /\ walk'.limit = walk.limit
        /\ walk'.depth = walk.depth /\ walk'.recursive = walk.recursive
        /\ walk'.clean = walk.clean /\ walk'.out = walk.out
    BY <1>1, <2>3 DEF Walks
  <2>5. ~Search!Full(found) => seen = Search!Listable
    BY <1>1, <2>1, <2>2 DEF Walks, Search!Full
  <2>6. Search!Listable \in SUBSET Paths
    BY DEF Search!Listable, Search!Children
  <2>7. walk.stack \in Seq(Places) /\ walk.depth \in Nat /\ walk.visited \in Nat /\ walk.recursive \in BOOLEAN
    BY <1>1 DEF Walks, Places
  <2>8. rest = SubSeq(walk.stack, 1, Len(walk.stack) - 1) /\ d = walk.stack[Len(walk.stack)][2]
    BY <2>2 DEF Search!Rest, Search!Top
  <2>9. d \in Nat /\ d + 1 \in Nat
    <3>1. walk.stack[Len(walk.stack)] \in Places
      BY <1>1, <2>7, TakenFromTheTop
    <3>. QED
      BY <2>8, <3>1 DEF Places
  <2>10. PICK S \in SUBSET Paths : S = {q \in Search!Listable : tree[q] = "dir"}
    BY <2>6
  <2>11. /\ rest \in Seq(Places)
         /\ \A i \in DOMAIN rest : i \in DOMAIN walk.stack /\ i # Len(walk.stack) /\ rest[i] = walk.stack[i]
         /\ \A i \in DOMAIN walk.stack : i = Len(walk.stack) \/ i \in DOMAIN rest
    BY <1>1, <2>7, <2>8, TakenFromTheTop
  <2>12. StackedOn(walk.stack, S, d + 1, pushed)
    <3>1. order \in Search!SetToSeqs(S)
      BY <2>10
    <3>5. PICK e \in Nat : e = d + 1
      BY <2>9
    <3>2. PICK stack, more : stack = walk.stack /\ more = [i \in DOMAIN order |-> <<order[i], d + 1>>]
      OBVIOUS
    <3>3. /\ stack \in Seq(Places) /\ stack # <<>> /\ rest = SubSeq(stack, 1, Len(stack) - 1)
          /\ more = [i \in DOMAIN order |-> <<order[i], e>>] /\ pushed = rest \o more
      BY <1>1, <2>2, <2>7, <2>8, <3>2, <3>5
    <3>4. StackedOn(stack, S, e, pushed)
      BY <3>1, <3>3, StackOfEntries
    <3>. QED
      BY <3>2, <3>4, <3>5
  <2>21. /\ pushed \in Seq(Places)
         /\ \A k \in DOMAIN pushed :
              \/ \E i \in DOMAIN walk.stack : i # Len(walk.stack) /\ pushed[k] = walk.stack[i]
              \/ \E c \in S : pushed[k] = <<c, d + 1>>
         /\ \A i \in DOMAIN walk.stack : i = Len(walk.stack) \/ \E k \in DOMAIN pushed : pushed[k] = walk.stack[i]
         /\ \A c \in S : \E k \in DOMAIN pushed : pushed[k] = <<c, d + 1>>
    BY <2>12, Zenon DEF StackedOn
  <2>13. new \in Seq(Places) /\ walk'.stack \in Seq(Places)
    BY <2>2, <2>4, <2>11, <2>21
  <2>14. walk' \in Walks
    <3>1. found \in SUBSET (Paths \cup (Paths \X Nat))
      BY <1>1, <2>1, <2>2, <2>6 DEF Walks
    <3>2. walk.visited + 1 \in Nat /\ Search!Full(found) \in BOOLEAN
      BY <2>7 DEF Search!Full
    <3>3. new \in Seq(Paths \X Nat)
      BY <2>13 DEF Places
    <3>. QED
      BY <1>1, <2>3, <3>1, <3>2, <3>3 DEF Walks
  <2>15. Tidy'
    BY <1>1, <2>2, <2>4 DEF Tidy
  <2>16. ASSUME Looking' PROVE ListGoesOn'
    <3>1. ~Search!Full(found) /\ found = walk.found \cup Search!Listable
      BY <2>2, <2>4, <2>5, <2>16 DEF Looking
    <3>2. Looking
      BY <1>1, <2>4, <2>16 DEF Looking, Tidy
    <3>3. ListGoesOn
      BY <1>1, <3>2 DEF SearchInv, FoundInPlace, Search!Idle
    <3>4. Search!Going("list")
      BY <1>1 DEF Search!Going
    <3>5. Search!Listable \subseteq Listed
      BY <1>1, <3>2, <3>4, ListableIsListed
    <3>6. walk'.found \subseteq Listed
      BY <2>4, <3>1, <3>3, <3>5 DEF ListGoesOn
    <3>7. \A i \in DOMAIN walk.stack :
             /\ Waiting(walk.stack[i]) /\ ~Search!Skipped(walk.root, walk.stack[i][1])
             /\ walk.stack[i][2] > 0 => walk.recursive /\ walk.stack[i][2] <= walk.depth
      BY <3>3 DEF ListGoesOn
    <3>8. ASSUME NEW q \in Listed, q \notin walk'.found,
                 ~\E i \in DOMAIN walk.stack : i # Len(walk.stack) /\ walk.stack[i][1] \in Search!Above(q)
          PROVE  /\ walk.recursive /\ d < walk.depth
                 /\ \E c \in S : c \in Search!Above(q)
      <4>1. q \notin walk.found /\ q \notin Search!Listable
        BY <2>4, <3>1, <3>8
      <4>2. \E i \in DOMAIN walk.stack : walk.stack[i][1] \in Search!Above(q)
        BY <3>3, <4>1 DEF ListGoesOn
      <4>3. Search!Top[1] \in Search!Above(q)
        BY <3>8, <4>2 DEF Search!Top
      <4>4. /\ walk.recursive /\ Search!Top[2] < walk.depth
            /\ \E c \in Search!Listable : tree[c] = "dir" /\ c \in Search!Above(q)
        BY <1>1, <3>2, <3>4, <4>1, <4>3, EntriesCover
      <4>. QED
        BY <2>2, <2>10, <4>4
    <3>9. CASE walk.recursive /\ d < walk.depth
      <4>1. walk'.stack = pushed
        BY <2>2, <2>4, <3>1, <3>9
      <4>2. ASSUME NEW c \in S
            PROVE  Waiting(<<c, d + 1>>) /\ ~Search!Skipped(walk.root, c) /\ walk.recursive /\ d + 1 <= walk.depth
        <5>1. Waiting(<<c, d + 1>>) /\ ~Search!Skipped(walk.root, c)
          BY <1>1, <2>2, <2>10, <3>2, <3>4, <3>9, ListableIsListed
        <5>2. d + 1 <= walk.depth
          BY <2>7, <2>9, <3>9
        <5>. QED
          BY <3>9, <5>1, <5>2
      <4>3. \A i \in DOMAIN walk'.stack :
              /\ Waiting(walk'.stack[i]) /\ ~Search!Skipped(walk.root, walk'.stack[i][1])
              /\ walk'.stack[i][2] > 0 => walk.recursive /\ walk'.stack[i][2] <= walk.depth
        <5>1. ASSUME NEW k \in DOMAIN pushed
              PROVE  /\ Waiting(pushed[k]) /\ ~Search!Skipped(walk.root, pushed[k][1])
                     /\ pushed[k][2] > 0 => walk.recursive /\ pushed[k][2] <= walk.depth
          <6>1. CASE \E i \in DOMAIN walk.stack : i # Len(walk.stack) /\ pushed[k] = walk.stack[i]
            BY <3>7, <6>1
          <6>2. CASE \E c \in S : pushed[k] = <<c, d + 1>>
            BY <4>2, <6>2
          <6>. QED
            BY <2>21, <6>1, <6>2
        <5>. QED
          BY <4>1, <5>1
      <4>4. ASSUME NEW q \in Listed, q \notin walk'.found
            PROVE  \E k \in DOMAIN walk'.stack : walk'.stack[k][1] \in Search!Above(q)
        <5>1. CASE \E i \in DOMAIN walk.stack : i # Len(walk.stack) /\ walk.stack[i][1] \in Search!Above(q)
          BY <2>21, <4>1, <5>1, Zenon
        <5>2. CASE \E c \in S : c \in Search!Above(q)
          <6>1. PICK c \in S : c \in Search!Above(q)
            BY <5>2
          <6>2. PICK k \in DOMAIN pushed : pushed[k] = <<c, d + 1>>
            BY <2>21
          <6>. QED
            BY <4>1, <6>1, <6>2
        <5>. QED
          BY <3>8, <4>4, <5>1, <5>2
      <4>5. \A q \in Listed : q \in walk'.found \/ \E k \in DOMAIN walk'.stack : walk'.stack[k][1] \in Search!Above(q)
        BY <4>4
      <4>. QED
        BY <1>1, <2>4, <3>6, <4>3, <4>5, ListStillGoesOn
    <3>10. CASE ~(walk.recursive /\ d < walk.depth)
      <4>1. walk'.stack = rest
        BY <2>2, <2>4, <3>1, <3>10
      <4>2. \A i \in DOMAIN walk'.stack :
              /\ Waiting(walk'.stack[i]) /\ ~Search!Skipped(walk.root, walk'.stack[i][1])
              /\ walk'.stack[i][2] > 0 => walk.recursive /\ walk'.stack[i][2] <= walk.depth
        BY <2>11, <3>7, <4>1
      <4>3. ASSUME NEW q \in Listed, q \notin walk'.found
            PROVE  \E k \in DOMAIN walk'.stack : walk'.stack[k][1] \in Search!Above(q)
        <5>1. PICK i \in DOMAIN walk.stack : i # Len(walk.stack) /\ walk.stack[i][1] \in Search!Above(q)
          BY <3>8, <3>10, <4>3
        <5>2. i \in DOMAIN rest /\ rest[i] = walk.stack[i]
          BY <2>11, <5>1
        <5>. QED
          BY <4>1, <5>1, <5>2
      <4>4. \A q \in Listed : q \in walk'.found \/ \E k \in DOMAIN walk'.stack : walk'.stack[k][1] \in Search!Above(q)
        BY <4>3
      <4>. QED
        BY <1>1, <2>4, <3>6, <4>2, <4>4, ListStillGoesOn
    <3>. QED
      BY <3>9, <3>10
  <2>17. Whole(tree)' /\ created'.said = created'.made
    BY <1>1 DEF Whole
  <2>18. walk'.op = "list" /\ walk'.out = "none"
    BY <1>1, <2>4
  <2>19. Looking' => FoundInPlace'
    BY <2>16, <2>18 DEF FoundInPlace
  <2>20. Search!NothingIsLeftOutSilently'
    BY <2>18 DEF Search!NothingIsLeftOutSilently
  <2>. QED
    BY <2>14, <2>15, <2>17, <2>19, <2>20 DEF SearchInv
<1>. QED
  BY <1>2, <1>3

\* What a walk that ended found is everything it had to find.
LEMMA FoundIsAll ==
  ASSUME walk' \in Walks,
         walk'.out = "ok" /\ walk'.clean /\ ~walk'.truncated =>
            /\ walk'.op = "list" => walk'.found = Listed'
            /\ walk'.op = "ripgrep" => walk'.found = HitsOf(Asked)'
            /\ walk'.op = "inprocess" => walk'.found = HitsOf(Sought)'
  PROVE  Search!NothingIsLeftOutSilently'
<1>1. walk'.op \in {"list", "ripgrep", "inprocess"}
  BY DEF Walks
<1>2. ASSUME walk'.op = "list", walk'.found = Listed' PROVE Search!NothingIsLeftOutSilently'
  BY <1>2 DEF Search!NothingIsLeftOutSilently, Listed, ListDepth
<1>3. ASSUME walk'.op = "ripgrep", walk'.found = HitsOf(Asked)' PROVE Search!NothingIsLeftOutSilently'
  BY <1>3 DEF Search!NothingIsLeftOutSilently, HitsOf, Asked
<1>4. ASSUME walk'.op = "inprocess", walk'.found = HitsOf(Sought)' PROVE Search!NothingIsLeftOutSilently'
  BY <1>4 DEF Search!NothingIsLeftOutSilently, HitsOf, Sought
<1>5. ASSUME ~(walk'.out = "ok" /\ walk'.clean /\ ~walk'.truncated) PROVE Search!NothingIsLeftOutSilently'
  BY <1>5 DEF Search!NothingIsLeftOutSilently
<1>. QED
  BY <1>1, <1>2, <1>3, <1>4, <1>5

LEMMA ListEndsStep ==
  ASSUME SearchInv, Search!ListEnds
  PROVE  SearchInv'
<1>1. /\ walk.op = "list" /\ walk.out = "none" /\ walk.stack = <<>>
      /\ tree' = tree /\ created' = created
  BY DEF Search!ListEnds, Search!Going, Search!Still
<1>2. walk \in Walks /\ Whole(tree) /\ created.said = created.made
  BY <1>1 DEF SearchInv, Search!Idle
<1>3. PICK kept \in SUBSET walk.found :
        walk' = [walk EXCEPT !.found = kept, !.out = "ok", !.truncated = @ \/ kept # walk.found]
  BY DEF Search!ListEnds
<1>4. /\ walk'.found = kept /\ walk'.out = "ok" /\ walk'.truncated = (walk.truncated \/ kept # walk.found)
      /\ walk'.op = walk.op /\ walk'.root = walk.root /\ walk'.depth = walk.depth
      /\ walk'.recursive = walk.recursive /\ walk'.clean = walk.clean
  BY <1>2, <1>3 DEF Walks
<1>5. walk' \in Walks
  <2>1. (walk.truncated \/ kept # walk.found) \in BOOLEAN
    OBVIOUS
  <2>2. kept \in SUBSET (Paths \cup (Paths \X Nat))
    BY <1>2 DEF Walks
  <2>. QED
    BY <1>2, <1>3, <2>1, <2>2 DEF Walks
<1>6. ASSUME walk'.clean, ~walk'.truncated PROVE walk'.found = Listed'
  <2>1. Looking /\ kept = walk.found
    BY <1>1, <1>4, <1>6 DEF Looking
  <2>2. ListGoesOn
    BY <1>1, <2>1 DEF SearchInv, FoundInPlace, Search!Idle
  <2>3. DOMAIN walk.stack = {}
    BY <1>1
  <2>4. walk.found = Listed
    BY <2>2, <2>3 DEF ListGoesOn
  <2>5. Listed' = Listed
    BY <1>1, <1>4, LookedForTheSame
  <2>. QED
    BY <1>4, <2>1, <2>4, <2>5
<1>7. Search!NothingIsLeftOutSilently'
  BY <1>1, <1>4, <1>5, <1>6, FoundIsAll
<1>8. Tidy' /\ ~Looking'
  BY <1>1, <1>4 DEF Tidy, Looking
<1>9. Whole(tree)' /\ created'.said = created'.made
  BY <1>1, <1>2 DEF Whole
<1>. QED
  BY <1>5, <1>7, <1>8, <1>9 DEF SearchInv

-----------------------------------------------------------------------------
(* The other steps.                                                        *)

\* A walk starts at its root, below which is all that it has to find.
LEMMA StartStep ==
  ASSUME SearchInv, Search!Start
  PROVE  SearchInv'
<1>1. tree' = tree /\ created' = created /\ Whole(tree) /\ created.said = created.made
  BY DEF Search!Start, SearchInv
<1>2. PICK op \in {"list", "ripgrep", "inprocess"}, root \in Paths,
           limit \in 1..MaxLimit, depth \in 0..MaxDepth, recursive \in BOOLEAN :
        /\ Search!Place(root) = "workspace" /\ tree[root] # "link"
        /\ walk' = [op |-> op, root |-> root, limit |-> limit, depth |-> depth,
                    recursive |-> recursive, stack |-> << <<root, 0>> >>, found |-> {},
                    visited |-> 0, truncated |-> FALSE, clean |-> TRUE, out |-> "none"]
  BY DEF Search!Start
<1>3. limit \in Nat \ {0} /\ depth \in Nat
  BY LimitsAssumption
<1>4. /\ walk'.op = op /\ walk'.root = root /\ walk'.depth = depth /\ walk'.stack = << <<root, 0>> >>
      /\ walk'.found = {} /\ walk'.truncated = FALSE /\ walk'.out = "none"
  BY <1>2
<1>5. << <<root, 0>> >> \in Seq(Paths \X Nat)
  OBVIOUS
<1>6. walk' \in Walks
  BY <1>2, <1>3, <1>5 DEF Walks
<1>7. /\ DOMAIN walk'.stack = {1} /\ walk'.stack[1] = <<root, 0>>
  BY <1>4
<1>8. /\ Search!IsPrefix(root, root) /\ Len(root) = Len(root) + 0
      /\ \A q \in Search!Above(root) : ~(Len(q) > Len(root))
  <2>1. Len(root) \in Nat
    BY PathsAssumption
  <2>2. Search!IsPrefix(root, root)
    BY PrefixesAreOrdered
  <2>3. ASSUME NEW q \in Search!Above(root) PROVE ~(Len(q) > Len(root))
    <3>1. q \in Paths /\ Len(q) < Len(root)
      BY APathIsAbove
    <3>2. Len(q) \in Nat
      BY <3>1, PathsAssumption
    <3>. QED
      BY <2>1, <3>1, <3>2
  <2>. QED
    BY <2>1, <2>2, <2>3
<1>9. Waiting(<<root, 0>>)'
  BY <1>4, <1>8 DEF Waiting
<1>10. ~Search!Skipped(root, root)
  BY DEF Search!Skipped
<1>11. ASSUME op = "list" PROVE ListGoesOn'
  <2>1. ASSUME NEW q \in Listed' PROVE root \in Search!Above(q)
    <3>1. q \in Paths /\ q # root /\ Search!IsPrefix(root, q)
      BY <1>4 DEF Listed, Search!Below
    <3>. QED
      BY <3>1, APathIsAbove
  <2>2. \A i \in DOMAIN walk'.stack : Waiting(walk.stack[i])'
    BY <1>7, <1>9 DEF Waiting
  <2>3. \A i \in DOMAIN walk'.stack : ~Search!Skipped(walk'.root, walk'.stack[i][1]) /\ ~(walk'.stack[i][2] > 0)
    BY <1>4, <1>7, <1>10
  <2>. QED
    BY <1>4, <1>7, <2>1, <2>2, <2>3 DEF ListGoesOn
<1>12. ASSUME op = "inprocess" PROVE SearchGoesOn'
  <2>1. ASSUME NEW q \in Sought' PROVE Search!IsPrefix(root, q)
    BY <1>4, <1>8 DEF Sought, Search!Below
  <2>2. \A i \in DOMAIN walk'.stack : Waiting(walk.stack[i])'
    BY <1>7, <1>9 DEF Waiting
  <2>3. \A i \in DOMAIN walk'.stack : walk'.stack[i][2] <= walk'.depth + 1
    BY <1>3, <1>4, <1>7
  <2>. QED
    BY <1>4, <1>7, <2>1, <2>2, <2>3 DEF SearchGoesOn
<1>13. FoundInPlace'
  BY <1>4, <1>11, <1>12 DEF FoundInPlace
<1>14. Tidy' /\ Search!NothingIsLeftOutSilently'
  BY <1>4, FS_EmptySet DEF Tidy, Search!NothingIsLeftOutSilently
<1>15. Whole(tree)' /\ created'.said = created'.made
  BY <1>1 DEF Whole
<1>. QED
  BY <1>6, <1>13, <1>14, <1>15 DEF SearchInv

\* What a change of the workspace leaves out is not held against the walk.
LEMMA ChangeStep ==
  ASSUME SearchInv, Search!FsWrite \/ Search!FsRename \/ Search!Removed
  PROVE  SearchInv'
<1>1. Whole(tree') /\ created'.said = created'.made
  BY ChangeLeavesATree DEF SearchInv
<1>2. walk' = IF walk.op = "none" THEN walk ELSE [walk EXCEPT !.clean = FALSE]
  BY ChangeLeavesATree DEF SearchInv, Search!Change
<1>3. CASE walk = Search!Idle
  <2>1. walk' = Search!Idle /\ walk'.op = "none"
    BY <1>2, <1>3 DEF Search!Idle
  <2>2. walk' = Search!Idle'
    BY <2>1 DEF Search!Idle
  <2>3. Search!NothingIsLeftOutSilently'
    BY <2>1 DEF Search!NothingIsLeftOutSilently
  <2>. QED
    BY <1>1, <2>2, <2>3 DEF SearchInv, Whole
<1>4. CASE walk # Search!Idle
  <2>1. walk \in Walks /\ Tidy
    BY <1>4 DEF SearchInv
  <2>2. walk' = [walk EXCEPT !.clean = FALSE]
    BY <1>2, <2>1 DEF Walks
  <2>3. /\ walk' \in Walks /\ walk'.clean = FALSE /\ walk'.out = walk.out /\ walk'.op = walk.op
        /\ walk'.truncated = walk.truncated /\ walk'.stack = walk.stack /\ walk'.found = walk.found
    BY <2>1, <2>2 DEF Walks
  <2>4. Tidy'
    BY <2>1, <2>3 DEF Tidy
  <2>5. ~Looking' /\ Search!NothingIsLeftOutSilently'
    BY <2>3 DEF Looking, Search!NothingIsLeftOutSilently
  <2>. QED
    BY <1>1, <2>3, <2>4, <2>5 DEF SearchInv, Whole
<1>. QED
  BY <1>3, <1>4

LEMMA DeadlineStep ==
  ASSUME SearchInv, Search!DeadlinePasses
  PROVE  SearchInv'
<1>1. /\ walk.op # "none" /\ walk' = [walk EXCEPT !.out = "error"]
      /\ tree' = tree /\ created' = created
  BY DEF Search!DeadlinePasses, Search!Fails, Search!Still
<1>2. walk # Search!Idle
  BY <1>1 DEF Search!Idle
<1>. QED
  BY <1>1, <1>2, EndedWalk

LEMMA SearchEndsStep ==
  ASSUME SearchInv, Search!SearchEnds
  PROVE  SearchInv'
<1>1. /\ walk.op = "inprocess" /\ walk.out = "none" /\ walk.stack = <<>>
      /\ walk' = [walk EXCEPT !.out = "ok"] /\ tree' = tree /\ created' = created
  BY DEF Search!SearchEnds, Search!Going, Search!Still
<1>2. walk \in Walks /\ Tidy /\ Whole(tree) /\ created.said = created.made
  BY <1>1 DEF SearchInv, Search!Idle
<1>3. /\ walk' \in Walks /\ walk'.found = walk.found /\ walk'.out = "ok" /\ walk'.truncated = walk.truncated
      /\ walk'.op = walk.op /\ walk'.root = walk.root /\ walk'.depth = walk.depth
      /\ walk'.recursive = walk.recursive /\ walk'.clean = walk.clean
  BY <1>1, <1>2 DEF Walks
<1>4. ASSUME walk'.clean, ~walk'.truncated PROVE walk'.found = HitsOf(Sought)'
  <2>1. Looking
    BY <1>1, <1>3, <1>4 DEF Looking
  <2>2. SearchGoesOn
    BY <1>1, <2>1 DEF SearchInv, FoundInPlace, Search!Idle
  <2>3. DOMAIN walk.stack = {}
    BY <1>1
  <2>4. walk.found = HitsOf(Sought)
    BY <2>2, <2>3 DEF SearchGoesOn, HitsOf
  <2>5. HitsOf(Sought)' = HitsOf(Sought)
    BY <1>1, <1>3, LookedForTheSame
  <2>. QED
    BY <1>3, <2>4, <2>5
<1>5. Search!NothingIsLeftOutSilently'
  BY <1>1, <1>3, <1>4, FoundIsAll
<1>6. Tidy' /\ ~Looking'
  BY <1>1, <1>2, <1>3 DEF Tidy, Looking
<1>7. Whole(tree)' /\ created'.said = created'.made
  BY <1>1, <1>2 DEF Whole
<1>. QED
  BY <1>3, <1>5, <1>6, <1>7 DEF SearchInv

\* What ripgrep prints a match of is what it was asked for, but for what is not text.
LEMMA AskedIsPrinted ==
  ASSUME Whole(tree), walk \in Walks, walk.op = "ripgrep", NEW p
  PROVE  p \in Asked <=> p \in Search!Printed /\ tree[p] = "text"
<1>1. PICK root \in Paths : root = walk.root
  BY DEF Walks
<1>6. PICK depth \in Nat : depth = walk.depth
  BY DEF Walks
<1>2. root \in Paths /\ Len(root) \in Nat /\ \A q \in Paths : Len(q) \in Nat
  BY <1>1, PathsAssumption DEF Walks
<1>3. ASSUME NEW n \in (Len(root) + 1)..(Len(p) - 1), p \in Paths
      PROVE  SubSeq(p, 1, n) \in Search!Above(p) /\ Len(SubSeq(p, 1, n)) = n /\ n > Len(root)
  <2>1. n \in Nat /\ n > Len(root) /\ n \in 0..(Len(p) - 1)
    BY <1>2, <1>3
  <2>2. p \in Seq(STRING) /\ Len(p) \in Nat
    BY <1>3, PathsAssumption
  <2>3. Len(SubSeq(p, 1, n)) = n
    BY <2>1, <2>2
  <2>. QED
    BY <2>1, <2>3 DEF Search!Above
<1>4. ASSUME p \in Asked PROVE p \in Search!Printed /\ tree[p] = "text"
  <2>1. tree[p] = "text" /\ (p \in Ignored => p = root \/ Search!Generated(root))
    BY <1>1, <1>4 DEF Asked
  <2>2. CASE p = root
    <3>1. Search!IsPrefix(root, p) /\ Len(p) - Len(root) <= depth
      BY <1>1, <1>2, <1>6, <2>2, PrefixesAreOrdered
    <3>2. (Len(root) + 1)..(Len(p) - 1) = {}
      BY <1>2, <2>2
    <3>. QED
      BY <1>1, <1>2, <1>6, <2>1, <2>2, <3>1, <3>2 DEF Search!Printed, Search!Opened
  <2>3. CASE p # root
    <3>1. /\ p \in Paths /\ Search!IsPrefix(root, p) /\ Len(p) - Len(root) <= depth
          /\ \A q \in Search!Above(p) : Len(q) > Len(root) /\ tree[q] = "dir" /\ Search!Skipped(root, q)
                => Search!Generated(root)
      BY <1>1, <1>4, <1>6, <2>3 DEF Asked, Search!Below
    <3>2. ASSUME NEW n \in (Len(root) + 1)..(Len(p) - 1), ~Search!Generated(root)
          PROVE  ~Search!Skipped(root, SubSeq(p, 1, n))
      <4>1. SubSeq(p, 1, n) \in Search!Above(p) /\ Len(SubSeq(p, 1, n)) > Len(root)
        BY <1>3, <3>1
      <4>2. tree[SubSeq(p, 1, n)] = "dir"
        BY <2>1, <3>1, <4>1 DEF Whole
      <4>. QED
        BY <3>1, <3>2, <4>1, <4>2
    <3>. QED
      BY <1>1, <1>6, <2>1, <3>1, <3>2 DEF Search!Printed, Search!Opened
  <2>. QED
    BY <2>2, <2>3
<1>5. ASSUME p \in Search!Printed, tree[p] = "text" PROVE p \in Asked
  <2>1. /\ p \in Paths /\ Search!IsPrefix(root, p) /\ Len(p) - Len(root) <= depth
        /\ \/ Search!Generated(root)
           \/ \A n \in (Len(root) + 1)..(Len(p) - 1) : ~Search!Skipped(root, SubSeq(p, 1, n))
        /\ p \in Ignored => p = root \/ Search!Generated(root)
    BY <1>1, <1>5, <1>6 DEF Search!Printed, Search!Opened
  <2>2. ASSUME NEW q \in Search!Above(p) \cup {p}, Len(q) > Len(root), tree[q] = "dir", Search!Skipped(root, q)
        PROVE  Search!Generated(root)
    <3>1. q \in Search!Above(p)
      BY <1>5, <2>2
    <3>2. PICK n \in 0..(Len(p) - 1) : q = SubSeq(p, 1, n)
      BY <3>1 DEF Search!Above
    <3>3. Len(q) = n
      <4>1. p \in Seq(STRING) /\ Len(p) \in Nat
        BY <2>1, PathsAssumption
      <4>. QED
        BY <3>2, <4>1
    <3>4. n \in (Len(root) + 1)..(Len(p) - 1)
      BY <1>2, <2>2, <3>2, <3>3
    <3>. QED
      BY <2>1, <2>2, <3>2, <3>4
  <2>3. p # root => p \in Search!Below(depth)
    BY <1>1, <1>5, <1>6, <2>1, <2>2 DEF Search!Below, Search!Exists
  <2>. QED
    BY <1>1, <1>5, <1>6, <2>1, <2>3 DEF Asked
<1>. QED
  BY <1>4, <1>5

LEMMA RipgrepMatchStep ==
  ASSUME SearchInv, Search!RipgrepMatch
  PROVE  SearchInv'
<1>1. walk.op = "ripgrep" /\ walk.out = "none" /\ tree' = tree /\ created' = created
  BY DEF Search!RipgrepMatch, Search!Going, Search!Still
<1>2. walk \in Walks /\ Tidy /\ Whole(tree) /\ created.said = created.made
  BY <1>1 DEF SearchInv, Search!Idle
<1>3. CASE Search!Fails
  <2>1. walk # Search!Idle
    BY <1>1 DEF Search!Idle
  <2>. QED
    BY <1>1, <1>3, <2>1, EndedWalk DEF Search!Fails
<1>4. CASE ~Search!Fails
  <2>12. PICK p \in Search!Printed : \E hit \in Search!Hits(p) :
          /\ Search!Readable(tree[p])
          /\ walk' = [walk EXCEPT !.found = walk.found \cup {hit}, !.truncated = Search!Full(walk.found \cup {hit}),
                        !.out = IF Search!Cardinality(walk.found \cup {hit}) >= walk.limit THEN "ok" ELSE "none"]
    BY <1>4 DEF Search!RipgrepMatch
  <2>1. PICK hit \in Search!Hits(p) :
          /\ Search!Readable(tree[p])
          /\ walk' = [walk EXCEPT !.found = walk.found \cup {hit}, !.truncated = Search!Full(walk.found \cup {hit}),
                        !.out = IF Search!Cardinality(walk.found \cup {hit}) >= walk.limit THEN "ok" ELSE "none"]
    BY <2>12
  <2>13. PICK found : found = walk.found \cup {hit}
    OBVIOUS
  <2>14. PICK full \in BOOLEAN : full = Search!Full(found)
    <3>1. Search!Full(found) \in BOOLEAN
      BY DEF Search!Full
    <3>. QED
      BY <3>1
  <2>2. found = walk.found \cup {hit} /\ full = Search!Full(found)
    BY <2>13, <2>14
  <2>3. walk' = [walk EXCEPT !.found = found, !.truncated = full, !.out = IF full THEN "ok" ELSE "none"]
    BY <2>1, <2>2 DEF Search!Full
  <2>4. p \in Asked /\ p \in Paths
    <3>1. tree[p] = "text"
      BY <2>1 DEF Search!Readable
    <3>. QED
      BY <1>1, <1>2, <3>1, AskedIsPrinted DEF Search!Printed, Search!Opened
  <2>5. hit \in Paths \X Nat
    <3>1. Matching[Search!Followed(p)] \in Nat
      BY <2>4, PathsAssumption DEF Search!Followed
    <3>. QED
      BY <2>4, <3>1 DEF Search!Hits
  <2>6. found \in SUBSET (Paths \cup (Paths \X Nat))
    BY <1>2, <2>2, <2>5 DEF Walks
  <2>7. walk' \in Walks
    BY <1>2, <2>3, <2>6 DEF Walks
  <2>8. /\ walk'.found = found /\ walk'.truncated = full /\ walk'.out = IF full THEN "ok" ELSE "none"
        /\ walk'.op = walk.op /\ walk'.root = walk.root /\ walk'.depth = walk.depth
        /\ walk'.recursive = walk.recursive /\ walk'.clean = walk.clean
    BY <1>2, <2>3 DEF Walks
  <2>9. ASSUME Looking' PROVE FoundInPlace'
    <3>1. Looking
      BY <1>1, <1>2, <2>8, <2>9 DEF Looking, Tidy
    <3>2. walk.found \subseteq HitsOf(Asked)
      BY <1>1, <3>1 DEF SearchInv, FoundInPlace, Search!Idle
    <3>3. found \subseteq HitsOf(Asked)
      BY <2>2, <2>4, <3>2 DEF HitsOf
    <3>4. HitsOf(Asked)' = HitsOf(Asked)
      BY <1>1, <2>8, LookedForTheSame
    <3>. QED
      BY <1>1, <2>8, <3>3, <3>4 DEF FoundInPlace
  <2>10. Tidy' /\ Search!NothingIsLeftOutSilently'
    BY <1>1, <2>8 DEF Tidy, Search!NothingIsLeftOutSilently
  <2>11. Whole(tree)' /\ created'.said = created'.made
    BY <1>1, <1>2 DEF Whole
  <2>. QED
    BY <2>7, <2>9, <2>10, <2>11 DEF SearchInv
<1>. QED
  BY <1>3, <1>4

LEMMA RipgrepEndsStep ==
  ASSUME SearchInv, Search!RipgrepEnds
  PROVE  SearchInv'
<1>1. /\ walk.op = "ripgrep" /\ walk.out = "none" /\ HitsOf(Search!Printed) \subseteq walk.found
      /\ tree' = tree /\ created' = created
      /\ Search!Fails \/ walk' = [walk EXCEPT !.out = "ok"]
  BY DEF Search!RipgrepEnds, Search!Going, Search!Still, HitsOf
<1>2. walk \in Walks /\ Whole(tree) /\ created.said = created.made
  BY <1>1 DEF SearchInv, Search!Idle
<1>f. CASE Search!Fails
  <2>1. walk # Search!Idle
    BY <1>1 DEF Search!Idle
  <2>. QED
    BY <1>1, <1>f, <2>1, EndedWalk DEF Search!Fails
<1>. SUFFICES ASSUME walk' = [walk EXCEPT !.out = "ok"] PROVE SearchInv'
  BY <1>1, <1>f
<1>3. /\ walk' \in Walks /\ walk'.found = walk.found /\ walk'.out = "ok" /\ walk'.truncated = walk.truncated
      /\ walk'.op = walk.op /\ walk'.root = walk.root /\ walk'.depth = walk.depth
      /\ walk'.recursive = walk.recursive /\ walk'.clean = walk.clean
  BY <1>1, <1>2 DEF Walks
<1>4. ASSUME walk'.clean, ~walk'.truncated PROVE walk'.found = HitsOf(Asked)'
  <2>1. Looking
    BY <1>1, <1>3, <1>4 DEF Looking
  <2>2. walk.found \subseteq HitsOf(Asked)
    BY <1>1, <2>1 DEF SearchInv, FoundInPlace, Search!Idle
  <2>3. HitsOf(Asked) \subseteq HitsOf(Search!Printed)
    <3>1. Asked \subseteq Search!Printed
      BY <1>1, <1>2, AskedIsPrinted
    <3>. QED
      BY <3>1 DEF HitsOf
  <2>4. HitsOf(Asked)' = HitsOf(Asked)
    BY <1>1, <1>3, LookedForTheSame
  <2>5. walk.found = HitsOf(Asked)
    BY <1>1, <2>2, <2>3
  <2>. QED
    BY <1>3, <2>4, <2>5
<1>5. Search!NothingIsLeftOutSilently'
  BY <1>1, <1>3, <1>4, FoundIsAll
<1>6. Tidy' /\ ~Looking'
  BY <1>1, <1>3 DEF Tidy, Looking
<1>7. Whole(tree)' /\ created'.said = created'.made
  BY <1>1, <1>2 DEF Whole
<1>. QED
  BY <1>3, <1>5, <1>6, <1>7 DEF SearchInv

-----------------------------------------------------------------------------
(* The matches of one file.                                                *)

LEMMA FirstMatches ==
  ASSUME NEW p \in Paths, NEW n \in Nat, NEW m \in Nat, m = Matching[Search!Followed(p)],
         NEW first, first = Search!FirstHits(p, n)
  PROVE  /\ IsFiniteSet(first) /\ first \subseteq Search!Hits(p)
         /\ m <= n => first = Search!Hits(p)
         /\ ~(m <= n) => Cardinality(first) = n
<1>1. Search!Hits(p) = {<<p, i>> : i \in 1..m}
  BY DEF Search!Hits
<1>2. first = {hit \in Search!Hits(p) : hit[2] <= n}
  BY DEF Search!FirstHits
<1>3. first \subseteq Search!Hits(p)
  BY <1>2
<1>4. PICK k \in Nat : k = IF m <= n THEN m ELSE n
  OBVIOUS
<1>5. first = {<<p, i>> : i \in 1..k}
  <2>1. ASSUME NEW i \in 1..m, i <= n PROVE i \in 1..k
    BY <1>4, <2>1
  <2>2. ASSUME NEW i \in 1..k PROVE i \in 1..m /\ i <= n
    BY <1>4, <2>2
  <2>3. ASSUME NEW hit \in first PROVE hit \in {<<p, i>> : i \in 1..k}
    <3>1. PICK i \in 1..m : hit = <<p, i>>
      BY <1>1, <1>3, <2>3
    <3>2. i <= n
      BY <1>2, <2>3, <3>1
    <3>. QED
      BY <2>1, <3>1, <3>2
  <2>4. ASSUME NEW i \in 1..k PROVE <<p, i>> \in first
    BY <1>1, <1>2, <2>2, <2>4
  <2>. QED
    BY <2>3, <2>4
<1>6. m <= n => first = Search!Hits(p)
  BY <1>1, <1>4, <1>5
<1>7. IsFiniteSet(first) /\ Cardinality(first) = k
  <2>1. PICK f : f = [i \in 1..k |-> <<p, i>>]
    OBVIOUS
  <2>2. f \in [1..k -> first] /\ \A i \in 1..k : f[i] = <<p, i>>
    BY <1>5, <2>1
  <2>3. \A i, j \in 1..k : f[i] = f[j] => i = j
    BY <2>2
  <2>4. \A x \in first : \E i \in 1..k : f[i] = x
    BY <1>5, <2>2
  <2>5. ExistsBijection(1..k, first)
    <3>1. f \in Injection(1..k, first)
      BY <2>2, <2>3 DEF Injection, IsInjective
    <3>2. f \in Surjection(1..k, first)
      BY <2>2, <2>4 DEF Surjection
    <3>. QED
      BY <3>1, <3>2 DEF ExistsBijection, Bijection
  <2>6. Cardinality(first) = k
    BY <2>5, FS_CountingElements
  <2>7. IsFiniteSet(first)
    BY <2>5, FS_NatBijection
  <2>. QED
    BY <2>6, <2>7
<1>8. ~(m <= n) => Cardinality(first) = n
  BY <1>4, <1>7
<1>. QED
  BY <1>3, <1>6, <1>7, <1>8

\* A file of which a match is left out fills the search to its limit.
LEMMA MatchesOfAFile ==
  ASSUME NEW p \in Paths, NEW found, IsFiniteSet(found), walk.limit \in Nat,
         Search!Cardinality(found) < walk.limit,
         NEW first, first = Search!FirstHits(p, walk.limit - Search!Cardinality(found))
  PROVE  /\ IsFiniteSet(found \cup first) /\ first \subseteq Search!Hits(p)
         /\ found \cap Search!Hits(p) = {} /\ ~Search!Full(found \cup first) => first = Search!Hits(p)
<1>1. \A T : Search!Cardinality(T) = Cardinality(T)
  BY DEF Search!Cardinality, Cardinality, Search!IsFiniteSet, IsFiniteSet
<1>2. PICK c \in Nat : c = Cardinality(found)
  BY FS_CardinalityType
<1>3. PICK n \in Nat : n = walk.limit - Search!Cardinality(found) /\ c + n = walk.limit
  BY <1>1, <1>2
<1>4. PICK m \in Nat : m = Matching[Search!Followed(p)]
  <2>1. Search!Followed(p) \in Paths
    BY PathsAssumption DEF Search!Followed
  <2>. QED
    BY <2>1, PathsAssumption
<1>5. first = Search!FirstHits(p, n)
  BY <1>3
<1>6. /\ IsFiniteSet(first) /\ first \subseteq Search!Hits(p)
      /\ m <= n => first = Search!Hits(p)
      /\ ~(m <= n) => Cardinality(first) = n
  BY <1>4, <1>5, FirstMatches
<1>7. /\ IsFiniteSet(found \cup first)
      /\ Cardinality(found \cup first) = Cardinality(found) + Cardinality(first) - Cardinality(found \cap first)
  BY <1>6, FS_Union
<1>8. ASSUME found \cap Search!Hits(p) = {}, ~(m <= n) PROVE Search!Full(found \cup first)
  <2>1. found \cap first = {}
    BY <1>6, <1>8
  <2>2. Cardinality(found \cap first) = 0
    BY <2>1, FS_EmptySet
  <2>3. Cardinality(first) = n
    BY <1>6, <1>8
  <2>4. Cardinality(found \cup first) = c + n - 0
    BY <1>2, <1>7, <2>2, <2>3
  <2>5. Search!Cardinality(found \cup first) = walk.limit
    BY <1>1, <1>3, <2>4
  <2>. QED
    BY <2>5 DEF Search!Full
<1>. QED
  BY <1>6, <1>7, <1>8

-----------------------------------------------------------------------------
(* A step of a search in process.                                          *)

\* Nothing of what a search has to find depends on more than the call and the workspace.
LEMMA SearchStillGoesOn ==
  ASSUME tree' = tree, walk'.op = walk.op, walk'.root = walk.root, walk'.depth = walk.depth,
         walk'.recursive = walk.recursive,
         \A i \in DOMAIN walk'.stack : Waiting(walk'.stack[i]) /\ walk'.stack[i][2] <= walk.depth + 1,
         \A i, j \in DOMAIN walk'.stack : Search!IsPrefix(walk'.stack[i][1], walk'.stack[j][1]) => i = j,
         walk'.found \subseteq HitsOf(Sought),
         \A p \in Paths, i \in DOMAIN walk'.stack :
            Search!IsPrefix(walk'.stack[i][1], p) => walk'.found \cap Search!Hits(p) = {},
         \A q \in Sought : \/ Search!Hits(q) \subseteq walk'.found
                           \/ \E i \in DOMAIN walk'.stack : Search!IsPrefix(walk'.stack[i][1], q)
  PROVE  SearchGoesOn'
<1>1. /\ Sought' = Sought /\ HitsOf(Sought)' = HitsOf(Sought)
      /\ \A p : Search!Hits(p)' = Search!Hits(p)
  BY LookedForTheSame
<1>2. \A i \in DOMAIN walk'.stack : Waiting(walk.stack[i])' /\ walk'.stack[i][2] <= walk'.depth + 1
  BY DEF Waiting
<1>3. \A p \in Paths, i \in DOMAIN walk'.stack :
        Search!IsPrefix(walk'.stack[i][1], p) => walk'.found \cap Search!Hits(p)' = {}
  BY <1>1
<1>4. \A q \in Sought' : \/ Search!Hits(q)' \subseteq walk'.found
                         \/ \E i \in DOMAIN walk'.stack : Search!IsPrefix(walk'.stack[i][1], q)
  BY <1>1
<1>. QED
  BY <1>1, <1>2, <1>3, <1>4 DEF SearchGoesOn

\* What has to be found at or below the path on top is that path, or it is a directory
\* that is looked through and the rest is at or below an entry of it.
LEMMA BelowTheTop ==
  ASSUME Whole(tree), walk \in Walks, walk.op = "inprocess", NEW p \in Paths, NEW d \in Nat, Waiting(<<p, d>>),
         NEW q \in Sought, Search!IsPrefix(p, q)
  PROVE  q \in Paths /\
         \/ p = q
         \/ /\ tree[p] = "dir" /\ d <= walk.depth /\ ~Search!Skipped(walk.root, p)
            /\ \E c \in Search!Children(p) : Search!Exists(c) /\ Search!IsPrefix(c, q)
<1>1. PICK root \in Paths : root = walk.root
  BY DEF Walks
<1>2. PICK depth \in Nat : depth = walk.depth
  BY DEF Walks
<1>3. Search!IsPrefix(root, p) /\ Len(p) = Len(root) + d
  BY <1>1 DEF Waiting
<1>4. \A r \in Paths : Len(r) \in Nat
  BY PathsAssumption
<1>5. CASE q = root
  <2>1. p = q
    BY <1>3, <1>4, <1>5, PrefixesAreOrdered
  <2>. QED
    BY <1>5, <2>1
<1>6. CASE q # root
  <2>1. /\ q \in Paths /\ tree[q] # "none" /\ Len(q) - Len(root) <= depth + 1
        /\ \A r \in Search!Above(q) \cup {q} :
              Len(r) > Len(root) /\ tree[r] = "dir" => ~Search!Skipped(root, r)
    BY <1>1, <1>2, <1>6 DEF Sought, Search!Below, Search!Exists
  <2>2. ASSUME p # q
        PROVE  /\ tree[p] = "dir" /\ d <= depth /\ ~Search!Skipped(root, p)
               /\ \E c \in Search!Children(p) : Search!Exists(c) /\ Search!IsPrefix(c, q)
    <3>1. tree[p] = "dir" /\ p \in Search!Above(q)
      BY <2>1, <2>2, BelowADirectory
    <3>2. \E c \in Search!Children(p) : Search!Exists(c) /\ Search!IsPrefix(c, q)
      BY <2>1, <2>2, BelowADirectory DEF Search!Exists
    <3>3. Len(p) < Len(q)
      BY <2>1, <3>1, APathIsAbove
    <3>4. d <= depth
      <4>1. \A k, m, n \in Nat : k = n + d /\ k < m /\ m - n <= depth + 1 => d <= depth
        OBVIOUS
      <4>. QED
        BY <1>1, <1>3, <1>4, <2>1, <3>3, <4>1
    <3>5. ~Search!Skipped(root, p)
      <4>1. CASE p = root
        BY <4>1 DEF Search!Skipped
      <4>2. CASE p # root
        <5>1. Len(p) > Len(root)
          <6>1. Len(root) # Len(p)
            BY <1>3, <4>2, PrefixesAreOrdered
          <6>. QED
            BY <1>1, <1>3, <1>4, <6>1
        <5>. QED
          BY <2>1, <3>1, <5>1
      <4>. QED
        BY <4>1, <4>2
    <3>. QED
      BY <3>1, <3>2, <3>4, <3>5
  <2>. QED
    BY <1>1, <1>2, <2>1, <2>2
<1>. QED
  BY <1>5, <1>6

LEMMA TopIsSought ==
  ASSUME Whole(tree), walk \in Walks, walk.op = "inprocess", NEW p \in Paths, NEW d \in Nat, Waiting(<<p, d>>),
         d <= walk.depth + 1, tree[Search!Followed(p)] = "text"
  PROVE  p \in Sought
<1>1. PICK root \in Paths : root = walk.root
  BY DEF Walks
<1>2. PICK depth \in Nat : depth = walk.depth
  BY DEF Walks
<1>3. /\ Search!IsPrefix(root, p) /\ Len(p) = Len(root) + d
      /\ \A r \in Search!Above(p) : Len(r) > Len(root) => ~Search!Skipped(root, r)
  BY <1>1 DEF Waiting
<1>4. Len(p) - Len(root) <= depth + 1
  <2>1. Len(root) \in Nat
    BY PathsAssumption
  <2>2. \A n \in Nat : n + d - n = d
    OBVIOUS
  <2>. QED
    BY <1>2, <1>3, <2>1, <2>2
<1>5. tree[p] # "dir" /\ tree[p] # "none"
  BY DEF Search!Followed
<1>6. p # root => p \in Search!Below(depth + 1)
  BY <1>1, <1>2, <1>3, <1>4, <1>5 DEF Search!Below, Search!Exists
<1>. QED
  BY <1>1, <1>2, <1>6 DEF Sought

LEMMA SearchWentOn ==
  ASSUME SearchInv, walk.op = "inprocess", walk.out = "none", tree' = tree, created' = created,
         NEW new \in Seq(Places), NEW found \in SUBSET (Paths \cup (Paths \X Nat)), IsFiniteSet(found),
         NEW visited \in Nat, NEW truncated \in BOOLEAN,
         walk' = [walk EXCEPT !.stack = new, !.found = found, !.visited = visited, !.truncated = truncated],
         Looking' => SearchGoesOn'
  PROVE  SearchInv'
<1>1. walk \in Walks /\ Tidy /\ Whole(tree) /\ created.said = created.made
  BY DEF SearchInv, Search!Idle
<1>2. new \in Seq(Paths \X Nat)
  BY DEF Places
<1>3. walk' \in Walks /\ walk'.op = "inprocess" /\ walk'.found = found /\ walk'.out = "none"
  BY <1>1, <1>2 DEF Walks
<1>4. Tidy' /\ Search!NothingIsLeftOutSilently'
  BY <1>3 DEF Tidy, Search!NothingIsLeftOutSilently
<1>5. Looking' => FoundInPlace'
  BY <1>3 DEF FoundInPlace
<1>6. Whole(tree)' /\ created'.said = created'.made
  BY <1>1 DEF Whole
<1>. QED
  BY <1>3, <1>4, <1>5, <1>6 DEF SearchInv

\* A path that is not looked into leaves the stack.
LEMMA SearchPassedPath ==
  ASSUME Whole(tree), walk \in Walks, walk.op = "inprocess", SearchGoesOn,
         NEW p \in Paths, NEW d \in Nat, walk.stack # <<>>, walk.stack[Len(walk.stack)] = <<p, d>>,
         walk'.stack = SubSeq(walk.stack, 1, Len(walk.stack) - 1),
         NEW more \in SUBSET Search!Hits(p), walk'.found = walk.found \cup more,
         more # {} => p \in Sought,
         p \in Sought => more = Search!Hits(p),
         ~(tree[p] = "dir" /\ d <= walk.depth /\ ~Search!Skipped(walk.root, p)),
         tree' = tree, walk'.op = walk.op, walk'.root = walk.root, walk'.depth = walk.depth,
         walk'.recursive = walk.recursive
  PROVE  SearchGoesOn'
<1>1. PICK stack, rest : stack = walk.stack /\ rest = walk'.stack
  OBVIOUS
<1>2. stack \in Seq(Places) /\ stack # <<>> /\ rest = SubSeq(stack, 1, Len(stack) - 1)
  BY <1>1 DEF Walks, Places
<1>3. /\ \A i \in DOMAIN rest : i \in DOMAIN stack /\ i # Len(stack) /\ rest[i] = stack[i]
      /\ \A i \in DOMAIN stack : i = Len(stack) \/ i \in DOMAIN rest
  BY <1>2, TakenFromTheTop
<1>4. Len(stack) \in DOMAIN stack
  BY <1>2, TakenFromTheTop
<1>5. /\ \A i \in DOMAIN stack : Waiting(stack[i]) /\ stack[i][2] <= walk.depth + 1
      /\ \A i, j \in DOMAIN stack : Search!IsPrefix(stack[i][1], stack[j][1]) => i = j
      /\ walk.found \subseteq HitsOf(Sought)
      /\ \A q \in Paths, i \in DOMAIN stack : Search!IsPrefix(stack[i][1], q) => walk.found \cap Search!Hits(q) = {}
      /\ \A q \in Sought : \/ Search!Hits(q) \subseteq walk.found
                           \/ \E i \in DOMAIN stack : Search!IsPrefix(stack[i][1], q)
  BY <1>1 DEF SearchGoesOn
<1>6. stack[Len(stack)] = <<p, d>> /\ Waiting(<<p, d>>)
  BY <1>1, <1>4, <1>5
<1>7. \A i \in DOMAIN rest : Waiting(rest[i]) /\ rest[i][2] <= walk.depth + 1
  BY <1>3, <1>5
<1>8. \A i, j \in DOMAIN rest : Search!IsPrefix(rest[i][1], rest[j][1]) => i = j
  BY <1>3, <1>5
<1>9. walk'.found \subseteq HitsOf(Sought)
  <2>1. more \subseteq HitsOf(Sought)
    BY DEF HitsOf
  <2>. QED
    BY <1>5, <2>1
<1>10. ASSUME NEW q \in Paths, NEW i \in DOMAIN rest, Search!IsPrefix(rest[i][1], q)
       PROVE  walk'.found \cap Search!Hits(q) = {}
  <2>1. i \in DOMAIN stack /\ i # Len(stack) /\ Search!IsPrefix(stack[i][1], q)
    BY <1>3, <1>10
  <2>2. walk.found \cap Search!Hits(q) = {}
    BY <1>5, <2>1
  <2>3. q # p
    <3>1. ASSUME q = p PROVE FALSE
      <4>1. Search!IsPrefix(stack[i][1], stack[Len(stack)][1])
        BY <1>6, <2>1, <3>1
      <4>. QED
        BY <1>4, <1>5, <2>1, <4>1
    <3>. QED
      BY <3>1
  <2>4. Search!Hits(p) \cap Search!Hits(q) = {}
    BY <2>3 DEF Search!Hits
  <2>. QED
    BY <2>2, <2>4
<1>11. ASSUME NEW q \in Sought, ~(Search!Hits(q) \subseteq walk'.found)
       PROVE  \E i \in DOMAIN rest : Search!IsPrefix(rest[i][1], q)
  <2>1. PICK i \in DOMAIN stack : Search!IsPrefix(stack[i][1], q)
    BY <1>5, <1>11
  <2>2. i # Len(stack)
    <3>1. ASSUME i = Len(stack) PROVE FALSE
      <4>1. Search!IsPrefix(p, q)
        BY <1>6, <2>1, <3>1
      <4>2. p = q
        BY <1>6, <4>1, BelowTheTop
      <4>. QED
        BY <1>11, <4>2
    <3>. QED
      BY <3>1
  <2>3. i \in DOMAIN rest /\ rest[i] = stack[i]
    BY <1>3, <2>2
  <2>. QED
    BY <2>1, <2>3
<1>12. \A q \in Paths, i \in DOMAIN walk'.stack :
         Search!IsPrefix(walk'.stack[i][1], q) => walk'.found \cap Search!Hits(q) = {}
  BY <1>1, <1>10
<1>13. \A q \in Sought : \/ Search!Hits(q) \subseteq walk'.found
                         \/ \E i \in DOMAIN walk'.stack : Search!IsPrefix(walk'.stack[i][1], q)
  BY <1>1, <1>11
<1>. QED
  BY <1>1, <1>7, <1>8, <1>9, <1>12, <1>13, SearchStillGoesOn

\* The entries of a directory take its place on the stack.
LEMMA SearchEnteredDirectory ==
  ASSUME Whole(tree), walk \in Walks, walk.op = "inprocess", SearchGoesOn,
         NEW p \in Paths, NEW d \in Nat, walk.stack # <<>>, walk.stack[Len(walk.stack)] = <<p, d>>,
         NEW S, S = {q \in Search!Children(p) : Search!Exists(q)}, StackedOn(walk.stack, S, d + 1, walk'.stack),
         walk'.found = walk.found, p \notin Sought, d <= walk.depth, ~Search!Skipped(walk.root, p),
         tree' = tree, walk'.op = walk.op, walk'.root = walk.root, walk'.depth = walk.depth,
         walk'.recursive = walk.recursive
  PROVE  SearchGoesOn'
<1>1. PICK stack, new : stack = walk.stack /\ new = walk'.stack
  OBVIOUS
<1>2. stack \in Seq(Places) /\ stack # <<>>
  BY <1>1 DEF Walks, Places
<1>3. /\ \A k \in DOMAIN new :
           \/ \E i \in DOMAIN stack : i # Len(stack) /\ new[k] = stack[i]
           \/ \E c \in S : new[k] = <<c, d + 1>>
      /\ \A i \in DOMAIN stack : i = Len(stack) \/ \E k \in DOMAIN new : new[k] = stack[i]
      /\ \A c \in S : \E k \in DOMAIN new : new[k] = <<c, d + 1>>
  BY <1>1 DEF StackedOn
<1>14. \A i, j \in DOMAIN new : i = j \/
           \/ \E a, b \in DOMAIN stack : a # Len(stack) /\ b # Len(stack) /\ a # b
                                         /\ new[i] = stack[a] /\ new[j] = stack[b]
           \/ \E a \in DOMAIN stack, c \in S :
                /\ a # Len(stack)
                /\ \/ new[i] = stack[a] /\ new[j] = <<c, d + 1>>
                   \/ new[j] = stack[a] /\ new[i] = <<c, d + 1>>
           \/ \E c, e \in S : c # e /\ new[i] = <<c, d + 1>> /\ new[j] = <<e, d + 1>>
  <2>1. StackedOn(stack, S, d + 1, new)
    BY <1>1
  <2>. QED
    BY <2>1, Zenon DEF StackedOn
<1>4. Len(stack) \in DOMAIN stack
  BY <1>2, TakenFromTheTop
<1>5. /\ \A i \in DOMAIN stack : Waiting(stack[i]) /\ stack[i][2] <= walk.depth + 1
      /\ \A i, j \in DOMAIN stack : Search!IsPrefix(stack[i][1], stack[j][1]) => i = j
      /\ walk.found \subseteq HitsOf(Sought)
      /\ \A q \in Paths, i \in DOMAIN stack : Search!IsPrefix(stack[i][1], q) => walk.found \cap Search!Hits(q) = {}
      /\ \A q \in Sought : \/ Search!Hits(q) \subseteq walk.found
                           \/ \E i \in DOMAIN stack : Search!IsPrefix(stack[i][1], q)
  BY <1>1 DEF SearchGoesOn
<1>6. stack[Len(stack)] = <<p, d>> /\ Waiting(<<p, d>>)
  BY <1>1, <1>4, <1>5
<1>7. ASSUME NEW i \in DOMAIN stack
      PROVE  /\ stack[i][1] \in Paths
             /\ Search!IsPrefix(stack[i][1], p) => i = Len(stack)
             /\ Search!IsPrefix(p, stack[i][1]) => i = Len(stack)
  <2>1. stack[i][1] \in Paths
    BY <1>2 DEF Places
  <2>. QED
    BY <1>4, <1>5, <1>6, <2>1
<1>8. ASSUME NEW c \in S
      PROVE  /\ c \in Paths /\ Len(c) = Len(p) + 1 /\ Search!IsPrefix(p, c)
             /\ Search!Above(c) = Search!Above(p) \cup {p}
  <2>1. c \in Search!Children(p)
    BY <1>8
  <2>. QED
    BY <2>1, EntryOfDirectory
<1>9. ASSUME NEW c \in S PROVE Waiting(<<c, d + 1>>) /\ d + 1 <= walk.depth + 1
  <2>1. Search!IsPrefix(walk.root, p) /\ Len(p) = Len(walk.root) + d
        /\ \A q \in Search!Above(p) : Len(q) > Len(walk.root) => ~Search!Skipped(walk.root, q)
    BY <1>6 DEF Waiting
  <2>2. walk.root \in Paths /\ walk.depth \in Nat
    BY DEF Walks
  <2>3. Search!IsPrefix(walk.root, c)
    BY <1>8, <2>1, <2>2, PrefixesAreOrdered
  <2>4. Len(c) = Len(walk.root) + (d + 1)
    <3>1. Len(walk.root) \in Nat
      BY <2>2, PathsAssumption
    <3>2. \A n \in Nat : (n + d) + 1 = n + (d + 1)
      OBVIOUS
    <3>3. Len(c) = (Len(walk.root) + d) + 1
      BY <1>8, <2>1
    <3>. QED
      BY <3>1, <3>2, <3>3
  <2>5. \A q \in Search!Above(c) : Len(q) > Len(walk.root) => ~Search!Skipped(walk.root, q)
    BY <1>8, <2>1
  <2>6. d + 1 <= walk.depth + 1
    BY <2>2
  <2>. QED
    BY <2>3, <2>4, <2>5, <2>6 DEF Waiting
<1>10. ASSUME NEW k \in DOMAIN new PROVE Waiting(new[k]) /\ new[k][2] <= walk.depth + 1
  <2>1. CASE \E i \in DOMAIN stack : i # Len(stack) /\ new[k] = stack[i]
    BY <1>5, <2>1
  <2>2. CASE \E c \in S : new[k] = <<c, d + 1>>
    BY <1>9, <2>2
  <2>. QED
    BY <1>3, <2>1, <2>2
<1>11. ASSUME NEW i \in DOMAIN new, NEW j \in DOMAIN new, Search!IsPrefix(new[i][1], new[j][1]) PROVE i = j
  <2>1. ASSUME NEW a \in DOMAIN stack, NEW b \in DOMAIN stack, a # b, new[i] = stack[a], new[j] = stack[b]
        PROVE  FALSE
    BY <1>5, <1>11, <2>1
  <2>2. ASSUME NEW a \in DOMAIN stack, NEW c \in S, a # Len(stack), new[i] = stack[a], new[j] = <<c, d + 1>>
        PROVE  FALSE
    <3>1. stack[a][1] \in Paths /\ Search!IsPrefix(stack[a][1], c)
      BY <1>7, <1>11, <2>2
    <3>2. stack[a][1] = c \/ stack[a][1] \in Search!Above(c)
      BY <1>8, <3>1, APathIsAbove
    <3>3. CASE stack[a][1] = c
      BY <1>7, <1>8, <2>2, <3>3
    <3>4. CASE stack[a][1] \in Search!Above(p) \cup {p}
      <4>1. Search!IsPrefix(stack[a][1], p)
        BY <3>4, APathIsAbove, PrefixesAreOrdered
      <4>. QED
        BY <1>7, <2>2, <4>1
    <3>. QED
      BY <1>8, <3>2, <3>3, <3>4
  <2>3. ASSUME NEW a \in DOMAIN stack, NEW c \in S, a # Len(stack), new[j] = stack[a], new[i] = <<c, d + 1>>
        PROVE  FALSE
    <3>1. stack[a][1] \in Paths /\ Search!IsPrefix(c, stack[a][1])
      BY <1>7, <1>11, <2>3
    <3>2. Search!IsPrefix(p, stack[a][1])
      BY <1>8, <3>1, PrefixesAreOrdered
    <3>. QED
      BY <1>7, <2>3, <3>2
  <2>4. ASSUME NEW c \in S, NEW e \in S, c # e, new[i] = <<c, d + 1>>, new[j] = <<e, d + 1>> PROVE FALSE
    <3>1. Search!IsPrefix(c, e) /\ c \in Paths /\ e \in Paths /\ Len(c) = Len(e)
      BY <1>8, <1>11, <2>4
    <3>. QED
      BY <2>4, <3>1, PrefixesAreOrdered
  <2>5. CASE \E a, b \in DOMAIN stack : a # Len(stack) /\ b # Len(stack) /\ a # b
                                         /\ new[i] = stack[a] /\ new[j] = stack[b]
    BY <2>1, <2>5, Zenon
  <2>6. CASE \E a \in DOMAIN stack, c \in S :
                /\ a # Len(stack)
                /\ \/ new[i] = stack[a] /\ new[j] = <<c, d + 1>>
                   \/ new[j] = stack[a] /\ new[i] = <<c, d + 1>>
    BY <2>2, <2>3, <2>6, Zenon
  <2>7. CASE \E c, e \in S : c # e /\ new[i] = <<c, d + 1>> /\ new[j] = <<e, d + 1>>
    BY <2>4, <2>7, Zenon
  <2>. QED
    BY <1>14, <2>5, <2>6, <2>7, Zenon
<1>12. ASSUME NEW q \in Paths, NEW k \in DOMAIN new, Search!IsPrefix(new[k][1], q)
       PROVE  walk'.found \cap Search!Hits(q) = {}
  <2>1. CASE \E i \in DOMAIN stack : i # Len(stack) /\ new[k] = stack[i]
    BY <1>5, <1>12, <2>1
  <2>2. CASE \E c \in S : new[k] = <<c, d + 1>>
    <3>1. PICK c \in S : new[k] = <<c, d + 1>>
      BY <2>2
    <3>2. Search!IsPrefix(c, q)
      BY <1>12, <3>1
    <3>3. Search!IsPrefix(stack[Len(stack)][1], q)
      BY <1>6, <1>8, <3>2, PrefixesAreOrdered
    <3>. QED
      BY <1>4, <1>5, <3>3
  <2>. QED
    BY <1>3, <2>1, <2>2
<1>13. ASSUME NEW q \in Sought, ~(Search!Hits(q) \subseteq walk'.found)
       PROVE  \E k \in DOMAIN new : Search!IsPrefix(new[k][1], q)
  <2>1. PICK i \in DOMAIN stack : Search!IsPrefix(stack[i][1], q)
    BY <1>5, <1>13
  <2>2. CASE i # Len(stack)
    BY <1>3, <2>1, <2>2
  <2>3. CASE i = Len(stack)
    <3>1. Search!IsPrefix(p, q)
      BY <1>6, <2>1, <2>3
    <3>2. PICK c \in Search!Children(p) : Search!Exists(c) /\ Search!IsPrefix(c, q)
      BY <1>6, <3>1, BelowTheTop
    <3>3. PICK k \in DOMAIN new : new[k] = <<c, d + 1>>
      BY <1>3, <3>2
    <3>. QED
      BY <3>2, <3>3
  <2>. QED
    BY <2>2, <2>3
<1>15. \A q \in Paths, i \in DOMAIN walk'.stack :
         Search!IsPrefix(walk'.stack[i][1], q) => walk'.found \cap Search!Hits(q) = {}
  BY <1>1, <1>12
<1>16. \A q \in Sought : \/ Search!Hits(q) \subseteq walk'.found
                         \/ \E i \in DOMAIN walk'.stack : Search!IsPrefix(walk'.stack[i][1], q)
  BY <1>1, <1>13
<1>17. \A i \in DOMAIN walk'.stack : Waiting(walk'.stack[i]) /\ walk'.stack[i][2] <= walk.depth + 1
  BY <1>1, <1>10
<1>18. \A i, j \in DOMAIN walk'.stack : Search!IsPrefix(walk'.stack[i][1], walk'.stack[j][1]) => i = j
  BY <1>1, <1>11
<1>. QED
  BY <1>5, <1>15, <1>16, <1>17, <1>18, SearchStillGoesOn

LEMMA SearchPathStep ==
  ASSUME SearchInv, Search!SearchPath
  PROVE  SearchInv'
<1>1. /\ walk.op = "inprocess" /\ walk.out = "none" /\ walk.stack # <<>>
      /\ tree' = tree /\ created' = created
  BY DEF Search!SearchPath, Search!Going, Search!Still
<1>2. walk # Search!Idle
  BY <1>1 DEF Search!Idle
<1>3. walk \in Walks /\ Whole(tree) /\ IsFiniteSet(walk.found)
  BY <1>1, <1>2 DEF SearchInv, Tidy
<1>4. /\ walk.stack \in Seq(Places) /\ walk.visited \in Nat /\ walk.limit \in Nat /\ walk.depth \in Nat
      /\ walk.found \in SUBSET (Paths \cup (Paths \X Nat)) /\ walk.truncated \in BOOLEAN
  BY <1>3 DEF Walks, Places
<1>5. PICK place \in Places : place = walk.stack[Len(walk.stack)]
  BY <1>1, <1>4, TakenFromTheTop
<1>6. PICK p \in Paths : p = place[1]
  BY DEF Places
<1>7. PICK d \in Nat : d = place[2]
  BY DEF Places
<1>8. walk.stack[Len(walk.stack)] = <<p, d>> /\ Search!Top[1] = p /\ Search!Top[2] = d
  BY <1>5, <1>6, <1>7 DEF Places, Search!Top
<1>9. PICK rest \in Seq(Places) : rest = SubSeq(walk.stack, 1, Len(walk.stack) - 1) /\ rest = Search!Rest
  BY <1>1, <1>4, TakenFromTheTop DEF Search!Rest
<1>10. Search!Cardinality(walk.found) \in Nat /\ MaxFiles \in Nat
  <2>1. \A T : Search!Cardinality(T) = Cardinality(T)
    BY DEF Search!Cardinality, Cardinality, Search!IsFiniteSet, IsFiniteSet
  <2>. QED
    BY <1>3, <2>1, FS_CardinalityType, LimitsAssumption
<1>11. PICK S \in SUBSET Paths : S = {q \in Search!Children(p) : Search!Exists(q)}
  BY DEF Search!Children
<1>12. PICK next, first, kind : /\ next = Search!SetToSeq(S) /\ kind = tree[Search!Followed(p)]
                                /\ first = Search!FirstHits(p, walk.limit - Search!Cardinality(walk.found))
  OBVIOUS
<1>13. PICK more, found : more = [i \in DOMAIN next |-> <<next[i], d + 1>>] /\ found = walk.found \cup first
  OBVIOUS
<1>14. \/ walk.visited >= MaxFiles /\ Search!Fails
       \/ /\ walk.visited < MaxFiles /\ Search!Cardinality(walk.found) >= walk.limit
          /\ walk' = [walk EXCEPT !.truncated = TRUE, !.stack = <<>>]
       \/ /\ Search!Cardinality(walk.found) < walk.limit
          /\ kind = "dir" /\ d <= walk.depth /\ ~Search!Skipped(walk.root, p)
          /\ walk' = [walk EXCEPT !.stack = rest \o more]
       \/ /\ Search!Cardinality(walk.found) < walk.limit /\ kind = "text"
          /\ walk' = [walk EXCEPT !.stack = rest, !.found = found, !.visited = @ + 1,
                                  !.truncated = @ \/ Search!Full(found)]
       \/ /\ Search!Cardinality(walk.found) < walk.limit /\ kind # "text"
          /\ ~(kind = "dir" /\ d <= walk.depth /\ ~Search!Skipped(walk.root, p))
          /\ walk' = [walk EXCEPT !.stack = rest]
  BY <1>8, <1>9, <1>11, <1>12, <1>13 DEF Search!SearchPath, Search!Readable
<1>15. CASE Search!Fails
  BY <1>1, <1>2, <1>15, EndedWalk DEF Search!Fails
<1>16. CASE walk' = [walk EXCEPT !.truncated = TRUE, !.stack = <<>>]
  <2>1. /\ walk' = [walk EXCEPT !.stack = <<>>, !.found = walk.found, !.visited = walk.visited, !.truncated = TRUE]
        /\ walk'.truncated = TRUE
    BY <1>3, <1>16 DEF Walks
  <2>2. <<>> \in Seq(Places) /\ ~Looking'
    BY <2>1 DEF Looking
  <2>. QED
    BY <1>1, <1>3, <1>4, <2>1, <2>2, SearchWentOn
<1>17. CASE /\ kind = "dir" /\ d <= walk.depth /\ ~Search!Skipped(walk.root, p)
            /\ walk' = [walk EXCEPT !.stack = rest \o more]
  <2>1. PICK new : new = rest \o more
    OBVIOUS
  <2>2. PICK e \in Nat : e = d + 1
    OBVIOUS
  <2>3. PICK stack : stack = walk.stack
    OBVIOUS
  <2>4. /\ stack \in Seq(Places) /\ stack # <<>> /\ rest = SubSeq(stack, 1, Len(stack) - 1)
        /\ next = Search!SetToSeq(S) /\ more = [i \in DOMAIN next |-> <<next[i], e>>]
    BY <1>1, <1>4, <1>9, <1>12, <1>13, <2>2, <2>3
  <2>5. StackedOn(stack, S, e, new)
    BY <2>1, <2>4, StackOfEntries
  <2>6. StackedOn(walk.stack, S, d + 1, new) /\ new \in Seq(Places)
    <3>1. StackedOn(walk.stack, S, d + 1, new)
      BY <2>2, <2>3, <2>5
    <3>2. new \in Seq(Places)
      BY <2>5, Zenon DEF StackedOn
    <3>. QED
      BY <3>1, <3>2
  <2>7. /\ walk' = [walk EXCEPT !.stack = new, !.found = walk.found, !.visited = walk.visited, !.truncated = walk.truncated]
        /\ walk'.stack = new /\ walk'.found = walk.found /\ walk'.truncated = walk.truncated
        /\ walk'.op = walk.op /\ walk'.root = walk.root /\ walk'.depth = walk.depth
        /\ walk'.recursive = walk.recursive /\ walk'.clean = walk.clean /\ walk'.out = walk.out
    BY <1>3, <1>17, <2>1 DEF Walks
  <2>8. ASSUME Looking' PROVE SearchGoesOn'
    <3>1. SearchGoesOn
      BY <1>1, <1>2, <2>7, <2>8 DEF SearchInv, FoundInPlace, Looking
    <3>2. p \notin Sought
      BY <1>12, <1>17 DEF Sought
    <3>3. StackedOn(walk.stack, S, d + 1, walk'.stack)
      BY <2>6, <2>7
    <3>. QED
      BY <1>1, <1>3, <1>8, <1>11, <1>17, <2>7, <3>1, <3>2, <3>3, SearchEnteredDirectory
  <2>. QED
    BY <1>1, <1>3, <1>4, <2>6, <2>7, <2>8, SearchWentOn
<1>18. CASE /\ Search!Cardinality(walk.found) < walk.limit /\ kind = "text"
            /\ walk' = [walk EXCEPT !.stack = rest, !.found = found, !.visited = @ + 1,
                                    !.truncated = @ \/ Search!Full(found)]
  <2>1. /\ IsFiniteSet(found) /\ first \subseteq Search!Hits(p)
        /\ walk.found \cap Search!Hits(p) = {} /\ ~Search!Full(found) => first = Search!Hits(p)
    <3>1. PICK before : before = walk.found
      OBVIOUS
    <3>2. /\ IsFiniteSet(before) /\ Search!Cardinality(before) < walk.limit
          /\ first = Search!FirstHits(p, walk.limit - Search!Cardinality(before)) /\ found = before \cup first
      BY <1>3, <1>12, <1>13, <1>18, <3>1
    <3>3. /\ IsFiniteSet(before \cup first) /\ first \subseteq Search!Hits(p)
          /\ before \cap Search!Hits(p) = {} /\ ~Search!Full(before \cup first) => first = Search!Hits(p)
      BY <1>4, <3>2, MatchesOfAFile
    <3>. QED
      BY <3>1, <3>2, <3>3
  <2>2. Search!Hits(p) \subseteq Paths \X Nat
    <3>1. Matching[Search!Followed(p)] \in Nat
      BY PathsAssumption DEF Search!Followed
    <3>. QED
      BY <3>1 DEF Search!Hits
  <2>3. found \in SUBSET (Paths \cup (Paths \X Nat))
    BY <1>4, <1>13, <2>1, <2>2
  <2>4. PICK truncated \in BOOLEAN : truncated = (walk.truncated \/ Search!Full(found))
    OBVIOUS
  <2>5. PICK visited \in Nat : visited = walk.visited + 1
    BY <1>4
  <2>6. walk' = [walk EXCEPT !.stack = rest, !.found = found, !.visited = visited, !.truncated = truncated]
    BY <1>18, <2>4, <2>5
  <2>7. /\ walk'.stack = rest /\ walk'.found = found /\ walk'.truncated = truncated
        /\ walk'.op = walk.op /\ walk'.root = walk.root /\ walk'.depth = walk.depth
        /\ walk'.recursive = walk.recursive /\ walk'.clean = walk.clean /\ walk'.out = walk.out
    BY <1>3, <2>6 DEF Walks
  <2>8. ASSUME Looking' PROVE SearchGoesOn'
    <3>1. Looking /\ ~Search!Full(found)
      BY <2>4, <2>7, <2>8 DEF Looking
    <3>2. SearchGoesOn
      BY <1>1, <1>2, <3>1 DEF SearchInv, FoundInPlace
    <3>3. Len(walk.stack) \in DOMAIN walk.stack
      BY <1>1, <1>4, TakenFromTheTop
    <3>4. Waiting(<<p, d>>) /\ d <= walk.depth + 1
      BY <1>8, <3>2, <3>3 DEF SearchGoesOn
    <3>5. p \in Sought
      BY <1>1, <1>3, <1>12, <1>18, <3>4, TopIsSought
    <3>6. walk.found \cap Search!Hits(p) = {}
      BY <1>8, <3>2, <3>3, PrefixesAreOrdered DEF SearchGoesOn
    <3>7. first = Search!Hits(p)
      BY <2>1, <3>1, <3>6
    <3>8. tree[p] # "dir"
      BY <1>12, <1>18 DEF Search!Followed
    <3>9. walk'.stack = SubSeq(walk.stack, 1, Len(walk.stack) - 1) /\ walk'.found = walk.found \cup first
      BY <1>9, <1>13, <2>7
    <3>. QED
      BY <1>1, <1>3, <1>8, <2>1, <2>7, <3>2, <3>5, <3>7, <3>8, <3>9, SearchPassedPath
  <2>. QED
    BY <1>1, <2>1, <2>3, <2>6, <2>8, SearchWentOn
<1>19. CASE /\ kind # "text" /\ ~(kind = "dir" /\ d <= walk.depth /\ ~Search!Skipped(walk.root, p))
            /\ walk' = [walk EXCEPT !.stack = rest]
  <2>1. /\ walk' = [walk EXCEPT !.stack = rest, !.found = walk.found, !.visited = walk.visited, !.truncated = walk.truncated]
        /\ walk'.stack = rest /\ walk'.found = walk.found /\ walk'.truncated = walk.truncated
        /\ walk'.op = walk.op /\ walk'.root = walk.root /\ walk'.depth = walk.depth
        /\ walk'.recursive = walk.recursive /\ walk'.clean = walk.clean /\ walk'.out = walk.out
    BY <1>3, <1>19 DEF Walks
  <2>2. ASSUME Looking' PROVE SearchGoesOn'
    <3>1. SearchGoesOn
      BY <1>1, <1>2, <2>1, <2>2 DEF SearchInv, FoundInPlace, Looking
    <3>2. p \notin Sought
      BY <1>12, <1>19 DEF Sought
    <3>3. ~(tree[p] = "dir" /\ d <= walk.depth /\ ~Search!Skipped(walk.root, p))
      BY <1>12, <1>19 DEF Search!Followed
    <3>4. PICK none \in SUBSET Search!Hits(p) : none = {}
      OBVIOUS
    <3>5. walk'.stack = SubSeq(walk.stack, 1, Len(walk.stack) - 1) /\ walk'.found = walk.found \cup none
      BY <1>9, <2>1, <3>4
    <3>6. (none # {} => p \in Sought) /\ (p \in Sought => none = Search!Hits(p))
      BY <3>2, <3>4
    <3>. QED
      <4>1. /\ Whole(tree) /\ walk \in Walks /\ walk.op = "inprocess" /\ walk.stack # <<>>
            /\ walk.stack[Len(walk.stack)] = <<p, d>> /\ tree' = tree
        BY <1>1, <1>3, <1>8
      <4>2. /\ walk'.op = walk.op /\ walk'.root = walk.root /\ walk'.depth = walk.depth
            /\ walk'.recursive = walk.recursive
        BY <2>1
      <4>. QED
        BY <3>1, <3>3, <3>4, <3>5, <3>6, <4>1, <4>2, SearchPassedPath
  <2>. QED
    BY <1>1, <1>3, <1>4, <2>1, <2>2, SearchWentOn
<1>. QED
  BY <1>14, <1>15, <1>16, <1>17, <1>18, <1>19

LEMMA SearchBegins ==
  ASSUME Search!Init PROVE SearchInv
<1>1. tree \in Trees /\ walk = Search!Idle /\ created.said = created.made
  BY DEF Search!Init
<1>2. Whole(tree)
  BY <1>1, TreesAssumption DEF Whole, Kinds
<1>3. Search!NothingIsLeftOutSilently
  BY <1>1 DEF Search!NothingIsLeftOutSilently, Search!Idle
<1>. QED
  BY <1>1, <1>2, <1>3 DEF SearchInv

LEMMA SearchStutters ==
  ASSUME SearchInv, UNCHANGED Search!vars PROVE SearchInv'
<1>1. tree' = tree /\ walk' = walk /\ created' = created
  BY DEF Search!vars
<1>2. CASE walk = Search!Idle
  <2>1. walk' = Search!Idle' /\ walk'.op = "none"
    BY <1>1, <1>2 DEF Search!Idle
  <2>2. Search!NothingIsLeftOutSilently'
    BY <2>1 DEF Search!NothingIsLeftOutSilently
  <2>. QED
    BY <1>1, <2>1, <2>2 DEF SearchInv, Whole
<1>3. CASE walk # Search!Idle
  <2>1. walk' \in Walks /\ Tidy'
    BY <1>1, <1>3 DEF SearchInv, Walks, Tidy
  <2>2. ASSUME Looking' PROVE FoundInPlace'
    <3>1. FoundInPlace
      BY <1>1, <1>3, <2>2 DEF SearchInv, Looking
    <3>2. ASSUME walk.op = "list" PROVE ListGoesOn'
      <4>1. ListGoesOn
        BY <3>1, <3>2 DEF FoundInPlace
      <4>. QED
        BY <1>1, <4>1, ListStillGoesOn DEF ListGoesOn
    <3>3. ASSUME walk.op = "inprocess" PROVE SearchGoesOn'
      <4>1. SearchGoesOn
        BY <3>1, <3>3 DEF FoundInPlace
      <4>. QED
        BY <1>1, <4>1, SearchStillGoesOn DEF SearchGoesOn
    <3>4. walk.op = "ripgrep" => walk.found \subseteq HitsOf(Asked)
      BY <3>1 DEF FoundInPlace
    <3>5. HitsOf(Asked)' = HitsOf(Asked)
      BY <1>1, LookedForTheSame
    <3>. QED
      BY <1>1, <3>2, <3>3, <3>4, <3>5 DEF FoundInPlace
  <2>3. Search!NothingIsLeftOutSilently'
    <3>1. Search!NothingIsLeftOutSilently
      BY DEF SearchInv
    <3>2. /\ walk.op = "list" => Listed' = Listed
          /\ HitsOf(Asked)' = HitsOf(Asked) /\ HitsOf(Sought)' = HitsOf(Sought)
      BY <1>1, LookedForTheSame
    <3>3. walk \in Walks
      BY <1>3 DEF SearchInv
    <3>4. walk.op \in {"list", "ripgrep", "inprocess"}
      BY <3>3 DEF Walks
    <3>5. walk.out = "ok" /\ walk.clean /\ ~walk.truncated =>
            /\ walk.op = "list" => walk.found = Listed
            /\ walk.op = "ripgrep" => walk.found = HitsOf(Asked)
            /\ walk.op = "inprocess" => walk.found = HitsOf(Sought)
      BY <3>1, <3>4 DEF Search!NothingIsLeftOutSilently, Listed, ListDepth, HitsOf, Asked, Sought
    <3>. QED
      BY <1>1, <2>1, <3>2, <3>5, FoundIsAll
  <2>. QED
    BY <1>1, <1>3, <2>1, <2>2, <2>3 DEF SearchInv, Whole
<1>. QED
  BY <1>2, <1>3

LEMMA SearchKeepsInv ==
  ASSUME SearchInv, [Search!Next]_(Search!vars) PROVE SearchInv'
<1>1. CASE Search!Next
  BY <1>1, ChangeStep, StartStep, DeadlineStep, ListDirectoryStep, ListEndsStep, SearchPathStep,
     SearchEndsStep, RipgrepMatchStep, RipgrepEndsStep DEF Search!Next
<1>2. CASE UNCHANGED Search!vars
  BY <1>2, SearchStutters
<1>. QED
  BY <1>1, <1>2

LEMMA NothingLeftOut ==
  SearchInv => Search!NothingIsLeftOutSilently /\ Search!CreatedDirectoriesAreReported
  BY DEF SearchInv, Search!CreatedDirectoriesAreReported

-----------------------------------------------------------------------------
(* The parts together.                                                     *)

\* A behaviour stays in its part and takes the steps of it.
LEMMA PartsDoNotMeet ==
  ASSUME [Next]_vars
  PROVE  /\ part' = part
         /\ part = "runner" => [Runner!Next]_(Runner!vars)
         /\ part = "goals" => [Goals!Next]_(Goals!vars)
         /\ part = "files" => [Files!Next]_(Files!vars)
         /\ part = "search" => [Search!Next]_(Search!vars)
<1>1. CASE UNCHANGED vars
  BY <1>1 DEF vars, runnerVars, goalsVars, filesVars, searchVars, Runner!vars, Runner!skillVars,
     Goals!vars, Files!vars, Search!vars
<1>2. CASE Next
  BY <1>2 DEF Next, runnerVars, goalsVars, filesVars, searchVars
<1>. QED
  BY <1>1, <1>2

\* A skill is told once, memory that is off is off and no file of a trace is written over,
\* however sessions are cleared, saved and opened (RunnerState's modules in src/agent).
THEOREM RunnersAreConsistent == Spec => []RunnerIsConsistent
<1>. DEFINE J == part = "runner" => RunnerInv
<1>0. EditLimits
  BY LimitsAssumption DEF EditLimits
<1>1. Init => J
  BY <1>0, RunnerBegins DEF Init
<1>2. J /\ [Next]_vars => J'
  BY <1>0, PartsDoNotMeet, RunnerKeepsInv
<1>3. J => RunnerIsConsistent
  BY RunnerConsistent DEF RunnerIsConsistent
<1>. QED
  BY <1>1, <1>2, <1>3, PTL DEF Spec

\* Whoever follows next_offset through a file nobody changes reads every line once and
\* comes to an end, lines longer than a page included (bounded_read_window).
THEOREM PagesCoverEveryFile == Spec => []PagesCoverTheFile
<1>. DEFINE J == part = "files" => FilesInv
<1>0. PageHasLines
  BY LimitsAssumption DEF PageHasLines
<1>1. Init => J
  BY FilesBegin DEF Init
<1>2. J /\ [Next]_vars => J'
  BY <1>0, PartsDoNotMeet, FilesKeepInv
<1>3. J => PagesCoverTheFile
  BY PagesFollow DEF PagesCoverTheFile
<1>. QED
  BY <1>1, <1>2, <1>3, PTL DEF Spec

\* An edit takes only the lines it names and keeps the others, and a replacement changes no
\* more lines than it reports (fs_edit, fs_replace), of files of any length.
THEOREM ChangesAreThosePlanned == Spec => []ChangesAreAsPlanned
<1>. DEFINE J == part = "files" => FilesInv
<1>0. PageHasLines
  BY LimitsAssumption DEF PageHasLines
<1>1. Init => J
  BY FilesBegin DEF Init
<1>2. J /\ [Next]_vars => J'
  BY <1>0, PartsDoNotMeet, FilesKeepInv
<1>3. J => ChangesAreAsPlanned
  BY ChangesFollow DEF ChangesAreAsPlanned
<1>. QED
  BY <1>1, <1>2, <1>3, PTL DEF Spec

\* What a goal run reports is the number of prompts it sent, and the progress log names
\* every checkpoint once and in order (run_goal_checkpoints, record_goal_progress).
THEOREM GoalRunsAreCounted == Spec => []GoalRunIsCounted
<1>. DEFINE J == part = "goals" => GoalInv
<1>0. LimitOfRun
  BY LimitsAssumption DEF LimitOfRun
<1>1. Init => J
  BY GoalBegins DEF Init
<1>2. J /\ [Next]_vars => J'
  <2>1. ASSUME GoalInv, [Goals!Next]_(Goals!vars) PROVE GoalInv'
    BY <2>1, <1>0, GoalCommandKeepsInv, OrdinaryAnswerKeepsInv, GoalRunKeepsInv,
       CheckpointKeepsInv, OthersKeepInv DEF Goals!Next
  <2>. QED
    BY <2>1, PartsDoNotMeet
<1>3. J => GoalRunIsCounted
  <2>1. GoalInv => Goals!GoalRunIsCounted
    BY DEF GoalInv, Logged, Goal, WorkIsCounted, Goals!GoalRunIsCounted
  <2>. QED
    BY <2>1 DEF GoalRunIsCounted
<1>. QED
  BY <1>1, <1>2, <1>3, PTL DEF Spec

\* A list or a search that ended and does not say that it was cut has found what was there
\* all along and nothing else, in any workspace and whatever the limits; and the directories
\* that a write or a move reports as created are those it created (fs_list, fs_search and
\* fs_rename in src/tools/fs.rs).
THEOREM NothingIsLeftOut == Spec => []NothingIsLeftOutSilently
<1>. DEFINE J == part = "search" => SearchInv
<1>1. Init => J
  BY SearchBegins DEF Init
<1>2. J /\ [Next]_vars => J'
  BY PartsDoNotMeet, SearchKeepsInv
<1>3. J => NothingIsLeftOutSilently
  BY NothingLeftOut DEF NothingIsLeftOutSilently
<1>. QED
  BY <1>1, <1>2, <1>3, PTL DEF Spec
=============================================================================
