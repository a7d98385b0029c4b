------------------------- MODULE SubagentTeamProofs -------------------------
(***************************************************************************)
(* Theorems about SubagentTeam, for every limit and every number of ids:   *)
(* what the team says of a worker is true of its task, a verdict stands,   *)
(* and the team implements WorkerPool.                                     *)
(***************************************************************************)
EXTENDS SubagentTeam, FiniteSetTheorems, TLAPS

\* The workers the pool calls busy, and those it calls used.
Busy == {w \in Workers : state[w] = "running" \/ call = w}
Used == {w \in Workers : state[w] # "absent"}

\* Ids that were not handed out are of nobody, and nobody waits for them.
FreshIds == \A w \in Workers :
              (w >= next_worker => state[w] = "absent") /\ (state[w] = "absent" => call # w)
WithinLimit == Cardinality(Busy) <= MaxConcurrency

\* TypeOK and StateTellsTask keep each other; FreshIds and WithinLimit are what the
\* limit and the pool need besides.
Inv == TypeOK /\ StateTellsTask /\ FreshIds /\ WithinLimit

-----------------------------------------------------------------------------
(* The sets the limit is about are finite.                                 *)

LEMMA WorkersFinite == IsFiniteSet(Workers)
  BY FS_Interval, SpawnAssumption DEF Workers

LEMMA SmallerSet ==
  ASSUME NEW T, IsFiniteSet(T), NEW S \in SUBSET T
  PROVE  IsFiniteSet(S) /\ Cardinality(S) <= Cardinality(T)
  BY FS_Subset

\* One worker more than fewer than the limit is within it.
LEMMA OneMore ==
  ASSUME NEW S \in SUBSET Workers, NEW x \in Workers, Cardinality(S) < MaxConcurrency
  PROVE  Cardinality(S \cup {x}) <= MaxConcurrency
<1>1. IsFiniteSet(S)
  BY WorkersFinite, SmallerSet
<1>2. Cardinality(S) \in Nat /\ (Cardinality(S \cup {x}) = Cardinality(S) \/ Cardinality(S \cup {x}) = Cardinality(S) + 1)
  BY <1>1, FS_AddElement, FS_CardinalityType
<1>. QED
  BY <1>2, ConcurrencyAssumption

\* A set of workers that is part of one within the limit is within it.
LEMMA Fewer ==
  ASSUME NEW T \in SUBSET Workers, NEW S \in SUBSET T, Cardinality(T) <= MaxConcurrency
  PROVE  Cardinality(S) <= MaxConcurrency
<1>1. IsFiniteSet(T)
  BY WorkersFinite, SmallerSet
<1>2. Cardinality(S) <= Cardinality(T)
  BY <1>1, SmallerSet
<1>3. Cardinality(S) \in Nat /\ Cardinality(T) \in Nat
  BY <1>1, SmallerSet, FS_CardinalityType
<1>. QED
  BY <1>2, <1>3, ConcurrencyAssumption

-----------------------------------------------------------------------------
(* The invariant.                                                          *)

LEMMA InitInv == Init => Inv
<1>. SUFFICES ASSUME Init PROVE Inv
  OBVIOUS
<1>1. New \in [from : 0..MaxSpawns, how : {"spawn", "followup", "replacement"}]
  BY SpawnAssumption DEF New
<1>a. TypeOK
  <2>1. origin \in [Workers -> [from : 0..MaxSpawns, how : {"spawn", "followup", "replacement"}]]
    BY <1>1 DEF Init
  <2>2. next_worker \in 1..(MaxSpawns + 1) /\ call \in 0..(MaxSpawns + 1)
    BY SpawnAssumption DEF Init, NoCall
  <2>. QED
    BY <2>1, <2>2 DEF Init, TypeOK, WorkerStates, TaskStates, Modes
<1>2. StateTellsTask /\ FreshIds
  BY DEF Init, StateTellsTask, FreshIds, NoCall, Workers
<1>3. Busy = {}
  BY DEF Init, Busy, NoCall, Workers
<1>4. WithinLimit
  BY <1>3, FS_EmptySet, ConcurrencyAssumption DEF WithinLimit
<1>. QED
  BY <1>a, <1>2, <1>4 DEF Inv

\* StartWorker, with some workers cancelled before.
LEMMA StartKeepsInv ==
  ASSUME Inv, Free, NEW s \in SUBSET Running(state), NEW m \in Modes,
         NEW from \in [from : 0..MaxSpawns, how : {"spawn", "followup", "replacement"}],
         NEW fits \in BOOLEAN,
         StartWorker(AsCancelled(s), Abort(s), m, from, fits)
  PROVE  Inv'
<1>. DEFINE states == AsCancelled(s)
            tasks == Abort(s)
            begins == MayReserve(states) /\ fits /\ (m = "work" => parent_mode = "work")
<1>0. /\ states \in [Workers -> WorkerStates]
      /\ tasks \in [Workers -> TaskStates]
      /\ next_worker \in Workers /\ MaxSpawns \in Nat
  BY SpawnAssumption DEF Inv, TypeOK, AsCancelled, Abort, WorkerStates, TaskStates, StartWorker
<1>1. CASE begins
  <2>1. /\ state' = [states EXCEPT ![next_worker] = "running"]
        /\ task' = [tasks EXCEPT ![next_worker] = "running"]
        /\ next_worker' = next_worker + 1
        /\ mode' = [mode EXCEPT ![next_worker] = m]
        /\ origin' = [origin EXCEPT ![next_worker] = from]
        /\ UNCHANGED <<call, detached, parent_mode, closed>>
    BY <1>1 DEF StartWorker, IdAfter
  <2>2. TypeOK'
    BY <1>0, <2>1 DEF Inv, TypeOK, Workers, WorkerStates, TaskStates
  <2>3. StateTellsTask'
    BY <1>0, <2>1 DEF Inv, StateTellsTask, AsCancelled, Abort, Running, Free, NoCall
  <2>4. FreshIds'
    <3>. SUFFICES ASSUME NEW w \in Workers, w >= next_worker + 1
                  PROVE  state'[w] = "absent"
      BY <2>1 DEF FreshIds, Free, NoCall, Workers
    <3>1. w >= next_worker /\ w # next_worker
      BY <1>0 DEF Workers
    <3>2. state[w] = "absent"
      BY <3>1 DEF Inv, FreshIds
    <3>3. states[w] = "absent"
      BY <3>2 DEF AsCancelled, Running
    <3>. QED
      BY <1>0, <2>1, <3>1, <3>2, <3>3
  <2>5. Busy' = Running(states) \cup {next_worker}
    BY <1>0, <2>1 DEF Busy, Running, Free, NoCall, Workers
  <2>6. WithinLimit'
    BY <1>0, <1>1, <2>5, OneMore DEF WithinLimit, MayReserve, Running
  <2>. QED
    BY <2>2, <2>3, <2>4, <2>6 DEF Inv
<1>2. CASE ~begins
  <2>1. /\ state' = states /\ task' = tasks
        /\ next_worker' \in {next_worker, next_worker + 1}
        /\ UNCHANGED <<mode, origin, call, detached, parent_mode, closed>>
    BY <1>2 DEF StartWorker, IdAfter
  <2>2. TypeOK'
    BY <1>0, <2>1 DEF Inv, TypeOK, Workers
  <2>3. StateTellsTask'
    BY <1>0, <2>1 DEF Inv, StateTellsTask, AsCancelled, Abort, Running, Free, NoCall
  <2>4. FreshIds'
    BY <1>0, <2>1 DEF Inv, FreshIds, AsCancelled, Running, Workers, Free, NoCall
  <2>5. Busy' \in SUBSET Busy /\ Busy \in SUBSET Workers
    BY <1>0, <2>1 DEF Busy, AsCancelled, Running, Free, NoCall, Workers
  <2>6. WithinLimit'
    BY <2>5, Fewer DEF WithinLimit, Inv
  <2>. QED
    BY <2>2, <2>3, <2>4, <2>6 DEF Inv
<1>. QED
  BY <1>1, <1>2

\* No worker is cancelled before Spawn and Followup.
LEMMA NoneCancelled == TypeOK => AsCancelled({}) = state /\ Abort({}) = task
  BY DEF TypeOK, AsCancelled, Abort

LEMMA SpawnKeepsInv == Inv /\ Spawn => Inv'
<1>. SUFFICES ASSUME Inv, Spawn PROVE Inv'
  OBVIOUS
<1>1. PICK m \in Modes, fits \in BOOLEAN : StartWorker(state, task, m, New, fits)
  BY DEF Spawn
<1>2. StartWorker(AsCancelled({}), Abort({}), m, New, fits)
  BY <1>1, NoneCancelled DEF Inv
<1>3. New \in [from : 0..MaxSpawns, how : {"spawn", "followup", "replacement"}]
  BY SpawnAssumption DEF New
<1>. QED
  BY <1>2, <1>3, StartKeepsInv DEF Spawn

LEMMA FollowupKeepsInv == ASSUME NEW w \in Workers, Inv, Followup(w) PROVE Inv'
<1>1. StartWorker(AsCancelled({}), Abort({}), mode[w], [from |-> w, how |-> "followup"], TRUE)
  BY NoneCancelled DEF Inv, Followup
<1>2. mode[w] \in Modes
  BY DEF Inv, TypeOK
<1>3. [from |-> w, how |-> "followup"] \in [from : 0..MaxSpawns, how : {"spawn", "followup", "replacement"}]
  BY SpawnAssumption DEF Workers
<1>. QED
  BY <1>1, <1>2, <1>3, StartKeepsInv DEF Followup

LEMMA SteerKeepsInv == ASSUME NEW w \in Workers, Inv, Steer(w) PROVE Inv'
<1>. DEFINE s == {w} \cap Running(state)
<1>1. StartWorker(AsCancelled(s), Abort(s), mode[w], [from |-> w, how |-> "replacement"], TRUE)
  BY DEF Steer
<1>2. mode[w] \in Modes
  BY DEF Inv, TypeOK
<1>3. [from |-> w, how |-> "replacement"] \in [from : 0..MaxSpawns, how : {"spawn", "followup", "replacement"}]
  BY SpawnAssumption DEF Workers
<1>. HIDE DEF s
<1>4. s \in SUBSET Running(state)
  BY DEF s
<1>. QED
  BY <1>1, <1>2, <1>3, <1>4, StartKeepsInv DEF Steer

LEMMA CancelKeepsInv == ASSUME NEW ws \in SUBSET Workers, Inv, Cancel(ws) PROVE Inv'
<1>1. TypeOK'
  BY DEF Inv, Cancel, TypeOK, AsCancelled, Abort, WorkerStates, TaskStates
<1>2. StateTellsTask'
  BY DEF Inv, TypeOK, Cancel, StateTellsTask, AsCancelled, Abort, Running, Free, NoCall
<1>3. FreshIds'
  BY DEF Inv, Cancel, FreshIds, AsCancelled, Running, Free, NoCall, Workers
<1>4. Busy' \in SUBSET Busy /\ Busy \in SUBSET Workers
  BY DEF Inv, TypeOK, Cancel, Busy, AsCancelled, Running
<1>5. WithinLimit'
  BY <1>4, Fewer DEF WithinLimit, Inv
<1>. QED
  BY <1>1, <1>2, <1>3, <1>5 DEF Inv

LEMMA WaitKeepsInv == ASSUME NEW w \in Workers, Inv, Wait(w) PROVE Inv'
<1>1. TypeOK'
  BY SpawnAssumption DEF Inv, Wait, TypeOK, WorkerStates, Workers
<1>2. StateTellsTask'
  BY DEF Inv, TypeOK, Wait, StateTellsTask, Free, NoCall, Workers
<1>3. FreshIds'
  BY DEF Inv, TypeOK, Wait, FreshIds
<1>4. Busy' = Busy
  BY DEF Inv, TypeOK, Wait, Busy, Free, NoCall, Workers
<1>5. WithinLimit'
  BY <1>4 DEF WithinLimit, Inv
<1>. QED
  BY <1>1, <1>2, <1>3, <1>5 DEF Inv

LEMMA WaitReturnsKeepsInv == Inv /\ WaitReturns => Inv'
<1>. SUFFICES ASSUME Inv, WaitReturns PROVE Inv'
  OBVIOUS
<1>1. TypeOK'
  BY SpawnAssumption DEF Inv, WaitReturns, StateAfter, TypeOK, WorkerStates, NoCall
<1>2. StateTellsTask'
  BY DEF Inv, TypeOK, WaitReturns, StateAfter, StateTellsTask, Ended
<1>3. FreshIds'
  BY DEF Inv, TypeOK, WaitReturns, StateAfter, FreshIds, NoCall, Workers
<1>4. Busy' \in SUBSET Busy /\ Busy \in SUBSET Workers
  BY DEF Inv, TypeOK, WaitReturns, StateAfter, Busy, NoCall, Workers
<1>5. WithinLimit'
  BY <1>4, Fewer DEF WithinLimit, Inv
<1>. QED
  BY <1>1, <1>2, <1>3, <1>5 DEF Inv

LEMMA DropCallKeepsInv == Inv /\ DropCall => Inv'
<1>. SUFFICES ASSUME Inv, DropCall PROVE Inv'
  OBVIOUS
<1>1. TypeOK'
  <2>1. call # Helper => call \in Workers
    BY SpawnAssumption DEF Inv, TypeOK, DropCall, Workers, NoCall, Helper
  <2>. QED
    BY <2>1, SpawnAssumption DEF Inv, DropCall, TypeOK, NoCall
<1>2. StateTellsTask'
  <2>1. \A w \in Workers : w \in detached \/ call = w => w \in detached'
    BY SpawnAssumption DEF DropCall, Workers, Helper
  <2>. QED
    BY <2>1 DEF Inv, DropCall, StateTellsTask
<1>3. FreshIds'
  BY DEF Inv, DropCall, FreshIds, NoCall, Workers
<1>4. Busy' \in SUBSET Busy /\ Busy \in SUBSET Workers
  BY DEF DropCall, Busy, NoCall, Workers
<1>5. WithinLimit'
  BY <1>4, Fewer DEF WithinLimit, Inv
<1>. QED
  BY <1>1, <1>2, <1>3, <1>5 DEF Inv

\* The helper has no id and no place in the team.
LEMMA HelperKeepsInv == Inv /\ (RunHelper \/ HelperReturns) => Inv'
<1>. SUFFICES ASSUME Inv, RunHelper \/ HelperReturns PROVE Inv'
  OBVIOUS
<1>1. TypeOK'
  BY SpawnAssumption DEF Inv, RunHelper, HelperReturns, TypeOK, NoCall, Helper
<1>2. call \notin Workers /\ call' \notin Workers
  BY SpawnAssumption DEF RunHelper, HelperReturns, Free, NoCall, Helper, Workers
<1>3. StateTellsTask' /\ FreshIds'
  BY <1>2 DEF Inv, RunHelper, HelperReturns, StateTellsTask, FreshIds
<1>4. Busy' = Busy
  BY <1>2 DEF RunHelper, HelperReturns, Busy
<1>5. WithinLimit'
  BY <1>4 DEF WithinLimit, Inv
<1>. QED
  BY <1>1, <1>3, <1>5 DEF Inv

LEMMA OwnerKeepsInv == Inv /\ (SetMode \/ Close) => Inv'
<1>. SUFFICES ASSUME Inv, SetMode \/ Close PROVE Inv'
  OBVIOUS
<1>1. TypeOK'
  BY DEF Inv, SetMode, Close, TypeOK, Abort, TaskStates, Modes
<1>2. StateTellsTask'
  BY DEF Inv, TypeOK, SetMode, Close, StateTellsTask, Abort, Running
<1>3. FreshIds'
  BY DEF Inv, SetMode, Close, FreshIds
<1>4. Busy' = Busy
  BY DEF SetMode, Close, Busy
<1>5. WithinLimit'
  BY <1>4 DEF WithinLimit, Inv
<1>. QED
  BY <1>1, <1>2, <1>3, <1>5 DEF Inv

LEMMA TasksKeepInv == ASSUME NEW w \in Workers, Inv, TaskEnds(w) \/ TaskStops(w) PROVE Inv'
<1>1. TypeOK'
  BY DEF Inv, TaskEnds, TaskStops, TypeOK, TaskStates
<1>2. StateTellsTask'
  BY DEF Inv, TypeOK, TaskEnds, TaskStops, StateTellsTask
<1>3. FreshIds'
  BY DEF Inv, TaskEnds, TaskStops, FreshIds
<1>4. Busy' = Busy
  BY DEF TaskEnds, TaskStops, Busy
<1>5. WithinLimit'
  BY <1>4 DEF WithinLimit, Inv
<1>. QED
  BY <1>1, <1>2, <1>3, <1>5 DEF Inv

LEMMA StutterKeepsInv == Inv /\ UNCHANGED vars => Inv'
<1>. SUFFICES ASSUME Inv, UNCHANGED vars PROVE Inv'
  OBVIOUS
<1>1. Busy' = Busy
  BY DEF vars, Busy
<1>. QED
  BY <1>1 DEF vars, Inv, TypeOK, StateTellsTask, FreshIds, WithinLimit

LEMMA NextKeepsInv == Inv /\ [Next]_vars => Inv'
<1>. SUFFICES ASSUME Inv, [Next]_vars PROVE Inv'
  OBVIOUS
<1>1. CASE Start
  BY <1>1, SpawnKeepsInv, FollowupKeepsInv, SteerKeepsInv DEF Start
<1>2. CASE Stop
  <2>1. Workers \in SUBSET Workers /\ \A w \in Workers : {w} \in SUBSET Workers
    OBVIOUS
  <2>. QED
    BY <1>2, <2>1, CancelKeepsInv DEF Stop
<1>3. CASE Await
  BY <1>3, WaitReturnsKeepsInv, HelperKeepsInv, DropCallKeepsInv, WaitKeepsInv DEF Await
<1>4. CASE SetMode \/ Close
  BY <1>4, OwnerKeepsInv
<1>5. CASE Tasks
  BY <1>5, TasksKeepInv DEF Tasks
<1>6. CASE UNCHANGED vars
  BY <1>6, StutterKeepsInv
<1>. QED
  BY <1>1, <1>2, <1>3, <1>4, <1>5, <1>6 DEF Next

LEMMA InvHolds == Spec => []Inv
  BY InitInv, NextKeepsInv, PTL DEF Spec

-----------------------------------------------------------------------------
(* The theorems.                                                           *)

\* What the team says of a worker is what became of its task, whatever tasks end while
\* an abort is on its way and whatever waits are dropped (SubagentTeam::wait, cancel).
THEOREM TeamTellsTasks == Spec => []StateTellsTask
<1>1. Inv => StateTellsTask
  BY DEF Inv
<1>. QED
  BY <1>1, InvHolds, PTL

\* The limit of SubagentTeam::reserve_id holds for all tasks but those whose handle
\* was dropped with a wait.
THEOREM TeamIsCapped == Spec => [](TypeOK /\ WorkersCapped)
<1>1. Inv => WorkersCapped
  <2>. SUFFICES ASSUME Inv PROVE WorkersCapped
    OBVIOUS
  <2>1. Busy \in SUBSET Workers /\ AtWork \ detached \in SUBSET Busy
    BY DEF Inv, StateTellsTask, AtWork, Busy
  <2>. QED
    BY <2>1, Fewer DEF Inv, WithinLimit, WorkersCapped
<1>2. Inv => TypeOK
  BY DEF Inv
<1>. QED
  BY <1>1, <1>2, InvHolds, PTL

\* A verdict on a worker is never taken back, by a late result, an id that is used
\* again, or a steer.
THEOREM VerdictsStand == Spec => VerdictsAreFinal
<1>. DEFINE Final == \A w \in Workers :
                        state[w] \in {"completed", "failed", "cancelled"} /\ call # w
                          => state'[w] = state[w]
<1>1. ASSUME Inv, NEW s \in SUBSET Running(state), NEW m, NEW from, NEW fits,
             StartWorker(AsCancelled(s), Abort(s), m, from, fits)
      PROVE  Final
  <2>1. next_worker \in Workers /\ state[next_worker] = "absent"
    BY <1>1 DEF Inv, FreshIds, StartWorker, Workers
  <2>. QED
    BY <1>1, <2>1 DEF StartWorker, AsCancelled, Running
<1>2. Inv /\ Start => Final
  <2>. SUFFICES ASSUME Inv, Start PROVE Final
    OBVIOUS
  <2>1. CASE Spawn
    BY <1>1, <2>1, NoneCancelled DEF Spawn, Inv
  <2>2. ASSUME NEW w \in Workers, Followup(w) PROVE Final
    BY <1>1, <2>2, NoneCancelled DEF Followup, Inv
  <2>3. ASSUME NEW w \in Workers, Steer(w) PROVE Final
    BY <1>1, <2>3 DEF Steer
  <2>. QED
    BY <2>1, <2>2, <2>3 DEF Start
<1>3. ASSUME Inv, NEW ws, Cancel(ws) PROVE Final
  BY <1>3 DEF Cancel, AsCancelled, Running, Inv, TypeOK
<1>4. Inv /\ Await => Final
  BY DEF Await, WaitReturns, StateAfter, RunHelper, HelperReturns, DropCall, Wait, Inv, TypeOK
<1>5. Inv /\ (SetMode \/ Close \/ Tasks \/ UNCHANGED vars) => Final
  BY DEF SetMode, Close, Tasks, TaskEnds, TaskStops, vars
<1>6. Inv /\ [Next]_vars => [Final]_vars
  BY <1>2, <1>3, <1>4, <1>5 DEF Next, Stop
<1>. QED
  BY <1>6, InvHolds, PTL DEF Spec, VerdictsAreFinal

-----------------------------------------------------------------------------
(* The team implements the pool.                                           *)

\* The pool counts with the same Cardinality.
LEMMA PoolCounts == \A S : Pool!Cardinality(S) = Cardinality(S)
  BY DEF Pool!Cardinality, Cardinality

\* A step that keeps the limit and makes busy only what was never used, and used what
\* it makes busy, is one of the pool.
LEMMA PoolStep ==
  ASSUME Inv', Busy' \cap Used \in SUBSET Busy, Used' = Used \cup Busy'
  PROVE  Pool!Next
<1>. DEFINE ended == Busy \ Busy'
            started == Busy' \ Used
<1>1. ended \in SUBSET Busy /\ started \in SUBSET (Workers \ Used)
  BY DEF Busy
<1>2. Busy' = (Busy \ ended) \cup started /\ Used' = Used \cup started
  OBVIOUS
<1>3. Pool!Cardinality(Busy') <= MaxConcurrency
  BY PoolCounts DEF Inv, WithinLimit
<1>. QED
  BY <1>1, <1>2, <1>3 DEF Pool!Next, Busy, Used

\* A step that starts nobody.
LEMMA OnlyEnds ==
  ASSUME Inv', Busy \in SUBSET Used, Busy' \in SUBSET Busy, Used' = Used PROVE Pool!Next
  BY PoolStep

LEMMA BusyAreUsed == Inv => Busy \in SUBSET Used
  BY DEF Inv, FreshIds, Busy, Used

LEMMA StartIsPoolStep ==
  ASSUME Inv, Inv', Free, NEW s \in SUBSET Running(state), NEW m, NEW from, NEW fits,
         StartWorker(AsCancelled(s), Abort(s), m, from, fits)
  PROVE  Pool!Next
<1>. DEFINE states == AsCancelled(s)
<1>1. states \in [Workers -> WorkerStates]
  BY DEF Inv, TypeOK, AsCancelled, WorkerStates
<1>2. \A w \in Workers : /\ (states[w] = "absent") <=> (state[w] = "absent")
                         /\ (states[w] = "running") => (state[w] = "running")
  BY DEF AsCancelled, Running
<1>3. next_worker \in Workers /\ next_worker \notin Used
  BY DEF StartWorker, Inv, FreshIds, Used, Workers
<1>4. CASE state' = states /\ UNCHANGED call
  <2>1. Busy' \in SUBSET Busy /\ Used' = Used
    BY <1>2, <1>4 DEF Busy, Used
  <2>. QED
    BY <2>1, OnlyEnds, BusyAreUsed
<1>5. CASE state' = [states EXCEPT ![next_worker] = "running"] /\ UNCHANGED call
  <2>1. Busy' \in SUBSET (Busy \cup {next_worker}) /\ next_worker \in Busy'
    BY <1>1, <1>2, <1>3, <1>5 DEF Busy
  <2>2. Used' = Used \cup {next_worker}
    BY <1>1, <1>2, <1>3, <1>5 DEF Used
  <2>3. Used' = Used \cup Busy'
    BY <2>1, <2>2, BusyAreUsed
  <2>. QED
    BY <1>3, <2>1, <2>3, PoolStep
<1>. QED
  BY <1>4, <1>5 DEF StartWorker

\* Spawning, following up and steering start a worker within the limit, the other
\* operations only end some: the team implements the pool that WorkerPool specifies.
THEOREM TeamIsAPool == Spec => ImplementsPool
<1>1. Init => Pool!Init
  BY DEF Init, Pool!Init, NoCall, Workers
<1>2. ASSUME Inv, Inv', [Next]_vars PROVE [Pool!Next]_Pool!vars
  <2>1. CASE Spawn
    BY <1>2, <2>1, StartIsPoolStep, NoneCancelled DEF Spawn, Inv
  <2>2. ASSUME NEW w \in Workers, Followup(w) PROVE Pool!Next
    BY <1>2, <2>2, StartIsPoolStep, NoneCancelled DEF Followup, Inv
  <2>3. ASSUME NEW w \in Workers, Steer(w) PROVE Pool!Next
    <3>1. {w} \cap Running(state) \in SUBSET Running(state)
      OBVIOUS
    <3>. QED
      BY <1>2, <2>3, <3>1, StartIsPoolStep DEF Steer
  <2>4. ASSUME NEW ws \in SUBSET Workers, Cancel(ws) PROVE Pool!Next
    <3>1. Busy' \in SUBSET Busy /\ Used' = Used
      BY <2>4 DEF Cancel, AsCancelled, Running, Busy, Used
    <3>. QED
      BY <1>2, <3>1, OnlyEnds, BusyAreUsed
  <2>5. CASE WaitReturns \/ DropCall
    <3>1. Busy' \in SUBSET Busy /\ Used' = Used
      BY <1>2, <2>5 DEF WaitReturns, StateAfter, DropCall, Busy, Used, NoCall, Workers,
           Inv, TypeOK, FreshIds
    <3>. QED
      BY <1>2, <3>1, OnlyEnds, BusyAreUsed
  <2>6. ASSUME NEW w \in Workers, Wait(w) PROVE Pool!Next
    <3>1. Busy' \in SUBSET Busy /\ Used' = Used
      BY <1>2, <2>6 DEF Wait, Busy, Used, Inv, TypeOK
    <3>. QED
      BY <1>2, <3>1, OnlyEnds, BusyAreUsed
  <2>7. CASE RunHelper \/ HelperReturns \/ SetMode \/ Close \/ Tasks \/ UNCHANGED vars
    <3>1. Busy' \in SUBSET Busy /\ Used' = Used
      BY <2>7, SpawnAssumption DEF RunHelper, HelperReturns, SetMode, Close, Tasks, TaskEnds,
           TaskStops, vars, Busy, Used, NoCall, Helper, Workers
    <3>. QED
      BY <1>2, <3>1, OnlyEnds, BusyAreUsed
  <2>8. Workers \in SUBSET Workers /\ \A w \in Workers : {w} \in SUBSET Workers
    OBVIOUS
  <2>. QED
    BY <1>2, <2>1, <2>2, <2>3, <2>4, <2>5, <2>6, <2>7, <2>8 DEF Next, Start, Stop, Await
<1>. QED
  BY <1>1, <1>2, InvHolds, PTL DEF Spec, ImplementsPool, Pool!Spec
=============================================================================
