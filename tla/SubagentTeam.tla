---------------------------- MODULE SubagentTeam ----------------------------
(***************************************************************************)
(* The helpers of a run: SubagentTeam (src/src/agent/team.rs) and the      *)
(* subagent tools of the runner that owns it (src/src/agent/subagent.rs).  *)
(* The runner calls one tool at a time; a worker is a tokio task that runs *)
(* beside it on a multi-threaded runtime.  Aborting a task takes effect    *)
(* when the task next awaits, not when abort() returns.                    *)
(***************************************************************************)
EXTENDS Naturals, FiniteSets

CONSTANTS
  MaxConcurrency,  \* SPARK_SUBAGENT_MAX_CONCURRENCY, 1..8
  CanDrop,         \* the surface may drop a tool call that awaits (TUI)
  MaxSpawns        \* bound: worker ids handed out

ASSUME ConcurrencyAssumption == MaxConcurrency \in Nat \ {0}
ASSUME SurfaceAssumption == CanDrop \in BOOLEAN
ASSUME SpawnAssumption == MaxSpawns \in Nat

VARIABLES
  next_worker,
  state,        \* WorkerState by id; "absent" when there is no such worker
  task,         \* the tokio task behind a worker, as its JoinHandle sees it
  mode,         \* the worker may read ("ask") or write ("work")
  origin,       \* the worker it continues or replaces, and which of the two
  call,         \* the worker whose wait() is awaited, the helper, or nothing
  detached,     \* workers whose JoinHandle was dropped without an abort
  parent_mode,  \* the mode of the runner that owns the team
  closed        \* the team was dropped

vars == <<next_worker, state, task, mode, origin, call, detached, parent_mode, closed>>

Workers == 1..MaxSpawns
NoCall == 0
Helper == MaxSpawns + 1       \* subagent.run: one helper, awaited in place
Modes == {"ask", "work"}
WorkerStates == {"absent", "running", "completed", "failed", "cancelled"}
TaskStates == {"none", "running", "stopping", "finished", "error", "stopped"}
New == [from |-> 0, how |-> "spawn"]

Init ==
  /\ next_worker = 1
  /\ state = [w \in Workers |-> "absent"]
  /\ task = [w \in Workers |-> "none"]
  /\ mode = [w \in Workers |-> "ask"]
  /\ origin = [w \in Workers |-> New]
  /\ call = NoCall
  /\ detached = {}
  /\ parent_mode = "work"
  /\ closed = FALSE

\* The runner is borrowed by the call it awaits.
Free == call = NoCall /\ ~closed

----------------------------------------------------------------------------
(* Starting workers.                                                       *)

Running(states) == {w \in Workers : states[w] = "running"}

\* reserve_id counts the workers that are listed as running.  (Fault: off by one.)
OneTooMany(states) == Cardinality(Running(states)) <= MaxConcurrency
MayReserve(states) == Cardinality(Running(states)) < MaxConcurrency

\* An id is handed out once.  (Fault: again.)
IdAgain == next_worker
IdAfter == next_worker + 1

\* reserve_id, build_subagent, tokio::spawn and insert_running, when the workers
\* are in `states` and their tasks in `tasks`.  An id is used up even when the
\* worker cannot be built: a work worker needs a parent in work mode, and `fits`
\* stands for the checks of the task and its ownership.
StartWorker(states, tasks, m, from, fits) ==
  /\ next_worker \in Workers
  /\ IF ~MayReserve(states)
     THEN state' = states /\ task' = tasks /\ UNCHANGED <<next_worker, mode, origin>>
     ELSE /\ next_worker' = IdAfter
          /\ IF fits /\ (m = "work" => parent_mode = "work")
             THEN /\ state' = [states EXCEPT ![next_worker] = "running"]
                  /\ task' = [tasks EXCEPT ![next_worker] = "running"]
                  /\ mode' = [mode EXCEPT ![next_worker] = m]
                  /\ origin' = [origin EXCEPT ![next_worker] = from]
             ELSE state' = states /\ task' = tasks /\ UNCHANGED <<mode, origin>>
  /\ UNCHANGED <<call, detached, parent_mode, closed>>

Spawn ==
  /\ Free
  /\ \E m \in Modes, fits \in BOOLEAN : StartWorker(state, task, m, New, fits)

\* followup_subagent continues from a stored report.
Followup(w) ==
  /\ Free /\ state[w] = "completed"
  /\ StartWorker(state, task, mode[w], [from |-> w, how |-> "followup"], TRUE)

\* cancellation.cancel() and handle.abort(): a task that ended stays as it is.  (Fault:
\* the token alone, which a child does not look at while it awaits.)
TokenOnly(ws) == task
Abort(ws) == [w \in Workers |-> IF w \in ws /\ task[w] = "running" THEN "stopping" ELSE task[w]]

AsCancelled(ws) == [w \in Workers |-> IF w \in ws THEN "cancelled" ELSE state[w]]

\* steer_subagent of a worker that has no stored report: it is cancelled if it is
\* listed as running, and then a replacement is started if that is possible.
Steer(w) ==
  /\ Free /\ state[w] \in {"running", "failed", "cancelled"}
  /\ LET stopped == {w} \cap Running(state)
     IN  StartWorker(AsCancelled(stopped), Abort(stopped), mode[w],
                     [from |-> w, how |-> "replacement"], TRUE)

----------------------------------------------------------------------------
(* Cancelling, waiting, and the helper that is awaited in place.           *)

\* (Fault: workers that ended are marked as cancelled, too.)
CancelWhatever(ws) ==
  /\ Free
  /\ state' = AsCancelled(ws \ {w \in Workers : state[w] = "absent"})
  /\ task' = Abort(ws \cap Running(state))
  /\ UNCHANGED <<next_worker, mode, origin, call, detached, parent_mode, closed>>

\* cancel(Some(id)) and cancel(None).
Cancel(ws) ==
  /\ Free
  /\ state' = AsCancelled(ws \cap Running(state))
  /\ task' = Abort(ws \cap Running(state))
  /\ UNCHANGED <<next_worker, mode, origin, call, detached, parent_mode, closed>>

\* wait() takes the handle out and leaves Cancelled in its place while it awaits.
Wait(w) ==
  /\ Free /\ state[w] = "running"
  /\ state' = [state EXCEPT ![w] = "cancelled"]
  /\ call' = w
  /\ UNCHANGED <<next_worker, task, mode, origin, detached, parent_mode, closed>>

Ended == {"finished", "error", "stopped"}

\* handle.await returned: a report, an error, or a join error.  (Faults: the state of
\* the task is taken as it is, or taken for a success.)
StateOfTask(w) == state' = [state EXCEPT ![w] = task[w]]
AlwaysCompleted(w) == state' = [state EXCEPT ![w] = "completed"]
StateAfter(w) ==
  state' = [state EXCEPT ![w] = IF task[w] = "finished" THEN "completed" ELSE "failed"]

WaitReturns ==
  /\ call \in Workers /\ task[call] \in Ended
  /\ StateAfter(call)
  /\ call' = NoCall
  /\ UNCHANGED <<next_worker, task, mode, origin, detached, parent_mode, closed>>

RunHelper ==
  /\ Free
  /\ call' = Helper
  /\ UNCHANGED <<next_worker, state, task, mode, origin, detached, parent_mode, closed>>

HelperReturns ==
  /\ call = Helper
  /\ call' = NoCall
  /\ UNCHANGED <<next_worker, state, task, mode, origin, detached, parent_mode, closed>>

\* The future of a wait is dropped: the handle goes with it and the task runs on.
DropCall ==
  /\ CanDrop /\ call # NoCall
  /\ call' = NoCall
  /\ detached' = IF call = Helper THEN detached ELSE detached \cup {call}
  /\ UNCHANGED <<next_worker, state, task, mode, origin, parent_mode, closed>>

\* The user switches the runner between ask and work.
SetMode ==
  /\ Free
  /\ parent_mode' \in Modes \ {parent_mode}
  /\ UNCHANGED <<next_worker, state, task, mode, origin, call, detached, closed>>

\* Drop for SubagentTeam.
Close ==
  /\ Free
  /\ closed' = TRUE
  /\ task' = Abort(Running(state))
  /\ UNCHANGED <<next_worker, state, mode, origin, call, detached, parent_mode>>

----------------------------------------------------------------------------
(* The tasks.                                                              *)

\* The child's run returns a report or an error, or panics, also while an abort
\* is on its way.
TaskEnds(w) ==
  /\ task[w] \in {"running", "stopping"}
  /\ \E end \in {"finished", "error"} : task' = [task EXCEPT ![w] = end]
  /\ UNCHANGED <<next_worker, state, mode, origin, call, detached, parent_mode, closed>>

\* The abort reaches the task at an await.
TaskStops(w) ==
  /\ task[w] = "stopping"
  /\ task' = [task EXCEPT ![w] = "stopped"]
  /\ UNCHANGED <<next_worker, state, mode, origin, call, detached, parent_mode, closed>>

Start == Spawn \/ \E w \in Workers : Followup(w) \/ Steer(w)
Stop == Cancel(Workers) \/ \E w \in Workers : Cancel({w})
Await == WaitReturns \/ RunHelper \/ HelperReturns \/ DropCall \/ \E w \in Workers : Wait(w)
Tasks == \E w \in Workers : TaskEnds(w) \/ TaskStops(w)

Next == Start \/ Stop \/ Await \/ SetMode \/ Close \/ Tasks

Spec == Init /\ [][Next]_vars

\* A task that is asked to stop gets to an await.
FairSpec ==
  Spec /\ \A w \in Workers :
            WF_vars(task[w] = "stopping" /\ (TaskEnds(w) \/ TaskStops(w)))

----------------------------------------------------------------------------
(* Properties.                                                             *)

\* Types; a worker has a state of its own, not that of its task (WorkerState).
TypeOK ==
  /\ next_worker \in 1..(MaxSpawns + 1)
  /\ state \in [Workers -> WorkerStates] /\ task \in [Workers -> TaskStates]
  /\ mode \in [Workers -> Modes]
  /\ origin \in [Workers -> [from : 0..MaxSpawns, how : {"spawn", "followup", "replacement"}]]
  /\ call \in 0..(MaxSpawns + 1) /\ detached \subseteq Workers
  /\ parent_mode \in Modes /\ closed \in BOOLEAN

\* What the team says of a worker is what became of its task: a stored report comes
\* from a task that finished, a worker listed as running was not asked to stop, and
\* a task that runs is listed, or awaited, or was detached by dropping a wait.
StateTellsTask ==
  \A w \in Workers :
    /\ state[w] = "completed" => task[w] = "finished"
    /\ state[w] = "failed" => task[w] \in {"error", "stopped"}
    /\ state[w] = "running" /\ ~closed => task[w] \in {"running", "finished", "error"}
    /\ task[w] = "running" => state[w] = "running" \/ call = w \/ w \in detached

AtWork == {w \in Workers : task[w] = "running"}

\* The limit holds for the workers whose tasks the team still has a handle of.
WorkersCapped == Cardinality(AtWork \ detached) <= MaxConcurrency

\* (violated) The limit as the tool descriptions state it, for every worker.
AllWorkersCapped == Cardinality(AtWork) <= MaxConcurrency

\* What was said of a worker is never taken back: a late result of a cancelled
\* worker is not stored, a stored report is not lost.
VerdictsAreFinal ==
  [][\A w \in Workers :
       state[w] \in {"completed", "failed", "cancelled"} /\ call # w
         => state'[w] = state[w]]_vars

\* (violated) A worker that has finished its task is continued from its report, not
\* replaced.
FinishedWorkIsFollowedUp ==
  [][\A w \in Workers :
       state[w] = "absent" /\ state'[w] = "running" /\ origin'[w].from # 0 =>
         (task[origin'[w].from] = "finished" => origin'[w].how = "followup")]_vars

\* When the team is dropped its workers stop, except those that were detached.
ClosedTeamStops ==
  closed ~> \A w \in Workers \ detached : task[w] \notin {"running", "stopping"}

\* In the pool a worker that is waited for is still busy.
Pool == INSTANCE WorkerPool WITH
  Limit <- MaxConcurrency,
  busy <- {w \in Workers : state[w] = "running" \/ call = w},
  used <- {w \in Workers : state[w] # "absent"}

\* The team is a pool: every step of it (spawn, steer, wait, cancel) starts and ends
\* workers within the limit, and never starts one again.
ImplementsPool == Pool!Spec
=============================================================================
