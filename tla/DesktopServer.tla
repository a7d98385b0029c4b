---------------------------- MODULE DesktopServer ----------------------------
(***************************************************************************)
(* The JSONL bridge for desktop hosts (src/src/desktop_server): one loop   *)
(* reads commands and joins tasks, one task per accepted run emits frames, *)
(* and one writer puts all frames on stdout in the order of the channel.   *)
(* The host may use a run id again; requests are numbered as they come in. *)
(***************************************************************************)
EXTENDS Naturals, Sequences, FiniteSets

CONSTANTS
  RunIds,       \* run ids the host uses
  CanPanic,     \* a run's task may panic
  MaxRequests,  \* bound: start_run commands
  MaxCancels,   \* bound: cancel_run commands
  MaxDeltas     \* bound: display events of a run

ASSUME PanicAssumption == CanPanic \in BOOLEAN
ASSUME BoundAssumption == {MaxRequests, MaxCancels, MaxDeltas} \subseteq Nat

VARIABLES
  server,    \* serving, draining after end of input, stopped, or failed
  active,    \* Option<ActiveRun>: the request that holds the slot
  received,  \* start_run commands read so far
  run_id,    \* the run id of a request
  task,      \* where the task of a request is
  token,     \* the request's CancellationToken is cancelled
  verdict,   \* the RunTerminal of a request, once it is decided
  sequence,  \* FrameEmitter::sequence of a request
  loaded,    \* runs in the session when the request loaded it
  session,   \* runs in the stored session
  cancels,   \* cancel_run commands read so far
  frames     \* what is on stdout

vars == <<server, active, received, run_id, task, token, verdict, sequence, loaded,
          session, cancels, frames>>

Requests == 1..MaxRequests
NoRequest == 0
TaskPlaces == {"none", "starting", "running", "saving", "deciding", "ended", "panicked",
               "joined", "lost"}
Verdicts == {"completed", "failed", "cancelled"}

Init ==
  /\ server = "serving" /\ active = NoRequest /\ received = 0 /\ cancels = 0
  /\ run_id \in [Requests -> RunIds]
  /\ task = [r \in Requests |-> "none"]
  /\ token = [r \in Requests |-> FALSE]
  /\ verdict = [r \in Requests |-> "none"]
  /\ sequence = [r \in Requests |-> 0]
  /\ loaded = [r \in Requests |-> {}]
  /\ session = {} /\ frames = <<>>

Frame(kind, r, status) ==
  [kind |-> kind, request |-> r, sequence |-> sequence[r], status |-> status]

\* FrameEmitter::send and initialization_error.  (Fault: the number is not moved on.)
EmitSameNumber(kind, r, status) ==
  frames' = Append(frames, Frame(kind, r, status)) /\ UNCHANGED sequence
Emit(kind, r, status) ==
  /\ frames' = Append(frames, Frame(kind, r, status))
  /\ sequence' = [sequence EXCEPT ![r] = @ + 1]

GoTo(r, place) == task' = [task EXCEPT ![r] = place]

----------------------------------------------------------------------------
(* The loop of run_stdio: commands.                                        *)

\* A command that does not parse or validate, or that finds the slot taken, is answered
\* with a failed frame of number 0.
Reject(r) ==
  /\ frames' = Append(frames, Frame("command_error", r, "failed"))
  /\ UNCHANGED <<active, task>>

\* The slot is taken when it holds a request.  (Fault: when it holds the same run id.)
SlotTakenBySameRun(r) == active # NoRequest /\ run_id[active] = run_id[r]
SlotTaken(r) == active # NoRequest

StartRun ==
  LET r == received + 1 IN
  /\ server = "serving" /\ r \in Requests
  /\ received' = r
  /\ \/ Reject(r)     \* invalid
     \/ SlotTaken(r) /\ Reject(r)
     \/ /\ ~SlotTaken(r)
        /\ active' = r /\ GoTo(r, "starting")
        /\ UNCHANGED frames
  /\ UNCHANGED <<server, run_id, token, verdict, sequence, loaded, session, cancels>>

\* The run that holds the slot is told to stop if its run id is the one named.
CancelRun ==
  /\ server = "serving" /\ cancels < MaxCancels /\ cancels' = cancels + 1
  /\ \E id \in RunIds :
       LET found == active # NoRequest /\ run_id[active] = id
       IN  /\ token' = IF found THEN [token EXCEPT ![active] = TRUE] ELSE token
           /\ frames' = Append(frames,
                [kind |-> "cancel_ack", request |-> NoRequest, sequence |-> 0,
                 status |-> IF found THEN "accepted" ELSE "not_found"])
  /\ UNCHANGED <<server, active, received, run_id, task, verdict, sequence, loaded, session>>

EndOfInput ==
  /\ server = "serving" /\ server' = "draining"
  /\ token' = IF active # NoRequest THEN [token EXCEPT ![active] = TRUE] ELSE token
  /\ UNCHANGED <<active, received, run_id, task, verdict, sequence, loaded, session,
                 cancels, frames>>

\* An error of stdin returns from the loop and drops the JoinSet with its tasks.
InputFails ==
  /\ server = "serving" /\ server' = "failed"
  /\ UNCHANGED <<active, received, run_id, task, token, verdict, sequence, loaded, session,
                 cancels, frames>>

\* join_next.  A task that panicked yields an error that does not say which run it was.
Join(r) ==
  /\ server \in {"serving", "draining"} /\ task[r] \in {"ended", "panicked"}
  /\ GoTo(r, IF task[r] = "ended" THEN "joined" ELSE "lost")
  /\ active' = IF server = "serving" /\ task[r] = "ended" /\ active # NoRequest
                  /\ run_id[active] = run_id[r]
               THEN NoRequest ELSE active
  /\ UNCHANGED <<server, received, run_id, token, verdict, sequence, loaded, session,
                 cancels, frames>>

\* After the end of input every task is joined.  (Fault: they are left alone.)
StopAtOnce == server = "draining"
MayStop == server = "draining" /\ \A r \in Requests : task[r] \in {"none", "joined", "lost"}

Stop ==
  /\ MayStop
  /\ server' = "stopped"
  /\ UNCHANGED <<active, received, run_id, task, token, verdict, sequence, loaded, session,
                 cancels, frames>>

----------------------------------------------------------------------------
(* The task of a run: run_desktop_request.                                 *)

Alive == server \in {"serving", "draining"}

\* The workspace, the session or the runner cannot be set up.  (Fault: the host is
\* not told.)
FailToStartSilently(r) ==
  /\ Alive /\ task[r] = "starting" /\ GoTo(r, "ended")
  /\ UNCHANGED <<server, active, received, run_id, token, verdict, sequence, loaded,
                 session, cancels, frames>>
FailToStart(r) ==
  /\ Alive /\ task[r] = "starting" /\ GoTo(r, "ended")
  /\ Emit("command_error", r, "failed")
  /\ UNCHANGED <<server, active, received, run_id, token, verdict, loaded, session, cancels>>

\* The session is loaded, or created, and the snapshot goes out.
Begin(r) ==
  /\ Alive /\ task[r] = "starting" /\ GoTo(r, "running")
  /\ loaded' = [loaded EXCEPT ![r] = session]
  /\ Emit("snapshot", r, "none")
  /\ UNCHANGED <<server, active, received, run_id, token, verdict, session, cancels>>

\* Display events, drained on a tick or when the run returns.
Delta(r) ==
  /\ Alive /\ task[r] = "running" /\ sequence[r] <= MaxDeltas
  /\ Emit("delta", r, "none")
  /\ UNCHANGED <<server, active, received, run_id, task, token, verdict, loaded, session,
                 cancels>>

\* The error branch looks at the token; a run that returned its answer and was saved is
\* completed whether it was cancelled or not.  (Fault: only a cancellation gets a verdict.)
VerdictIfCancelled(r) == IF token[r] THEN "cancelled" ELSE verdict[r]
VerdictOnError(r) == IF token[r] THEN "cancelled" ELSE "failed"

\* run_with_cancel (AgentRun) returns an answer or an error, or the mentioned skills do
\* not load.
RunReturns(r) ==
  /\ Alive /\ task[r] = "running"
  /\ \/ GoTo(r, "saving") /\ UNCHANGED verdict
     \/ GoTo(r, "deciding") /\ verdict' = [verdict EXCEPT ![r] = VerdictOnError(r)]
  /\ UNCHANGED <<server, active, received, run_id, token, sequence, loaded, session, cancels,
                 frames>>

Save(r) ==
  /\ Alive /\ task[r] = "saving" /\ GoTo(r, "deciding")
  /\ \/ /\ session' = loaded[r] \cup {r}
        /\ verdict' = [verdict EXCEPT ![r] = "completed"]
     \/ verdict' = [verdict EXCEPT ![r] = VerdictOnError(r)] /\ UNCHANGED session
  /\ UNCHANGED <<server, active, received, run_id, token, sequence, loaded, cancels, frames>>

Terminate(r) ==
  /\ Alive /\ task[r] = "deciding" /\ GoTo(r, "ended")
  /\ Emit("terminal", r, verdict[r])
  /\ UNCHANGED <<server, active, received, run_id, token, verdict, loaded, session, cancels>>

Panic(r) ==
  /\ CanPanic /\ Alive /\ task[r] \in {"starting", "running", "saving"}
  /\ GoTo(r, "panicked")
  /\ UNCHANGED <<server, active, received, run_id, token, verdict, sequence, loaded, session,
                 cancels, frames>>

Advance(r) == FailToStart(r) \/ Begin(r) \/ RunReturns(r) \/ Save(r) \/ Terminate(r)

Input == StartRun \/ CancelRun \/ EndOfInput \/ InputFails
Loop == Stop \/ \E r \in Requests : Join(r)
Task == \E r \in Requests : Advance(r) \/ Delta(r) \/ Panic(r)

Next == Input \/ Loop \/ Task

Spec == Init /\ [][Next]_vars

\* A run returns (AgentRun, RunEnds), and the loop gets round to what is ready.
FairSpec == Spec /\ WF_vars(Loop) /\ \A r \in Requests : WF_vars(Advance(r))

----------------------------------------------------------------------------
(* Properties.                                                             *)

FrameType ==
  [kind : {"command_error", "snapshot", "delta", "terminal", "cancel_ack"},
   request : 0..MaxRequests, sequence : Nat,
   status : Verdicts \cup {"none", "accepted", "not_found"}]

\* Types; a task that is about to send its terminal frame has a verdict to put into it
\* (RunTerminal in run_desktop_request).
TypeOK ==
  /\ server \in {"serving", "draining", "stopped", "failed"}
  /\ active \in 0..MaxRequests /\ received \in 0..MaxRequests /\ cancels \in Nat
  /\ run_id \in [Requests -> RunIds] /\ task \in [Requests -> TaskPlaces]
  /\ token \in [Requests -> BOOLEAN] /\ verdict \in [Requests -> Verdicts \cup {"none"}]
  /\ \A r \in Requests : task[r] = "deciding" => verdict[r] # "none"
  /\ sequence \in [Requests -> Nat]
  /\ loaded \in [Requests -> SUBSET Requests] /\ session \subseteq Requests
  /\ frames \in Seq(FrameType)

IsLast(f) == f.status \in Verdicts
Answered(r) == \E i \in 1..Len(frames) : frames[i].request = r /\ IsLast(frames[i])

\* The numbers of a request among the first n frames.
Numbers(r, n) == {frames[i].sequence : i \in {j \in 1..n : frames[j].request = r}}

\* The frames of a request are numbered from 0 without a gap and none twice, events come
\* after the snapshot, and a frame with a verdict is the last one and the only one of its
\* kind.
StreamsWellFormed ==
  \A i \in 1..Len(frames) :
    LET f == frames[i] IN
    f.request \in Requests =>
      /\ Numbers(f.request, i - 1) = 0..(f.sequence - 1)
      /\ f.kind \in {"snapshot", "command_error"} <=> f.sequence = 0
      /\ IsLast(f) => \A j \in (i + 1)..Len(frames) : frames[j].request # f.request

\* The host can rely on the session once it has read that a run is completed: no other
\* run of this server overwrites what it stored.
CompletedRunsAreKept ==
  \A i \in 1..Len(frames) : frames[i].status = "completed" => frames[i].request \in session

\* The server stops in good order only when every request it read was answered, except
\* for a task that panicked.
ShutdownIsClean ==
  server = "stopped" =>
    \A r \in 1..received : Answered(r) \/ task[r] = "lost"

\* Every start_run is answered with a verdict, unless its task panics or stdin fails.
EveryRequestIsAnswered ==
  \A r \in Requests :
    received >= r ~> Answered(r) \/ server = "failed" \/ task[r] \in {"panicked", "lost"}

\* (violated) A start_run that is rejected because a run is active finds one that
\* has not been reported as over.
RejectionIsTrue ==
  [][received' > received /\ SlotTaken(received') =>
       \E r \in Requests : task[r] # "none" /\ ~Answered(r)]_vars
=============================================================================
