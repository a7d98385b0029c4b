------------------------ MODULE DesktopServerProofs ------------------------
(***************************************************************************)
(* Theorems about DesktopServer, for every number of requests, run ids and *)
(* events: work the host was told is completed stays in the session, and   *)
(* the server stops in good order only when it has answered.               *)
(***************************************************************************)
EXTENDS DesktopServer, TLAPS

\* A task holds the slot from its start to its join; one that panicked for ever.
Holding == {"starting", "running", "saving", "deciding", "ended", "panicked", "lost"}
OneHolds == \A r \in Requests : task[r] \in Holding => active = r

\* So nobody writes the session between the load and the save of a run, and what is
\* completed is in it.
LoadedIsCurrent == \A r \in Requests : task[r] \in {"running", "saving"} => loaded[r] = session
CompletedIsSaved == \A r \in Requests : verdict[r] = "completed" => r \in session

\* A request is answered before its task ends, or when it is rejected.
EndedAreAnswered ==
  \A r \in Requests :
    /\ task[r] \in {"ended", "joined"} => Answered(r)
    /\ r <= received /\ task[r] = "none" => Answered(r)
NotReadYet == \A r \in Requests : r > received => task[r] = "none"

\* When the server stopped, its tasks were joined.
StoppedIsJoined == server = "stopped" => \A r \in Requests : task[r] \in {"none", "joined", "lost"}

Inv == /\ TypeOK /\ OneHolds /\ LoadedIsCurrent /\ CompletedIsSaved
       /\ EndedAreAnswered /\ NotReadYet /\ StoppedIsJoined /\ CompletedRunsAreKept

-----------------------------------------------------------------------------
(* Frames.                                                                 *)

\* A step that adds one frame keeps the answers that are there, and adds one of its own
\* if the frame has a verdict.
LEMMA OneFrameMore ==
  ASSUME frames \in Seq(FrameType), NEW f \in FrameType, frames' = Append(frames, f)
  PROVE  /\ frames' \in Seq(FrameType)
         /\ \A r \in Requests : Answered(r) => Answered(r)'
         /\ IsLast(f) => Answered(f.request)'
         /\ \A i \in 1..Len(frames') : frames'[i] = f \/ (i \in 1..Len(frames) /\ frames'[i] = frames[i])
<1>1. /\ frames' \in Seq(FrameType)
      /\ Len(frames') = Len(frames) + 1 /\ Len(frames) \in Nat
      /\ frames'[Len(frames) + 1] = f
      /\ \A i \in 1..Len(frames) : frames'[i] = frames[i]
  OBVIOUS
<1>2. \A r \in Requests : Answered(r) => Answered(r)'
  BY <1>1 DEF Answered, IsLast
<1>3. IsLast(f) => Answered(f.request)'
  BY <1>1 DEF Answered, IsLast
<1>. QED
  BY <1>1, <1>2, <1>3

\* A step that writes nothing keeps them too.
LEMMA SameFrames ==
  ASSUME frames' = frames PROVE \A r : Answered(r)' <=> Answered(r)
  BY DEF Answered, IsLast

\* What Emit and Reject write.
LEMMA FrameTyped ==
  ASSUME TypeOK, NEW kind \in {"command_error", "snapshot", "delta", "terminal"},
         NEW r \in Requests, NEW status \in Verdicts \cup {"none"}
  PROVE  Frame(kind, r, status) \in FrameType
<1>1. r \in 0..MaxRequests /\ sequence[r] \in Nat
  BY BoundAssumption DEF TypeOK, Requests
<1>. QED
  BY <1>1 DEF Frame, FrameType

LEMMA EmitsOne ==
  ASSUME TypeOK, NEW kind \in {"command_error", "snapshot", "delta", "terminal"},
         NEW r \in Requests, NEW status \in Verdicts \cup {"none"}, Emit(kind, r, status)
  PROVE  /\ sequence' \in [Requests -> Nat]
         /\ Frame(kind, r, status) \in FrameType
         /\ frames' = Append(frames, Frame(kind, r, status))
<1>1. Frame(kind, r, status) \in FrameType
  BY FrameTyped
<1>2. sequence' = [sequence EXCEPT ![r] = sequence[r] + 1]
  BY DEF Emit
<1>3. sequence' \in [Requests -> Nat]
  BY <1>2 DEF TypeOK
<1>. QED
  BY <1>1, <1>3 DEF Emit

-----------------------------------------------------------------------------
(* The invariant.                                                          *)

LEMMA InitInv == Init => Inv
<1>. SUFFICES ASSUME Init PROVE Inv
  OBVIOUS
<1>1. TypeOK
  BY BoundAssumption DEF Init, TypeOK, Verdicts, TaskPlaces, FrameType, NoRequest
<1>2. OneHolds /\ LoadedIsCurrent /\ CompletedIsSaved /\ NotReadYet /\ StoppedIsJoined
  BY DEF Init, OneHolds, LoadedIsCurrent, CompletedIsSaved, NotReadYet, StoppedIsJoined, Holding
<1>3. EndedAreAnswered /\ CompletedRunsAreKept
  BY DEF Init, EndedAreAnswered, CompletedRunsAreKept, Requests
<1>. QED
  BY <1>1, <1>2, <1>3 DEF Inv

LEMMA StartRunKeepsInv == Inv /\ StartRun => Inv'
<1>. SUFFICES ASSUME Inv, StartRun PROVE Inv'
  OBVIOUS
<1>r. PICK r \in Requests : /\ r = received + 1
                           /\ \/ Reject(r)
                              \/ ~SlotTaken(r) /\ active' = r /\ GoTo(r, "starting") /\ UNCHANGED frames
  BY DEF StartRun
<1>0. /\ r \in Requests /\ received' = r /\ r = received + 1
      /\ task[r] = "none" /\ server = "serving"
      /\ UNCHANGED <<server, run_id, token, verdict, sequence, loaded, session, cancels>>
  BY <1>r DEF StartRun, Inv, TypeOK, NotReadYet, Requests
<1>1. CASE Reject(r)
  <2>1. Frame("command_error", r, "failed") \in FrameType
    BY <1>0, FrameTyped DEF Inv, Verdicts
  <2>2. frames' = Append(frames, Frame("command_error", r, "failed")) /\ UNCHANGED <<active, task>>
    BY <1>1 DEF Reject
  <2>3. /\ frames' \in Seq(FrameType) /\ \A q \in Requests : Answered(q) => Answered(q)'
        /\ Answered(r)'
        /\ \A i \in 1..Len(frames') : frames'[i].status = "completed" =>
              i \in 1..Len(frames) /\ frames'[i] = frames[i]
    <3>1. /\ IsLast(Frame("command_error", r, "failed"))
          /\ Frame("command_error", r, "failed").request = r
          /\ Frame("command_error", r, "failed").status = "failed"
      BY DEF IsLast, Frame, Verdicts
    <3>. QED
      BY <2>1, <2>2, <3>1, OneFrameMore DEF Inv, TypeOK
  <2>4. TypeOK'
    BY <1>0, <2>2, <2>3 DEF Inv, TypeOK, Requests
  <2>5. (OneHolds /\ LoadedIsCurrent /\ CompletedIsSaved /\ StoppedIsJoined)'
    BY <1>0, <2>2 DEF Inv, OneHolds, LoadedIsCurrent, CompletedIsSaved, StoppedIsJoined
  <2>6. EndedAreAnswered'
    <3>. SUFFICES ASSUME NEW q \in Requests
                  PROVE  /\ task[q] \in {"ended", "joined"} => Answered(q)'
                         /\ q <= r /\ task[q] = "none" => Answered(q)'
      BY <1>0, <2>2 DEF EndedAreAnswered
    <3>1. q <= r => q = r \/ q <= received
      BY <1>0 DEF Inv, TypeOK, Requests
    <3>. QED
      BY <2>3, <3>1 DEF Inv, EndedAreAnswered
  <2>a. NotReadYet'
    BY <1>0, <2>2 DEF Inv, TypeOK, NotReadYet, Requests
  <2>7. CompletedRunsAreKept'
    BY <1>0, <2>3 DEF Inv, CompletedRunsAreKept
  <2>. QED
    BY <2>4, <2>5, <2>6, <2>a, <2>7 DEF Inv
<1>2. CASE active = NoRequest /\ active' = r /\ GoTo(r, "starting") /\ UNCHANGED frames
  <2>1. task' = [task EXCEPT ![r] = "starting"]
    BY <1>2 DEF GoTo
  <2>2. TypeOK'
    BY <1>0, <1>2, <2>1 DEF Inv, TypeOK, Requests, TaskPlaces
  <2>3. OneHolds' /\ LoadedIsCurrent' /\ CompletedIsSaved' /\ StoppedIsJoined'
    BY <1>0, <1>2, <2>1 DEF Inv, TypeOK, OneHolds, LoadedIsCurrent, CompletedIsSaved,
         StoppedIsJoined, NoRequest, Requests
  <2>4. EndedAreAnswered' /\ NotReadYet'
    BY <1>0, <1>2, <2>1, SameFrames DEF Inv, TypeOK, EndedAreAnswered, NotReadYet, Requests
  <2>5. CompletedRunsAreKept'
    BY <1>0, <1>2 DEF Inv, CompletedRunsAreKept
  <2>. QED
    BY <2>2, <2>3, <2>4, <2>5 DEF Inv
<1>. QED
  BY <1>r, <1>1, <1>2 DEF SlotTaken

\* Commands that cancel, and the end of input or its failure, leave the tasks alone.
LEMMA OtherInputKeepsInv == Inv /\ (CancelRun \/ EndOfInput \/ InputFails) => Inv'
<1>. SUFFICES ASSUME Inv, CancelRun \/ EndOfInput \/ InputFails PROVE Inv'
  OBVIOUS
<1>0. UNCHANGED <<active, received, run_id, task, verdict, sequence, loaded, session>>
  BY DEF CancelRun, EndOfInput, InputFails
<1>1. /\ frames' \in Seq(FrameType) /\ \A q \in Requests : Answered(q) => Answered(q)'
      /\ \A i \in 1..Len(frames') : frames'[i].status = "completed" =>
            i \in 1..Len(frames) /\ frames'[i] = frames[i]
  <2>1. CASE CancelRun
    <3>1. PICK status \in {"accepted", "not_found"} :
             frames' = Append(frames, [kind |-> "cancel_ack", request |-> NoRequest,
                                       sequence |-> 0, status |-> status])
      BY <2>1 DEF CancelRun
    <3>2. [kind |-> "cancel_ack", request |-> NoRequest, sequence |-> 0, status |-> status] \in FrameType
      BY BoundAssumption DEF FrameType, NoRequest
    <3>. QED
      BY <3>1, <3>2, OneFrameMore DEF Inv, TypeOK
  <2>2. CASE EndOfInput \/ InputFails
    BY <2>2, SameFrames DEF EndOfInput, InputFails, Inv, TypeOK
  <2>. QED
    BY <2>1, <2>2
<1>2. server' # "stopped" /\ server' \in {"serving", "draining", "failed"}
  BY DEF CancelRun, EndOfInput, InputFails
<1>3. token' \in [Requests -> BOOLEAN] /\ cancels' \in Nat
  <2>1. cancels' \in {cancels, cancels + 1}
    <3>1. CancelRun => cancels' = cancels + 1
      BY DEF CancelRun
    <3>2. EndOfInput \/ InputFails => cancels' = cancels
      BY DEF EndOfInput, InputFails
    <3>. QED
      BY <3>1, <3>2
  <2>2. token' = token \/ token' = [token EXCEPT ![active] = TRUE]
    <3>1. CancelRun => token' = token \/ token' = [token EXCEPT ![active] = TRUE]
      BY DEF CancelRun
    <3>2. EndOfInput \/ InputFails => token' = token \/ token' = [token EXCEPT ![active] = TRUE]
      BY DEF EndOfInput, InputFails
    <3>. QED
      BY <3>1, <3>2
  <2>3. token' \in [Requests -> BOOLEAN]
    <3>1. token \in [Requests -> BOOLEAN]
      BY DEF Inv, TypeOK
    <3>. QED
      BY <2>2, <3>1
  <2>4. cancels' \in Nat
    BY <2>1 DEF Inv, TypeOK
  <2>. QED
    BY <2>3, <2>4
<1>4. TypeOK'
  BY <1>0, <1>1, <1>2, <1>3 DEF Inv, TypeOK
<1>5. (OneHolds /\ LoadedIsCurrent /\ CompletedIsSaved /\ NotReadYet)'
  BY <1>0 DEF Inv, OneHolds, LoadedIsCurrent, CompletedIsSaved, NotReadYet
<1>6. (EndedAreAnswered /\ StoppedIsJoined /\ CompletedRunsAreKept)'
  BY <1>0, <1>1, <1>2 DEF Inv, EndedAreAnswered, StoppedIsJoined, CompletedRunsAreKept
<1>. QED
  BY <1>4, <1>5, <1>6 DEF Inv

\* A task that is joined gives back the slot it holds.
LEMMA JoinKeepsInv == ASSUME NEW r \in Requests, Inv, Join(r) PROVE Inv'
<1>0. /\ UNCHANGED <<server, received, run_id, token, verdict, sequence, loaded, session, cancels, frames>>
      /\ task' = [task EXCEPT ![r] = IF task[r] = "ended" THEN "joined" ELSE "lost"]
      /\ server # "stopped" /\ active = r /\ task[r] \in {"ended", "panicked"}
      /\ active' \in {NoRequest, active} /\ (active' # active => task[r] = "ended")
  BY DEF Join, GoTo, Inv, OneHolds, Holding
<1>1. TypeOK'
  BY <1>0, BoundAssumption DEF Inv, TypeOK, TaskPlaces, NoRequest
<1>2. OneHolds' /\ LoadedIsCurrent' /\ CompletedIsSaved' /\ StoppedIsJoined'
  BY <1>0 DEF Inv, TypeOK, OneHolds, LoadedIsCurrent, CompletedIsSaved, StoppedIsJoined, Holding
<1>3. EndedAreAnswered' /\ NotReadYet'
  BY <1>0, SameFrames DEF Inv, TypeOK, EndedAreAnswered, NotReadYet
<1>4. CompletedRunsAreKept'
  BY <1>0 DEF Inv, CompletedRunsAreKept
<1>. QED
  BY <1>1, <1>2, <1>3, <1>4 DEF Inv

LEMMA StopKeepsInv == Inv /\ Stop => Inv'
<1>. SUFFICES ASSUME Inv, Stop PROVE Inv'
  OBVIOUS
<1>1. TypeOK' /\ StoppedIsJoined'
  BY DEF Stop, MayStop, Inv, TypeOK, StoppedIsJoined
<1>2. (OneHolds /\ LoadedIsCurrent /\ CompletedIsSaved /\ NotReadYet /\ CompletedRunsAreKept)'
  BY DEF Stop, Inv, OneHolds, LoadedIsCurrent, CompletedIsSaved, NotReadYet, CompletedRunsAreKept
<1>3. EndedAreAnswered'
  BY SameFrames DEF Stop, Inv, EndedAreAnswered
<1>. QED
  BY <1>1, <1>2, <1>3 DEF Inv

-----------------------------------------------------------------------------
(* The steps of a task.                                                    *)

\* What every move of a task keeps: it holds the slot before and after.
LEMMA TaskMoves ==
  ASSUME Inv, Alive, NEW r \in Requests, NEW place \in Holding,
         task[r] \in {"starting", "running", "saving", "deciding"},
         task' = [task EXCEPT ![r] = place],
         UNCHANGED <<server, active, received>>,
         \A q \in Requests : Answered(q) => Answered(q)',
         place = "ended" => Answered(r)'
  PROVE  /\ OneHolds' /\ NotReadYet' /\ StoppedIsJoined' /\ EndedAreAnswered'
         /\ task' \in [Requests -> TaskPlaces]
         /\ active = r /\ \A q \in Requests \ {r} : task'[q] = task[q] /\ task[q] \notin Holding
<1>1. active = r /\ \A q \in Requests \ {r} : task'[q] = task[q] /\ task[q] \notin Holding
  BY DEF Inv, TypeOK, OneHolds, Holding
<1>2. task'[r] = place /\ task' \in [Requests -> TaskPlaces]
  BY DEF Inv, TypeOK, TaskPlaces, Holding
<1>3. OneHolds'
  BY <1>1, <1>2 DEF OneHolds
<1>4. NotReadYet'
  <2>1. ~(r > received)
    BY DEF Inv, NotReadYet
  <2>. QED
    BY <1>1, <2>1 DEF Inv, NotReadYet
<1>5. StoppedIsJoined'
  BY DEF StoppedIsJoined, Alive
<1>6. EndedAreAnswered'
  <2>1. place # "none" /\ place # "joined"
    BY DEF Holding
  <2>. SUFFICES ASSUME NEW q \in Requests
                PROVE  /\ task'[q] \in {"ended", "joined"} => Answered(q)'
                       /\ q <= received /\ task'[q] = "none" => Answered(q)'
    BY DEF EndedAreAnswered
  <2>2. CASE q = r
    BY <2>1, <2>2, <1>2
  <2>3. CASE q # r
    BY <2>3, <1>1 DEF Inv, EndedAreAnswered
  <2>. QED
    BY <2>2, <2>3
<1>. QED
  BY <1>1, <1>2, <1>3, <1>4, <1>5, <1>6

LEMMA FailToStartKeepsInv == ASSUME NEW r \in Requests, Inv, FailToStart(r) PROVE Inv'
<1>0. /\ Alive /\ task[r] = "starting" /\ task' = [task EXCEPT ![r] = "ended"]
      /\ Emit("command_error", r, "failed")
      /\ UNCHANGED <<server, active, received, run_id, token, verdict, loaded, session, cancels>>
  BY DEF FailToStart, GoTo
<1>1. PICK f \in FrameType : /\ f = Frame("command_error", r, "failed")
                             /\ frames' = Append(frames, f) /\ sequence' \in [Requests -> Nat]
  BY <1>0, EmitsOne DEF Inv, Verdicts
<1>2. f.request = r /\ f.status = "failed" /\ IsLast(f)
  BY <1>1 DEF Frame, IsLast, Verdicts
<1>3. /\ frames' \in Seq(FrameType) /\ \A q \in Requests : Answered(q) => Answered(q)'
      /\ Answered(r)'
      /\ \A i \in 1..Len(frames') : frames'[i].status = "completed" =>
            i \in 1..Len(frames) /\ frames'[i] = frames[i]
  BY <1>1, <1>2, OneFrameMore DEF Inv, TypeOK
<1>4. /\ OneHolds' /\ NotReadYet' /\ StoppedIsJoined' /\ EndedAreAnswered'
      /\ task' \in [Requests -> TaskPlaces]
      /\ active = r /\ \A q \in Requests \ {r} : task'[q] = task[q] /\ task[q] \notin Holding
  BY <1>0, <1>3, TaskMoves DEF Holding
<1>5. task'[r] = "ended"
  BY <1>0 DEF Inv, TypeOK
<1>6. TypeOK'
  BY <1>0, <1>1, <1>3, <1>4, <1>5 DEF Inv, TypeOK
<1>7. LoadedIsCurrent' /\ CompletedIsSaved'
  BY <1>0, <1>4, <1>5 DEF Inv, LoadedIsCurrent, CompletedIsSaved
<1>8. CompletedRunsAreKept'
  BY <1>0, <1>3 DEF Inv, CompletedRunsAreKept
<1>. QED
  BY <1>4, <1>6, <1>7, <1>8 DEF Inv

LEMMA BeginKeepsInv == ASSUME NEW r \in Requests, Inv, Begin(r) PROVE Inv'
<1>0. /\ Alive /\ task[r] = "starting" /\ task' = [task EXCEPT ![r] = "running"]
      /\ loaded' = [loaded EXCEPT ![r] = session]
      /\ Emit("snapshot", r, "none")
      /\ UNCHANGED <<server, active, received, run_id, token, verdict, session, cancels>>
  BY DEF Begin, GoTo
<1>1. PICK f \in FrameType : /\ f = Frame("snapshot", r, "none")
                             /\ frames' = Append(frames, f) /\ sequence' \in [Requests -> Nat]
  BY <1>0, EmitsOne DEF Inv
<1>2. f.status = "none"
  BY <1>1 DEF Frame
<1>3. /\ frames' \in Seq(FrameType) /\ \A q \in Requests : Answered(q) => Answered(q)'
      /\ \A i \in 1..Len(frames') : frames'[i].status = "completed" =>
            i \in 1..Len(frames) /\ frames'[i] = frames[i]
  BY <1>1, <1>2, OneFrameMore DEF Inv, TypeOK
<1>4. /\ OneHolds' /\ NotReadYet' /\ StoppedIsJoined' /\ EndedAreAnswered'
      /\ task' \in [Requests -> TaskPlaces]
      /\ active = r /\ \A q \in Requests \ {r} : task'[q] = task[q] /\ task[q] \notin Holding
  BY <1>0, <1>3, TaskMoves DEF Holding
<1>5. /\ task'[r] = "running" /\ loaded'[r] = session /\ loaded' \in [Requests -> SUBSET Requests]
      /\ \A q \in Requests \ {r} : loaded'[q] = loaded[q]
  BY <1>0 DEF Inv, TypeOK
<1>6. TypeOK'
  BY <1>0, <1>1, <1>3, <1>4, <1>5 DEF Inv, TypeOK
<1>7. LoadedIsCurrent' /\ CompletedIsSaved'
  BY <1>0, <1>4, <1>5 DEF Inv, LoadedIsCurrent, CompletedIsSaved, Holding
<1>8. CompletedRunsAreKept'
  BY <1>0, <1>3 DEF Inv, CompletedRunsAreKept
<1>. QED
  BY <1>4, <1>6, <1>7, <1>8 DEF Inv

LEMMA DeltaKeepsInv == ASSUME NEW r \in Requests, Inv, Delta(r) PROVE Inv'
<1>0. /\ Emit("delta", r, "none")
      /\ UNCHANGED <<server, active, received, run_id, task, token, verdict, loaded, session,
                     cancels>>
  BY DEF Delta
<1>1. PICK f \in FrameType : /\ f = Frame("delta", r, "none")
                             /\ frames' = Append(frames, f) /\ sequence' \in [Requests -> Nat]
  BY <1>0, EmitsOne DEF Inv
<1>2. f.status = "none"
  BY <1>1 DEF Frame
<1>3. /\ frames' \in Seq(FrameType) /\ \A q \in Requests : Answered(q) => Answered(q)'
      /\ \A i \in 1..Len(frames') : frames'[i].status = "completed" =>
            i \in 1..Len(frames) /\ frames'[i] = frames[i]
  BY <1>1, <1>2, OneFrameMore DEF Inv, TypeOK
<1>4. TypeOK'
  BY <1>0, <1>1, <1>3 DEF Inv, TypeOK
<1>5. (OneHolds /\ LoadedIsCurrent /\ CompletedIsSaved /\ NotReadYet /\ StoppedIsJoined)'
  BY <1>0 DEF Inv, OneHolds, LoadedIsCurrent, CompletedIsSaved, NotReadYet, StoppedIsJoined
<1>6. EndedAreAnswered' /\ CompletedRunsAreKept'
  BY <1>0, <1>3 DEF Inv, EndedAreAnswered, CompletedRunsAreKept
<1>. QED
  BY <1>4, <1>5, <1>6 DEF Inv

LEMMA RunReturnsKeepsInv == ASSUME NEW r \in Requests, Inv, RunReturns(r) PROVE Inv'
<1>0. PICK place \in {"saving", "deciding"} :
        /\ Alive /\ task[r] = "running" /\ task' = [task EXCEPT ![r] = place]
        /\ \/ place = "saving" /\ verdict' = verdict
           \/ place = "deciding" /\ verdict' = [verdict EXCEPT ![r] = VerdictOnError(r)]
        /\ UNCHANGED <<server, active, received, run_id, token, sequence, loaded, session,
                       cancels, frames>>
  BY DEF RunReturns, GoTo
<1>1. \A q \in Requests : Answered(q) <=> Answered(q)'
  BY <1>0, SameFrames
<1>2. /\ OneHolds' /\ NotReadYet' /\ StoppedIsJoined' /\ EndedAreAnswered'
      /\ task' \in [Requests -> TaskPlaces]
      /\ active = r /\ \A q \in Requests \ {r} : task'[q] = task[q] /\ task[q] \notin Holding
  BY <1>0, <1>1, TaskMoves DEF Holding
<1>3. /\ task'[r] = place /\ verdict' \in [Requests -> Verdicts \cup {"none"}]
      /\ place = "deciding" => verdict'[r] \in {"cancelled", "failed"}
      /\ \A q \in Requests \ {r} : verdict'[q] = verdict[q]
      /\ verdict'[r] = "completed" => verdict[r] = "completed"
  <2>1. VerdictOnError(r) \in {"cancelled", "failed"}
    BY DEF VerdictOnError
  <2>. QED
    BY <1>0, <2>1 DEF Inv, TypeOK, Verdicts
<1>4. TypeOK'
  <2>1. \A q \in Requests : task'[q] = "deciding" => verdict'[q] # "none"
    BY <1>2, <1>3 DEF Holding
  <2>. QED
    BY <1>0, <1>2, <1>3, <2>1 DEF Inv, TypeOK
<1>5. LoadedIsCurrent' /\ CompletedIsSaved'
  BY <1>0, <1>2, <1>3 DEF Inv, LoadedIsCurrent, CompletedIsSaved, Holding
<1>6. CompletedRunsAreKept'
  BY <1>0 DEF Inv, CompletedRunsAreKept
<1>. QED
  BY <1>2, <1>4, <1>5, <1>6 DEF Inv

\* The run that saves is the only one that holds a copy of the session, and its copy is
\* what is stored: nothing another run stored is lost.
LEMMA SaveKeepsInv == ASSUME NEW r \in Requests, Inv, Save(r) PROVE Inv'
<1>0. /\ Alive /\ task[r] = "saving" /\ task' = [task EXCEPT ![r] = "deciding"]
      /\ UNCHANGED <<server, active, received, run_id, token, sequence, loaded, cancels, frames>>
  BY DEF Save, GoTo
<1>1. \A q \in Requests : Answered(q) <=> Answered(q)'
  BY <1>0, SameFrames
<1>2. /\ OneHolds' /\ NotReadYet' /\ StoppedIsJoined' /\ EndedAreAnswered'
      /\ task' \in [Requests -> TaskPlaces]
      /\ active = r /\ \A q \in Requests \ {r} : task'[q] = task[q] /\ task[q] \notin Holding
  BY <1>0, <1>1, TaskMoves DEF Holding
<1>3. loaded[r] = session
  BY <1>0 DEF Inv, LoadedIsCurrent
<1>4. PICK v \in {"completed", "cancelled", "failed"} :
        /\ verdict' = [verdict EXCEPT ![r] = v]
        /\ \/ v = "completed" /\ session' = session \cup {r}
           \/ v # "completed" /\ session' = session
  BY <1>3 DEF Save, VerdictOnError
<1>5. /\ task'[r] = "deciding" /\ verdict' \in [Requests -> Verdicts \cup {"none"}]
      /\ verdict'[r] = v /\ \A q \in Requests \ {r} : verdict'[q] = verdict[q]
      /\ session \subseteq session' /\ session' \subseteq Requests
  BY <1>0, <1>4 DEF Inv, TypeOK, Verdicts
<1>6. TypeOK'
  <2>1. \A q \in Requests : task'[q] = "deciding" => verdict'[q] # "none"
    BY <1>2, <1>5 DEF Holding
  <2>. QED
    BY <1>0, <1>2, <1>5, <2>1 DEF Inv, TypeOK
<1>7. LoadedIsCurrent' /\ CompletedIsSaved'
  BY <1>0, <1>2, <1>4, <1>5 DEF Inv, LoadedIsCurrent, CompletedIsSaved, Holding
<1>8. CompletedRunsAreKept'
  BY <1>0, <1>5 DEF Inv, CompletedRunsAreKept
<1>. QED
  BY <1>2, <1>6, <1>7, <1>8 DEF Inv

LEMMA TerminateKeepsInv == ASSUME NEW r \in Requests, Inv, Terminate(r) PROVE Inv'
<1>0. /\ Alive /\ task[r] = "deciding" /\ task' = [task EXCEPT ![r] = "ended"]
      /\ Emit("terminal", r, verdict[r])
      /\ UNCHANGED <<server, active, received, run_id, token, verdict, loaded, session, cancels>>
  BY DEF Terminate, GoTo
<1>v. PICK v \in Verdicts : v = verdict[r]
  BY <1>0 DEF Inv, TypeOK
<1>1. PICK f \in FrameType : /\ f = Frame("terminal", r, v)
                             /\ frames' = Append(frames, f) /\ sequence' \in [Requests -> Nat]
  BY <1>0, <1>v, EmitsOne DEF Inv
<1>2. f.request = r /\ f.status = v /\ IsLast(f)
  BY <1>1 DEF Frame, IsLast
<1>3. /\ frames' \in Seq(FrameType) /\ \A q \in Requests : Answered(q) => Answered(q)'
      /\ Answered(r)'
      /\ \A i \in 1..Len(frames') : frames'[i] = f \/ (i \in 1..Len(frames) /\ frames'[i] = frames[i])
  BY <1>1, <1>2, OneFrameMore DEF Inv, TypeOK
<1>4. /\ OneHolds' /\ NotReadYet' /\ StoppedIsJoined' /\ EndedAreAnswered'
      /\ task' \in [Requests -> TaskPlaces]
      /\ active = r /\ \A q \in Requests \ {r} : task'[q] = task[q] /\ task[q] \notin Holding
  BY <1>0, <1>3, TaskMoves DEF Holding
<1>5. task'[r] = "ended"
  BY <1>0 DEF Inv, TypeOK
<1>6. TypeOK'
  BY <1>0, <1>1, <1>3, <1>4, <1>5 DEF Inv, TypeOK
<1>7. LoadedIsCurrent' /\ CompletedIsSaved'
  BY <1>0, <1>4, <1>5 DEF Inv, LoadedIsCurrent, CompletedIsSaved
<1>8. CompletedRunsAreKept'
  <2>1. f.status = "completed" => r \in session
    BY <1>2, <1>v DEF Inv, CompletedIsSaved
  <2>. QED
    BY <1>0, <1>2, <1>3, <2>1 DEF Inv, CompletedRunsAreKept
<1>. QED
  BY <1>4, <1>6, <1>7, <1>8 DEF Inv

LEMMA PanicKeepsInv == ASSUME NEW r \in Requests, Inv, Panic(r) PROVE Inv'
<1>0. /\ Alive /\ task[r] \in {"starting", "running", "saving"}
      /\ task' = [task EXCEPT ![r] = "panicked"]
      /\ UNCHANGED <<server, active, received, run_id, token, verdict, sequence, loaded, session,
                     cancels, frames>>
  BY DEF Panic, GoTo
<1>1. \A q \in Requests : Answered(q) <=> Answered(q)'
  BY <1>0, SameFrames
<1>2. /\ OneHolds' /\ NotReadYet' /\ StoppedIsJoined' /\ EndedAreAnswered'
      /\ task' \in [Requests -> TaskPlaces]
      /\ active = r /\ \A q \in Requests \ {r} : task'[q] = task[q] /\ task[q] \notin Holding
  BY <1>0, <1>1, TaskMoves DEF Holding
<1>3. task'[r] = "panicked"
  BY <1>0 DEF Inv, TypeOK
<1>4. TypeOK'
  BY <1>0, <1>2, <1>3 DEF Inv, TypeOK
<1>5. (LoadedIsCurrent /\ CompletedIsSaved /\ CompletedRunsAreKept)'
  BY <1>0, <1>2, <1>3 DEF Inv, LoadedIsCurrent, CompletedIsSaved, CompletedRunsAreKept
<1>. QED
  BY <1>2, <1>4, <1>5 DEF Inv

-----------------------------------------------------------------------------
(* Theorems.                                                               *)

LEMMA NextKeepsInv == Inv /\ [Next]_vars => Inv'
<1>. SUFFICES ASSUME Inv, [Next]_vars PROVE Inv'
  OBVIOUS
<1>1. CASE StartRun
  BY <1>1, StartRunKeepsInv
<1>2. CASE CancelRun \/ EndOfInput \/ InputFails
  BY <1>2, OtherInputKeepsInv
<1>3. CASE Stop
  BY <1>3, StopKeepsInv
<1>4. CASE \E r \in Requests : Join(r)
  BY <1>4, JoinKeepsInv
<1>5. CASE \E r \in Requests : Advance(r) \/ Delta(r) \/ Panic(r)
  BY <1>5, FailToStartKeepsInv, BeginKeepsInv, RunReturnsKeepsInv, SaveKeepsInv,
     TerminateKeepsInv, DeltaKeepsInv, PanicKeepsInv DEF Advance
<1>6. CASE UNCHANGED vars
  <2>1. \A q \in Requests : Answered(q) <=> Answered(q)'
    BY <1>6, SameFrames DEF vars
  <2>2. (TypeOK /\ OneHolds /\ LoadedIsCurrent /\ CompletedIsSaved)'
    BY <1>6 DEF vars, Inv, TypeOK, OneHolds, LoadedIsCurrent, CompletedIsSaved
  <2>3. (EndedAreAnswered /\ NotReadYet /\ StoppedIsJoined /\ CompletedRunsAreKept)'
    BY <1>6, <2>1 DEF vars, Inv, EndedAreAnswered, NotReadYet, StoppedIsJoined,
       CompletedRunsAreKept
  <2>. QED
    BY <2>2, <2>3 DEF Inv
<1>. QED
  BY <1>1, <1>2, <1>3, <1>4, <1>5, <1>6 DEF Next, Input, Loop, Task

LEMMA InvHolds == Spec => []Inv
<1>. QED
  BY InitInv, NextKeepsInv, PTL DEF Spec

\* The state of the server is well formed, and a task that is about to send its terminal
\* frame has a verdict for it (RunTerminal).
THEOREM ServerIsTyped == Spec => []TypeOK
<1>1. Inv => TypeOK
  BY DEF Inv
<1>. QED
  BY <1>1, InvHolds, PTL

\* A host that has read that a run is completed finds it in the session, whatever runs
\* come after it and however they end (run_desktop_request, ActiveRun).
THEOREM CompletedWorkStays == Spec => []CompletedRunsAreKept
<1>1. Inv => CompletedRunsAreKept
  BY DEF Inv
<1>. QED
  BY <1>1, InvHolds, PTL

\* When the server stops after the end of input, every request it read was answered with
\* a verdict, except for a task that panicked (run_stdio).
THEOREM StopsInGoodOrder == Spec => []ShutdownIsClean
<1>1. Inv => ShutdownIsClean
  <2>. SUFFICES ASSUME Inv, server = "stopped", NEW r \in 1..received
                PROVE  Answered(r) \/ task[r] = "lost"
    BY DEF ShutdownIsClean
  <2>1. r \in Requests /\ r <= received
    BY BoundAssumption DEF Inv, TypeOK, Requests
  <2>2. task[r] \in {"none", "joined", "lost"}
    BY <2>1 DEF Inv, StoppedIsJoined
  <2>. QED
    BY <2>1, <2>2 DEF Inv, EndedAreAnswered
<1>. QED
  BY <1>1, InvHolds, PTL
-----------------------------------------------------------------------------
(* The stream of a request.                                                *)

NumbersOf(r) == Numbers(r, Len(frames))
Streaming == {"starting", "running", "saving", "deciding"}

\* Before a request is read nothing was written for it.  While its task streams, the
\* numbers up to the emitter's next one are used, none of the frames has a verdict, and
\* the first frame is out as soon as the task runs.
StreamState ==
  \A r \in Requests :
    /\ r > received => sequence[r] = 0 /\ NumbersOf(r) = {} /\ ~Answered(r)
    /\ task[r] \in Streaming =>
         /\ NumbersOf(r) = 0..(sequence[r] - 1) /\ ~Answered(r)
         /\ (sequence[r] = 0) <=> (task[r] = "starting")

StreamInv == Inv /\ StreamsWellFormed /\ StreamState

LEMMA NumbersWithOneMore ==
  ASSUME frames \in Seq(FrameType), NEW f \in FrameType, frames' = Append(frames, f),
         NEW r \in Requests
  PROVE  /\ \A i \in 0..Len(frames) : Numbers(r, i)' = Numbers(r, i)
         /\ NumbersOf(r)' = IF f.request = r THEN NumbersOf(r) \cup {f.sequence} ELSE NumbersOf(r)
<1>1. /\ Len(frames') = Len(frames) + 1 /\ Len(frames) \in Nat
      /\ frames'[Len(frames) + 1] = f
      /\ \A i \in 1..Len(frames) : frames'[i] = frames[i]
  OBVIOUS
<1>2. ASSUME NEW i \in 0..Len(frames) PROVE Numbers(r, i)' = Numbers(r, i)
  <2>1. \A j \in 1..i : frames'[j] = frames[j]
    BY <1>1
  <2>2. {j \in 1..i : frames'[j].request = r} = {j \in 1..i : frames[j].request = r}
    BY <2>1
  <2>. QED
    BY <2>1, <2>2 DEF Numbers
<1>3. ASSUME NEW k
      PROVE  k \in NumbersOf(r)' <=> k \in NumbersOf(r) \/ (f.request = r /\ k = f.sequence)
  <2>1. k \in NumbersOf(r) <=> \E j \in 1..Len(frames) : frames[j].request = r /\ k = frames[j].sequence
    BY DEF NumbersOf, Numbers
  <2>2. k \in NumbersOf(r)' <=> \E j \in 1..Len(frames') : frames'[j].request = r /\ k = frames'[j].sequence
    BY DEF NumbersOf, Numbers
  <2>3. \A j : j \in 1..Len(frames') <=> j \in 1..Len(frames) \/ j = Len(frames) + 1
    BY <1>1
  <2>. QED
    BY <2>1, <2>2, <2>3, <1>1
<1>. QED
  BY <1>2, <1>3

\* A frame that carries the next number of its request, when none of that request's
\* frames had a verdict, leaves the streams in order.
LEMMA StreamsWithOneMore ==
  ASSUME frames \in Seq(FrameType), NEW f \in FrameType, frames' = Append(frames, f),
         StreamsWellFormed,
         f.request \in Requests =>
           /\ NumbersOf(f.request) = 0..(f.sequence - 1) /\ ~Answered(f.request)
           /\ f.kind \in {"snapshot", "command_error"} <=> f.sequence = 0
  PROVE  StreamsWellFormed'
<1>1. /\ Len(frames') = Len(frames) + 1 /\ Len(frames) \in Nat
      /\ frames'[Len(frames) + 1] = f
      /\ \A i \in 1..Len(frames) : frames'[i] = frames[i]
  OBVIOUS
<1>. SUFFICES ASSUME NEW i \in 1..Len(frames'), NEW r \in Requests, frames'[i].request = r
              PROVE  /\ Numbers(r, i - 1)' = 0..(frames'[i].sequence - 1)
                     /\ frames'[i].kind \in {"snapshot", "command_error"} <=> frames'[i].sequence = 0
                     /\ IsLast(frames'[i]) => \A j \in (i + 1)..Len(frames') : frames'[j].request # r
  BY DEF StreamsWellFormed, IsLast
<1>2. i - 1 \in 0..Len(frames) /\ (i \in 1..Len(frames) \/ i = Len(frames) + 1)
  BY <1>1
<1>3. Numbers(r, i - 1)' = Numbers(r, i - 1)
  BY <1>2, NumbersWithOneMore
<1>4. CASE i \in 1..Len(frames)
  <2>1. frames'[i] = frames[i]
    BY <1>1, <1>4
  <2>2. /\ Numbers(r, i - 1) = 0..(frames[i].sequence - 1)
        /\ frames[i].kind \in {"snapshot", "command_error"} <=> frames[i].sequence = 0
        /\ IsLast(frames[i]) => \A j \in (i + 1)..Len(frames) : frames[j].request # r
    BY <1>4, <2>1 DEF StreamsWellFormed
  <2>3. ASSUME IsLast(frames[i]), NEW j \in (i + 1)..Len(frames')
        PROVE  frames'[j].request # r
    <3>1. CASE j \in (i + 1)..Len(frames)
      BY <3>1, <2>2, <2>3, <1>1
    <3>2. CASE j = Len(frames) + 1
      <4>1. Answered(r)
        BY <1>4, <2>3 DEF Answered
      <4>. QED
        BY <4>1, <3>2, <1>1, <2>1
    <3>. QED
      BY <3>1, <3>2, <1>1
  <2>. QED
    BY <1>3, <2>1, <2>2, <2>3
<1>5. CASE i = Len(frames) + 1
  <2>1. frames'[i] = f /\ i - 1 = Len(frames)
    BY <1>1, <1>5
  <2>2. Numbers(r, i - 1) = NumbersOf(r) /\ f.request = r
    BY <2>1 DEF NumbersOf
  <2>3. \A j \in (i + 1)..Len(frames') : FALSE
    BY <1>1, <1>5
  <2>. QED
    BY <1>3, <2>1, <2>2, <2>3
<1>. QED
  BY <1>2, <1>4, <1>5

\* Only the request of the frame has one more number and perhaps its verdict.
LEMMA OthersKeepTheirStream ==
  ASSUME frames \in Seq(FrameType), NEW f \in FrameType, frames' = Append(frames, f),
         NEW r \in Requests
  PROVE  /\ f.request # r => NumbersOf(r)' = NumbersOf(r) /\ (Answered(r)' <=> Answered(r))
         /\ f.request = r => /\ NumbersOf(r)' = NumbersOf(r) \cup {f.sequence}
                             /\ Answered(r)' <=> Answered(r) \/ IsLast(f)
<1>1. /\ Len(frames') = Len(frames) + 1 /\ Len(frames) \in Nat
      /\ frames'[Len(frames) + 1] = f
      /\ \A i \in 1..Len(frames) : frames'[i] = frames[i]
  OBVIOUS
<1>2. Answered(r)' <=> Answered(r) \/ (f.request = r /\ IsLast(f))
  BY <1>1 DEF Answered, IsLast
<1>. QED
  BY <1>2, NumbersWithOneMore

\* A step that writes no frame.
LEMMA SameStreams ==
  ASSUME UNCHANGED frames
  PROVE  /\ StreamsWellFormed => StreamsWellFormed'
         /\ \A r : NumbersOf(r)' = NumbersOf(r)
         /\ \A r : Answered(r)' <=> Answered(r)
<1>1. \A r, i : Numbers(r, i)' = Numbers(r, i)
  BY DEF Numbers
<1>. QED
  BY <1>1 DEF StreamsWellFormed, NumbersOf, Answered, IsLast

-----------------------------------------------------------------------------
(* Every step keeps the streams.                                           *)

LEMMA InitStreams == Init => StreamsWellFormed /\ StreamState
<1>. SUFFICES ASSUME Init PROVE StreamsWellFormed /\ StreamState
  OBVIOUS
<1>1. frames = <<>> /\ Len(frames) = 0
  BY DEF Init
<1>2. StreamsWellFormed
  BY <1>1 DEF StreamsWellFormed
<1>3. ASSUME NEW r \in Requests PROVE NumbersOf(r) = {} /\ ~Answered(r)
  BY <1>1 DEF NumbersOf, Numbers, Answered
<1>4. StreamState
  BY <1>3 DEF Init, StreamState, Streaming
<1>. QED
  BY <1>2, <1>4

\* A frame of a task that streams.
LEMMA EmitKeepsStreams ==
  ASSUME StreamInv, NEW r \in Requests, NEW kind \in {"command_error", "snapshot", "delta", "terminal"},
         NEW status \in Verdicts \cup {"none"}, Emit(kind, r, status),
         task[r] \in Streaming, UNCHANGED received,
         kind \in {"snapshot", "command_error"} <=> task[r] = "starting",
         \A q \in Requests \ {r} : task'[q] = task[q],
         task'[r] \in Streaming => status = "none" /\ task'[r] # "starting"
  PROVE  StreamsWellFormed' /\ StreamState'
<1>1. PICK f \in FrameType : f = Frame(kind, r, status) /\ frames' = Append(frames, f)
  BY EmitsOne DEF StreamInv, Inv
<1>2. /\ f.request = r /\ f.sequence = sequence[r] /\ f.kind = kind /\ f.status = status
  BY <1>1 DEF Frame
<1>3. frames \in Seq(FrameType) /\ sequence \in [Requests -> Nat] /\ received \in Nat
  BY BoundAssumption DEF StreamInv, Inv, TypeOK
<1>4. /\ NumbersOf(r) = 0..(sequence[r] - 1) /\ ~Answered(r)
      /\ (sequence[r] = 0) <=> (task[r] = "starting")
      /\ StreamsWellFormed
  BY DEF StreamInv, StreamState
<1>5. StreamsWellFormed'
  BY <1>1, <1>2, <1>3, <1>4, StreamsWithOneMore
<1>6. /\ sequence' = [sequence EXCEPT ![r] = sequence[r] + 1]
      /\ sequence'[r] = sequence[r] + 1 /\ sequence[r] \in Nat
      /\ \A q \in Requests \ {r} : sequence'[q] = sequence[q]
  BY <1>3 DEF Emit
<1>7. NumbersOf(r)' = 0..(sequence'[r] - 1)
  <2>1. NumbersOf(r)' = 0..(sequence[r] - 1) \cup {sequence[r]}
    BY <1>1, <1>2, <1>3, <1>4, OthersKeepTheirStream
  <2>. QED
    BY <2>1, <1>6
<1>8. Answered(r)' <=> status \in Verdicts
  BY <1>1, <1>2, <1>3, <1>4, OthersKeepTheirStream DEF IsLast
<1>9. ~(r > received)
  BY DEF StreamInv, Inv, NotReadYet, Streaming
<1>10. StreamState'
  <2>. SUFFICES ASSUME NEW q \in Requests
                PROVE  /\ q > received => sequence'[q] = 0 /\ NumbersOf(q)' = {} /\ ~Answered(q)'
                       /\ task'[q] \in Streaming =>
                            /\ NumbersOf(q)' = 0..(sequence'[q] - 1) /\ ~Answered(q)'
                            /\ (sequence'[q] = 0) <=> (task'[q] = "starting")
    BY DEF StreamState
  <2>1. CASE q = r
    BY <2>1, <1>6, <1>7, <1>8, <1>9 DEF Verdicts
  <2>2. CASE q # r
    <3>1. NumbersOf(q)' = NumbersOf(q) /\ (Answered(q)' <=> Answered(q))
      BY <2>2, <1>1, <1>2, <1>3, OthersKeepTheirStream
    <3>. QED
      BY <2>2, <3>1, <1>6 DEF StreamInv, StreamState
  <2>. QED
    BY <2>1, <2>2
<1>. QED
  BY <1>5, <1>10

LEMMA StartRunKeepsStreams == StreamInv /\ StartRun => StreamsWellFormed' /\ StreamState'
<1>. SUFFICES ASSUME StreamInv, StartRun PROVE StreamsWellFormed' /\ StreamState'
  OBVIOUS
<1>r. PICK r \in Requests : /\ r = received + 1
                           /\ \/ Reject(r)
                              \/ ~SlotTaken(r) /\ active' = r /\ GoTo(r, "starting") /\ UNCHANGED frames
  BY DEF StartRun
<1>0. /\ received' = r /\ r > received /\ received \in Nat
      /\ task[r] = "none" /\ UNCHANGED sequence
      /\ \A q \in Requests : q > r => q > received
  BY <1>r, BoundAssumption DEF StartRun, StreamInv, Inv, TypeOK, NotReadYet, Requests
<1>1. sequence[r] = 0 /\ NumbersOf(r) = {} /\ ~Answered(r)
  BY <1>0 DEF StreamInv, StreamState
<1>2. 0..(0 - 1) = {} /\ ~(r > r)
  BY DEF Requests
<1>3. CASE Reject(r)
  <2>1. PICK f \in FrameType : f = Frame("command_error", r, "failed")
    BY FrameTyped DEF StreamInv, Inv, Verdicts
  <2>2. f.request = r /\ f.sequence = 0 /\ f.kind = "command_error"
    BY <2>1, <1>1 DEF Frame
  <2>3. frames' = Append(frames, f) /\ UNCHANGED task /\ frames \in Seq(FrameType)
    BY <2>1, <1>3 DEF Reject, StreamInv, Inv, TypeOK
  <2>4. StreamsWellFormed'
    BY <2>2, <2>3, <1>1, <1>2, StreamsWithOneMore DEF StreamInv
  <2>5. StreamState'
    <3>. SUFFICES ASSUME NEW q \in Requests
                  PROVE  /\ q > r => sequence[q] = 0 /\ NumbersOf(q)' = {} /\ ~Answered(q)'
                         /\ task[q] \in Streaming =>
                              /\ NumbersOf(q)' = 0..(sequence[q] - 1) /\ ~Answered(q)'
                              /\ (sequence[q] = 0) <=> (task[q] = "starting")
      BY <1>0, <2>3 DEF StreamState
    <3>1. CASE q = r
      BY <3>1, <1>0, <1>2 DEF Streaming
    <3>2. CASE q # r
      <4>1. NumbersOf(q)' = NumbersOf(q) /\ (Answered(q)' <=> Answered(q))
        BY <3>2, <2>2, <2>3, OthersKeepTheirStream
      <4>. QED
        BY <4>1, <1>0 DEF StreamInv, StreamState
    <3>. QED
      BY <3>1, <3>2
  <2>. QED
    BY <2>4, <2>5
<1>4. CASE GoTo(r, "starting") /\ UNCHANGED frames
  <2>1. task'[r] = "starting" /\ \A q \in Requests \ {r} : task'[q] = task[q]
    BY <1>4 DEF GoTo, StreamInv, Inv, TypeOK
  <2>2. StreamsWellFormed'
    BY <1>4, SameStreams DEF StreamInv
  <2>3. StreamState'
    <3>. SUFFICES ASSUME NEW q \in Requests
                  PROVE  /\ q > r => sequence[q] = 0 /\ NumbersOf(q) = {} /\ ~Answered(q)
                         /\ task'[q] \in Streaming =>
                              /\ NumbersOf(q) = 0..(sequence[q] - 1) /\ ~Answered(q)
                              /\ (sequence[q] = 0) <=> (task'[q] = "starting")
      BY <1>0, <1>4, SameStreams DEF StreamState
    <3>1. CASE q = r
      BY <3>1, <2>1, <1>0, <1>1, <1>2
    <3>2. CASE q # r
      BY <3>2, <2>1, <1>0 DEF StreamInv, StreamState
    <3>. QED
      BY <3>1, <3>2
  <2>. QED
    BY <2>2, <2>3
<1>. QED
  BY <1>r, <1>3, <1>4

\* Steps that write nothing and move no task into a place where it streams.
LEMMA QuietStepKeepsStreams ==
  ASSUME StreamInv, UNCHANGED <<frames, received, sequence>>,
         \A q \in Requests : task'[q] \in Streaming =>
                               task[q] \in Streaming /\ (task'[q] = "starting" <=> task[q] = "starting")
  PROVE  StreamsWellFormed' /\ StreamState'
<1>1. StreamsWellFormed'
  BY SameStreams DEF StreamInv
<1>2. StreamState'
  BY SameStreams DEF StreamInv, StreamState
<1>. QED
  BY <1>1, <1>2

\* An acknowledgement belongs to no request.
LEMMA CancelKeepsStreams == StreamInv /\ CancelRun => StreamsWellFormed' /\ StreamState'
<1>. SUFFICES ASSUME StreamInv, CancelRun PROVE StreamsWellFormed' /\ StreamState'
  OBVIOUS
<1>1. PICK f \in FrameType : frames' = Append(frames, f) /\ f.request = NoRequest
  <2>1. PICK status \in {"accepted", "not_found"} :
           frames' = Append(frames, [kind |-> "cancel_ack", request |-> NoRequest,
                                     sequence |-> 0, status |-> status])
    BY DEF CancelRun
  <2>2. [kind |-> "cancel_ack", request |-> NoRequest, sequence |-> 0, status |-> status] \in FrameType
    BY BoundAssumption DEF FrameType, NoRequest
  <2>. QED
    BY <2>1, <2>2
<1>2. f.request \notin Requests /\ frames \in Seq(FrameType)
      /\ UNCHANGED <<received, task, sequence>>
  BY <1>1 DEF CancelRun, StreamInv, Inv, TypeOK, Requests, NoRequest
<1>3. StreamsWellFormed'
  BY <1>1, <1>2, StreamsWithOneMore DEF StreamInv
<1>4. ASSUME NEW q \in Requests
      PROVE  NumbersOf(q)' = NumbersOf(q) /\ (Answered(q)' <=> Answered(q))
  BY <1>1, <1>2, OthersKeepTheirStream
<1>5. StreamState'
  BY <1>2, <1>4 DEF StreamInv, StreamState
<1>. QED
  BY <1>3, <1>5

LEMMA TaskKeepsStreams ==
  ASSUME NEW r \in Requests, StreamInv, Advance(r) \/ Delta(r) \/ Panic(r) \/ Join(r)
  PROVE  StreamsWellFormed' /\ StreamState'
<1>t. task \in [Requests -> TaskPlaces]
  BY DEF StreamInv, Inv, TypeOK
<1>1. CASE FailToStart(r)
  <2>1. /\ Emit("command_error", r, "failed") /\ UNCHANGED received
        /\ task[r] = "starting" /\ task' = [task EXCEPT ![r] = "ended"]
    BY <1>1 DEF FailToStart, GoTo
  <2>2. task'[r] = "ended" /\ \A q \in Requests \ {r} : task'[q] = task[q]
    BY <2>1, <1>t
  <2>. QED
    BY <2>1, <2>2, EmitKeepsStreams DEF Streaming, Verdicts
<1>2. CASE Begin(r)
  <2>1. /\ Emit("snapshot", r, "none") /\ UNCHANGED received
        /\ task[r] = "starting" /\ task' = [task EXCEPT ![r] = "running"]
    BY <1>2 DEF Begin, GoTo
  <2>2. task'[r] = "running" /\ \A q \in Requests \ {r} : task'[q] = task[q]
    BY <2>1, <1>t
  <2>. QED
    BY <2>1, <2>2, EmitKeepsStreams DEF Streaming
<1>3. CASE Delta(r)
  <2>1. Emit("delta", r, "none") /\ UNCHANGED <<received, task>> /\ task[r] = "running"
    BY <1>3 DEF Delta
  <2>. QED
    BY <2>1, EmitKeepsStreams DEF Streaming
<1>4. CASE Terminate(r)
  <2>1. /\ Emit("terminal", r, verdict[r]) /\ UNCHANGED received
        /\ task[r] = "deciding" /\ task' = [task EXCEPT ![r] = "ended"]
    BY <1>4 DEF Terminate, GoTo
  <2>2. task'[r] = "ended" /\ \A q \in Requests \ {r} : task'[q] = task[q]
    BY <2>1, <1>t
  <2>3. verdict[r] \in Verdicts \cup {"none"}
    BY DEF StreamInv, Inv, TypeOK
  <2>. QED
    BY <2>1, <2>2, <2>3, EmitKeepsStreams DEF Streaming
<1>5. CASE RunReturns(r) \/ Save(r) \/ Panic(r) \/ Join(r)
  <2>1. PICK place \in {"saving", "deciding", "panicked", "joined", "lost"} :
          /\ task' = [task EXCEPT ![r] = place]
          /\ place \in {"saving", "deciding"} => task[r] \in {"running", "saving"}
          /\ UNCHANGED <<frames, received, sequence>>
    BY <1>5 DEF RunReturns, Save, Panic, Join, GoTo
  <2>2. task'[r] = place /\ \A q \in Requests \ {r} : task'[q] = task[q]
    BY <2>1, <1>t
  <2>3. \A q \in Requests : task'[q] \in Streaming =>
          task[q] \in Streaming /\ (task'[q] = "starting" <=> task[q] = "starting")
    BY <2>1, <2>2 DEF Streaming
  <2>. QED
    BY <2>1, <2>3, QuietStepKeepsStreams
<1>. QED
  BY <1>1, <1>2, <1>3, <1>4, <1>5 DEF Advance

LEMMA NextKeepsStreams == StreamInv /\ [Next]_vars => StreamInv'
<1>. SUFFICES ASSUME StreamInv, [Next]_vars PROVE StreamsWellFormed' /\ StreamState'
  BY NextKeepsInv DEF StreamInv
<1>1. CASE StartRun
  BY <1>1, StartRunKeepsStreams
<1>2. CASE CancelRun
  BY <1>2, CancelKeepsStreams
<1>3. CASE EndOfInput \/ InputFails \/ Stop \/ UNCHANGED vars
  <2>1. UNCHANGED <<frames, received, sequence, task>>
    BY <1>3 DEF EndOfInput, InputFails, Stop, vars
  <2>. QED
    BY <2>1, QuietStepKeepsStreams
<1>4. CASE \E r \in Requests : Join(r) \/ Advance(r) \/ Delta(r) \/ Panic(r)
  BY <1>4, TaskKeepsStreams
<1>. QED
  BY <1>1, <1>2, <1>3, <1>4 DEF Next, Input, Loop, Task

\* What the host reads of a request is one stream: its frames are numbered from 0 without
\* a gap or a repetition, whatever other requests write in between, it opens with the
\* snapshot or with the error that stands in for it, and nothing follows the one frame
\* that has the verdict (FrameEmitter, run_desktop_request).
THEOREM StreamsAreInOrder == Spec => []StreamsWellFormed
<1>1. Init => StreamInv
  BY InitInv, InitStreams DEF StreamInv
<1>2. StreamInv => StreamsWellFormed
  BY DEF StreamInv
<1>. QED
  BY <1>1, <1>2, NextKeepsStreams, PTL DEF Spec
=============================================================================
