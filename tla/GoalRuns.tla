------------------------------ MODULE GoalRuns ------------------------------
(***************************************************************************)
(* The goal of a runner (src/agent/goal.rs): an objective that is worked   *)
(* on checkpoint by checkpoint.  `/goal run n` and `--goal` send at most n *)
(* checkpoint prompts; the marker at the end of an answer decides whether  *)
(* the goal goes on, and every final answer of the run loop is looked at   *)
(* for one, the answer to an ordinary prompt too.  A goal travels with the *)
(* session's snapshot.                                                     *)
(***************************************************************************)
EXTENDS Naturals, Sequences

CONSTANTS MaxLog,   \* bound: checkpoints a goal can log
          MaxRun    \* bound: checkpoints asked of one run (20 in the code)

VARIABLES goal,      \* AgentRunner.goal, NoGoal for None
          saved,     \* the goal in the snapshot of the other session
          work,      \* run_goal_checkpoints: what is left, where it started, prompts sent
          report     \* GoalRunReport of the last run that ended with one

vars == <<goal, saved, work, report>>

Status == {"running", "paused", "complete", "blocked"}
NoGoal == [status |-> "none", checkpoint |-> 0, log |-> <<>>]
NewGoal == [NoGoal EXCEPT !.status = "running"]
Idle == [left |-> 0, start |-> 0, worked |-> 0]
NoReport == [run |-> 0, worked |-> 0, status |-> "none"]

Init == goal = NoGoal /\ saved = NoGoal /\ work = Idle /\ report = NoReport

Free == work.left = 0

-----------------------------------------------------------------------------
\* /goal <objective>, clear, pause, resume.  Setting a goal replaces the old one.
GoalCommand ==
    /\ Free
    /\ \/ goal' \in {NewGoal, NoGoal}
       \/ /\ goal # NoGoal
          /\ \E s \in {"paused", "running"} : goal' = [goal EXCEPT !.status = s]
    /\ UNCHANGED <<saved, work, report>>

\* record_goal_progress
Progress(g, s) ==
    [g EXCEPT !.status = s, !.checkpoint = @ + 1,
              !.log = Append(@, [checkpoint |-> g.checkpoint + 1, status |-> s])]

\* record_goal_decision_from_assistant: nothing without a goal or a marker.
Decided(g, marker) == IF g = NoGoal \/ marker = "none" THEN g ELSE Progress(g, marker)

\* An ordinary prompt whose answer ends with a marker.
OrdinaryAnswer ==
    /\ Free /\ Len(goal.log) < MaxLog
    /\ \E marker \in Status : goal' = Decided(goal, marker)
    /\ UNCHANGED <<saved, work, report>>

-----------------------------------------------------------------------------
\* A goal that is not running is only reported.
GoalRun ==
    /\ Free /\ goal # NoGoal
    /\ \E n \in 1..MaxRun :
          IF goal.status = "running"
          THEN /\ work' = [left |-> n, start |-> goal.checkpoint, worked |-> 0]
               /\ report' = NoReport
          ELSE /\ report' = [run |-> 0, worked |-> 0, status |-> goal.status]
               /\ UNCHANGED work
    /\ UNCHANGED <<goal, saved>>

\* (Fault: the end without a marker is recorded although there was one.)
AlwaysRecorded(before, g) == Progress(g, "running")

\* An answer without a marker still makes a checkpoint.
AfterPrompt(before, g) ==
    IF g.checkpoint = before.checkpoint THEN Progress(g, "running") ELSE g

Checkpoint ==
    /\ ~Free /\ Len(goal.log) < MaxLog
    /\ \E marker \in Status \cup {"none"} :
          goal' = AfterPrompt(goal, Decided(goal, marker))
    /\ IF goal'.status # "running" \/ work.left = 1
       THEN /\ work' = Idle
            /\ report' = [run |-> goal'.checkpoint - work.start,
                          worked |-> work.worked + 1, status |-> goal'.status]
       ELSE /\ work' = [work EXCEPT !.left = @ - 1, !.worked = @ + 1]
            /\ UNCHANGED report
    /\ UNCHANGED saved

\* The prompt fails or is cancelled: the run ends without a report.
CheckpointFails ==
    /\ ~Free
    /\ work' = Idle
    /\ UNCHANGED <<goal, saved, report>>

\* The open session is saved and the other one restored; clearing the
\* conversation leaves the goal.
OpenSession ==
    /\ Free
    /\ goal' = saved /\ saved' = goal
    /\ UNCHANGED <<work, report>>

Next == GoalCommand \/ OrdinaryAnswer \/ GoalRun \/ Checkpoint \/ CheckpointFails \/ OpenSession

Spec == Init /\ [][Next]_vars

-----------------------------------------------------------------------------
\* What a goal run reports is what it did, whatever the answers said and the
\* commands before it changed: as many checkpoints as prompts were sent, the
\* progress log names every checkpoint once and in order, and only a run whose
\* goal is still running used up its prompts.
GoalRunIsCounted ==
    /\ report.run = report.worked
    /\ Len(goal.log) = goal.checkpoint
    /\ \A i \in DOMAIN goal.log : goal.log[i].checkpoint = i
    /\ ~Free => goal.status = "running" /\ work.worked = goal.checkpoint - work.start
=============================================================================
