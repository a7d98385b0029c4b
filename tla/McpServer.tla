------------------------------ MODULE McpServer -----------------------------
(***************************************************************************)
(* codex-spark-agent as an MCP server on stdio (src/mcp_server/): one loop *)
(* reads requests and starts a task for every call of explore_repo, which  *)
(* runs a read-only agent (src/repo_brief.rs, run_mcp) with a cancellation *)
(* token of its own.  The parent sends requests with ids it does not reuse *)
(* and closes stdin when it is done; it may also close stdout.             *)
(***************************************************************************)
EXTENDS Naturals, Sequences, FiniteSets

CONSTANTS Ids,       \* request ids
          MaxInput   \* bound: lines not yet read

VARIABLES input,     \* lines in stdin
          closed,    \* whether stdin is at its end behind them
          sent,      \* ids the parent has used
          server,    \* where run() is: serving, draining, ended or failed
          task,      \* the task of each call
          token,     \* cancelled tokens
          active,    \* the map from ids to tokens
          answers,   \* how often each id was answered, stdout closed or not
          wanted     \* calls of which a cancellation was read while they ran (history)

vars == <<input, closed, sent, server, task, token, active, answers, wanted>>

Requests == {"initialize", "ping", "list", "unknown"}    \* answered at once
Notes == {"initialized", "blank"}                        \* answered never
Lines == [kind : Requests \cup {"call", "cancel"}, id : Ids] \cup [kind : Notes \cup {"garbage"}, id : {0}]

Init == /\ input = <<>> /\ closed = FALSE /\ sent = {}
        /\ server = "serving"
        /\ task = [i \in Ids |-> "none"]
        /\ token = {} /\ active = {} /\ wanted = {}
        /\ answers = [i \in Ids |-> 0]

Running == {i \in Ids : task[i] \in {"started", "exploring"}}

-----------------------------------------------------------------------------
(* The parent: external.                                                   *)

ParentWrites ==
    /\ ~closed /\ Len(input) < MaxInput
    /\ \E l \in Lines :
          /\ l.kind \in Requests \cup {"call"} => l.id \notin sent
          /\ input' = Append(input, l)
          /\ sent' = IF l.kind \in Requests \cup {"call"} THEN sent \cup {l.id} ELSE sent
    /\ UNCHANGED <<closed, server, task, token, active, answers, wanted>>

ParentCloses ==
    /\ ~closed /\ closed' = TRUE
    /\ UNCHANGED <<input, sent, server, task, token, active, answers, wanted>>

-----------------------------------------------------------------------------
(* run and dispatch.                                                       *)

\* An error of dispatch or of stdin ends run: its JoinSet aborts the tasks.
Fail == /\ server' = "failed"
        /\ task' = [i \in Ids |-> IF i \in Running THEN "aborted" ELSE task[i]]

\* A request that is answered in the loop; if stdout is closed the loop ends.
AnswerNow(l) ==
    \/ /\ answers' = IF l.kind = "garbage" THEN answers ELSE [answers EXCEPT ![l.id] = @ + 1]
       /\ UNCHANGED <<server, task, token, active, wanted>>
    \/ Fail /\ UNCHANGED <<answers, token, active, wanted>>

\* (Fault: the token is not entered in the map.)
RegisterLate(i) == UNCHANGED active

Register(i) == active' = active \cup {i}

StartCall(i) ==
    /\ Register(i)
    /\ task' = [task EXCEPT ![i] = "started"]
    /\ UNCHANGED <<server, token, answers, wanted>>

CancelCall(i) ==
    /\ token' = IF i \in active THEN token \cup {i} ELSE token
    /\ wanted' = IF i \in Running THEN wanted \cup {i} ELSE wanted
    /\ UNCHANGED <<server, task, active, answers>>

Dispatch ==
    /\ server = "serving" /\ input # <<>>
    /\ input' = Tail(input)
    /\ LET l == Head(input) IN
       \/ l.kind \in Requests \cup {"garbage"} /\ AnswerNow(l)
       \/ l.kind = "call" /\ StartCall(l.id)
       \/ l.kind = "cancel" /\ CancelCall(l.id)
       \/ l.kind \in Notes /\ UNCHANGED <<server, task, token, active, answers, wanted>>
    /\ UNCHANGED <<closed, sent>>

\* (Fault: the calls that are under way are left to finish.)
LeaveRunning == UNCHANGED token

CancelAll == token' = token \cup active

\* The end of stdin: what is still running is cancelled, then waited for.
EndOfInput ==
    /\ server = "serving" /\ input = <<>> /\ closed
    /\ CancelAll
    /\ server' = "draining"
    /\ UNCHANGED <<input, closed, sent, task, active, answers, wanted>>

\* stdin cannot be read (it is not UTF-8).
InputFails ==
    /\ server = "serving" /\ input = <<>>
    /\ Fail
    /\ UNCHANGED <<input, closed, sent, token, active, answers, wanted>>

\* (Fault: the program ends without waiting for its tasks.)
Anyhow == TRUE

Joined == \A i \in Ids : task[i] \in {"none", "done", "aborted"}

Ended ==
    /\ server = "draining" /\ Joined
    /\ server' = "ended"
    /\ task' = [i \in Ids |-> IF task[i] \in {"none", "done"} THEN task[i] ELSE "aborted"]
    /\ UNCHANGED <<input, closed, sent, token, active, answers, wanted>>

-----------------------------------------------------------------------------
(* The task of a call: handle_tool_call, its answer, and its removal.      *)

Alive == server \in {"serving", "draining"}

\* The tool is explore_repo, its arguments are valid, the workspace and its
\* AGENTS.md files are read and there are credentials: the agent starts.
Explore(i) ==
    /\ Alive /\ task[i] = "started"
    /\ task' = [task EXCEPT ![i] = "exploring"]
    /\ UNCHANGED <<input, closed, sent, server, token, active, answers, wanted>>

\* Otherwise, and when the run has ended, its text or error is written (or
\* stdout is closed, which is logged).  The run looks at the token before and
\* during every wait, so it ends once it is cancelled; answered all the same.
Answer(i) ==
    /\ Alive /\ i \in Running
    /\ task' = [task EXCEPT ![i] = "answered"]
    /\ answers' = [answers EXCEPT ![i] = @ + 1]
    /\ UNCHANGED <<input, closed, sent, server, token, active, wanted>>

Forget(i) ==
    /\ Alive /\ task[i] = "answered"
    /\ task' = [task EXCEPT ![i] = "done"]
    /\ active' = active \ {i}
    /\ UNCHANGED <<input, closed, sent, server, token, answers, wanted>>

Next ==
    \/ ParentWrites \/ ParentCloses \/ Dispatch \/ EndOfInput \/ InputFails \/ Ended
    \/ \E i \in Ids : Explore(i) \/ Answer(i) \/ Forget(i)

Spec == Init /\ [][Next]_vars

-----------------------------------------------------------------------------
(* Properties.                                                             *)

\* A call that runs after a cancellation of it was read, or after the end of
\* stdin, has its token cancelled, whatever was read and answered in between;
\* and a server that ended answered each call exactly once.
CancelledCallsAreToldAndAnswered ==
    /\ \A i \in Running : i \in wanted \/ server = "draining" => i \in token
    /\ server = "ended" => \A i \in Ids : task[i] # "none" => answers[i] = 1
=============================================================================
