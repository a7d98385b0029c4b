----------------------------- MODULE OneShotRuns ----------------------------
(***************************************************************************)
(* The two ways another program has the agent do one thing and reads the   *)
(* answer from stdout: spark brief (src/repo_brief.rs, run_standalone, and *)
(* Command::Brief in src/main.rs) and spark automation --stdio             *)
(* (src/automation.rs).  A request is told apart by the checks it fails.   *)
(* The agent itself is AgentRun; here it ends with an answer or an error,  *)
(* or it does not end in time.                                             *)
(***************************************************************************)
EXTENDS Naturals, Sequences, FiniteSets, SequencesExt

CONSTANTS MaxFaults,   \* bound: checks one request fails
          MaxBody      \* MAX_INSTRUCTION_CHARS, in AGENTS.md files of one size

\* validate_request of each host, which looks at the request alone ...
Validation == [brief |-> <<"question", "paths", "context", "effort", "timeout">>,
               automation |-> <<"schema_version", "request_id", "schema_name", "prompt",
                                "model", "effort", "output_schema">>]
\* ... and what is needed before the agent starts, in this order.
Preparation == [brief |-> <<"workspace", "instructions", "auth">>,
                automation |-> <<"workspace", "read_roots", "auth", "mcp">>]
Input == [brief |-> {}, automation |-> {"size", "json"}]

Checks(h) == Range(Validation[h]) \cup Range(Preparation[h]) \cup Input[h]

VARIABLES host,      \* "brief" or "automation"
          bad,       \* the checks this request fails
          phase,     \* where the program is
          next,      \* the next step of Preparation
          done,      \* the steps of Preparation that were taken
          deadline,  \* brief: whether timeout_seconds have passed
          cancelled, \* whether the run's token was cancelled
          run,       \* the agent's run: none, going, ended or dropped
          answer,    \* what the run returned
          out,       \* the envelopes on stdout
          exit       \* the exit code

vars == <<host, bad, phase, next, done, deadline, cancelled, run, answer, out, exit>>

\* An answer keeps the contract of its host (every required heading and one
\* citation, contract_diagnostic; JSON) or it does not.
Answers == {"good", "poor", "error"}

Init == /\ host \in {"brief", "automation"}
        /\ bad \in {b \in SUBSET Checks(host) : Cardinality(b) <= MaxFaults}
        /\ phase = "start" /\ next = 1 /\ done = {}
        /\ deadline = FALSE /\ cancelled = FALSE
        /\ run = "none" /\ answer = "none"
        /\ out = <<>> /\ exit = 99

-----------------------------------------------------------------------------
(* What is reported: report_from_result, standalone_error_report, main; and *)
(* AutomationResponse, write_failure.                                      *)

ContractMet(a) == a = "good"

Envelope(status) == [status |-> status, id |-> host = "brief" \/ bad \cap Input[host] = {}]

\* The code that a report has for its status is in the text of the error only.
ExitCode(status) == IF status = "completed" THEN 0 ELSE 1

Report(status) ==
    /\ out' = Append(out, Envelope(status))
    /\ exit' = ExitCode(status)
    /\ phase' = "exited"

StatusOf(a) == IF a = "error" THEN IF host = "brief" THEN "error" ELSE "failed"
               ELSE IF ContractMet(a) THEN "completed"
               ELSE IF host = "brief" THEN "contract_incomplete" ELSE "failed"

Refuse == Report(StatusOf("error"))

-----------------------------------------------------------------------------
\* read_request, then validate_request.
Validate ==
    /\ phase = "start"
    /\ IF bad \cap (Input[host] \cup Range(Validation[host])) # {} THEN Refuse
       ELSE phase' = "preparing" /\ UNCHANGED <<out, exit>>
    /\ UNCHANGED <<host, bad, next, done, deadline, cancelled, run, answer>>

Prepare ==
    /\ phase = "preparing" /\ next <= Len(Preparation[host])
    /\ LET step == Preparation[host][next] IN
       /\ next' = next + 1 /\ done' = done \cup {step}
       /\ IF step \in bad THEN Refuse ELSE UNCHANGED <<phase, out, exit>>
    /\ UNCHANGED <<host, bad, deadline, cancelled, run, answer>>

StartRun ==
    /\ phase = "preparing" /\ next > Len(Preparation[host])
    /\ phase' = "running" /\ run' = "going"
    /\ UNCHANGED <<host, bad, next, done, deadline, cancelled, answer, out, exit>>

\* run_with_cancel_to_text returns, by itself or because it was cancelled.
RunReturns ==
    /\ run = "going"
    /\ run' = "ended" /\ answer' \in Answers
    /\ UNCHANGED <<host, bad, phase, next, done, deadline, cancelled, out, exit>>

DeadlinePasses ==
    /\ phase = "running" /\ host = "brief" /\ ~deadline
    /\ deadline' = TRUE
    /\ UNCHANGED <<host, bad, phase, next, done, cancelled, run, answer, out, exit>>

\* The select of run_standalone: of a result and a deadline that are both
\* there it takes either.
TakeResult ==
    /\ phase = "running" /\ run = "ended"
    /\ Report(StatusOf(answer))
    /\ UNCHANGED <<host, bad, next, done, deadline, cancelled, run, answer>>

\* The run is cancelled and has two seconds more.
TakeDeadline ==
    /\ phase = "running" /\ deadline
    /\ phase' = "cancelled" /\ cancelled' = TRUE
    /\ UNCHANGED <<host, bad, next, done, deadline, run, answer, out, exit>>

\* (Fault: an answer that comes in those two seconds is reported.)
LateStatus == IF run = "ended" THEN StatusOf(answer) ELSE "limit"

LimitStatus == "limit"

\* What it returned then is not looked at, and if it did not it is dropped.
ReportLimit ==
    /\ phase = "cancelled"
    /\ run' = IF run = "ended" THEN "ended" ELSE "dropped"
    /\ Report(LimitStatus)
    /\ UNCHANGED <<host, bad, next, done, deadline, cancelled, answer>>

Next ==
    \/ Validate \/ Prepare \/ StartRun \/ RunReturns
    \/ DeadlinePasses \/ TakeResult \/ TakeDeadline \/ ReportLimit

Spec == Init /\ [][Next]_vars

-----------------------------------------------------------------------------
(* load_instruction_context: the AGENTS.md of every directory from the root *)
(* of the repository to the workspace and to each starting path, in the    *)
(* order of a set of paths, until they no longer fit.  A directory is the  *)
(* sequence of its names below the root, a name its place in byte order.   *)

Agents == 5          \* "AGENTS.md": after .github and digits, before small letters
DirNames == {2, 7}
Dirs == BoundedSeq(DirNames, 2)

Between(target) == {SubSeq(target, 1, n) : n \in 0 .. Len(target)}

PathBefore(d, e) ==
    LET p == Append(d, Agents)
        q == Append(e, Agents)
    IN \E i \in DOMAIN p \cap DOMAIN q :
          SubSeq(p, 1, i - 1) = SubSeq(q, 1, i - 1) /\ p[i] < q[i]

Loaded(cwd, starts, present) ==
    LET found == UNION {Between(d) : d \in starts \cup {cwd}} \cap present
        sorted == SetToSortSeq(found, PathBefore)
    IN SubSeq(sorted, 1, IF Len(sorted) < MaxBody THEN Len(sorted) ELSE MaxBody)

-----------------------------------------------------------------------------
(* Properties.                                                             *)

\* A program that ends has written exactly one envelope, with the request's id
\* whenever there was one to read; it exits with 0 only for a run that ended by
\* itself before it was cancelled with an answer of the promised form; it
\* reports the limit only after the deadline, and then leaves no run going; and
\* a request that is itself wrong is refused before credentials are read.
ReportTellsTheRun ==
    /\ phase = "exited" =>
          /\ Len(out) = 1 /\ run # "going"
          /\ exit = 0 <=> Last(out).status = "completed"
          /\ exit = 0 => answer = "good" /\ bad = {}
          /\ Last(out).status = "limit" <=> cancelled
          /\ cancelled => deadline
          /\ Last(out).id <=> bad \cap Input[host] = {}
    /\ "auth" \in done => bad \cap Range(Validation[host]) = {}

\* (violated) The instructions of a directory come after those of the
\* directories it lies in (repo_brief.rs, the test
\* nested_agents_files_are_loaded_in_scope_order).
InstructionsInScopeOrder ==
    \A d \in Dirs :
        LET l == Loaded(<<>>, {d}, Dirs)
        IN \A i, j \in DOMAIN l : IsStrictPrefix(l[i], l[j]) => i < j
=============================================================================
