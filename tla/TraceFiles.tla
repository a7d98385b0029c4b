----------------------------- MODULE TraceFiles -----------------------------
(***************************************************************************)
(* What a run leaves for whoever studies it: the profile kept while it     *)
(* works (src/profiler/mod.rs), the trace files the loop writes beside it  *)
(* (src/agent/trace.rs, src/agent/run_loop.rs) and the analysis that makes *)
(* the profile again from the files (src/profiler/analyze.rs).  A file is  *)
(* the turn, kind and number that its name is made of, and the data the    *)
(* analysis takes.  Sizes, durations and signals are left out.             *)
(***************************************************************************)
EXTENDS Naturals, Sequences, FiniteSets

CONSTANTS Stored,     \* sessions that may be loaded
          MaxFiles,   \* bound: files of one trace
          MaxRestarts \* bound: times the conversation is replaced in mid-trace

VARIABLES seq, loop,  \* request_seq; the turn of this prompt's loop
          phase,      \* where the loop is
          pending,    \* calls of the last response that are yet to run
          live,       \* the profile
          base,       \* what it was when the conversation began or was loaded
          files,      \* as they were written
          summary,    \* the profile summary written last
          restarts    \* times a conversation took the place of one with files

vars == <<seq, loop, phase, pending, live, base, files, summary, restarts>>

Fresh == [requests |-> 0, calls |-> 0, repeated |-> 0, duplicates |-> 0, results |-> 0,
          failures |-> 0, hits |-> 0, compactions |-> 0, errors |-> 0,
          toolOnly |-> 0, streak |-> 0, longest |-> 0, seen |-> {}, last |-> 0]

Profiles == [requests : Nat, calls : Nat, repeated : Nat, duplicates : Nat, results : Nat,
             failures : Nat, hits : Nat, compactions : Nat, errors : Nat,
             toolOnly : Nat, streak : Nat, longest : Nat, seen : SUBSET {1, 2}, last : {0, 1, 2}]

\* AgentSnapshot: the profile and request_seq go with the conversation.
Sessions == [profile : Profiles, seq : Nat]

Init == /\ seq = 0 /\ loop = 0 /\ phase = "idle" /\ pending = <<>>
        /\ live = Fresh /\ base = Fresh /\ files = <<>> /\ summary = Fresh /\ restarts = 0

-----------------------------------------------------------------------------
(* AgentProfiler: the same operations serve the run and the analysis.      *)

RecordCall(p, call) ==
    [p EXCEPT !.calls = @ + 1,
              !.repeated = IF call \in p.seen THEN @ + 1 ELSE @,
              !.duplicates = IF call = p.last THEN @ + 1 ELSE @,
              !.seen = @ \cup {call}, !.last = call]

RecordResult(p, r) ==
    [p EXCEPT !.results = @ + 1,
              !.failures = IF r.ok THEN @ ELSE @ + 1,
              !.hits = IF r.cached THEN @ + 1 ELSE @]

RecordTurnActivity(p, calls, text) ==
    IF calls # <<>> /\ ~text
    THEN [p EXCEPT !.toolOnly = @ + 1, !.streak = @ + 1,
                   !.longest = IF p.streak + 1 > @ THEN p.streak + 1 ELSE @]
    ELSE [p EXCEPT !.streak = 0]

Count(p, field) == [p EXCEPT ![field] = @ + 1]

-----------------------------------------------------------------------------
(* The files.                                                              *)

Nothing == [none |-> TRUE]

\* TraceWriter::write numbers the files of one name.
Written(fs, turn, kind, data) ==
    LET same == {i \in DOMAIN fs : fs[i].turn = turn /\ fs[i].kind = kind}
    IN Append(fs, [turn |-> turn, kind |-> kind, n |-> Cardinality(same) + 1, data |-> data])

Write(turn, kind, data) == files' = Written(files, turn, kind, data)

\* record_terminal_error: the profile, the error, the summary, and the run ends.
TerminalError(turn, stage, at) ==
    /\ live' = Count(live, "errors")
    /\ files' = Written(Written(files, turn, stage, Nothing), at, "profile-summary", live')
    /\ summary' = live'
    /\ phase' = "idle" /\ pending' = <<>>

-----------------------------------------------------------------------------
(* The loop.                                                               *)

Prompt == /\ phase = "idle"
          /\ phase' = "turn" /\ loop' = 1
          /\ UNCHANGED <<seq, pending, live, files, summary, base, restarts>>

Cancelled(stage, turn) == TerminalError(turn, stage, seq) /\ UNCHANGED <<seq, loop, base, restarts>>

CancelledAtTurnStart == phase = "turn" /\ Cancelled("turn_start-error", loop)

CancelledBeforeTool == phase = "calls" /\ Cancelled("before_tool-error", seq)

CompactInLoop == /\ phase = "turn"
                 /\ live' = Count(live, "compactions") /\ Write(seq + 1, "compaction", Nothing)
                 /\ phase' = "compacted"
                 /\ UNCHANGED <<seq, loop, pending, summary, base, restarts>>

\* The request would be too large.
InputGuard == /\ phase \in {"turn", "compacted"}
              /\ Cancelled("input_guard-error", seq + 1)

CancelledBeforeRequest == /\ phase \in {"turn", "compacted"}
                          /\ seq' = seq + 1
                          /\ TerminalError(seq', "before_request-error", seq')
                          /\ UNCHANGED <<loop, base, restarts>>

Request == /\ phase \in {"turn", "compacted"}
           /\ seq' = seq + 1
           /\ live' = Count(live, "requests") /\ Write(seq', "request-input", Nothing)
           /\ phase' = "asked"
           /\ UNCHANGED <<loop, pending, summary, base, restarts>>

ResponseFails == phase = "asked" /\ Cancelled("response-error", seq)

Response ==
    /\ phase = "asked"
    /\ \E calls \in {<<>>, <<1>>, <<1, 1>>, <<2, 1>>}, text \in BOOLEAN :
          LET p == RecordTurnActivity(live, calls, text)
              fs == Written(files, seq, "response", [calls |-> calls, text |-> text])
          IN /\ live' = p
             /\ pending' = calls
             /\ IF calls = <<>>
                THEN /\ files' = Written(fs, seq, "profile-summary", p)
                     /\ summary' = p /\ phase' = "idle"
                ELSE files' = fs /\ phase' = "calls" /\ UNCHANGED summary
    /\ UNCHANGED <<seq, loop, base, restarts>>

ToolResult ==
    /\ phase = "calls"
    /\ \E r \in [ok : BOOLEAN, cached : BOOLEAN] :
          /\ live' = RecordResult(RecordCall(live, Head(pending)), r)
          /\ Write(seq, "tool-result", r)
    /\ pending' = Tail(pending)
    /\ IF pending' = <<>> THEN phase' = "turn" /\ loop' = loop + 1
                          ELSE UNCHANGED <<phase, loop>>
    /\ UNCHANGED <<seq, summary, base, restarts>>

\* /compact
CompactNow == /\ phase = "idle"
              /\ live' = Count(live, "compactions")
              /\ files' = Written(Written(files, seq + 1, "compaction", Nothing),
                                  seq, "profile-summary", live')
              /\ summary' = live'
              /\ UNCHANGED <<seq, loop, phase, pending, base, restarts>>

\* The conversation is replaced, with the profile and the numbers; the directory and its
\* counts stay.
BeginWith(profile, n) ==
    /\ phase = "idle"
    /\ seq' = n /\ live' = profile /\ base' = profile
    /\ IF files = <<>> THEN UNCHANGED restarts
                       ELSE restarts < MaxRestarts /\ restarts' = restarts + 1
    /\ UNCHANGED <<loop, phase, pending, files, summary>>

\* clear_conversation, of a session that is new to the runner too.
Clear == BeginWith(Fresh, 0)

\* restore_snapshot: a session that is resumed once the trace was opened, or opened later.
LoadSession == \E s \in Stored : BeginWith(s.profile, s.seq)

Next == /\ Len(files) < MaxFiles
        /\ \/ Prompt \/ CancelledAtTurnStart \/ CancelledBeforeTool \/ CompactInLoop
           \/ InputGuard \/ CancelledBeforeRequest \/ Request \/ ResponseFails
           \/ Response \/ ToolResult \/ CompactNow \/ Clear
           \/ LoadSession

Spec == Init /\ [][Next]_vars

-----------------------------------------------------------------------------
(* analyze_trace.                                                          *)

Errors == {"before_request-error", "before_tool-error", "input_guard-error",
           "response-error", "turn_start-error"}

\* (Fault: no kind is known by a name with a number in it.)
PlainlyKnown(f) == f.n = 1

\* Results and summaries are known with a number in their name, the rest is not.
Known(f) == f.n = 1 \/ f.kind \in {"tool-result", "profile-summary"}

Found(kinds) == {i \in DOMAIN files : files[i].kind \in kinds /\ Known(files[i])}

\* The calls that responses tell of: the k-th of file i.  The files are taken turn by
\* turn (trace_file_sort_key); within a turn the counts do not depend on the order.
Calls == UNION {{<<i, k>> : k \in DOMAIN files[i].data.calls} : i \in Found({"response"})}
Call(c) == files[c[1]].data.calls[c[2]]
Sooner(c, d) == \/ files[c[1]].turn < files[d[1]].turn
                \/ c[1] = d[1] /\ c[2] < d[2]

\* Calls that were made before, and those that are as the one before them.
Repeated == {c \in Calls : \E b \in Calls : Sooner(b, c) /\ Call(b) = Call(c)}
Duplicates == {c \in Calls : \E b \in Calls :
                /\ Sooner(b, c) /\ Call(b) = Call(c)
                /\ ~\E d \in Calls : Sooner(b, d) /\ Sooner(d, c)}

\* Each file adds what its kind tells of.
Analyzed ==
    LET results == Found({"tool-result"}) IN
    [requests    |-> Cardinality(Found({"request-input"})),
     calls       |-> Cardinality(Calls),
     repeated    |-> Cardinality(Repeated),
     duplicates  |-> Cardinality(Duplicates),
     results     |-> Cardinality(results),
     failures    |-> Cardinality({i \in results : ~files[i].data.ok}),
     hits        |-> Cardinality({i \in results : files[i].data.cached}),
     compactions |-> Cardinality(Found({"compaction"})),
     errors      |-> Cardinality(Found(Errors))]

\* The timeline, and tool_only_turn_report over it: the most turns of calls only
\* in a row.
Told == Errors \cup {"compaction", "request-input", "response", "tool-result"}

Timeline == {files[i].turn : i \in Found(Told)}

ToolOnlyTurns == {files[i].turn : i \in {j \in Found({"response"}) :
                    files[j].data.calls # <<>> /\ ~files[j].data.text}}

Rows == {row \in {{x \in Timeline : t <= x /\ x <= u} : t, u \in Timeline} :
            row \subseteq ToolOnlyTurns}

LongestStreak == IF Rows = {} THEN 0
                 ELSE CHOOSE n \in {Cardinality(row) : row \in Rows} :
                        \A row \in Rows : Cardinality(row) <= n

\* profile_summary_rank: the later turn, then the later of one turn.
Outranks(f, g) == f.turn > g.turn \/ (f.turn = g.turn /\ f.n > g.n)

Embedded ==
    LET all == {files[i] : i \in Found({"profile-summary"})}
    IN IF all = {} THEN Nothing ELSE CHOOSE f \in all : \A g \in all : ~Outranks(g, f)

-----------------------------------------------------------------------------
(* Properties.                                                             *)

TypeOK == /\ phase \in {"idle", "turn", "compacted", "asked", "calls"}
          /\ (phase = "calls") = (pending # <<>>)
          /\ live \in Profiles /\ base \in Profiles

AllCallsRan == phase # "calls" /\ \A i \in DOMAIN files : files[i].kind # "before_tool-error"

\* While no conversation took the place of one that has files, the analysis of the files
\* finds the requests, results, failures and answers from the cache that the run counted
\* above what the session it resumed had; the calls too when every call ran, and the
\* repeated ones if no session was resumed; the turns of calls only; and the last summary
\* the run wrote.
AnalysisTellsTheRun ==
    restarts = 0 =>
        /\ \A c \in {"requests", "results", "failures", "hits"} :
              Analyzed[c] + base[c] = live[c]
        /\ AllCallsRan =>
              /\ Analyzed.calls + base.calls = live.calls
              /\ \A c \in {"repeated", "duplicates"} :
                    IF base = Fresh THEN Analyzed[c] = live[c] ELSE Analyzed[c] + base[c] <= live[c]
        /\ Cardinality(ToolOnlyTurns) + base.toolOnly = live.toolOnly
        /\ LongestStreak <= live.longest
        /\ Embedded # Nothing => Embedded.data = summary

\* (does not hold) The analysis counts what the summary the run wrote counts: that of a
\* resumed session counts the requests of earlier traces too.
ResumedIsTold == restarts = 0 => Analyzed.requests = live.requests

\* (violated) The analysis finds every compaction and every error the run
\* counted: the second of a turn has a number in its name and is passed over.
AnalysisTellsTheTrouble ==
    restarts = 0 => \A c \in {"compactions", "errors"} : Analyzed[c] + base[c] = live[c]

\* (violated) The longest row of turns with calls only is what the run counted:
\* a failed request stands between two of them in the timeline only.
StreaksAgree == restarts = 0 /\ base = Fresh => LongestStreak = live.longest

\* (violated) After a conversation is cleared the trace still tells its
\* requests: those with a number that was used before are passed over, while
\* the results of their calls are counted.
ClearedIsTold == Analyzed.results <= Analyzed.calls
=============================================================================
