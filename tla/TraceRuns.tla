------------------------------ MODULE TraceRuns ------------------------------
(***************************************************************************)
(* The directories of the traces of a workspace: the commands that list    *)
(* them (src/trace/cli.rs, src/trace/commands.rs) and the one that purges  *)
(* the old ones (src/trace/retention.rs) while runs begin, runs are killed *)
(* in a write and a user rearranges the directory.  run-n began on day n;  *)
(* the entry 0 is one whose name has no time.                              *)
(***************************************************************************)
EXTENDS Naturals, Sequences, FiniteSets

CONSTANTS MaxDay,    \* bound: days
          Limit,     \* --limit of a listing
          MaxMoves   \* bound: changes by the user

VARIABLES day, entries, torn,  \* today; what stands at a name; runs with half a file
          moves,               \* changes by the user so far
          plan,                \* what the inspection found, and the flags
          resolved, removed,   \* runs resolved and not removed yet, runs removed
          outcome, listing     \* how the purge and the last listing ended

vars == <<day, entries, torn, moves, plan, resolved, removed, outcome, listing>>

Names == 0..MaxDay

NoPlan == [candidates |-> {}, older |-> 0]

\* What can stand at a name: nothing, a directory, or a link to a run or elsewhere.
Nothing == [kind |-> "none"]
Dir == [kind |-> "dir"]
Links == {[kind |-> "link", target |-> t] : t \in Names \cup {MaxDay + 1}}

Init == /\ day = 1 /\ entries = [n \in Names |-> Nothing] /\ torn = {} /\ moves = 0
        /\ plan = NoPlan /\ resolved = <<>> /\ removed = {}
        /\ outcome = "none" /\ listing = "none"

tool == <<plan, resolved, removed, outcome>>

Purging == outcome \in {"resolving", "removing"}

-----------------------------------------------------------------------------
(* The others.                                                             *)

NextDay == /\ day < MaxDay /\ day' = day + 1
           /\ UNCHANGED <<entries, torn, moves, tool, listing>>

\* TraceWriter::new
RunBegins == /\ entries[day] = Nothing
             /\ entries' = [entries EXCEPT ![day] = Dir]
             /\ UNCHANGED <<day, torn, moves, tool, listing>>

RunKilled == /\ \E n \in Names \ {0} : entries[n] = Dir /\ torn' = torn \cup {n}
             /\ UNCHANGED <<day, entries, moves, tool, listing>>

UserMoves == /\ moves < MaxMoves /\ moves' = moves + 1
             /\ \E n \in Names, e \in {Nothing, Dir} \cup Links :
                   /\ entries[n] = Nothing => n = 0 /\ e = Dir
                   /\ entries' = [entries EXCEPT ![n] = e]
             /\ UNCHANGED <<day, torn, tool, listing>>

-----------------------------------------------------------------------------
(* Listing.                                                                *)

\* list_trace_dirs: directories and no links, the newest first, cut to the limit.
TraceDirs == {n \in Names : entries[n] = Dir}

Newest(limit) == {n \in TraceDirs : Cardinality({m \in TraceDirs : m > n}) < limit}

\* handle_traces: without a flag nothing is analysed, yet the summary is asked for.
Listed(analyze) == IF Newest(Limit) = {} THEN "listed"
                   ELSE IF ~analyze THEN "panicked"
                   ELSE IF Newest(Limit) \cap torn # {} THEN "failed" ELSE "listed"

List == /\ ~Purging
        /\ \E analyze \in BOOLEAN : listing' = Listed(analyze)
        /\ UNCHANGED <<day, entries, torn, moves, tool>>

-----------------------------------------------------------------------------
(* Retention.                                                              *)

\* inspect_trace_retention: runs with a time, before the cut.
Eligible(older) == {n \in TraceDirs \ {0} : n + older < day}

\* handle_trace_retention: without --purge and --confirm that is all.
Inspect == /\ ~Purging
           /\ \E older \in 1..MaxDay, purge \in BOOLEAN, confirm \in BOOLEAN :
                 /\ plan' = [candidates |-> Eligible(older), older |-> older]
                 /\ outcome' = IF confirm /\ ~purge THEN "refused"
                               ELSE IF confirm THEN "resolving" ELSE "inspected"
           /\ resolved' = <<>> /\ removed' = {}
           /\ UNCHANGED <<day, entries, torn, moves, listing>>

\* (Fault: the path is followed before it is looked at.)
FollowedRun(n) ==
    LET at == IF entries[n].kind = "link" THEN entries[n].target ELSE n
    IN IF at \in TraceDirs \ {0} THEN <<at>> ELSE <<>>

\* resolve_trace_run_for_delete: a directory that is no link, with a time in
\* its name, directly in the root; or a refusal.
ResolvedRun(n) == IF n \in TraceDirs \ {0} THEN <<n>> ELSE <<>>

\* (Fault: the runs resolved so far are removed when one is refused.)
RemoveSome == "removing"

\* All are resolved before one is removed.
Refusal == "refused"

\* One after the other, the newest first.
Resolve ==
    /\ outcome = "resolving"
    /\ IF Len(resolved) = Cardinality(plan.candidates)
       THEN outcome' = "removing" /\ UNCHANGED resolved
       ELSE \E n \in plan.candidates :
               /\ Cardinality({m \in plan.candidates : m > n}) = Len(resolved)
               /\ resolved' = resolved \o ResolvedRun(n)
               /\ outcome' = IF ResolvedRun(n) = <<>> THEN Refusal ELSE outcome
    /\ UNCHANGED <<day, entries, torn, moves, plan, removed, listing>>

\* remove_dir_all: what is there now, a link as a link; an error ends the purge.
Remove ==
    /\ outcome = "removing"
    /\ IF resolved = <<>>
       THEN outcome' = "purged" /\ UNCHANGED <<entries, torn, resolved, removed>>
       ELSE LET n == Head(resolved)
            IN \/ /\ entries[n] # Nothing
                  /\ entries' = [entries EXCEPT ![n] = Nothing]
                  /\ torn' = torn \ {n}
                  /\ removed' = removed \cup {n} /\ resolved' = Tail(resolved)
                  /\ UNCHANGED outcome
               \/ outcome' = "stopped" /\ UNCHANGED <<entries, torn, resolved, removed>>
    /\ UNCHANGED <<day, moves, plan, listing>>

Next == NextDay \/ RunBegins \/ RunKilled \/ UserMoves \/ List \/ Inspect \/ Resolve \/ Remove

Spec == Init /\ [][Next]_vars

-----------------------------------------------------------------------------
(* Properties.                                                             *)

TypeOK == outcome \in {"none", "inspected", "refused", "resolving", "removing", "stopped", "purged"}

\* The purge removes runs it listed and no others, whatever the directory has
\* become since, none of them within the days the user keeps; it removes none
\* when one of them is refused, and all of them when it says so.
PurgeKeepsTheRest ==
    /\ removed \subseteq plan.candidates
    /\ \A n \in removed : n + plan.older < day
    /\ outcome \in {"inspected", "refused"} => removed = {}
    /\ outcome = "purged" => removed = plan.candidates

\* (violated) `spark traces` lists the runs: with no flag it panics on the first.
PlainListingLists == listing # "panicked"

\* (violated) A run that was killed in a write does not keep the others from
\* being told.
OneRunFailsAlone == listing # "failed"
=============================================================================
