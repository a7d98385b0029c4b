---------------------------- MODULE ToolDispatch ----------------------------
(***************************************************************************)
(* What an AgentRunner does with the tool calls of an answer (src/src/     *)
(* agent/cache.rs): which tools it offers, which calls it lets through,    *)
(* what it remembers of read-only calls, and when it forgets that.         *)
(*                                                                         *)
(* One tool stands for each class the code tells apart: fs.read for        *)
(* fs.read/list/stat/search, fs.write for fs.write/replace/edit,           *)
(* subagent.spawn for the lifecycle tools, mcp for the tools of a server.  *)
(* cmd.exec and browser.run start a process that writes where it likes,    *)
(* the screenshot of a page included.  A file is a version number and the  *)
(* name of who changed it last.                                            *)
(***************************************************************************)
EXTENDS Naturals, Sequences, FiniteSets

CONSTANTS
  Files,          \* paths of the workspace
  Fleet,          \* the ways runners are set up (new, build_subagent, repo brief)
  CanDrop,        \* the surface may drop a call that awaits (TUI)
  Others,         \* workers, servers or the user change files at any time
  MaxVersion      \* bound: changes of one path

ASSUME SurfaceAssumption == CanDrop \in BOOLEAN /\ Others \in BOOLEAN
ASSUME VersionAssumption == MaxVersion \in Nat

Reads == {"fs.read"}
Edits == {"fs.write", "fs.rename"}
Deferred == {"gh.read", "browser.run", "subagent.run", "subagent.spawn", "mcp"}
Tools == Reads \cup Edits \cup Deferred \cup {"cmd.exec", "tool.search"}
Lifecycle == {"subagent.run", "subagent.spawn"}
Processes == {"cmd.exec", "browser.run"}
Writers == Edits \cup Processes \cup {"others"}

Grants == {"workspace_writes", "command_execution", "github_cli", "browser",
           "subagents", "mcp"}

ASSUME FleetAssumption ==
  \A r \in Fleet :
    /\ r.access \subseteq Grants
    /\ r.budget \in Nat /\ r.owned \subseteq Files /\ r.mode \in {"ask", "work"}
    /\ {r.local_only, r.budgeted, r.delegated, r.child, r.eager, r.interactive,
        r.compacts} \subseteq BOOLEAN

\* gh.read observes the state of the repository host instead of a file.
Remote == "remote"
Places == Files \cup {Remote}
Unseen == MaxVersion + 1

\* Changes that no fs tool of the runner has made.
Unseeable == Places \X ({"others"} \cup Processes)

VARIABLES
  runner,     \* the set-up, fixed
  mode,       \* AgentRunner::mode
  content,    \* the version of every place
  author,     \* the tool that changed the place last, "others", or "nobody"
  cache,      \* readonly_tool_cache: the version observed, or Unseen
  used,       \* LocalFilesystemToolBudget::used
  executed,   \* local reads that were carried out, counted under a budget only
  active,     \* active_deferred_tools
  discovered, \* mcp_registry is Some
  offered,    \* tools of the current request
  running,    \* "idle", "run", or the tool whose process is awaited
  reply,      \* the last call: tool, how it was answered, places from the cache
  recall,     \* what the conversation still holds of an observation in the cache
  behind      \* who changed which place since the cache was cleared or the place
              \* was looked at again, the writes of fs tools left out

vars == <<runner, mode, content, author, cache, used, executed, active, discovered, offered,
          running, reply, recall, behind>>

NoReply == [tool |-> "none", how |-> "none", from |-> {}]
Answered(t, how) == reply' = [tool |-> t, how |-> how, from |-> {}]

----------------------------------------------------------------------------
(* Policy.                                                                 *)

\* ToolAccessPolicy::allows.
Needs(t) ==
  CASE t \in Reads -> Grants
    [] t \in Edits -> {"workspace_writes"}
    [] t = "cmd.exec" -> {"command_execution"}
    [] t = "gh.read" -> {"github_cli"}
    [] t = "browser.run" -> {"browser"}
    [] t \in Lifecycle -> {"subagents"}
    [] t = "mcp" -> {"mcp"}
    [] t = "tool.search" -> {"github_cli", "browser", "subagents", "mcp"}

Allows(t) == t \in Reads \/ Needs(t) \cap runner.access # {}

\* is_readonly_tool and AgentMode::allows_tool.
ReadOnly == Reads \cup {"gh.read"} \cup Lifecycle
ModeAllows(t) == mode = "work" \/ t \in ReadOnly

\* invalidates_readonly_tool_cache.
Clears == Edits \cup {"cmd.exec"}

\* local_tool_name_to_wire replaces the dot of a name; wire_tool_name_to_local puts it
\* back for the names it lists.  Any other name arrives as a tool nobody knows.
Arrives(t) == t # "subagent.spawn"

\* invoke_with_cache, its first two checks.
Blocked(t) == ~Arrives(t) \/ ~Allows(t) \/ (runner.local_only /\ t \notin Reads)

\* LocalFilesystemToolBudget.  (Fault: a batch counts once.)
Exhausted == runner.budgeted /\ used >= runner.budget
ChargeOnce(n) == used' = IF runner.budgeted THEN used + 1 ELSE used
Charge(n) == used' = IF runner.budgeted THEN used + n ELSE used

Carry(n) == executed' = IF runner.budgeted THEN executed + n ELSE executed

\* delegated_tool_scope_error.  (Fault: the target of a rename is not looked at.)
OutOfScopeAtSource(t, from, to) ==
  /\ runner.delegated
  /\ t \in {"cmd.exec", "browser.run", "mcp"} \/ (t \in Edits /\ from \notin runner.owned)
OutOfScope(t, from, to) ==
  /\ runner.delegated
  /\ \/ t \in {"cmd.exec", "browser.run", "mcp"}
     \/ t \in Edits /\ ~({from, to} \subseteq runner.owned)

\* eligible_tools, when the MCP registry is known.  (Fault: the mode is not asked.)
EligibleInAnyMode(known) ==
  {t \in Tools \ {"tool.search"} :
     /\ Allows(t) /\ (runner.child => t \notin Lifecycle)
     /\ t = "mcp" => mode = "work" /\ known}
Eligible(known) ==
  {t \in Tools \ {"tool.search"} :
     /\ ModeAllows(t) /\ Allows(t) /\ (runner.child => t \notin Lifecycle)
     /\ t = "mcp" => mode = "work" /\ known}

ToolsForCurrentLoop(activated) ==
  LET eligible == Eligible(discovered)
      eager == IF runner.eager THEN {"mcp"} ELSE {}
  IN
  CASE runner.local_only /\ Exhausted -> {}
    [] runner.local_only /\ ~Exhausted -> eligible \cap Reads
    [] ~runner.local_only /\ (runner.delegated \/ eligible \cap Deferred = {}) ->
         eligible \ Deferred
    [] OTHER -> {"tool.search"} \cup (eligible \ (Deferred \ (activated \cup eager)))

----------------------------------------------------------------------------

Init ==
  /\ runner \in Fleet /\ mode = runner.mode
  /\ content = [p \in Places |-> 0] /\ author = [p \in Places |-> "nobody"]
  /\ cache = [p \in Places |-> Unseen]
  /\ used = 0 /\ executed = 0
  /\ active = {} /\ discovered = runner.eager /\ offered = {}
  /\ running = "idle" /\ reply = NoReply
  /\ recall = [p \in Places |-> "none"] /\ behind = {}

\* (Fault: the observations of gh.read have no place in the map.)
ForgottenFiles == [p \in Files |-> Unseen]
Forgotten == [p \in Places |-> Unseen]

\* What clears the cache.  (Fault: it is kept.)
KeepCache == UNCHANGED <<cache, behind, recall>>
Invalidate ==
  cache' = Forgotten /\ behind' = {} /\ recall' = [p \in Places |-> "none"]

\* What is done with the cache when a call that was not read-only is over.
AfterCall(t) == IF t \in Clears THEN Invalidate ELSE KeepCache

Surroundings == <<runner, mode, discovered, active, offered>>

\* push_user_message forgets the activated tools; the first turn offers the core.
StartRun ==
  /\ running = "idle" /\ running' = "run"
  /\ active' = {} /\ offered' = ToolsForCurrentLoop({}) /\ reply' = NoReply
  /\ UNCHANGED <<runner, mode, content, author, cache, used, executed, discovered, recall, behind>>

NextTurn ==
  /\ running = "run"
  /\ offered' = ToolsForCurrentLoop(active) /\ reply' = NoReply
  /\ UNCHANGED <<runner, mode, content, author, cache, used, executed, active, discovered,
                 running, recall, behind>>

EndRun ==
  /\ running = "run" /\ running' = "idle"
  /\ UNCHANGED <<runner, mode, content, author, cache, used, executed, active, discovered,
                 offered, reply, recall, behind>>

SetMode ==
  /\ running = "idle" /\ runner.interactive
  /\ mode' \in {"ask", "work"} \ {mode}
  /\ Invalidate
  /\ UNCHANGED <<runner, content, author, used, executed, active, discovered, offered,
                 running, reply>>

\* Compaction between two turns.  The remote one leaves a summary, or only messages;
\* the local one cuts outputs short.
CompactRemotely ==
  /\ runner.compacts /\ running = "run"
  /\ \E rest \in {"summary", "none"} :
       recall' = [p \in Places |-> IF recall[p] = "none" THEN "none" ELSE rest]
  /\ UNCHANGED <<runner, mode, content, author, cache, used, executed, active, discovered,
                 offered, running, reply, behind>>

CompactLocally ==
  /\ runner.compacts /\ running = "run"
  /\ \E cut \in SUBSET {p \in Places : recall[p] = "full"} :
       recall' = [p \in Places |-> IF p \in cut THEN "cut" ELSE recall[p]]
  /\ UNCHANGED <<runner, mode, content, author, cache, used, executed, active, discovered,
                 offered, running, reply, behind>>

Changed(ps) == [p \in Places |-> IF p \in ps THEN content[p] + 1 ELSE content[p]]
CanChange(ps) == \A p \in ps : content[p] < MaxVersion
WrittenBy(who, ps) ==
  /\ CanChange(ps) /\ content' = Changed(ps)
  /\ author' = [p \in Places |-> IF p \in ps THEN who ELSE author[p]]
Unwritten == UNCHANGED <<content, author>>

OthersChange ==
  /\ Others
  /\ \E p \in Places : WrittenBy("others", {p}) /\ behind' = behind \cup {<<p, "others">>}
  /\ UNCHANGED <<Surroundings, cache, used, executed, running, reply, recall>>

----------------------------------------------------------------------------
(* The calls of the model, one at a time.  It may call any tool, offered   *)
(* or not: the conversation can mention tools of an earlier mode.          *)

Decline ==
  /\ running = "run"
  /\ \E t \in Tools :
       \/ Blocked(t) /\ Answered(t, "blocked")
       \/ ~Blocked(t) /\ Exhausted /\ Answered(t, "budget")
  /\ UNCHANGED <<Surroundings, content, author, cache, used, executed, running, recall, behind>>

LetThrough(t) == running = "run" /\ ~Blocked(t) /\ ~Exhausted

\* invoke_subagent_tool; the workers are in SubagentTeam, their edits are others'.
Delegate ==
  /\ \E t \in Lifecycle : LetThrough(t) /\ Answered(t, "ran")
  /\ UNCHANGED <<Surroundings, content, author, cache, used, executed, running, recall, behind>>

\* search_and_activate_tools; what matches the query is the model's choice.
Search ==
  /\ LetThrough("tool.search") /\ Answered("tool.search", "ran")
  /\ discovered' = TRUE
  /\ \E found \in SUBSET (Eligible(TRUE) \cap Deferred) : active' = active \cup found
  /\ UNCHANGED <<runner, mode, content, author, cache, used, executed, offered, running, recall,
                 behind>>

\* A place is observed afresh: its result, an error included, goes to the cache.
Observe(ps) ==
  /\ cache' = [p \in Places |-> IF p \in ps THEN content[p] ELSE cache[p]]
  /\ recall' = [p \in Places |-> IF p \in ps THEN "full" ELSE recall[p]]
  /\ behind' = {b \in behind : b[1] \notin ps}

Cached(ps) == {p \in ps : cache[p] # Unseen}
Reply(t, hits) ==
  reply' = [tool |-> t, how |-> IF hits = {} THEN "ran" ELSE "cached", from |-> hits]

\* invoke_with_cache of a cacheable tool; a hit costs budget, too.
ReadOne ==
  /\ \E t \in {"fs.read", "gh.read"}, p \in Places :
       /\ t = "gh.read" <=> p = Remote
       /\ LetThrough(t)
       /\ Reply(t, Cached({p}))
       /\ Observe({p} \ Cached({p}))
       /\ Carry(IF t \in Reads /\ Cached({p}) = {} THEN 1 ELSE 0)
  /\ Charge(1)
  /\ UNCHANGED <<Surroundings, content, author, running>>

\* invoke_parallel_local_reads: the calls that the budget has room for, in order; the
\* hits are found before any of them is carried out.
ReadInParallel ==
  /\ running = "run"
  /\ \E first, second \in Files :
       LET room == IF runner.budgeted /\ used + 2 > runner.budget
                   THEN runner.budget - used ELSE 2
           calls == SubSeq(<<first, second>>, 1, room)
           ps == {calls[i] : i \in 1..room}
           runs == {i \in 1..room : cache[calls[i]] = Unseen}
       IN  /\ room > 0
           /\ Reply("fs.read", Cached(ps))
           /\ Observe({calls[i] : i \in runs})
           /\ Carry(Cardinality(runs))
           /\ Charge(room)
  /\ UNCHANGED <<Surroundings, content, author, running>>

\* fs.write and its kin have one path, fs.rename has two.  The cache is cleared even
\* when the mode refuses the call or the edit fails.
Edit ==
  /\ \E t \in Edits, from, to \in Files :
       /\ LetThrough(t) /\ (t = "fs.write" <=> from = to)
       /\ \/ OutOfScope(t, from, to) /\ Answered(t, "scope") /\ KeepCache /\ Unwritten
          \/ /\ ~OutOfScope(t, from, to) /\ ~ModeAllows(t) /\ Answered(t, "refused")
             /\ AfterCall(t) /\ Unwritten
          \/ /\ ~OutOfScope(t, from, to) /\ ModeAllows(t) /\ Answered(t, "ran")
             /\ AfterCall(t)
             /\ WrittenBy(t, {from, to}) \/ Unwritten
  /\ UNCHANGED <<Surroundings, used, executed, running>>

Nowhere == CHOOSE p \in Files : TRUE

\* cmd.exec and browser.run await a process.  The cache is looked at when it is over.
StartProcess ==
  /\ \E t \in Processes :
       /\ LetThrough(t)
       /\ \/ /\ OutOfScope(t, Nowhere, Nowhere) /\ Answered(t, "scope")
             /\ KeepCache /\ UNCHANGED running
          \/ /\ ~OutOfScope(t, Nowhere, Nowhere) /\ ~ModeAllows(t) /\ Answered(t, "refused")
             /\ AfterCall(t) /\ UNCHANGED running
          \/ /\ ~OutOfScope(t, Nowhere, Nowhere) /\ ModeAllows(t)
             /\ running' = t /\ reply' = NoReply
             /\ KeepCache
  /\ UNCHANGED <<Surroundings, content, author, used, executed>>

ProcessWrites ==
  /\ running \in Processes
  /\ \E p \in Places : WrittenBy(running, {p}) /\ behind' = behind \cup {<<p, running>>}
  /\ UNCHANGED <<Surroundings, cache, used, executed, running, reply, recall>>

ProcessReturns ==
  /\ running \in Processes /\ running' = "run"
  /\ Answered(running, "ran")
  /\ AfterCall(running)
  /\ UNCHANGED <<Surroundings, content, author, used, executed>>

\* The run's future is dropped and kills the process; nothing is cleared.
DropProcess ==
  /\ CanDrop /\ running \in Processes /\ running' = "idle"
  /\ UNCHANGED <<Surroundings, content, author, cache, used, executed, reply, recall, behind>>

\* An MCP tool goes to its server before the mode is looked at, and discovers the
\* registry.
CallMcp ==
  /\ LetThrough("mcp")
  /\ \/ /\ OutOfScope("mcp", Nowhere, Nowhere) /\ Answered("mcp", "scope")
        /\ UNCHANGED discovered
     \/ /\ ~OutOfScope("mcp", Nowhere, Nowhere) /\ Answered("mcp", "ran")
        /\ discovered' = TRUE
  /\ UNCHANGED <<runner, mode, active, offered, content, author, cache, used, executed,
                 running, recall, behind>>

Runs == StartRun \/ NextTurn \/ EndRun \/ SetMode \/ CompactRemotely \/ CompactLocally
Calls == Decline \/ Delegate \/ Search \/ ReadOne \/ ReadInParallel \/ Edit \/ CallMcp
Process == StartProcess \/ ProcessWrites \/ ProcessReturns \/ DropProcess

Next == Runs \/ Calls \/ Process \/ OthersChange

Spec == Init /\ [][Next]_vars

----------------------------------------------------------------------------
(* Properties.                                                             *)

\* Types; the cache has an entry for every place.
TypeOK ==
  /\ runner \in Fleet /\ mode \in {"ask", "work"}
  /\ content \in [Places -> 0..MaxVersion] /\ author \in [Places -> Writers \cup {"nobody"}]
  /\ cache \in [Places -> 0..Unseen]
  /\ used \in Nat /\ executed \in Nat
  /\ active \subseteq Deferred /\ discovered \in BOOLEAN /\ offered \subseteq Tools
  /\ running \in {"idle", "run"} \cup Processes
  /\ reply.how \in {"none", "ran", "cached", "blocked", "budget", "scope", "refused"}
  /\ recall \in [Places -> {"none", "full", "cut", "summary"}]
  /\ behind \subseteq Unseeable

\* A remembered observation is what the tool would answer now, unless others changed
\* the place since, browser.run did (its return does not clear the cache), or a cmd.exec
\* that is still awaited or was dropped; after a cmd.exec that returned and after the fs
\* tools nothing of theirs is left unseen.
Stale(p) == cache[p] \notin {Unseen, content[p]}
CacheFresh == \A p \in Places : Stale(p) => \E b \in behind : b[1] = p

\* A runner with an evidence budget carries out no more local reads than the budget
\* allows, alone or in parallel batches, and charges for each of them.
BudgetRespected ==
  runner.budgeted => executed <= used /\ used <= runner.budget

\* A file changes by a tool of this runner only in work mode, with the grant for that
\* very tool, and for a delegated worker within its ownership.  The tool is the recorded
\* author, so a write that others could have made as well is not excused by that.
WritesAreAuthorised ==
  [][\A p \in Files :
       content'[p] # content[p] /\ author'[p] # "others" =>
         /\ mode = "work" /\ ~runner.local_only
         /\ Needs(author'[p]) \subseteq runner.access
         /\ runner.delegated => p \in runner.owned]_vars

\* What is offered is not refused for lack of a grant or in the current mode, provided
\* that the name of the tool survives the way to the model and back.
OfferedToolsAreUsable ==
  reply.tool \in offered /\ Arrives(reply.tool) => reply.how \notin {"blocked", "refused"}

\* (does not hold) Once no process is awaited, the runner remembers nothing that a tool
\* of its own has made untrue: a dropped cmd.exec and every browser.run do.
OwnWritesAreSeen ==
  running \notin Processes => \A p \in Places : Stale(p) => <<p, "others">> \in behind

\* (violated) What is offered can be called.
OfferedToolsAreNotBlocked == reply.tool \in offered => reply.how # "blocked"

\* (violated) The answer from the cache sends the model to an observation, or a
\* summary of it, that the conversation still holds.
HintIsTrue == reply.how = "cached" => \A p \in reply.from : recall[p] \in {"full", "summary"}
=============================================================================
