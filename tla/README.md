# A TLA+ model of the Spark agent

This directory holds TLA+ specifications of the agent in `src/` (a Rust program that
drives a coding model over the OpenAI Responses API), TLC configurations that check
them on small instances, and proofs that the TLA+ proof system checks. Paths in this
file are relative to the crate, `agent/run_loop.rs` for `src/agent/run_loop.rs` there.

The program is one process. A surface (terminal chat, one-shot command, desktop server,
automation, MCP server) owns an `AgentRunner`; the runner owns a client, a conversation,
a cache and a team of helpers. What makes it hard is not computation but order: a run
awaits a network, tools and other tasks, may be cancelled or dropped at each of those
points, and keeps state (a socket, a chain, a cache, a slot) that outlives it. Around it
stand files that several programs share: sessions, logins, memory, skills, traces.

Sections: 1 inventory, 2 modules, 3 runs, 4 proofs, 5 properties, 6 disagreements,
7 hazards without a property, 8 not modelled, 9 what remains.

## 1. Inventory

| Part | Source | State it keeps | Operations | What is hard |
|---|---|---|---|---|
| Run loop | `agent/run_loop.rs`, `agent/mod.rs` | conversation, request number, streak marks, chain, retry counter | prompt, turn, request, retry, answer, tool batch, cancel, drop | retries over two transports, a deadline that races the answer, cancellation between steps |
| Responses client | `client.rs` | WebSocket (shared), "WebSocket enabled" flag | send, read, drop socket, fall back to HTTP | replies left unread on a socket that is used again; `previous_response_id` refers to what the far end remembers |
| Compaction | `agent/compaction.rs`, `agent/compaction/retention.rs` | rewrites the conversation | triggers, remote, local, notice | calls torn from outputs, a chain that outlives the history |
| Subagent team | `agent/team.rs`, `agent/subagent.rs` | id counter, state and task of each worker | spawn, run, wait, follow up, steer, cancel, drop | tasks end, panic or are aborted while the team is changed; a wait that is dropped |
| Tool dispatch | `agent/cache.rs`, `agent/tool_surface.rs`, `tools/policy.rs` | mode, grants, activated tools, cache of observations, evidence budget | offer, search, call (serial or parallel), set mode | what was true when a tool was offered or a file was read is not when it is used |
| Desktop server | `desktop_server/` | slot of the active run, session, stream numbers | start, cancel, frames, join, shutdown | the task that ends and the loop that clears the slot are two steps |
| Session store | `session/`, commands of `chat/` | a SQLite table, JSON files of an older version, backups | save, load, rename, delete, migrate, clean up | kills between two writes; what is on the screen and what is stored |
| Goal runs | `agent/goal.rs` | goal, log of checkpoints | run, pause, resume, decide | a decision read out of any answer, commands between runs |
| State between prompts | `agent/mod.rs`, `memory.rs`, `skill/` | loaded skills, memory, mode, request numbers | clear, save, open a session, load and compile a skill | sessions, files and the conversation are changed separately |
| Terminal interface | `chat/mod.rs`, `chat/tui.rs` | transcript and positions in it, composer, history, settings, scroll | display events, keys, clicks, commands | events arrive while rows are removed, a run borrows the runner, a click is about the screen before |
| Workspace tools | `tools/fs.rs`, `tools/paths.rs` | the workspace | read, list, search, write, edit, replace, rename | a text planned on and written later; limits that cut a result |
| MCP client, MCP server | `mcp.rs`, `mcp_server/` | registry, overrides; tasks and tokens of calls | discover, call, enable; dispatch, cancel, drain | other messages before the answer; cancellation that races the end |
| One-shot hosts | `automation.rs`, `repo_brief.rs` | none | check, prepare, run, report | a deadline that races the answer; one report and one exit code |
| Logins | `auth.rs`, `config.rs` | `auth.json`, tokens in memory | login, callback, refresh, save | two programs, one port, tokens that are good for one refresh |
| Setup | `setup.rs`, `codex_integration.rs` | what is installed | a sequence of steps, started again after a failure | the user's own files in the way |
| Usage history | `usage_history.rs` | none | scan Codex's session files | forks and archives repeat turns |
| Traces | `trace/`, `profiler/`, `agent/trace.rs` | files of a run, the profile | record, analyse, list, delete, purge | the analysis rebuilds what the run counted; directories change during a purge |
| Command line, benchmarks, text | remaining files | | | sequential |

How they interact: a surface calls `run_with_cancel`; the run calls the client (awaits
the network), `compact_once` (the client again), and `invoke_with_cache` (policy, budget,
cache, then a tool, the team or an MCP server). A worker of the team is another
`AgentRunner`, with a client of its own, on a task of its own. The desktop server runs
one runner in a task and forwards its display events as frames; the terminal draws them.
Cancelling reaches the run by a token it looks at between steps, aborting reaches a task
at its next await, and dropping the future of a run ends it where it awaits. Separate
processes meet in the files only: no lock is taken on any of them but SQLite's.

## 2. Modules

| Module | Models | Composed with |
|---|---|---|
| `SparkClient` | the client: socket with its unread replies, what the far end can continue, fallback | extended by `AgentRun` |
| `AgentRun` | a runner that is given prompts: `run_until_idle`, `compact_once`, cancel, drop | implements `ToolProtocol` |
| `ToolProtocol` | abstract: requests alternate with answers, and every call of an answer gets one output, in order, before the next request | instantiated by `AgentRun` |
| `SubagentTeam` | the team, the subagent tools and the tasks | implements `WorkerPool` |
| `WorkerPool` | abstract: no more than a limit of workers busy, each started once | instantiated by `SubagentTeam` |
| `ToolDispatch` | offering, refusing, charging, caching and carrying out tool calls | `MCToolDispatch` has the ways a runner is set up |
| `DesktopServer` | the loop, the tasks of runs and their frames | |
| `SessionStore` | rows, files of the older version, backups; save, load, rename, delete, cleanup as operators | extended by `ChatSessions` |
| `ChatSessions` | programs on one store: start, turns, session commands, kills | |
| `TranscriptRows` | the transcript as a value, and what each display event does to it | extended by `ChatTranscript` |
| `ChatTranscript` | the order of display events a run produces, with keys, clicks and commands | `MCTerminal` |
| `ChatInput` | composer, history, settings, the double Escape, quitting | `MCTerminal` |
| `ChatLayout` | the rows each part of the screen gets (functions of the height) | extended by `ChatView` |
| `ChatView` | drawing, scrolling and clicks | `MCTerminal` |
| `RunnerState` | skills, memory and trace numbers of a runner over clearing and sessions | `MCWorkspace` |
| `GoalRuns` | goals, their log, checkpoints and commands | `MCWorkspace` |
| `WorkspaceFiles` | `fs.read`, `fs.replace`, `fs.edit`, `fs.write` by two agents on one file | `MCWorkspace` |
| `WorkspaceSearch` | `fs.list`, `fs.search`, directories `fs.write` and `fs.rename` create | `MCWorkspace` |
| `McpClient`, `McpServer` | both ends of MCP, each against a far end that writes anything | `MCPrograms` |
| `OneShotRuns` | `spark brief` and `spark automation` | `MCPrograms` |
| `Credentials` | logins, `auth.json`, refresh, limits of a runner | `MCPrograms` |
| `SetupRun` | `spark setup` and `codex install`, failing and started again | `MCPrograms` |
| `UsageHistory` | Codex's session files and what is counted of them | `MCPrograms` |
| `TraceFiles`, `TraceRuns` | the files of one run and their analysis; the directories of all runs | `MCPrograms` |
| `AgentRunProofs`, `SubagentTeamProofs`, `ToolDispatchProofs`, `DesktopServerProofs`, `ChatSessionsProofs` | theorems | extend their module and `TLAPS` |
| `TerminalProofs`, `WorkspaceProofs`, `ProgramsProofs` | theorems about the parts of `MCTerminal`, `MCWorkspace`, `MCPrograms` | extend that module and `TLAPS` |

`PROJECT.json` maps every definition to its lines. A definition commented `(Fault: ...)`
is a plausible bug of the definition below it. Nothing of a specification uses it; it
takes the other's place in a mutation run, where the property named there must fail.

### Parts side by side

`MCTerminal`, `MCWorkspace` and `MCPrograms` put parts that share no variable into one
run: `Init` chooses a part, the variables of the others are 0 for ever, and a step is a
step of the part. The reachable states are the disjoint union of those of the parts, so
that the run is what one run for each part would be. A property of such a module says
`part = "..." =>` and names the property of the part. These modules declare the
constants of their parts and the `.cfg` gives the values, so that what is proved of them
holds for every value; only `WordsWrap` is fixed to `FALSE` in `MCTerminal` (section 6).

### AgentRun and SparkClient

`pc` says where `run_until_idle` is: at the head of a turn (`turn`), awaiting compaction
(`compacting`), before a request (`ready`), awaiting an answer (`waiting`), awaiting a
retry delay (`backoff`), before a tool call or a batch of parallel ones (`tools`), or
awaiting it (`calling`). Code between two awaits is one action: the token is looked at
before a call (`StartCall`), and the outputs are put back when it returns (`CallReturns`,
`BatchReturns`), whatever became of the token meanwhile. The retry delay races the token
in a `select!`: when both are ready either may win, so that `Backoff` may send once more
after a cancellation. A run that was stopped leaves the calls it did not answer in the
conversation, and nothing repairs them before the next prompt (`run_loop.rs:25-36`). The
surface is a set of constants: `CanCancel` (the desktop server cancels a
token), `CanDrop` (the terminal interface drops the future), `MaxRuns` prompts.

The conversation is a sequence of items (user message, notices, assistant text, call,
output, summary) with identities; text is left out. Its size is one of four levels, and
whatever adds to it may raise the level: the sizes `serde_json` would count are not
computed, so every trigger and guard can be met at any time the code allows. The model
chooses each answer: with or without text, with 0 to `MaxCalls` calls. The far end
answers in order, at any time or never, and fails at any time; it can continue a response
id on the connection that produced it. `Reply` computes what an answer to a request is
computed *from*, which is what `ServerSeesConversation` compares with the conversation of
the runner.

A retryable error and an error that is not are both always possible: which texts
`should_retry_response_stream_error` accepts is not modelled. An answer over HTTP that
was rebuilt from a broken stream may lack the text that was shown. Failures of writing a
trace file, which also end a run, are left out (`FatalFailure` has their effect while an
answer is awaited).

### SubagentTeam

`state[w]` is the `WorkerState`, `task[w]` the tokio task as its handle sees it, `call`
the wait that is awaited. The runner makes one call at a time, tasks run beside it.
`Wait` writes `cancelled` over the state first, as `std::mem::replace` does, and
`WaitReturns` stores the result; `DropCall` loses the handle in between. An abort makes a
task `stopping`: it may still end by itself before it reaches an await. The module is at
the interface of the runner, which the surfaces use too; a model cannot reach all of it
by its tool calls (section 6, `OfferedToolsAreNotBlocked`).

### ToolDispatch

A runner is a record (grants, local-only, budget, delegated ownership, helper, MCP tools
given from the start, first mode, whether it is long enough to be compacted). A file is a
version number, the cache holds the version that was observed. One tool stands for each
class the code tells apart. `recall` follows what the conversation still holds of an
observation. `author` is who wrote a place last, a tool of the runner or others, and
`behind` who changed which place since the cache was cleared, the fs tools left out.
`cmd.exec` and `browser.run` await a process that may write anything at any time until it
returns or is dropped (`browser.run` writes its own files, too, browser.rs:33-46); only
the return of `cmd.exec` clears the cache.
Calls follow the order of checks in `invoke_with_cache`: grant, local-only, budget,
subagents, search, scope, MCP, cache, tool. Calls are made one at a time, because the run
loop does; only a batch of local reads is parallel (`ReadInParallel`). Hosted web search
is executed by the far end and is not a call here.

### DesktopServer

`active` is the slot, `task[r]` the task of the r-th request, `frames` what the writer
puts out. Requests are numbered as they arrive, since a host may use a run id twice. The
whole `run_with_cancel` is one step (`RunReturns`) with a success or an error; `AgentRun`
has its inside. A task decides its verdict and sends it in two steps, because the token
can be cancelled by another thread in between. One session stands for the sessions of all
requests, which is the worst case for overwriting.

### SessionStore and ChatSessions

A conversation is the set of its turns, a row has its turns and the two times the cleanup
looks at, and a name is a number whose order is that of the names. A program is at
`look`, `save` or `move` while it migrates the files of the older version (one action for
each access to a file, since a kill may come between them), at `ready` when the cleanup
is done, and then `idle` or `working`. `Stop` is `/exit`, an error that ends the chat and
a kill alike. `discarded` is history: what the user cleared, deleted or started anew, and
what a program that stopped had not stored. `unsaved` marks the two exceptions of
`StoredAsShown`: a goal run that failed, and another session renamed to the name of one
that was never saved.

### The terminal

`TranscriptRows` holds rows of a role, and the positions the display remembers by index
(the answer, its reasoning, the tool block and others); every operator of it is one
`ChatTui` method, `RemoveMessage` with the shift of the positions among them.
`ChatTranscript` produces display events in the orders a run can, including a run dropped
by a double Escape, retries, and events of a run that failed. `ChatInput` has every key
that changes the composer, its history and settings, with the runner borrowed while a run
goes on. `ChatView` draws, and takes a click that was made on an earlier drawing. Rows of
a message are counted by its width, as the code does; with `WordsWrap` the terminal may
need more (section 6).

### The runner between prompts, goals and files

`RunnerState` counts the version of a skill's file and of the memory; a compilation reads
in one step and stores in another, while the user edits. `GoalRuns` has the marker of an
answer as a choice, for ordinary prompts too. In `WorkspaceFiles` a line is indentation,
words and ending, and a width; a page of `fs.read` ends where its lines together have
`PageChars` characters. Old and new text of a replacement may carry the numbers that
`fs.read` shows, which are taken off without a look at the line they name. A change is
planned in one step and written in another (`Write`), with the other agent in between;
that `std::fs::write` truncates first, so that a reader may see half a file, is left out. In `WorkspaceSearch` a walk takes a directory per step while
other programs change the tree; the limits on results, depth, directories, files and time
are constants, and a deadline may pass at any step. A file may be text, no text, over
1 MiB, or one that may not be opened, which the two engines treat differently. What the
workspace may hold, what
matches in it, what is ignored, where links lead and what is moved where are constants
too (`Trees`, `Matching`, `Ignored`, `Linked`, `Moves`), so that the theorem is about any
workspace; `MCWorkspace` gives the one of the run. All links lead to one path, and nothing
makes a directory of it: links to directories are not modelled.

### Programs around the agent

Each far end (MCP server, parent process, issuer, browser, Codex, user) is external and
does what the protocol lets it do, at any time. `McpClient` reads lines until the answer
with its id over stdio; over HTTP it takes the first message of the response to its post,
as `parse_sse_json` does. `McpServer` has the three places a call's task can be when a cancellation is
read. `OneShotRuns` tells requests apart by the checks they fail. `Credentials` numbers
tokens by issue; a write of `auth.json` truncates first and may be killed in between. The
code of a callback is not told apart from its state, which is all the program compares.
`SetupRun` has one action per step and `Fail` at each. In `UsageHistory` a
number of tokens is the set of the turns that cost them: a total is the union of what it
adds up, and totals of different turns are different numbers. What is recorded is a
set of (history, place) pairs with the order in which the code takes them, `Earlier`, in
the place of a hash set that is filled in that order. `TraceFiles` writes what the loop
writes and analyses it as `profiler/analyze.rs` does, as cardinalities of the sets of
files and calls that the analysis counts one by one: the order of the files matters to
repeated calls only, and is that of `Sooner` there. A session that is resumed under a trace, opened or cleared brings its own
profile and numbers (`LoadSession`, `Clear`); `base` is the profile it began with. `TraceRuns` has listing and purge as
separate steps (inspect, resolve, remove) with the user in between.

## 3. Runs

Every passing run is exhaustive for its bounds. Every property has a mutant that violates
it in the same run.

| Run | Bounds | Shows |
|---|---|---|
| `AgentRunDesktop` | 1 prompt, 2 requests, 2 calls, 1 retry, 3 size levels | the protocol properties and `RunEnds`, with cancellation and compaction by size |
| `AgentRunCompaction` | 1 prompt, 3 requests, 1 call, 4 size levels, streak limit 1 | the history is replaced by every way of compaction at every turn, and the chain stays right |
| `AgentRunTui` | 2 prompts, 2 requests, 2 calls, 3 size levels | outputs stay with their calls over dropped runs and compaction; what a dropped run leaves open are its last calls |
| `AgentRunStaleReply` | 2 prompts, 3 requests, no retry | violation: the conversation the far end sees is another one |
| `SubagentTeam` | 3 ids, limit 2 | bookkeeping of tasks, refinement of `WorkerPool`, stopping |
| `ToolDispatch` | every kind of runner, 2 files, 1 change of each | cache, budget, offers, which tool may write what |
| `DesktopServer` | 2 requests, 2 run ids, 2 cancels, 1 delta | streams, verdicts, shutdown |
| `ChatSessions` | 1 program at a time, 2 names, 3 turns, 2 ticks, keep 1, retention 0 and 1 | what a chat shows is stored; no turn is lost that nobody gave up |
| `Terminal` | 7 display events, 1 retry, 2 calls; 2 prompts, history of 2; heights 0, 1, 4, 7, 12, 3 messages | rows, positions, figures, settings, clicks |
| `Workspace` | 2 edits, 3 requests; 3 checkpoints; 2 agents, 2 changes, 3 lines, pages of 2 lines or 6 characters; 2 trees, 4 directories, 2 files, limit 3 | state between prompts, goals, file tools |
| `Programs` | 2 MCP servers with 2 tools and 2 ids; 2 calls; 2 failed checks; 1 login, 2 runners, 3 tokens; 2 runs of setup; 2 turns in 4 files, 3 of them scanned; 6 trace files, 1 restart, 1 stored session; 3 days | the programs around the agent |
| `TracesPlain` | 2 days | violation: `spark traces` without a flag |

Why these bounds are enough to be of interest. One retry meets both "below the limit" and
"at the limit" on each transport, and with the deadline the counter goes past the limit;
the theorem about attempts covers every value. Three requests (`AgentRunCompaction`) give a
chain of two continued requests with a compaction or a change of transport between any
two; two give one tool turn, the compaction after it and a request. Two calls
are the least for an order of outputs and for cancelling between them. Three ids for two
slots let a worker be replaced while the team is full. One change of a file is enough to
make an observation stale; two files make ownership and renames matter. Two requests are
enough for one to overlap, follow or repeat the id of another, and for a slot that is
never freed. Two names let a session be left for another and renamed onto one; two ticks
let a row or a backup expire between two starts, and a file be older than both. Seven
events hold several texts, calls and results of one run and the beginning of another. The
heights are those at which a part of the screen appears. Two agents and two changes let
one write between the plan and the write of the other. A login and two runners write
three tokens to one file: one that two of them load and one refreshes, its successor, and
that of a new login. Two logins at once are covered by the theorem. Four files hold a
session, its fork, a fork of the fork and an archived copy of one; the limit of three
leaves out the oldest, which may be the head of the lineage of the rest. A limit of two
would leave out sessions in the middle of a lineage, too (section 6). Of the
workspace the run has two trees, with a nested directory, a generated one, an ignored file
that is not text, and a link; limits of one to three results meet "cut" and "not cut". One conversation that takes
the place of one that has files is what `AnalysisTellsTheRun` excludes, and `ClearedIsTold`
tells; a session resumed before there are files is within it.

Stopping: runs with `CHECK_DEADLOCK FALSE` are of systems that really stop (prompts used
up, team dropped, server stopped, program ended). `ToolDispatch` and `ChatSessions` never
stop and are checked for deadlock.

### Fairness

- `AgentRun`: weak fairness of the steps of the run itself (the executor polls it) and of
  the deadline timer. Nothing is assumed of others: the far end need not answer a request
  nor a compaction call (which is under no deadline, and over HTTP has no timeout,
  client.rs:423, client.rs:635), and a tool need not return (the timeout of an MCP server
  over stdio is one per line, mcp.rs:651). `RunEnds` says therefore that a run ends or stays
  in *one* such call for ever. It holds because of the deadline, and does not hold with
  `Deadline = FALSE`, the case of models other than Spark over HTTP.
- `SubagentTeam`: a task that was aborted reaches an await. Nothing is assumed of tasks
  that were not, nor that anyone waits for them.
- `DesktopServer`: the loop gets round to joining and stopping, and each task advances
  (that its run returns is assumed here: `RunEnds` of `AgentRun` gives it, but for a
  compaction or a tool that never does). Commands, end of input, errors of
  stdin and panics are never forced.
- The other modules are checked for safety only; `ChatInput` states fairness for
  `QuitLeaves`, which section 5 tells of.

## 4. Proofs

All 40 properties of the passing runs but three, the liveness ones, are theorems for every
value of the constants. Assumptions on constants are those of the specifications (numbers
are natural, surface flags Boolean, sets finite where the code counts them;
`BoundsAssumption`, `LimitsAssumption`, `HistoryAssumption` and `DaysAssumption` for the
parts that stand side by side; `PathsAssumption`, the paths are finitely many sequences of
names with all that is above them, and `TreesAssumption`, what the workspace holds at the
beginning has a directory above everything) and are evaluated by TLC in the runs. Three more are stated with the theorems that need them and
are true of the runs that check the properties: `OnePromptNeverDropped`, `OneProcess` and
`Numbered`.

Few of the properties are inductive. Each paragraph names the invariant that is, and says
why it is needed.

**AgentRunProofs**, for every limit, surface and far end

- `AttemptsAreBounded`: `Spec => []AttemptsBounded`. The bound 2 * (MaxRetries + 1) is
  not inductive, because the retry counter is shared by two transports and two kinds of
  failure. `AttemptInv` relates attempts, counter, transport and place: over the
  WebSocket the attempts are the counter plus one while an answer is awaited; over HTTP
  they are at most MaxRetries + 2 plus the counter, and if the counter is past the limit
  (a deadline at the limit) no more than MaxRetries + 2. The move to HTTP either resets
  the counter or adds one to it, and both keep the relation. It rests on
  `ControlTypeCorrect`, the types of places and counters.
- `TextIsShownOnce`: `Spec => NoRetryAfterText`. A step that tries the same request
  again is a retry, the deadline or the end of a delay; the first two look at `streamed`,
  and in a delay `AttemptInv` says that nothing was shown.
- `ConversationIsWellFormed`: `Spec => []ConversationWellFormed`. The property speaks of
  all calls and outputs at any time, and for the calls of the current run of the moments at
  which a request is out. `ConvoInv` says what the conversation is at
  every place: no item is newer than the last one made, an output stands behind its call,
  no call has two, outputs of a run are in the order of its calls, and the calls without
  one are those of the batch that is left, next to each other and in its order
  (`Pending`); where a request may be sent there are none. Compaction is the hard step: it keeps what
  `SelectSeq` selects, which the provers cannot unfold, so that a lemma describes the
  result by the places that are kept (`Retained`, `Place`), numbered in order, and what is
  kept has each output with its call.
- `RunImplementsProtocol`: `Spec => ImplementsProtocol`. The batch of `ToolProtocol` is the
  sequence of calls without an output (`ViewIsBatch`, from `ConvoInv`), and each action is
  a step of the protocol or leaves that sequence alone.
- `CancelledRunStartsNothing`: `Spec => CancelledStartsNothing`. What a cancelled run may
  still do to the history is put back the outputs of the call or batch it awaits; that a
  compaction adds no output needs that calls and their outputs are told apart by
  `ConvoInv`.
- `AnswersMatchRequests`: under `OnePromptNeverDropped`, `Spec =>
  []AnswerIsForThisRequest`. `ReplyInv` says that a request is sent on a socket without an
  unread reply only: the one reply on it is then the one to the last request. The
  assumption is needed: `AgentRunStaleReply` is the counterexample without it.
- `ServerSeesTheConversation`: under the same assumption, `Spec =>
  []ServerSeesConversation`. `ChainInv`: the contexts the far end can continue have
  distinct ids, none above the last id given out (`KnownInv`), and the context of
  `previous_response_id`, where it is known, is the conversation up to
  `continuation_input_start` (`Continues`); a conversation that is rewritten comes with a
  broken chain.
- `TypeCorrect`: `Spec => []TypeOK`, with the types of the socket, its replies and the
  chain (`ClientInv`) from those of the conversation.

**SubagentTeamProofs**, for every limit and number of ids: `TeamTellsTasks`
(`StateTellsTask`), `VerdictsStand` (`VerdictsAreFinal`), `TeamIsAPool` (`ImplementsPool`,
the refinement) and `TeamIsCapped`, which is about the workers whose running task the team
still has a handle of: one that a dropped wait detached, or that was told to stop, runs on
uncounted (`AllWorkersCapped`, section 6). `StateTellsTask` and the types keep each other; the
refinement needs besides that ids not handed out are of nobody (`FreshIds`) and that those
the pool calls busy, a worker that is waited for among them, are within the limit
(`WithinLimit`): a wait already wrote `cancelled` over the state, so the limit on running
workers alone is not inductive.

**ToolDispatchProofs**, for every set of files and every fleet of runners: `MemoryIsTrue`
(`CacheFresh`), `BudgetHolds` (`BudgetRespected`), `OffersAreGood`
(`OfferedToolsAreUsable`), `WritesHaveAuthority` (`WritesAreAuthorised`). Each way of
forgetting, keeping and observing is a lemma. What is offered is shown to be within
`Usable` while a run goes on, because the mode cannot change then; and that a process
has the authority it was started with is what makes its late writes authorised. The author
of every change is part of the state, so that the theorem asks the grant of the tool that
wrote, and what others may write excuses nothing.

**DesktopServerProofs**, for any number of requests and run ids: `CompletedWorkStays`
(`CompletedRunsAreKept`), `StopsInGoodOrder` (`ShutdownIsClean`), `StreamsAreInOrder`
(`StreamsWellFormed`), `ServerIsTyped`. A task holds the slot from its start to its join
(`OneHolds`), so nobody writes the session between the load and the save of a run
(`LoadedIsCurrent`), and what is completed is in it. A task that ended has been answered
before (`EndedAreAnswered`); the proof follows each frame through `Append`. That streams
are well formed says nothing of the next frame; `StreamState` does: while a task streams,
the frames of its request are numbered 0 to one less than its `sequence`, none of them is
an answer, and it is starting if and only if the number is still 0.

**ChatSessionsProofs**, for any number of names, turns and ticks: `ShownIsStored`
(`StoredAsShown`) and `TurnsStay` (`TurnsAreKept`). Both need `OneProcess` (two programs
on one session overwrite each other's turns) and `Numbered` (the files of the older
version hold the first turns). `TurnsAreKept` is not inductive: a file's turns have to be
safe once its name was imported, although the row may since have been renamed or
deleted (`TurnsAreSafe`); at a start nothing is on the screen, each good file not yet
imported is still to be looked at, and a row stands at the name of a good file only if it
was imported (`StartIsOrderly`, `RowsAreOfImports`); and the row of the session in hand
has nothing that is not on the screen or given up (`RowIsOfTheChat`), which is why saving
it loses nothing.

In the three modules that follow, each part is proved in behaviours of its own, and a
lemma `PartsDoNotMeet` gives the theorem of the part's property in the module that runs
them side by side.

**TerminalProofs**, for any number of events, calls and retries, prompts, heights and
messages

- `PositionsAreRight` (`PositionsNameTheirRow`), `StatsAreOfTheAnswer`
  (`StatsBelongToAnswer`) and the part of `EveryPartIsWellFormed` that is about the
  transcript, by `TranscriptInv`. Its core `Whole(t, k, r, c)` is about the transcript `t`
  after `k` events, the request `r` awaited and the message `c` copied: rows
  are in the order of the events that made them (`InOrder`), nothing is read after an
  open group of tools (`ToolsLast`), an active answer ends after the request that is
  awaited (`ActiveAfter`), and the message marked as copied begins with the piece that was
  copied (`CopyOf`). None of the three properties is inductive without the others: a
  position survives the removal of a row only if it is a row in order. One lemma for each
  display event says what it does to `Whole`.
- `ClicksTakeWhatIsSeen` (`ClickTakesWhatIsSeen`) by `ViewInv`: the screen is the drawing
  of what there is now, unless something changed since; and the rows counted for the
  messages are those that are drawn, by induction on the recursive function that adds them
  up.
- `EveryPartIsWellFormed` (`PartsAreWellFormed`) adds `InputInv`: a setting that is
  pending is the one shown, one is pending during a run only, and without a run what is in
  use is stored.
- `LayoutFills`: for every height, the parts of the screen fill it exactly and the
  transcript and the composer keep a row as long as there is one; no subtraction of the
  code goes below zero.

**WorkspaceProofs**, for any number of requests, sessions, checkpoints, agents and lines

- `RunnersAreConsistent` (`RunnerIsConsistent`): a skill whose text is in the conversation
  counts as loaded and is there once. The converse is not claimed: compaction may drop the
  text while `loaded_skills` stays. `RunnerInv` says this of the other session, too, and of the trace that
  the numbers of the files of a name go up to its count, so that the next one is new
  (`TraceCounted`).
- `GoalRunsAreCounted` (`GoalRunIsCounted`) by `GoalInv`. The log names every checkpoint
  of the goal and of the one saved with the other session, which may be opened any time
  (`Logged`); a run has sent as many prompts as its goal went on by since it began
  (`WorkIsCounted`), because an answer makes exactly one checkpoint with a marker or
  without (`AnswerMakesOne`).
- `PagesCoverEveryFile` (`PagesCoverTheFile`) and `ChangesAreThosePlanned`
  (`ChangesAreAsPlanned`) by `FilesInv`: of a text that is still the file's, an agent has
  read exactly the lines before its next offset, and all of them when it was told that
  there are no more; every page that says there is more has brought a line, whatever the
  file is by then; and a change that is planned keeps the lines it does not name, and
  counts what it replaces. For files of any length and lines of any width. Not claimed:
  replacements that guess the indentation (`ReplaceIsUnambiguous`, section 6), and that
  the text which is written over is still the one the change was planned on.

- `NothingIsLeftOut` (`NothingIsLeftOutSilently`) by `SearchInv`, for any workspace, root,
  depth and limits. The property speaks of a walk at its end; `FoundInPlace` says of one
  under way that what it has to find is found or still to come. A list: whatever was not
  listed is below a directory that waits on the stack (`ListGoesOn`). A search in process:
  a file has all of its matches found, or none and is at or below an entry that waits, no
  entry is below another, and so no file is read twice (`SearchGoesOn`). ripgrep: nothing is
  found but what was asked for. That an entry is as deep as it says, and in no directory
  that is skipped (`Waiting`), is why the depth limit cuts where the property does. What
  waits is below what exists only as long as a directory is above everything (`Whole`),
  which writes, moves and removals keep; a move is the hard one, since all that is below its
  source moves along. Files that a search passes over for their size or permissions are
  excluded, since the code does not tell of them (`SkippedFilesAreTold`). The same induction shows that the directories a call names are those
  it made.

**ProgramsProofs**, for any servers, tools, calls, logins, runs and days

- `AnswersAreToTheCalls` (`AnswersAreToTheCall`) by `ClientInv`: a local name stands for
  one tool of one server, and an exchange waits for the answer to its last request; over
  HTTP what is read came in the response to it, over stdio it has its id.
- `CancelledCallsAreAnswered` (`CancelledCallsAreToldAndAnswered`) by `ServerInv`:
  `CallKept` says for each call that it is not begun before it is read, that its task
  answers it once and is in the map from its start to its answer, and that the token of a
  running one is cancelled as soon as its cancellation, or the end of stdin, was read.
- `ReportsTellTheRun` (`ReportTellsTheRun`) by `HostInv`: nothing is written before the end,
  preparation has passed the checks before the next one, and a run that goes on is that of
  a request with nothing wrong, cancelled after its deadline only.
- `SavedTokensAreUnspent` (`UnspentIsSaved`): what is about to be saved was issued to the
  program that saves it and is in no other's hands, so that nobody can have refreshed it.
- `UsersFilesStay` (`UsersFilesAreKept`) by `SetupInv`: what is to be copied is no
  skill of the user's, and before the explorer agent is written a copy of the user's was
  made.
- `PurgeIsSafe` (`PurgeKeepsTheRest`) by `TracesInv`. A purge looks its runs up again one
  by one, newest first, and removes them one by one, while the directory may change.
  `PurgeInOrder`: while it looks, the runs it found are the newest of its candidates, as
  many as it looked at; while it removes, what is left and what was removed are the
  candidates. That counting runs above a candidate tells them apart (`RankIsOfOne`) is what
  lets the last one found complete the set.

- `EachTurnIsCounted` (`EachTurnCountsOnce`) by `UsageInv`, for any number of sessions,
  turns and files. `HistoryOf` says what the files may look like: a file begins like the
  first file of its session, a fork has a session made before it, turns ascend, and a turn
  that two files tell of was made behind the same turns in both and only by kin, sessions
  with one first ancestor (`Kin`). From this on the argument is about one scan. A turn that
  is told is in an observation with a total; two observations of it have the same total and
  the same root (`OneTurnOneRoot`), which is where the lineage must be without a gap; so all
  but the first are left out as repeated, and the first is kept. An observation without a
  total of its own takes its tokens from the difference of two, and cannot have a turn of
  another.
- `AnalysisIsOfTheRun` (`AnalysisTellsTheRun`) by `TraceInv`, for any number of files.
  `TraceTells` relates the profile to the files, with one part for what is counted file by
  file (`Told`), one for calls, which a response tells at once and the run counts one by one
  (`CallsTold`: the calls told are those counted and those pending), one for the rows of
  turns with calls only (`RowsTold`), and one for the last summary (`SummariesTold`). That
  nothing is passed over needs that a turn has one request and one response file
  (`OneReplyEach`, `TurnsUpTo`), which a conversation that takes the place of one with files
  breaks: numbers are used again, and the property says nothing of it. A session that was
  resumed before counts from `base`, and its calls may be repeated ones for the run that the
  analysis sees for the first time, which is why repeated calls are then only bounded.

**Only model-checked.** Liveness, which the provers cannot do: `RunEnds`,
`ClosedTeamStops`, `EveryRequestIsAnswered`. Induction over the natural numbers, where a
proof needs it, comes from `WFMin` and `NatLessThanWellFounded`: a set of numbers has a
least one.

## 5. Properties

- `ServerSeesConversation`: although only new items are sent, an answer is computed from
  the conversation the runner holds. `AnswerIsForThisRequest`: the answer that is taken
  and chained on is the one to the last request.
- `ConversationWellFormed`, `ImplementsProtocol`: calls and outputs match, in order,
  across retries, transports, drops and compaction; those of the current run before the
  next request.
- `AttemptsBounded` (over both transports together), `NoRetryAfterText`,
  `CancelledStartsNothing`, `RunEnds`.
- `StateTellsTask`, `VerdictsAreFinal`, `ClosedTeamStops`, `ImplementsPool`: what the
  team says of a worker is true of its task and is not taken back; workers that it has a
  handle of stop with the team.
- `CacheFresh`: a remembered observation is what the tool would answer now, unless
  somebody else changed the place, `browser.run` did, or a command that has not returned.
  `BudgetRespected`, `OfferedToolsAreUsable`, `WritesAreAuthorised`.
- `StreamsWellFormed`, `CompletedRunsAreKept`, `ShutdownIsClean`,
  `EveryRequestIsAnswered`.
- `StoredAsShown`, `TurnsAreKept`: sessions through migration, renaming and kills.
- `PositionsNameTheirRow`, `StatsBelongToAnswer`, `PartsAreWellFormed`,
  `ClickTakesWhatIsSeen`: what is shown belongs to what it is shown for.
- `RunnerIsConsistent` (a skill that is told is loaded and told once, memory that is off is off, trace files are
  not written over), `GoalRunIsCounted`, `PagesCoverTheFile`, `ChangesAreAsPlanned`,
  `NothingIsLeftOutSilently` (with it, that the directories a call says it created are those
  it did, `CreatedDirectoriesAreReported`).
- `AnswersAreToTheCall`, `CancelledCallsAreToldAndAnswered`, `ReportTellsTheRun`,
  `UnspentIsSaved`, `UsersFilesAreKept`, `EachTurnCountsOnce`, `AnalysisTellsTheRun`,
  `PurgeKeepsTheRest`.

Also stated, for whoever changes the code, but in no configuration here: the type
invariants of the other modules (those of `SubagentTeam`, `ToolDispatch`, `DesktopServer`,
`ChatSessions` and the parts of the terminal are part of what is proved); `ImportedOnce` and
`NamedSessionIsKept` (`ChatSessions`); `SaidStays` (`ChatTranscript`); `DraftIsKept`,
`StopTakesTwo` and `QuitLeaves` (`ChatInput`); `DisabledIsNotOffered` (`McpClient`).

## 6. Where code and documents disagree

Two disagreements have a run that finds them:

| Run | Document | What the code does |
|---|---|---|
| `AgentRunStaleReply` | docs/development.md:53, continuation sends only new input | a dropped request leaves its reply on the kept socket; the next prompt reads it as its answer and chains on it |
| `TracesPlain` | cli.rs:208, "List saved trace runs" | `spark traces` without a flag panics on the first run of the list: the summary it expects is read for `--summary` and the filters only |

The others are stated in their modules with the comment `(violated)`, quoting the text
they take from a document, a message or a test. TLC finds each violated when it is the
only property of the configuration of its module; one of a part of `MCTerminal`,
`MCWorkspace` or `MCPrograms` is named there as the other properties of the part are
(`part = "trace" => Trace!ClearedIsTold`). Constants are those of section 3 unless the
table says otherwise.

| Module | Definition | What the code does |
|---|---|---|
| `SubagentTeam` | `AllWorkersCapped` | a wait that is dropped leaves a worker running and uncounted |
| `SubagentTeam` | `FinishedWorkIsFollowedUp` | a worker that finished but was not waited for is replaced, its report lost |
| `ToolDispatch` | `OfferedToolsAreNotBlocked` | names other than `subagent.run` are not translated back; calls of offered lifecycle tools are blocked |
| `ToolDispatch` | `HintIsTrue` | "use the previous observation or summary": compaction can remove both and does not clear the cache |
| `DesktopServer` | `RejectionIsTrue` | "a run is already active": the slot is cleared after the terminal frame was sent |
| `ChatSessions` | `IdleChatIsStored` | what the checkpoints of a goal run did before it failed is on the screen and not stored |
| `ChatSessions` | `SavesOnlyAdd` | a session renamed to the name of the active one, which was never saved, is replaced by the next save; with two programs on a session the last to save wins |
| `ChatSessions` | `NewSessionIsNew` | `/new` with the name of a stored session empties it |
| `ChatSessions` | `OnlyInactiveRemoved` | a session that was opened long ago and saved since counts as inactive |
| `ChatSessions` | `BackupsAreKept` | a backup expires by the time the file was written, not by the time it was moved |
| `ChatSessions` | `MigrationSkipsExisting`, with two programs | between the look and the save another program may store the name |
| `ChatTranscript` | `AnswersAreSeparate` | the streamed answers of a goal run share one row |
| `ChatTranscript` | `ReasoningIsTransient` | an attempt that failed while it reasoned leaves its empty row, when the answer to the retry has no text |
| `ChatTranscript` | `FailuresAreBelowThePrompt` | a stopped run leaves the row of its retry, and the error of the next prompt takes its place, above that prompt |
| `ChatTranscript` | `IdleLooksIdle` | a `/compact` that fails leaves the activity line at "compacting" |
| `ChatTranscript` | `ResultsJoinTheirCalls` | a warning about an MCP server closes the block, and the result of the call opens another |
| `ChatInput` | `UpDownScroll` | Up and Down walk the history of the composer; the help says they scroll |
| `ChatView` | `ClickInARunTakesWhatIsSeen` | events are applied before the clicks that were made on the screen before them |
| `ChatView` | `EndIsSeen`, with `WordsWrap` | the terminal wraps at words and needs more rows than are counted |
| `RunnerState` | `SummaryIsOfItsHash` | a skill that is edited while it is compiled gets the summary of the old text under the hash of the new one |
| `WorkspaceFiles` | `ReplaceIsUnambiguous` | a replacement that had to guess the indentation changes the same text in other lines too, and reports one |
| `OneShotRuns` | `InstructionsInScopeOrder` | paths are sorted as text: a directory whose name sorts before `AGENTS.md` is loaded before the file of its parent |
| `Credentials` | `RefreshedIsKept` | a kill between refresh and save loses the only token that is still good |
| `Credentials` | `LimitsAreTheModels` | a runner that starts with an expired token fails to ask for the limits of its model, then refreshes the token and works with the default ones |
| `SetupRun` | `LoginIsFound` | staging the executable makes the legacy directory, which then is the one that is looked in |
| `SetupRun` | `SkippedIsWhole` | a copy that was interrupted is skipped as existing by the next run |
| `TraceFiles` | `AnalysisTellsTheTrouble` | the second compaction or error of a turn has a number in its name and is passed over |
| `TraceFiles` | `StreaksAgree`, with 7 files | a failed request ends a streak in the analysis and not in the run |
| `TraceFiles` | `ClearedIsTold` | after a clear the requests with used numbers are passed over, their results counted |
| `TraceRuns` | `OneRunFailsAlone` | a run killed in a write makes the listing of all runs fail |

Some properties that a reader might expect do not hold either, although no document
promises them. They are stated with the comment `(does not hold)`:

| Module | Definition | What the code does |
|---|---|---|
| `ToolDispatch` | `OwnWritesAreSeen` | what a dropped command wrote, and all that `browser.run` writes, is not looked at again |
| `WorkspaceFiles` | `UpdatesAreKept` | a change is written over what another agent wrote since it was planned |
| `WorkspaceSearch` | `SkippedFilesAreTold` | files over 1 MiB, or that may not be opened, are passed over without a word |
| `McpClient` | `HttpAnswersAreMatched` | over HTTP a notification before the answer is taken for it |
| `TraceFiles` | `ResumedIsTold` | the summary of a run that resumed a session counts the requests of earlier traces |

No disagreement, but close to one: `spark usage --history --max-files` reads the newest
files. When a session is read whose parent is not, and that parent is itself a fork, the
climb to the root of the lineage stops at the parent: the session and its other relatives
have different roots, and the turns both copied from the head of the lineage are counted
twice. Without `LineagesAreRead` TLC finds it with four files and a limit of two (1; 2
forked from 1; 3 from 2; 4 from 1; the files 3 and 4 are read). The report says that such a
scan is incomplete (cli.rs:82: "a bounded scan is reported as incomplete"), so the property
asks that lineages are read without a gap. A limit that leaves out only heads of lineages
is within the property.

## 7. Hazards without a property

`PROJECT.json` lists the hazards a property covers. These are known and have none, mostly
because the code is as its authors chose it and a property would only repeat that:

- `client.rs:594`: compaction over the WebSocket reads the next reply on the socket,
  which may be that of a request which was dropped (the mechanism is that of
  `AgentRunStaleReply`).
- `client.rs:402`: an HTTP request has no timeout of its own; without the response
  deadline a run waits as long as the far end keeps the connection.
- `agent/run_loop.rs:323`: a run that is cancelled while it waits for an answer is sent
  again over HTTP and its answer awaited. `agent/run_loop.rs:491`: a run cancelled between
  two calls, or dropped, leaves calls without outputs in the conversation, and the requests
  of the next prompt carry them. `agent/run_loop.rs:368`: a token that is cancelled in the
  very moment a retry delay ends may be missed until the next look.
- `client.rs:635`: a compaction call over HTTP has no timeout and is under no deadline.
- `agent/run_loop.rs:56`: the streak of tool-only turns outlives a run, the marks compared
  with it do not. `agent/compaction.rs:105`: a compaction asked for by that streak whose
  remote way fails ends a run whose conversation is within its limits.
- `agent/compaction/retention.rs:187`: a notice that local compaction shortened no longer
  starts with its marker and is kept for ever.
- `agent/cache.rs:89`: workers, other programs and the user change files the cache still
  answers for; `CacheFresh` excludes what others changed. `agent/cache.rs:80`: a call of
  an MCP tool the conversation still mentions goes to its server after a change to ask
  mode.
- `agent/subagent.rs:376`: steering cancels the worker first and starts its replacement
  then, which may be refused.
- `session/store.rs:324`: a rename asks whether the name is free in one statement and
  takes it in another; the table refuses the second of two programs.
- `chat/tui.rs:563`: opening or beginning a session changes the conversation of the runner,
  not the rows on the screen; the properties about sessions speak of the conversation.
- `main.rs:309`: `spark brief` prints only the answer unless JSON is asked for;
  `ReportTellsTheRun` is about the report and the exit code.
- Two programs on one session, one login or one memory file: the disagreements of section
  6 have the cases; the theorems about sessions assume one program.

## 8. Not modelled

- Development tools: benchmarks, profiles and their fixtures (`benchmark/`, `profile/`),
  about a third of the source tree. They run the program and measure it.
- Text: markdown and its drawing, spinner frames, telemetry, prompts, the wording of
  messages and errors, the parsing of command lines, sizes in characters.
- I/O of single tools: `github.*`, `browser.run`, the processes of `cmd.exec` and of MCP
  servers (what they write is modelled, where it matters), SQLite's own errors and the
  version of its schema, the decoding of SSE and JSON.
- Reports of traces that compare runs or check expectations.
- Failures to write a trace file in the middle of a run; a removal of a run's directory
  that fails half way.
- The mode and effort that a stored session restores into the settings shown
  (`ChatInput`); clicks during a run in `ClickTakesWhatIsSeen` (section 6 has what happens
  to them); a file of the user made between the plan and the copy of setup
  (`UsersFilesAreKept`).
- A kill counts what was not stored as given up in `ChatSessions`, so that a turn which
  was only on the screen is no loss for `TurnsAreKept`.

## 9. What remains

1. Compose further: `DesktopServer` and `AgentRun` on the rows of `SessionStore` instead
   of one session and one conversation; files and ownership joined to `SubagentTeam`, to
   see two workers on one file.
2. Prove the properties that section 5 lists as stated only, `ImportedOnce`, `SaidStays`,
   `DraftIsKept` and `DisabledIsNotOffered` first.
3. Fairness for the MCP server's drain and the one-shot hosts, which the deadline of
   `repo_brief.rs` would justify.
