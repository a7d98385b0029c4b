----------------------------- MODULE MCPrograms -----------------------------
(***************************************************************************)
(* The programs around the agent and the files they leave, in eight parts  *)
(* that share no variable, each in behaviours of its own: the client of    *)
(* MCP servers, the MCP server, the one-shot hosts, logins, setup, the     *)
(* history of usage, the files of a trace and the directories of traces.   *)
(***************************************************************************)
EXTENDS Naturals

CONSTANTS Servers, Tools, Local(_, _), Http, MaxIds,  \* of McpClient
          Ids, MaxInput,                              \* of McpServer
          MaxFaults, MaxBody,                         \* of OneShotRuns
          Logins, Runners, MaxTokens,                 \* of Credentials
          Skills, MaxRuns,                            \* of SetupRun
          MaxTurns, MaxHistory, MaxScanned,           \* of UsageHistory
          Stored, MaxFiles, MaxRestarts,              \* of TraceFiles
          MaxDay, Limit, MaxMoves                     \* of TraceRuns

ASSUME DaysAssumption == MaxDay \in Nat
ASSUME HistoryAssumption == {MaxHistory, MaxScanned} \subseteq Nat

VARIABLES part,   \* the part that this behaviour is of
          defs, state, said, registry, exchange, ids,
          input, closed, sent, server, task, token, active, answers, wanted,
          host, bad, phase, next, done, deadline, cancelled, run, answer, out,
          exit,
          port, at, url, redirects, issued, spent, expired, file,
          codex, held, limits,
          dirs, auth, login, repo, explorer, backups, registered, staged,
          step, options, copies, runs,
          files, turns, today,
          seq, loop, stage, pending, live, base, written, summary, restarts,
          day, entries, torn, moves, plan, resolved, removed, outcome,
          listing

clientVars == <<defs, state, said, registry, exchange, ids>>
serverVars == <<input, closed, sent, server, task, token, active, answers,
                wanted>>
hostVars == <<host, bad, phase, next, done, deadline, cancelled, run, answer,
              out, exit>>
loginVars == <<port, at, url, redirects, issued, spent, expired,
               file, codex, held, limits>>
setupVars == <<dirs, auth, login, repo, explorer, backups, registered, staged,
               step, options, copies, runs>>
usageVars == <<files, turns, today>>
traceVars == <<seq, loop, stage, pending, live, base, written, summary, restarts>>
tracesVars == <<day, entries, torn, moves, plan, resolved, removed, outcome,
                listing>>
vars == <<part, clientVars, serverVars, hostVars, loginVars, setupVars,
                usageVars, traceVars, tracesVars>>

\* local_mcp_tool_name: both tools of "a" get one name.
LocalName(s, t) == IF t = "t.x" THEN <<s, "t_x">> ELSE <<s, t>>

Client == INSTANCE McpClient
Server == INSTANCE McpServer
Host == INSTANCE OneShotRuns
Login == INSTANCE Credentials
Setup == INSTANCE SetupRun WITH server <- registered, plan <- copies
Usage == INSTANCE UsageHistory WITH MaxFiles <- MaxHistory, Limit <- MaxScanned
Trace == INSTANCE TraceFiles WITH phase <- stage, files <- written
Traces == INSTANCE TraceRuns

\* A session with a request, a call and two turns of calls only behind it.
StoredSessions ==
    {[profile |-> [requests |-> 3, calls |-> 2, repeated |-> 0, duplicates |-> 0, results |-> 2,
                   failures |-> 0, hits |-> 1, compactions |-> 0, errors |-> 0,
                   toolOnly |-> 2, streak |-> 1, longest |-> 2, seen |-> {1}, last |-> 1],
      seq |-> 3]}

ASSUME StoredAssumption == Stored \subseteq Trace!Sessions

-----------------------------------------------------------------------------
\* A part that a behaviour is not of has no state.
NoClient == /\ defs = 0 /\ state = 0 /\ said = 0 /\ registry = 0
            /\ exchange = 0 /\ ids = 0
NoServer == /\ input = 0 /\ closed = 0 /\ sent = 0 /\ server = 0 /\ task = 0
            /\ token = 0 /\ active = 0 /\ answers = 0 /\ wanted = 0
NoHost == /\ host = 0 /\ bad = 0 /\ phase = 0 /\ next = 0 /\ done = 0
          /\ deadline = 0 /\ cancelled = 0 /\ run = 0 /\ answer = 0
          /\ out = 0 /\ exit = 0
NoLogin == /\ port = 0 /\ at = 0 /\ url = 0 /\ redirects = 0
           /\ issued = 0 /\ spent = 0 /\ expired = 0 /\ file = 0 /\ codex = 0
           /\ held = 0 /\ limits = 0
NoSetup == /\ dirs = 0 /\ auth = 0 /\ login = 0 /\ repo = 0 /\ explorer = 0
           /\ backups = 0 /\ registered = 0 /\ staged = 0 /\ step = 0
           /\ options = 0 /\ copies = 0 /\ runs = 0
NoUsage == /\ files = 0 /\ turns = 0 /\ today = 0
NoTrace == /\ seq = 0 /\ loop = 0 /\ stage = 0 /\ pending = 0 /\ live = 0
           /\ base = 0 /\ written = 0 /\ summary = 0 /\ restarts = 0
NoTraces == /\ day = 0 /\ entries = 0 /\ torn = 0 /\ moves = 0 /\ plan = 0
            /\ resolved = 0 /\ removed = 0 /\ outcome = 0 /\ listing = 0

Init ==
    \/ /\ part = "client" /\ Client!Init
       /\ NoServer /\ NoHost /\ NoLogin /\ NoSetup /\ NoUsage /\ NoTrace
       /\ NoTraces
    \/ /\ part = "server" /\ Server!Init
       /\ NoClient /\ NoHost /\ NoLogin /\ NoSetup /\ NoUsage /\ NoTrace
       /\ NoTraces
    \/ /\ part = "host" /\ Host!Init
       /\ NoClient /\ NoServer /\ NoLogin /\ NoSetup /\ NoUsage /\ NoTrace
       /\ NoTraces
    \/ /\ part = "login" /\ Login!Init
       /\ NoClient /\ NoServer /\ NoHost /\ NoSetup /\ NoUsage /\ NoTrace
       /\ NoTraces
    \/ /\ part = "setup" /\ Setup!Init
       /\ NoClient /\ NoServer /\ NoHost /\ NoLogin /\ NoUsage /\ NoTrace
       /\ NoTraces
    \/ /\ part = "usage" /\ Usage!Init
       /\ NoClient /\ NoServer /\ NoHost /\ NoLogin /\ NoSetup /\ NoTrace
       /\ NoTraces
    \/ /\ part = "trace" /\ Trace!Init
       /\ NoClient /\ NoServer /\ NoHost /\ NoLogin /\ NoSetup /\ NoUsage
       /\ NoTraces
    \/ /\ part = "traces" /\ Traces!Init
       /\ NoClient /\ NoServer /\ NoHost /\ NoLogin /\ NoSetup /\ NoUsage
       /\ NoTrace

Next ==
    \/ /\ part = "client" /\ Client!Next
       /\ UNCHANGED <<part, serverVars, hostVars, loginVars, setupVars,
                      usageVars, traceVars, tracesVars>>
    \/ /\ part = "server" /\ Server!Next
       /\ UNCHANGED <<part, clientVars, hostVars, loginVars, setupVars,
                      usageVars, traceVars, tracesVars>>
    \/ /\ part = "host" /\ Host!Next
       /\ UNCHANGED <<part, clientVars, serverVars, loginVars, setupVars,
                      usageVars, traceVars, tracesVars>>
    \/ /\ part = "login" /\ Login!Next
       /\ UNCHANGED <<part, clientVars, serverVars, hostVars, setupVars,
                      usageVars, traceVars, tracesVars>>
    \/ /\ part = "setup" /\ Setup!Next
       /\ UNCHANGED <<part, clientVars, serverVars, hostVars, loginVars,
                      usageVars, traceVars, tracesVars>>
    \/ /\ part = "usage" /\ Usage!Next
       /\ UNCHANGED <<part, clientVars, serverVars, hostVars, loginVars,
                      setupVars, traceVars, tracesVars>>
    \/ /\ part = "trace" /\ Trace!Next
       /\ UNCHANGED <<part, clientVars, serverVars, hostVars, loginVars,
                      setupVars, usageVars, tracesVars>>
    \/ /\ part = "traces" /\ Traces!Next
       /\ UNCHANGED <<part, clientVars, serverVars, hostVars, loginVars,
                      setupVars, usageVars, traceVars>>

Spec == Init /\ [][Next]_vars

-----------------------------------------------------------------------------
\* What an agent is given of an MCP server is of the tool it called and of that call: over
\* stdio the line with its id, over HTTP a message of the response to its post.
AnswersAreToTheCall == part = "client" => Client!AnswersAreToTheCall

\* A call whose cancellation was read while it ran is told of it, and every
\* call that was read is answered once before the server ends well.
CancelledCallsAreToldAndAnswered == part = "server" => Server!CancelledCallsAreToldAndAnswered

\* The one envelope a host prints tells how the run it is about went, and the
\* exit code agrees.
ReportTellsTheRun == part = "host" => Host!ReportTellsTheRun

\* However logins and refreshes overlap, what they write to auth.json is a token that
\* nobody has refreshed.
UnspentIsSaved == [][part = "login" => Login!SavesUnspent]_vars

\* Whatever runs of setup fail at whatever step and are started again, the
\* user's skills stay and the user's explorer agent is where it was or in a
\* copy.
UsersFilesAreKept == [][part = "setup" => Setup!KeepsUsersFiles]_vars

\* When no gap is left in a lineage and all counts have totals, a turn is counted
\* once, however sessions were forked, archived, cut off or lost
\* their metadata.
EachTurnCountsOnce == part = "usage" => Usage!EachTurnCountsOnce

\* While no conversation takes the place of one that has files, the analysis of a trace
\* finds what the run counted above what the session it resumed had.
AnalysisTellsTheRun == part = "trace" => Trace!AnalysisTellsTheRun

\* The purge removes runs it listed and no others, whatever the directory
\* became since, and none when one of them is refused.
PurgeKeepsTheRest == part = "traces" => Traces!PurgeKeepsTheRest
=============================================================================
