------------------------------ MODULE McpClient -----------------------------
(***************************************************************************)
(* The MCP servers of a workspace (src/mcp.rs) as one runner sees them:    *)
(* where they are configured, which are switched on, the registry of their *)
(* tools (src/agent/mod.rs), and the exchange with a server that lists or  *)
(* calls a tool.  A server is started, or initialized anew, for every      *)
(* exchange; it may send notifications and requests of its own in between. *)
(* What it is asked is external; ids of its own requests are not ours.     *)
(***************************************************************************)
EXTENDS Naturals, FiniteSets, Sequences

CONSTANTS Servers,      \* names of servers
          Tools,        \* names of tools
          Local(_, _),  \* local_mcp_tool_name: sanitized, so two tools may share one
          Http,         \* servers with an url; the others are started with a command
          MaxIds        \* bound: request ids

VARIABLES defs,      \* what each configuration file says of each server
          state,     \* .spark/mcp-state.json: overrides, and whether it can be parsed
          said,      \* the last successful /mcp enable, disable or reset of each server
          registry,  \* mcp_registry: the tool behind each local name, or NoRegistry
          exchange,  \* the exchange that is going on
          ids        \* REQUEST_ID

vars == <<defs, state, said, registry, exchange, ids>>

\* In the order they are merged, a later one replacing the whole entry.
Files == <<"app", "codex", "workspace", "spark">>
Flags == {"none", "on", "off"}       \* "on": also when enabled is not given
Names == {Local(s, t) : s \in Servers, t \in Tools}
NoRegistry == [known |-> FALSE]
Quiet == [phase |-> "none"]

Init == /\ defs \in [Servers -> {[f \in DOMAIN Files |-> IF f = 1 THEN x ELSE "none"] : x \in Flags}]
        /\ state = [over |-> [s \in Servers |-> "none"], ok |-> TRUE]
        /\ said = [s \in Servers |-> "none"]
        /\ registry = NoRegistry
        /\ exchange = Quiet
        /\ ids = 1

Free == exchange = Quiet

-----------------------------------------------------------------------------
\* load_mcp_server_definitions: the last file that names the server.
Defined(s) ==
    LET named == {f \in DOMAIN Files : defs[s][f] # "none"}
    IN IF named = {} THEN "none" ELSE defs[s][CHOOSE f \in named : \A g \in named : g <= f]

\* load_mcp_servers: overrides that cannot be read are passed over.
Enabled(s) ==
    /\ Defined(s) # "none"
    /\ IF state.ok /\ state.over[s] # "none" THEN state.over[s] = "on" ELSE Defined(s) = "on"

\* McpRegistry::discover: the servers one after the other, a server that fails
\* or takes too long left out, a later tool taking the place of its namesake.
Discovered(r) ==
    \E answering \in SUBSET {s \in Servers : Enabled(s)} :
        LET named == {Local(s, t) : s \in answering, t \in Tools}
        IN /\ DOMAIN r.tools = named /\ r.known
           /\ \A n \in named : r.tools[n] \in
                 {b \in answering \X Tools : Local(b[1], b[2]) = n}

\* read: whether the overrides could be read for it (history).
Registries == {[known |-> TRUE, read |-> state.ok, tools |-> f] :
                  f \in UNION {[N -> Servers \X Tools] : N \in SUBSET Names}}

\* ensure_mcp_registry, before tools are offered or called; /mcp refresh.
Discover ==
    /\ Free
    /\ registry' \in Registries /\ Discovered(registry')
    /\ UNCHANGED <<defs, state, said, exchange, ids>>

\* (Fault: the tools that were discovered are kept.)
KeepRegistry == UNCHANGED registry

InvalidateRegistry == registry' = NoRegistry

\* set_server_enabled, reset_server_enabled.
Override(s, x) == state' = [state EXCEPT !.over[s] = x]

\* /mcp enable, disable, reset.  The state must be readable and the server known.
McpCommand ==
    /\ Free /\ state.ok
    /\ \E s \in Servers, x \in Flags :
          /\ Defined(s) # "none"
          /\ Override(s, x)
          /\ said' = [said EXCEPT ![s] = x]
    /\ InvalidateRegistry
    /\ UNCHANGED <<defs, exchange, ids>>

\* The user edits a configuration file, or leaves the state unreadable; an
\* exchange reads neither.
EditConfiguration ==
    /\ Free
    /\ \/ /\ \E s \in Servers, x \in Flags : defs' = [defs EXCEPT ![s][Len(Files)] = x]
          /\ UNCHANGED state
       \/ state' = [state EXCEPT !.ok = ~@] /\ UNCHANGED defs
    /\ UNCHANGED <<said, registry, exchange, ids>>

-----------------------------------------------------------------------------
(* An exchange: initialize, its answer, the notification, the request and  *)
(* its answer.  Over stdio both ids are drawn first and lines are read     *)
(* until one has the id that is waited for; over HTTP every request is a   *)
(* post with its own response, of which the first message is taken, and    *)
(* the session id of the first response goes along.                        *)

\* A line: the id of its answer, or 0, and the request it was written on.
NoLine == [id |-> 0, on |-> 0]

BeginCall ==
    /\ Free /\ registry.known /\ ids + 1 <= MaxIds
    /\ \E n \in DOMAIN registry.tools :
          LET s == registry.tools[n][1] IN
          exchange' = [phase |-> "initialize", name |-> n, server |-> s, tool |-> registry.tools[n][2],
                       waits |-> ids, asked |-> IF s \in Http THEN 0 ELSE ids + 1,
                       out |-> <<>>, session |-> FALSE, answer |-> NoLine]
    /\ ids' = ids + (IF exchange'.server \in Http THEN 1 ELSE 2)
    /\ UNCHANGED <<defs, state, said, registry>>

\* The answer to a request, perhaps with a notification before or after it.  A response
\* over HTTP may lack the answer; one with nothing in it is read as an empty result, as a
\* notification is.
Written(id) ==
    LET note == [id |-> 0, on |-> id]
        answer == [id |-> id, on |-> id]
    IN {<<answer>>, <<note, answer>>, <<answer, note>>, <<note, answer, note>>}
         \cup (IF exchange.server \in Http THEN {<<note>>} ELSE {})

ServerWrites ==
    /\ ~Free /\ exchange.phase # "answered"
    /\ \A i \in DOMAIN exchange.out : exchange.out[i].on # exchange.waits
    /\ \E lines \in Written(exchange.waits) :
          exchange' = [exchange EXCEPT !.out = @ \o lines]
    /\ UNCHANGED <<defs, state, said, registry, ids>>

\* (Fault: the first line that is read is the answer.)
AnyLine(line) == TRUE

\* read_stdio_response compares ids; parse_sse_json and from_str do not.
Answers(line) == exchange.server \in Http \/ line.id = exchange.waits

\* What stays unread of a response over HTTP is gone with it.
ReadLine ==
    /\ ~Free /\ exchange.phase # "answered" /\ exchange.out # <<>>
    /\ LET line == Head(exchange.out)
           http == exchange.server \in Http
           read == [exchange EXCEPT !.out = IF http THEN <<>> ELSE Tail(@)]
       IN CASE ~Answers(line) -> exchange' = read /\ UNCHANGED ids
            [] Answers(line) /\ exchange.phase = "initialize" ->
                 /\ http => ids < MaxIds
                 /\ ids' = IF http THEN ids + 1 ELSE ids
                 /\ LET id == IF http THEN ids ELSE exchange.asked IN
                    exchange' = [read EXCEPT !.phase = "request", !.waits = id, !.asked = id,
                                             !.session = http]
            [] Answers(line) /\ exchange.phase = "request" ->
                 /\ exchange' = [read EXCEPT !.phase = "answered", !.answer = line]
                 /\ UNCHANGED ids
    /\ UNCHANGED <<defs, state, said, registry>>

\* The answer is an error, cannot be parsed, the server exits or takes too
\* long, or the result was given to the agent.
EndExchange ==
    /\ ~Free
    /\ exchange' = Quiet
    /\ UNCHANGED <<defs, state, said, registry, ids>>

Next ==
    \/ Discover \/ McpCommand \/ EditConfiguration
    \/ BeginCall \/ ServerWrites \/ ReadLine \/ EndExchange

Spec == Init /\ [][Next]_vars

-----------------------------------------------------------------------------
(* Properties.                                                             *)

\* After /mcp disable no tool of the server is offered or called until it is
\* enabled or reset, however the configuration files change and servers come
\* and go, if the overrides could be read when the tools were discovered.
DisabledIsNotOffered ==
    registry.known /\ registry.read =>
        \A s \in Servers : said[s] = "off" =>
            /\ \A n \in DOMAIN registry.tools : registry.tools[n][1] # s
            /\ ~Free => exchange.server # s

\* What a call gives the agent is of the tool behind the name it was called by, and of
\* that call: over stdio the line with the id of the request, over HTTP a message of the
\* response to the post.
AnswersAreToTheCall ==
    ~Free /\ exchange.phase = "answered" =>
        /\ Local(exchange.server, exchange.tool) = exchange.name
        /\ IF exchange.server \in Http THEN exchange.answer.on = exchange.asked
                                       ELSE exchange.answer.id = exchange.asked

\* (does not hold) Over HTTP too it is the answer: what a server sends before it, a
\* notification of progress say, is taken for an empty result.
HttpAnswersAreMatched ==
    ~Free /\ exchange.phase = "answered" => exchange.answer.id = exchange.asked
=============================================================================
