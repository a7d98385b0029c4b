------------------------------ MODULE AgentRun ------------------------------
(***************************************************************************)
(* One AgentRunner (src/src/agent/run_loop.rs, mod.rs, compaction.rs) that *)
(* is given prompts one after the other over one SparkClient.  A run loops *)
(* over turns: compact the conversation when a trigger asks for it, send a *)
(* request and retry it until it answers, run the tool calls of the answer *)
(* and start the next turn, until an answer has no calls.                  *)
(*                                                                         *)
(* The conversation is a sequence of items.  Its size is a pressure level: *)
(* Low, Near (from 90% of compact_after_chars), Over (above it) and Beyond *)
(* (above max_input_chars).                                                *)
(***************************************************************************)
EXTENDS SparkClient

CONSTANTS
  MaxRetries,    \* DEFAULT_STREAM_MAX_RETRIES
  StreakLimit,   \* compact_after_tool_only_turns; 0 disables the trigger
  NoticeInterval,\* tool_only_notice_interval(StreakLimit); 0 disables notices
  Deadline,      \* TRUE for a codex-spark model with its response deadline on
  CanCancel,     \* the surface may cancel the token of a run (desktop server)
  CanDrop,       \* the surface may drop the run's future (TUI, double Escape)
  MaxCalls,      \* bound: tool calls in one answer
  MaxRequests,   \* bound: the model emits no calls from this request on
  MaxRuns,       \* bound: prompts given to the runner
  MaxPressure    \* bound: highest pressure level that is reached

ASSUME RetryAssumption == MaxRetries \in Nat
ASSUME StreakAssumption == StreakLimit \in Nat /\ NoticeInterval \in Nat
ASSUME SurfaceAssumption == {Deadline, CanCancel, CanDrop} \subseteq BOOLEAN
ASSUME BoundAssumption ==
  /\ MaxCalls \in Nat /\ MaxRequests \in Nat /\ MaxRuns \in Nat
  /\ MaxPressure \in 0..3

VARIABLES
  pc,             \* where the run is
  cancelled,      \* the run's CancellationToken
  runs,           \* prompts given so far
  outcome,        \* how the last run ended: completed, or the terminal stage
  input,          \* AgentRunner::input
  items,          \* items created so far (their identity)
  pressure,       \* size of the input
  previous_response_id, continuation_input_start,
  request_seq,    \* AgentRunner::request_seq
  attempts,       \* attempts of the current request
  response_retries,
  streamed,       \* this attempt has shown text to the user
  tool_only_streak,   \* the profiler's streak; it outlives a run
  last_tool_only_compaction_streak, last_tool_only_notice_streak,
  batch,          \* calls of the answer that were not run yet
  parallel        \* the batch is run as one parallel batch of local reads

runVars == <<pc, cancelled, runs, outcome>>
convoVars == <<input, items, pressure>>
chainVars == <<previous_response_id, continuation_input_start>>
attemptVars == <<attempts, response_retries, streamed>>
streakVars == <<tool_only_streak, last_tool_only_compaction_streak,
                last_tool_only_notice_streak>>
toolVars == <<batch, parallel>>
vars == <<runVars, convoVars, chainVars, request_seq, attemptVars, streakVars,
          toolVars, clientVars>>

Low == 0
Near == 1
Over == 2
Beyond == 3
Pressures == Low..MaxPressure

\* "tools" is before the token check of a call or batch, "calling" its await.
Places == {"idle", "turn", "compacting", "ready", "waiting", "backoff", "tools", "calling"}
Stages == {"cancelled", "compaction", "input_guard", "response", "response_deadline"}
Outcomes == Stages \cup {"none", "completed", "dropped"}

\* "nudge" is the tool-only notice and "verify" the post-compaction one; both
\* have role user.  `cut` says that local compaction shortened the content.
Kinds == {"user", "nudge", "verify", "assistant", "call", "output", "summary"}
Item == [kind : Kinds, id : Nat, run : Nat, cut : BOOLEAN]
NewItem(kind, id) == [kind |-> kind, id |-> id, run |-> runs, cut |-> FALSE]

IsUserMessage(item) == item.kind \in {"user", "nudge", "verify"}

Init ==
  /\ ClientInit
  /\ pc = "idle" /\ cancelled = FALSE /\ runs = 0 /\ outcome = "none"
  /\ input = <<>> /\ items = 0 /\ pressure = Low
  /\ previous_response_id = NoResponse /\ continuation_input_start = 0
  /\ request_seq = 0 /\ attempts = 0 /\ response_retries = 0 /\ streamed = FALSE
  /\ tool_only_streak = 0
  /\ last_tool_only_compaction_streak = 0 /\ last_tool_only_notice_streak = 0
  /\ batch = <<>> /\ parallel = FALSE

----------------------------------------------------------------------------
(* The surface: prompts, cancellation, and dropping the future.            *)

\* run_with_cancel: push the prompt, enter run_until_idle with fresh locals.
StartRun ==
  /\ pc = "idle" /\ runs < MaxRuns
  /\ pc' = "turn" /\ cancelled' = FALSE /\ runs' = runs + 1 /\ outcome' = "none"
  /\ input' = Append(input, [NewItem("user", items + 1) EXCEPT !.run = runs + 1])
  /\ items' = items + 1
  /\ pressure' \in pressure..MaxPressure
  /\ previous_response_id' = NoResponse /\ continuation_input_start' = 0
  /\ last_tool_only_compaction_streak' = 0 /\ last_tool_only_notice_streak' = 0
  /\ attempts' = 0 /\ response_retries' = 0 /\ streamed' = FALSE
  /\ UNCHANGED <<request_seq, tool_only_streak, toolVars, clientVars>>

Cancel ==
  /\ CanCancel /\ pc # "idle" /\ ~cancelled
  /\ cancelled' = TRUE
  /\ UNCHANGED <<pc, runs, outcome, convoVars, chainVars, request_seq, attemptVars,
                 streakVars, toolVars, clientVars>>

\* The run returns with an error recorded under `stage`, or with the answer.
EndRun(stage) ==
  /\ pc' = "idle" /\ outcome' = stage /\ batch' = <<>> /\ parallel' = FALSE
  /\ UNCHANGED <<cancelled, runs>>

\* A future is dropped where it awaits; the state it borrowed stays as it is, and
\* a socket that was still being connected is never stored.
Connecting ==
  pc \in {"compacting", "waiting"} /\ Len(socket.queue) = 1 /\ socket.known = {}

DropRun ==
  /\ CanDrop /\ pc \in {"compacting", "waiting", "backoff", "calling"}
  /\ EndRun("dropped")
  /\ UNCHANGED socket \/ (Connecting /\ DropSocket)
  /\ UNCHANGED <<convoVars, chainVars, request_seq, attemptVars, streakVars,
                 websocket_enabled, wire>>

----------------------------------------------------------------------------
(* The head of a turn: compaction, notice, input guard.                    *)

Trigger ==
  IF pressure >= Over THEN "size_threshold"
  ELSE IF /\ StreakLimit # 0 /\ tool_only_streak >= StreakLimit
          /\ last_tool_only_compaction_streak = 0
          /\ pressure >= Near
       THEN "tool_only_streak"
       ELSE "none"

\* The checks "turn_start" and "before_compaction" have only straight-line code
\* between them, so they are one step; compact_once then asks the client.
TurnStart ==
  /\ pc = "turn"
  /\ \/ /\ cancelled
        /\ EndRun("cancelled")
        /\ UNCHANGED clientVars
     \/ /\ ~cancelled /\ Trigger = "none"
        /\ pc' = "ready"
        /\ UNCHANGED <<cancelled, runs, outcome, toolVars, clientVars>>
     \/ /\ ~cancelled /\ Trigger # "none"
        /\ pc' = "compacting"
        /\ Send(input, NoResponse, 0)
        /\ UNCHANGED <<cancelled, runs, outcome, toolVars>>
  /\ UNCHANGED <<convoVars, chainVars, request_seq, attemptVars, streakVars>>

\* responses_compact_v2 over the WebSocket reads one reply (not necessarily its
\* own), or fails and moves the client to HTTP for good; the legacy endpoint is
\* plain HTTP.
CompactionTransport ==
  \/ /\ websocket_enabled /\ HasReply
     /\ ReadReply(<<>>)
     /\ UNCHANGED <<websocket_enabled, wire>>
  \/ ResendOverHttp
  \/ /\ ~websocket_enabled
     /\ UNCHANGED clientVars

\* The items of a history at some places, in their order (Vec::retain).
Place(places, k) == CHOOSE i \in places : Cardinality({j \in places : j <= i}) = k
Retained(convo, places) == [k \in 1..Cardinality(places) |-> convo[Place(places, k)]]

\* append_post_compaction_verification_notice: one notice, at the end, when the
\* compacted input holds a real user message.  A notice that local compaction
\* rewrote no longer starts with the marker and is kept.
WithVerifyNotice(convo) ==
  IF \E i \in 1..Len(input) : IsUserMessage(input[i]) /\ input[i].kind # "verify"
  THEN LET kept == {i \in 1..Len(convo) : convo[i].kind # "verify" \/ convo[i].cut}
       IN  Append(Retained(convo, kept), NewItem("verify", items + 2))
  ELSE convo

\* (Fault: the calls stay although their outputs go.)
CallsRetained ==
  LET kept == {i \in 1..Len(input) : IsUserMessage(input[i]) \/ input[i].kind = "call"}
  IN  {Append(Retained(input, kept), NewItem("summary", items + 1))}

\* compact_input_locally shortens items in place.
Cut(convo, kinds) ==
  [i \in 1..Len(convo) |-> IF convo[i].kind \in kinds THEN [convo[i] EXCEPT !.cut = TRUE]
                           ELSE convo[i]]

Messages == {"user", "nudge", "verify", "assistant"}

\* install_remote_compaction_history: the user messages and the compaction item,
\* or, when the output has none, the user and assistant messages it lists.  Messages
\* are shortened if that is still too much.
RemoteReplacements ==
  LET of_user == {i \in 1..Len(input) : IsUserMessage(input[i])}
      messages == {i \in 1..Len(input) : input[i].kind \in Messages}
      histories == {Append(Retained(input, of_user), NewItem("summary", items + 1)),
                    Retained(input, messages)}
  IN  {Cut(convo, kinds) : convo \in histories, kinds \in {{}, Messages}}

\* Without a remote answer outputs are shortened, and then messages as well if that
\* was not enough.
LocalCuts == {Cut(input, kinds) : kinds \in {{"output"}, {"output"} \cup Messages}}

\* A history that was replaced is not continued.  (Fault: it is.)
ChainKept == UNCHANGED chainVars
ChainBroken == previous_response_id' = NoResponse /\ continuation_input_start' = 0

\* compact_once and its caller: a new history clears the chain; the size after
\* it is whatever the summary and the local pressure pass leave.
InstallHistory(convo) ==
  /\ input' = WithVerifyNotice(convo)
  /\ items' = items + 2
  /\ pressure' \in Pressures
  /\ ChainBroken
  /\ last_tool_only_compaction_streak' =
       IF Trigger = "tool_only_streak" THEN tool_only_streak
       ELSE last_tool_only_compaction_streak
  /\ pc' = "ready"
  /\ UNCHANGED <<cancelled, runs, outcome, toolVars>>

CompactRemotely ==
  /\ pc = "compacting"
  /\ CompactionTransport
  /\ \E convo \in RemoteReplacements : InstallHistory(convo)
  /\ UNCHANGED <<request_seq, attemptVars, tool_only_streak,
                 last_tool_only_notice_streak>>

\* Every remote way failed.  compact_input_locally does nothing to an input that
\* is within the threshold, and may find nothing to shorten in a larger one.
CompactLocally ==
  /\ pc = "compacting"
  /\ CompactionTransport
  /\ \/ /\ pressure >= Over
        /\ \E convo \in LocalCuts : InstallHistory(convo)
     \/ /\ EndRun("compaction")
        /\ UNCHANGED <<convoVars, chainVars, last_tool_only_compaction_streak>>
  /\ UNCHANGED <<request_seq, attemptVars, tool_only_streak,
                 last_tool_only_notice_streak>>

\* maybe_push_tool_only_notice.
NoticeDue ==
  /\ NoticeInterval # 0
  /\ tool_only_streak >= NoticeInterval
  /\ tool_only_streak >= last_tool_only_notice_streak + NoticeInterval

PushNotice ==
  IF NoticeDue
  THEN /\ input' = Append(input, NewItem("nudge", items + 1))
       /\ items' = items + 1
       /\ pressure' \in pressure..MaxPressure
       /\ last_tool_only_notice_streak' = tool_only_streak
  ELSE UNCHANGED <<convoVars, last_tool_only_notice_streak>>

\* Notice, input guard, request number, the check "before_request", and the
\* first attempt.
BeginRequest ==
  /\ pc = "ready"
  /\ PushNotice
  /\ \/ /\ pressure' = Beyond
        /\ EndRun("input_guard")
        /\ UNCHANGED <<request_seq, attemptVars, clientVars>>
     \/ /\ pressure' # Beyond /\ cancelled
        /\ EndRun("cancelled")
        /\ request_seq' = request_seq + 1
        /\ UNCHANGED <<attemptVars, clientVars>>
     \/ /\ pressure' # Beyond /\ ~cancelled
        /\ pc' = "waiting"
        /\ request_seq' = request_seq + 1
        /\ attempts' = 1 /\ response_retries' = 0 /\ streamed' = FALSE
        /\ Send(input', previous_response_id, continuation_input_start)
        /\ UNCHANGED <<cancelled, runs, outcome, toolVars>>
  /\ UNCHANGED <<chainVars, tool_only_streak, last_tool_only_compaction_streak>>

----------------------------------------------------------------------------
(* The attempt loop of one request.                                        *)

\* A delta of the reply that is being read reaches the display.
StreamText ==
  /\ pc = "waiting" /\ ~streamed
  /\ websocket_enabled => HasReply /\ NextReply.ok
  /\ streamed' = TRUE
  /\ UNCHANGED <<runVars, convoVars, chainVars, request_seq, attempts,
                 response_retries, streakVars, toolVars, clientVars>>

\* The carried-forward items of an answer: its text, then its calls.
Outputs(text, n) ==
  LET message == IF text THEN <<NewItem("assistant", items + 1)>> ELSE <<>>
  IN  message \o [i \in 1..n |-> NewItem("call", items + 1 + i)]

\* After an answer: extend the input, count the streak, and go to its calls or
\* return its text.  The model chooses the answer.
TakeAnswer(text, n, local, outputs) ==
  /\ input' = input \o outputs
  /\ items' = items + 1 + n
  /\ pressure' \in pressure..MaxPressure
  /\ tool_only_streak' = IF n > 0 /\ ~text THEN tool_only_streak + 1 ELSE 0
  /\ last_tool_only_compaction_streak' =
       IF text THEN 0 ELSE last_tool_only_compaction_streak
  /\ last_tool_only_notice_streak' = IF text THEN 0 ELSE last_tool_only_notice_streak
  /\ IF n = 0
     THEN EndRun("completed")
     ELSE /\ pc' = "tools"
          /\ batch' = [i \in 1..n |-> items + 1 + i]
          /\ parallel' = (local /\ n > 1)
          /\ UNCHANGED <<cancelled, runs, outcome>>
  /\ UNCHANGED <<request_seq, attemptVars>>

CallCounts == IF request_seq < MaxRequests THEN 0..MaxCalls ELSE {0}

\* An answer over the WebSocket starts a chain: the next request continues it
\* with the items behind the ones the far end has seen or produced.  (Fault: the
\* length is taken before the answer was appended.)
ChainedBeforeAnswer == Len(input)
ChainedUpTo == Len(input')

AnswerOverSocket ==
  /\ pc = "waiting" /\ websocket_enabled
  /\ HasReply /\ NextReply.ok
  /\ \E text \in BOOLEAN, n \in CallCounts, local \in BOOLEAN :
       /\ streamed => text
       /\ TakeAnswer(text, n, local, Outputs(text, n))
       /\ ReadReply(Outputs(text, n))
  /\ previous_response_id' = NextReply.req
  /\ continuation_input_start' = ChainedUpTo
  /\ UNCHANGED <<websocket_enabled, wire>>

\* An answer over HTTP may be rebuilt from the items of a stream that broke off,
\* so it can lack the message whose text was streamed.
AnswerOverHttp ==
  /\ pc = "waiting" /\ ~websocket_enabled
  /\ \E text \in BOOLEAN, n \in CallCounts, local \in BOOLEAN :
       TakeAnswer(text, n, local, Outputs(text, n))
  /\ previous_response_id' = NoResponse /\ continuation_input_start' = 0
  /\ UNCHANGED clientVars

\* should_retry looks at whether the attempt has shown text.  (Fault: it does not.)
RetryAnyway == TRUE
ShouldRetry == ~streamed

\* The counter is a usize.  (Fault: it is counted down.)
RetryCountedDown == response_retries - 1
RetryCounted == response_retries + 1

\* A retryable stream error before any text: wait and try again, then move to
\* HTTP with a fresh budget, then give up.
RetryableFailure ==
  /\ pc = "waiting" /\ ShouldRetry
  /\ \/ /\ response_retries < MaxRetries
        /\ IF cancelled
           THEN EndRun("cancelled")
           ELSE pc' = "backoff" /\ UNCHANGED <<cancelled, runs, outcome, toolVars>>
        /\ response_retries' = RetryCounted
        /\ DropSocket
        /\ UNCHANGED <<attempts, websocket_enabled, wire>>
     \/ /\ response_retries >= MaxRetries
        /\ ResendOverHttp
        /\ response_retries' = 0 /\ attempts' = attempts + 1
        /\ UNCHANGED <<runVars, toolVars>>
     \/ /\ response_retries >= MaxRetries /\ ~websocket_enabled
        /\ EndRun("response")
        /\ UNCHANGED <<response_retries, attempts, clientVars>>
  /\ UNCHANGED <<convoVars, chainVars, request_seq, streamed, streakVars>>

\* Any error after text was shown, or one that is not worth a retry.
FatalFailure ==
  /\ pc = "waiting"
  /\ EndRun("response")
  /\ DropSocket
  /\ UNCHANGED <<convoVars, chainVars, request_seq, attemptVars, streakVars,
                 websocket_enabled, wire>>

\* When the client cannot or must not move to HTTP the run ends.  (Fault: after text
\* the stream is awaited further.)
DeadlineWaitsForStream == ~websocket_enabled
DeadlineIsFinal == streamed \/ ~websocket_enabled

\* tokio::time::timeout drops the attempt: its socket stays, unless the client
\* moves to HTTP, which it does only when no text was shown.
DeadlinePasses ==
  /\ Deadline /\ pc = "waiting"
  /\ \/ /\ ~streamed
        /\ ResendOverHttp
        /\ response_retries' = RetryCounted /\ attempts' = attempts + 1
        /\ UNCHANGED <<runVars, toolVars, streamed>>
     \/ /\ DeadlineIsFinal
        /\ EndRun("response_deadline")
        /\ UNCHANGED <<attemptVars, clientVars>>
  /\ UNCHANGED <<convoVars, chainVars, request_seq, streakVars>>

\* The retry delay races a token that is cancelled while it runs; a token that was
\* cancelled before it wins at once (RetryableFailure).
Backoff ==
  /\ pc = "backoff"
  /\ \/ /\ cancelled
        /\ EndRun("cancelled")
        /\ UNCHANGED <<attemptVars, clientVars>>
     \/ /\ pc' = "waiting"
        /\ attempts' = attempts + 1 /\ streamed' = FALSE
        /\ Send(input, previous_response_id, continuation_input_start)
        /\ UNCHANGED <<cancelled, runs, outcome, toolVars, response_retries>>
  /\ UNCHANGED <<convoVars, chainVars, request_seq, streakVars>>

----------------------------------------------------------------------------
(* The tool batch of an answer.                                            *)

\* The token is looked at before a tool is run.  (Fault: it is not.)
TokenUnchecked == TRUE
MayRunTools == ~cancelled

\* One check before a parallel batch and one before each serial call; then the calls
\* are awaited, and a token that is cancelled meanwhile stops none of them.
StartCall ==
  /\ pc = "tools"
  /\ \/ /\ cancelled
        /\ EndRun("cancelled")
     \/ /\ MayRunTools
        /\ pc' = "calling"
        /\ UNCHANGED <<cancelled, runs, outcome, toolVars>>
  /\ UNCHANGED <<convoVars, chainVars, request_seq, attemptVars, streakVars, clientVars>>

OutputOf(call) == [NewItem("output", call) EXCEPT !.run = runs]

\* Outputs are put back in call order.  (Fault: in the order they arrive.)
ParallelOutputsAsTheyFinish == [i \in 1..Len(batch) |-> OutputOf(batch[Len(batch) + 1 - i])]
ParallelOutputs == [i \in 1..Len(batch) |-> OutputOf(batch[i])]

\* All results of a parallel batch of local reads are there: the turn is over.
BatchReturns ==
  /\ pc = "calling" /\ parallel
  /\ input' = input \o ParallelOutputs
  /\ pressure' \in pressure..MaxPressure
  /\ pc' = "turn" /\ batch' = <<>> /\ parallel' = FALSE
  /\ UNCHANGED <<cancelled, runs, outcome, items, chainVars, request_seq, attemptVars,
                 streakVars, clientVars>>

\* The turn is over after the last call.  (Fault: after the last but one.)
NextTurnTooEarly == IF Len(batch) <= 2 THEN "turn" ELSE "tools"
AfterCall == IF Len(batch) = 1 THEN "turn" ELSE "tools"

\* A serial call is answered, whatever became of the token.
CallReturns ==
  /\ pc = "calling" /\ ~parallel
  /\ input' = Append(input, OutputOf(Head(batch)))
  /\ pressure' \in pressure..MaxPressure
  /\ batch' = Tail(batch)
  /\ pc' = AfterCall
  /\ UNCHANGED <<cancelled, runs, outcome, items, parallel, chainVars, request_seq,
                 attemptVars, streakVars, clientVars>>

----------------------------------------------------------------------------

Surface == StartRun \/ Cancel \/ DropRun
Answer == StreamText \/ AnswerOverSocket \/ AnswerOverHttp
Failure == RetryableFailure \/ FatalFailure
Compact == CompactRemotely \/ CompactLocally
Tools == StartCall \/ BatchReturns \/ CallReturns

Next ==
  \/ Surface \/ Answer \/ Failure \/ Compact \/ Tools
  \/ TurnStart \/ BeginRequest \/ DeadlinePasses \/ Backoff

Spec == Init /\ [][Next]_vars

\* The run's own steps are taken by the executor, and the deadline timer fires.
\* Nothing is assumed of others: the far end may never answer a request or a
\* compaction call, and a tool may never return.
Fairness ==
  /\ WF_vars(TurnStart) /\ WF_vars(BeginRequest) /\ WF_vars(Backoff)
  /\ WF_vars(StartCall)
  /\ WF_vars(DeadlinePasses)

FairSpec == Spec /\ Fairness

----------------------------------------------------------------------------
(* Properties.                                                             *)

FlagsTypeOK == {cancelled, streamed, parallel, websocket_enabled} \subseteq BOOLEAN

\* Places and counters.
ControlTypeOK ==
  /\ pc \in Places /\ outcome \in Outcomes
  /\ runs \in Nat /\ items \in Nat /\ pressure \in Pressures
  /\ request_seq \in Nat /\ attempts \in Nat /\ response_retries \in Nat
  /\ tool_only_streak \in Nat
  /\ last_tool_only_compaction_streak \in Nat /\ last_tool_only_notice_streak \in Nat
  /\ wire \in Nat

\* Types; in particular the retry counter, a usize, never underflows.
TypeOK ==
  /\ FlagsTypeOK /\ ControlTypeOK
  /\ ClientTypeOK(Item)
  /\ input \in Seq(Item)
  /\ previous_response_id \in Nat /\ continuation_input_start \in Nat
  /\ batch \in Seq(Nat)

\* The answer to a continued request is computed from exactly the conversation
\* the runner holds, although only the items after continuation_input_start were
\* sent (websocket_request_body).
ServerSeesConversation ==
  pc = "waiting" =>
    \A i \in 1..Len(socket.queue) :
      socket.queue[i].req = wire /\ socket.queue[i].ok => socket.queue[i].ctx = input

\* The answer a run takes, and chains the next request on, is the answer to the
\* request it sent last.
AnswerIsForThisRequest ==
  [][(pc = "waiting" /\ previous_response_id' # previous_response_id)
       => previous_response_id' \in {NoResponse, wire}]_vars

IsCall(i) == input[i].kind = "call"
Answers(j, i) == input[j].kind = "output" /\ input[j].id = input[i].id

\* Every output follows its one call and no call has two; in every run the outputs
\* answer its calls in the order they were made, so that what has none are the last
\* calls of a run; and when a request is out, the current run has none of those.
\* (Calls that a dropped or cancelled run left without outputs stay, and the requests
\* of the next prompt carry them: push_user_message repairs nothing.)
ConversationWellFormed ==
  LET places == 1..Len(input) IN
  /\ \A j \in places : input[j].kind = "output" =>
       Cardinality({i \in 1..(j - 1) : IsCall(i) /\ Answers(j, i)}) = 1
  /\ \A i \in places : IsCall(i) => Cardinality({j \in places : Answers(j, i)}) <= 1
  /\ \A i, k \in {p \in places : IsCall(p)} : i < k /\ input[i].run = input[k].run =>
       \A l \in places : Answers(l, k) => \E j \in places : j < l /\ Answers(j, i)
  /\ pc \in {"waiting", "backoff"} =>
       \A i \in {p \in places : IsCall(p) /\ input[p].run = runs} :
         \E j \in places : Answers(j, i)

\* The calls of this run that wait for an output, read off the conversation itself.
OpenCalls == {i \in 1..Len(input) : /\ IsCall(i) /\ input[i].run = runs
                                    /\ \A j \in 1..Len(input) : ~Answers(j, i)}
CallsWithoutOutput ==
  [k \in 1..Cardinality(OpenCalls) |-> Retained(input, OpenCalls)[k].id]

Turn == CASE pc = "idle" -> "over"
          [] pc \in {"waiting", "backoff"} -> "server"
          [] OTHER -> "client"

Protocol == INSTANCE ToolProtocol WITH
  Calls <- Nat,
  turn <- Turn,
  unanswered <- IF pc = "idle" THEN <<>> ELSE CallsWithoutOutput

\* A run keeps to the protocol of tool calls: retries and changes of transport are
\* stutters of it, and a compaction may not tear a call from its output.
ImplementsProtocol == Protocol!Spec

\* A request is tried at most 2 * (MaxRetries + 1) times, whatever mixture of stream
\* errors and deadlines it meets and wherever it moves from the socket to HTTP.
AttemptsBounded == attempts <= 2 * (MaxRetries + 1)

\* Once text of an answer was shown to the user, that request is not sent again:
\* the user would see the beginning of the answer twice.
NoRetryAfterText ==
  [][attempts' > attempts /\ request_seq' = request_seq => ~streamed]_vars

OutputCount(convo) == Cardinality({i \in 1..Len(convo) : convo[i].kind = "output"})

\* A run whose token is cancelled starts no compaction, no tool and no new request,
\* and the only outputs it adds are those of the call or batch it awaits.
CancelledStartsNothing ==
  [][cancelled /\ pc # "idle" =>
       /\ pc' \in {"compacting", "calling"} => pc' = pc
       /\ pc' = "waiting" => request_seq' = request_seq
       /\ pc # "calling" => OutputCount(input') <= OutputCount(input)]_vars

\* Every prompt comes to an end, answered or not, even if the far end is silent from
\* some point on, provided the response deadline is on: what keeps a run for ever is
\* one compaction call that is never answered, or one tool that never returns.
RunEnds ==
  (pc # "idle") ~> (pc = "idle" \/ [](pc = "compacting") \/ [](pc = "calling"))
=============================================================================
