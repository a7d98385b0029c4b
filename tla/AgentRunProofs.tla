--------------------------- MODULE AgentRunProofs ---------------------------
(***************************************************************************)
(* Theorems about AgentRun, for every retry budget, every streak limit and *)
(* any number of prompts, calls and requests: the types of its state, its  *)
(* retry loop, its socket, its conversation and what compaction does to    *)
(* it, the protocol of tool calls it implements, what a cancelled run may  *)
(* still do, and what the far end sees of a continued conversation.        *)
(***************************************************************************)
EXTENDS AgentRun, FiniteSetTheorems, SequenceTheorems, TLAPS

USE DEF Low, Near, Over, Beyond, NoResponse

----------------------------------------------------------------------------
(* Types of the control state.                                             *)

LEMMA InitControlType == Init => ControlTypeOK
  BY BoundAssumption
  DEF Init, ClientInit, ControlTypeOK, Places, Outcomes, Stages, Pressures

LEMMA SendCounts ==
  ASSUME NEW convo, NEW previous, NEW start, Send(convo, previous, start)
  PROVE  wire' = wire + 1 /\ UNCHANGED websocket_enabled
  BY Zenon DEF Send

LEMMA NextControlType == ControlTypeOK /\ [Next]_vars => ControlTypeOK'
  <1> SUFFICES ASSUME ControlTypeOK, [Next]_vars PROVE ControlTypeOK'
    OBVIOUS
  <1> USE BoundAssumption, StreakAssumption
      DEF ControlTypeOK, Places, Outcomes, Stages, Pressures,
          runVars, convoVars, chainVars, attemptVars, streakVars, toolVars, clientVars,
          EndRun, ResendOverHttp
  <1>1. CASE StartRun
    BY <1>1 DEF StartRun
  <1>2. CASE Cancel
    BY <1>2 DEF Cancel
  <1>3. CASE DropRun
    BY <1>3 DEF DropRun
  <1>4. CASE StreamText
    BY <1>4 DEF StreamText
  <1>5. CASE AnswerOverSocket
    <2>1. PICK text \in BOOLEAN, n \in CallCounts, local \in BOOLEAN :
            TakeAnswer(text, n, local, Outputs(text, n))
      BY <1>5 DEF AnswerOverSocket
    <2>2. n \in Nat
      BY DEF CallCounts
    <2>3. UNCHANGED <<websocket_enabled, wire>>
      BY <1>5 DEF AnswerOverSocket
    <2> QED
      BY <2>1, <2>2, <2>3 DEF TakeAnswer
  <1>6. CASE AnswerOverHttp
    <2>1. PICK text \in BOOLEAN, n \in CallCounts, local \in BOOLEAN :
            TakeAnswer(text, n, local, Outputs(text, n))
      BY <1>6 DEF AnswerOverHttp
    <2>2. n \in Nat
      BY DEF CallCounts
    <2>3. UNCHANGED <<websocket_enabled, wire>>
      BY <1>6 DEF AnswerOverHttp
    <2> QED
      BY <2>1, <2>2, <2>3 DEF TakeAnswer
  <1>7. CASE RetryableFailure
    BY <1>7 DEF RetryableFailure, RetryCounted
  <1>8. CASE FatalFailure
    BY <1>8 DEF FatalFailure
  <1>9. CASE CompactRemotely
    BY <1>9 DEF CompactRemotely, CompactionTransport, InstallHistory
  <1>10. CASE CompactLocally
    BY <1>10 DEF CompactLocally, CompactionTransport, InstallHistory
  <1>11. CASE StartCall \/ BatchReturns
    <2>1. CASE StartCall
      BY <2>1 DEF StartCall
    <2>2. CASE BatchReturns
      BY <2>2 DEF BatchReturns
    <2> QED
      BY <1>11, <2>1, <2>2
  <1>12. CASE CallReturns
    BY <1>12 DEF CallReturns, AfterCall
  <1>13. CASE TurnStart
    BY <1>13, SendCounts DEF TurnStart
  <1>14. CASE BeginRequest
    <2>1. PushNotice
      BY <1>14 DEF BeginRequest
    <2>2. /\ items' \in Nat /\ pressure' \in Pressures
          /\ last_tool_only_notice_streak' \in Nat
      BY <2>1 DEF PushNotice
    <2>3. /\ pc' \in Places /\ outcome' \in Outcomes /\ runs' \in Nat
          /\ request_seq' \in Nat /\ attempts' \in Nat /\ response_retries' \in Nat
          /\ wire' \in Nat
      BY <1>14, SendCounts DEF BeginRequest
    <2>4. /\ tool_only_streak' \in Nat /\ last_tool_only_compaction_streak' \in Nat
      BY <1>14 DEF BeginRequest
    <2> QED
      BY <2>2, <2>3, <2>4
  <1>15. CASE DeadlinePasses
    BY <1>15 DEF DeadlinePasses, RetryCounted
  <1>16. CASE Backoff
    BY <1>16, SendCounts DEF Backoff
  <1>17. CASE UNCHANGED vars
    BY <1>17 DEF vars
  <1> QED
    BY <1>1, <1>2, <1>3, <1>4, <1>5, <1>6, <1>7, <1>8, <1>9, <1>10, <1>11, <1>12,
       <1>13, <1>14, <1>15, <1>16, <1>17
    DEF Next, Surface, Answer, Failure, Compact, Tools

\* The control state of a run keeps its types: no step of run_until_idle sends it
\* to a place it has no code for, and no counter goes below zero.
THEOREM ControlTypeCorrect == Spec => []ControlTypeOK
  BY InitControlType, NextControlType, PTL DEF Spec

\* The Boolean part, kept apart: it needs no arithmetic.
LEMMA FlagsType == Spec => []FlagsTypeOK
  <1>1. Init => FlagsTypeOK
    BY Zenon DEF Init, ClientInit, FlagsTypeOK
  <1>2. FlagsTypeOK /\ [Next]_vars => FlagsTypeOK'
    <2> SUFFICES ASSUME FlagsTypeOK, [Next]_vars PROVE FlagsTypeOK'
      OBVIOUS
    <2> USE DEF FlagsTypeOK
    <2> USE DEF Next, Surface, Answer, Failure, Compact, Tools, vars, runVars, attemptVars,
            toolVars, clientVars, StartRun, Cancel, DropRun, EndRun, TurnStart,
            BeginRequest, StreamText, AnswerOverSocket, AnswerOverHttp, TakeAnswer,
            RetryableFailure, FatalFailure, DeadlinePasses, Backoff, StartCall,
            BatchReturns, CallReturns, CompactRemotely, CompactLocally, InstallHistory,
            CompactionTransport, ResendOverHttp, ReadReply, DropSocket, Send
    <2>1. cancelled' \in BOOLEAN
      BY Zenon
    <2>2. streamed' \in BOOLEAN
      BY Zenon
    <2>3. parallel' \in BOOLEAN
      BY Zenon
    <2>4. websocket_enabled' \in BOOLEAN
      BY Zenon
    <2> QED
      BY <2>1, <2>2, <2>3, <2>4, Zenon
  <1> QED
    BY <1>1, <1>2, PTL DEF Spec

----------------------------------------------------------------------------
(* The retry loop.                                                         *)

\* AttemptsBounded is not inductive: how much of the budget is left depends on the
\* transport, on the retries counted since the change of transport, and on whether
\* the next attempt was already counted.
AttemptInv ==
  /\ AttemptsBounded
  /\ pc = "waiting" /\ websocket_enabled =>
       attempts = response_retries + 1 /\ response_retries <= MaxRetries
  /\ pc = "backoff" /\ websocket_enabled =>
       attempts = response_retries /\ response_retries <= MaxRetries
  /\ pc = "waiting" /\ ~websocket_enabled =>
       /\ attempts <= MaxRetries + 2 + response_retries
       /\ response_retries <= MaxRetries \/ attempts <= MaxRetries + 2
  /\ pc = "backoff" /\ ~websocket_enabled =>
       attempts <= MaxRetries + 1 + response_retries /\ response_retries <= MaxRetries
  /\ pc = "backoff" => ~streamed

LEMMA InitAttempts == Init => AttemptInv
  BY RetryAssumption DEF Init, AttemptInv, AttemptsBounded

LEMMA NextAttempts == ControlTypeOK /\ AttemptInv /\ [Next]_vars => AttemptInv'
  <1> SUFFICES ASSUME ControlTypeOK, AttemptInv, [Next]_vars PROVE AttemptInv'
    OBVIOUS
  <1>0. attempts \in Nat /\ response_retries \in Nat
    BY DEF ControlTypeOK
  <1> USE <1>0, RetryAssumption
      DEF AttemptInv, AttemptsBounded, runVars, convoVars, chainVars, attemptVars,
          streakVars, toolVars, clientVars, EndRun
  <1>1. CASE StartRun
    BY <1>1 DEF StartRun
  <1>2. CASE Cancel
    BY <1>2 DEF Cancel
  <1>3. CASE DropRun
    BY <1>3 DEF DropRun
  <1>4. CASE StreamText
    BY <1>4 DEF StreamText
  <1>5. CASE AnswerOverSocket
    BY <1>5 DEF AnswerOverSocket, TakeAnswer
  <1>6. CASE AnswerOverHttp
    BY <1>6 DEF AnswerOverHttp, TakeAnswer
  <1>7. CASE RetryableFailure
    BY <1>7 DEF RetryableFailure, RetryCounted, ResendOverHttp, ShouldRetry
  <1>8. CASE FatalFailure
    BY <1>8 DEF FatalFailure
  <1>9. CASE CompactRemotely
    BY <1>9 DEF CompactRemotely, InstallHistory
  <1>10. CASE CompactLocally
    BY <1>10 DEF CompactLocally, InstallHistory
  <1>11. CASE StartCall \/ BatchReturns
    BY <1>11 DEF StartCall, BatchReturns
  <1>12. CASE CallReturns
    BY <1>12 DEF CallReturns, AfterCall
  <1>13. CASE TurnStart
    BY <1>13 DEF TurnStart
  <1>14. CASE BeginRequest
    BY <1>14, SendCounts DEF BeginRequest
  <1>15. CASE DeadlinePasses
    BY <1>15 DEF DeadlinePasses, RetryCounted, ResendOverHttp
  <1>16. CASE Backoff
    BY <1>16, SendCounts DEF Backoff
  <1>17. CASE UNCHANGED vars
    BY <1>17 DEF vars
  <1> QED
    BY <1>1, <1>2, <1>3, <1>4, <1>5, <1>6, <1>7, <1>8, <1>9, <1>10, <1>11, <1>12,
       <1>13, <1>14, <1>15, <1>16, <1>17
    DEF Next, Surface, Answer, Failure, Compact, Tools

LEMMA AttemptInvHolds == Spec => []AttemptInv
  BY InitAttempts, NextAttempts, ControlTypeCorrect, PTL DEF Spec

\* Stream errors, deadlines and the change of transport together never make a
\* request go out more often than the retry budget of both transports allows.
THEOREM AttemptsAreBounded == Spec => []AttemptsBounded
  <1>1. AttemptInv => AttemptsBounded
    BY DEF AttemptInv
  <1> QED
    BY <1>1, AttemptInvHolds, PTL

\* No request is sent again once its answer began to appear.
THEOREM TextIsShownOnce == Spec => NoRetryAfterText
  <1>1. ControlTypeOK /\ AttemptInv /\ [Next]_vars
          => [attempts' > attempts /\ request_seq' = request_seq => ~streamed]_vars
    <2> SUFFICES ASSUME ControlTypeOK, AttemptInv, Next,
                        attempts' > attempts, request_seq' = request_seq
                 PROVE  ~streamed
      OBVIOUS
    <2>0. attempts \in Nat /\ request_seq \in Nat /\ (pc = "backoff" => ~streamed)
      BY DEF ControlTypeOK, AttemptInv
    <2>1. CASE RetryableFailure
      BY <2>1 DEF RetryableFailure, ShouldRetry
    <2>2. CASE DeadlinePasses
      BY <2>0, <2>2 DEF DeadlinePasses, attemptVars
    <2>3. CASE Backoff
      BY <2>0, <2>3 DEF Backoff
    <2>4. CASE StartRun
      BY <2>0, <2>4 DEF StartRun
    <2>5. CASE BeginRequest
      BY <2>0, <2>5 DEF BeginRequest, attemptVars
    <2>6. CASE StreamText
      BY <2>6 DEF StreamText
    <2>7. CASE UNCHANGED attempts
      BY <2>0, <2>7
    <2> QED
      BY <2>1, <2>2, <2>3, <2>4, <2>5, <2>6, <2>7
      DEF Next, Surface, Answer, Failure, Compact, Tools, attemptVars,
          Cancel, DropRun, AnswerOverSocket, AnswerOverHttp, TakeAnswer, FatalFailure,
          CompactRemotely, CompactLocally, StartCall, BatchReturns, CallReturns, TurnStart
  <1> QED
    BY <1>1, ControlTypeCorrect, AttemptInvHolds, PTL DEF Spec, NoRetryAfterText

----------------------------------------------------------------------------
(* The socket holds at most the one reply that is being waited for.        *)

\* What one prompt per runner and no dropping amount to: the desktop server, which
\* builds a runner for every run, and one-shot runs.
OnePromptNeverDropped == ~CanDrop /\ MaxRuns = 1

SocketShape ==
  socket = [open |-> socket.open, queue |-> socket.queue, known |-> socket.known]

ReplyInv ==
  /\ SocketShape
  /\ ~socket.open => socket.queue = <<>>
  /\ runs = 0 => pc = "idle" /\ socket.queue = <<>>
  /\ pc \in {"turn", "ready", "tools", "calling", "backoff"} /\ websocket_enabled =>
       socket.queue = <<>>
  /\ pc \in {"waiting", "compacting"} /\ websocket_enabled =>
       socket.open /\ \E reply : socket.queue = <<reply>> /\ reply.req = wire

LEMMA ReplyAnswersRequest ==
  ASSUME NEW sock, NEW req, NEW convo, NEW previous, NEW start
  PROVE  Reply(sock, req, convo, previous, start).req = req
  BY DEF Reply

\* On a socket without unread replies a request leaves exactly its own.
LEMMA SendOnQuietSocket ==
  ASSUME NEW convo, NEW previous, NEW start, Send(convo, previous, start),
         SocketShape, ~socket.open => socket.queue = <<>>,
         websocket_enabled => socket.queue = <<>>
  PROVE  /\ SocketShape'
         /\ ~websocket_enabled => UNCHANGED socket
         /\ websocket_enabled =>
              socket'.open /\ \E reply : socket'.queue = <<reply>> /\ reply.req = wire'
  <1>1. CASE ~websocket_enabled
    BY <1>1 DEF Send, SocketShape
  <1>2. CASE websocket_enabled
    <2> DEFINE reply == Reply(Connected, wire + 1, convo, previous, start)
    <2>1. socket' = [Connected EXCEPT !.queue = Append(@, reply)]
      BY <1>2 DEF Send
    <2>2. Connected.open /\ Connected.queue = <<>>
          /\ Connected = [open |-> Connected.open, queue |-> Connected.queue,
                          known |-> Connected.known]
      BY <1>2 DEF Connected, NewSocket, NoSocket, SocketShape
    <2>3. reply.req = wire' /\ wire' = wire + 1
      BY ReplyAnswersRequest DEF Send
    <2> HIDE DEF reply
    <2>4. Append(Connected.queue, reply) = <<reply>>
      BY <2>2
    <2>5. socket' = [open |-> Connected.open, queue |-> <<reply>>,
                     known |-> Connected.known]
      BY <2>1, <2>2, <2>4
    <2> QED
      BY <1>2, <2>2, <2>3, <2>5 DEF SocketShape
  <1> QED
    BY <1>1, <1>2

\* Reading the only reply leaves the socket quiet.
LEMMA ReadOnlyReply ==
  ASSUME NEW outputs, ReadReply(outputs), SocketShape,
         NEW reply, socket.queue = <<reply>>
  PROVE  SocketShape' /\ socket'.queue = <<>>
  <1> DEFINE learned == socket.known
                 \cup {[id |-> NextReply.req, ctx |-> NextReply.ctx \o outputs]}
  <1>1. socket' = [socket EXCEPT !.queue = Tail(@), !.known = learned]
    BY DEF ReadReply
  <1> HIDE DEF learned
  <1>2. Tail(socket.queue) = <<>>
    OBVIOUS
  <1>3. socket' = [open |-> socket.open, queue |-> <<>>, known |-> learned]
    BY <1>1, <1>2 DEF SocketShape
  <1> QED
    BY <1>3 DEF SocketShape

LEMMA InitReply == Init => ReplyInv
  BY DEF Init, ClientInit, ReplyInv, SocketShape, NoSocket

LEMMA NextReplyInv ==
  ASSUME OnePromptNeverDropped, ControlTypeOK, ReplyInv, [Next]_vars
  PROVE  ReplyInv'
  <1> USE DEF ReplyInv, runVars, clientVars, toolVars, EndRun
  <1>0. runs \in Nat
    BY DEF ControlTypeOK
  <1>1. CASE StartRun
    BY <1>0, <1>1 DEF StartRun, OnePromptNeverDropped, SocketShape
  <1>2. CASE Cancel
    BY <1>2 DEF Cancel, SocketShape
  <1>3. CASE DropRun
    BY <1>3 DEF DropRun, OnePromptNeverDropped
  <1>4. CASE StreamText
    BY <1>4 DEF StreamText, SocketShape
  <1>5. CASE AnswerOverSocket
    <2>1. PICK text \in BOOLEAN, n \in CallCounts, local \in BOOLEAN :
            TakeAnswer(text, n, local, Outputs(text, n)) /\ ReadReply(Outputs(text, n))
      BY <1>5 DEF AnswerOverSocket
    <2>2. pc' \in {"idle", "tools"} /\ UNCHANGED runs
      BY <2>1 DEF TakeAnswer
    <2>3. SocketShape' /\ socket'.queue = <<>>
      BY <1>5, <2>1, ReadOnlyReply DEF AnswerOverSocket
    <2> QED
      BY <1>5, <2>2, <2>3 DEF AnswerOverSocket
  <1>6. CASE AnswerOverHttp
    BY <1>6 DEF AnswerOverHttp, TakeAnswer, SocketShape
  <1>7. CASE RetryableFailure
    BY <1>7 DEF RetryableFailure, ResendOverHttp, DropSocket, NoSocket, SocketShape
  <1>8. CASE FatalFailure
    BY <1>8 DEF FatalFailure, DropSocket, NoSocket, SocketShape
  <1>9. CASE Compact
    <2>1. /\ pc = "compacting" /\ CompactionTransport
          /\ pc' \in {"ready", "idle"} /\ UNCHANGED runs
      BY <1>9 DEF Compact, CompactRemotely, CompactLocally, InstallHistory
    <2>2. CASE websocket_enabled /\ ReadReply(<<>>) /\ UNCHANGED <<websocket_enabled, wire>>
      <3>1. SocketShape' /\ socket'.queue = <<>>
        BY <2>1, <2>2, ReadOnlyReply
      <3> QED
        BY <2>1, <2>2, <3>1
    <2>3. CASE ResendOverHttp
      BY <2>1, <2>3 DEF ResendOverHttp, NoSocket, SocketShape
    <2>4. CASE ~websocket_enabled /\ UNCHANGED clientVars
      BY <2>1, <2>4 DEF SocketShape
    <2> QED
      BY <2>1, <2>2, <2>3, <2>4 DEF CompactionTransport
  <1>10. CASE StartCall \/ BatchReturns
    BY <1>10 DEF StartCall, BatchReturns, SocketShape
  <1>11. CASE CallReturns
    BY <1>11 DEF CallReturns, AfterCall, SocketShape
  <1>12. CASE TurnStart
    <2>1. CASE UNCHANGED clientVars /\ pc' \in {"ready", "idle"} /\ UNCHANGED runs
      BY <1>12, <2>1 DEF TurnStart, SocketShape
    <2>2. CASE Send(input, NoResponse, 0) /\ pc' = "compacting" /\ UNCHANGED runs
      BY <1>12, <2>2, SendOnQuietSocket, SendCounts DEF TurnStart
    <2> QED
      BY <1>12, <2>1, <2>2 DEF TurnStart
  <1>13. CASE BeginRequest
    <2>1. CASE UNCHANGED clientVars /\ pc' = "idle" /\ UNCHANGED runs
      BY <1>13, <2>1 DEF BeginRequest, SocketShape
    <2>2. CASE /\ Send(input', previous_response_id, continuation_input_start)
               /\ pc' = "waiting" /\ UNCHANGED runs
      <3>1. pc = "ready"
        BY <1>13 DEF BeginRequest
      <3> QED
        BY <2>2, <3>1, SendOnQuietSocket, SendCounts
    <2> QED
      BY <1>13, <2>1, <2>2 DEF BeginRequest
  <1>14. CASE DeadlinePasses
    BY <1>14 DEF DeadlinePasses, ResendOverHttp, NoSocket, SocketShape
  <1>15. CASE Backoff
    <2>1. CASE UNCHANGED clientVars /\ pc' = "idle" /\ UNCHANGED runs
      BY <1>15, <2>1 DEF Backoff, SocketShape
    <2>2. CASE /\ Send(input, previous_response_id, continuation_input_start)
               /\ pc' = "waiting" /\ UNCHANGED runs
      <3>1. pc = "backoff"
        BY <1>15 DEF Backoff
      <3> QED
        BY <2>2, <3>1, SendOnQuietSocket, SendCounts
    <2> QED
      BY <1>15, <2>1, <2>2 DEF Backoff
  <1>16. CASE UNCHANGED vars
    BY <1>16 DEF vars, SocketShape
  <1> QED
    BY <1>1, <1>2, <1>3, <1>4, <1>5, <1>6, <1>7, <1>8, <1>9, <1>10, <1>11, <1>12,
       <1>13, <1>14, <1>15, <1>16
    DEF Next, Surface, Answer, Failure, Tools

\* Where a runner serves one prompt and its future is never dropped, the answer it
\* takes, and chains the next request on, is the answer to its last request.
THEOREM AnswersMatchRequests ==
  ASSUME OnePromptNeverDropped
  PROVE  Spec => AnswerIsForThisRequest
  <1>1. ControlTypeOK /\ ReplyInv /\ [Next]_vars => ReplyInv'
    BY NextReplyInv
  <1>2. ReplyInv /\ [Next]_vars
          => [(pc = "waiting" /\ previous_response_id' # previous_response_id)
                => previous_response_id' \in {NoResponse, wire}]_vars
    <2> SUFFICES ASSUME ReplyInv, Next, pc = "waiting",
                        previous_response_id' # previous_response_id
                 PROVE  previous_response_id' \in {NoResponse, wire}
      OBVIOUS
    <2>1. CASE AnswerOverSocket
      BY <2>1 DEF AnswerOverSocket, ReplyInv, NextReply
    <2>2. CASE AnswerOverHttp
      BY <2>2 DEF AnswerOverHttp
    <2>3. CASE UNCHANGED chainVars
      BY <2>3 DEF chainVars
    <2> QED
      BY <2>1, <2>2, <2>3
      DEF Next, Surface, Answer, Failure, Compact, Tools, StartRun, Cancel, DropRun,
          StreamText, RetryableFailure, FatalFailure, DeadlinePasses, Backoff,
          StartCall, BatchReturns, CallReturns, CompactRemotely, CompactLocally, TurnStart,
          BeginRequest
  <1> QED
    BY <1>1, <1>2, InitReply, ControlTypeCorrect, PTL DEF Spec, AnswerIsForThisRequest

----------------------------------------------------------------------------
(* Conversations: calls, outputs, and which calls wait.                    *)

CallIn(c, i) == c[i].kind = "call"
OutIn(c, j) == c[j].kind = "output"

\* No item is newer than the last one made, or of a later prompt than the last one.
Bounded(c, n, r) ==
  c \in Seq(Item) /\ \A i \in 1..Len(c) : c[i].id <= n /\ c[i].run <= r

\* Calls differ, each has at most one output, and outputs follow their call.
Linked(c) ==
  /\ \A i, k \in 1..Len(c) : CallIn(c, i) /\ CallIn(c, k) /\ c[i].id = c[k].id => i = k
  /\ \A j, l \in 1..Len(c) : OutIn(c, j) /\ OutIn(c, l) /\ c[j].id = c[l].id => j = l
  /\ \A j \in 1..Len(c) : OutIn(c, j) =>
       \E i \in 1..Len(c) : i < j /\ CallIn(c, i) /\ c[i].id = c[j].id

\* In every run a call is answered after the calls before it.
InOrder(c) ==
  \A i, k, l \in 1..Len(c) :
    /\ CallIn(c, i) /\ CallIn(c, k) /\ c[i].run = c[k].run /\ i < k
    /\ OutIn(c, l) /\ c[l].id = c[k].id
    => \E j \in 1..Len(c) : j < l /\ OutIn(c, j) /\ c[j].id = c[i].id

Open(c, r) ==
  {i \in 1..Len(c) : /\ CallIn(c, i) /\ c[i].run = r
                     /\ \A j \in 1..Len(c) : ~(OutIn(c, j) /\ c[j].id = c[i].id)}

Convo(c, n, r) == Bounded(c, n, r) /\ Linked(c) /\ InOrder(c)

\* The calls of a batch stand next to each other, they are the ones that wait, and no
\* call stands behind them.
Pending(c, r, b) ==
  \E p \in Nat :
    /\ \A m \in 1..Len(b) : /\ p + m \in 1..Len(c)
                            /\ CallIn(c, p + m) /\ c[p + m].id = b[m]
    /\ Open(c, r) = {p + m : m \in 1..Len(b)}
    /\ \A i \in 1..Len(c) : CallIn(c, i) => i <= p + Len(b)

\* A message changes neither.
LEMMA MessageAdded ==
  ASSUME NEW c, NEW n \in Nat, NEW r \in Nat, Convo(c, n, r),
         NEW m \in Nat, n <= m, NEW q \in Nat, r <= q,
         NEW item \in Item, item.kind \notin {"call", "output"},
         item.id <= m, item.run <= q
  PROVE  /\ Convo(Append(c, item), m, q)
         /\ Open(Append(c, item), r) = Open(c, r)
         /\ r < q => Open(Append(c, item), q) = {}
<1>. DEFINE d == Append(c, item)
<1>1. /\ d \in Seq(Item) /\ c \in Seq(Item) /\ Len(d) = Len(c) + 1 /\ Len(c) \in Nat
      /\ d[Len(d)] = item /\ \A i \in 1..Len(c) : d[i] = c[i]
  BY DEF Convo, Bounded
<1>. HIDE DEF d
<1>2. \A i \in 1..Len(d) : CallIn(d, i) \/ OutIn(d, i) => i \in 1..Len(c)
  BY <1>1 DEF CallIn, OutIn
<1>3. \A i \in 1..Len(c) : /\ c[i].id \in Nat /\ c[i].run \in Nat
                           /\ c[i].id <= n /\ c[i].run <= r
  <2>1. \A i \in 1..Len(c) : c[i] \in Item
    BY <1>1
  <2>. QED
    BY <2>1 DEF Convo, Bounded, Item
<1>4. Bounded(d, m, q)
  <2>1. ASSUME NEW i \in 1..Len(d) PROVE d[i].id <= m /\ d[i].run <= q
    <3>1. CASE i \in 1..Len(c)
      BY <1>1, <1>3, <3>1
    <3>2. CASE i = Len(d)
      BY <1>1, <3>2
    <3>. QED
      BY <1>1, <3>1, <3>2
  <2>. QED
    BY <1>1, <2>1 DEF Bounded
<1>5. \A i \in 1..Len(c) : (CallIn(d, i) <=> CallIn(c, i)) /\ (OutIn(d, i) <=> OutIn(c, i))
  BY <1>1 DEF CallIn, OutIn
<1>6. 1..Len(c) \subseteq 1..Len(d)
  BY <1>1
<1>7. Linked(d)
  <2>1. Linked(c)
    BY DEF Convo
  <2>2. ASSUME NEW j \in 1..Len(d), OutIn(d, j)
        PROVE  \E i \in 1..Len(d) : i < j /\ CallIn(d, i) /\ d[i].id = d[j].id
    <3>1. j \in 1..Len(c) /\ OutIn(c, j)
      BY <1>2, <1>5, <2>2
    <3>2. PICK i \in 1..Len(c) : i < j /\ CallIn(c, i) /\ c[i].id = c[j].id
      BY <2>1, <3>1 DEF Linked
    <3>. QED
      BY <1>1, <1>5, <1>6, <3>1, <3>2
  <2>3. ASSUME NEW i \in 1..Len(d), NEW k \in 1..Len(d), CallIn(d, i), CallIn(d, k),
               d[i].id = d[k].id
        PROVE  i = k
    BY <1>1, <1>2, <1>5, <2>1, <2>3 DEF Linked
  <2>4. ASSUME NEW i \in 1..Len(d), NEW k \in 1..Len(d), OutIn(d, i), OutIn(d, k),
               d[i].id = d[k].id
        PROVE  i = k
    BY <1>1, <1>2, <1>5, <2>1, <2>4 DEF Linked
  <2>. QED
    BY <2>2, <2>3, <2>4 DEF Linked
<1>8. InOrder(d)
  <2>. SUFFICES ASSUME NEW i \in 1..Len(d), NEW k \in 1..Len(d), NEW l \in 1..Len(d),
                       CallIn(d, i), CallIn(d, k), d[i].run = d[k].run, i < k,
                       OutIn(d, l), d[l].id = d[k].id
                PROVE  \E j \in 1..Len(d) : j < l /\ OutIn(d, j) /\ d[j].id = d[i].id
    BY DEF InOrder
  <2>1. /\ i \in 1..Len(c) /\ k \in 1..Len(c) /\ l \in 1..Len(c)
        /\ CallIn(c, i) /\ CallIn(c, k) /\ OutIn(c, l)
    BY <1>2, <1>5
  <2>2. c[i] = d[i] /\ c[k] = d[k] /\ c[l] = d[l]
    BY <1>1, <2>1
  <2>3. PICK j \in 1..Len(c) : j < l /\ OutIn(c, j) /\ c[j].id = c[i].id
    BY <2>1, <2>2 DEF Convo, InOrder
  <2>4. d[j] = c[j] /\ j \in 1..Len(d)
    BY <1>1, <1>6
  <2>. QED
    BY <1>5, <2>2, <2>3, <2>4
<1>9. \A s : Open(d, s) = Open(c, s)
  <2>1. ASSUME NEW s PROVE Open(d, s) = Open(c, s)
    <3>1. ASSUME NEW i PROVE i \in Open(d, s) <=> i \in Open(c, s)
      BY <1>1, <1>2, <1>5, <1>6 DEF Open
    <3>. QED
      BY <3>1, Zenon
  <2>. QED
    BY <2>1
<1>10. r < q => Open(c, q) = {}
  BY <1>3 DEF Open
<1>11. Convo(d, m, q)
  BY <1>4, <1>7, <1>8 DEF Convo
<1>. QED
  BY <1>9, <1>10, <1>11 DEF d

\* A sequence and what is put behind it.
Parts(d, c, e) ==
  /\ Len(d) = Len(c) + Len(e) /\ Len(c) \in Nat /\ Len(e) \in Nat
  /\ \A i \in 1..Len(c) : d[i] = c[i]
  /\ \A i \in 1..Len(d) : i \notin 1..Len(c) =>
       i > Len(c) /\ i - Len(c) \in 1..Len(e) /\ d[i] = e[i - Len(c)]

LEMMA ConcatParts ==
  ASSUME NEW S, NEW c \in Seq(S), NEW e \in Seq(S)
  PROVE  c \o e \in Seq(S) /\ Parts(c \o e, c, e)
<1>. DEFINE d == c \o e
<1>1. /\ d \in Seq(S) /\ Len(d) = Len(c) + Len(e) /\ Len(c) \in Nat /\ Len(e) \in Nat
      /\ \A i \in 1..Len(c) : d[i] = c[i]
  OBVIOUS
<1>2. ASSUME NEW i \in 1..Len(d), i \notin 1..Len(c)
      PROVE  i > Len(c) /\ i - Len(c) \in 1..Len(e) /\ d[i] = e[i - Len(c)]
  <2>1. i > Len(c) /\ i <= Len(c) + Len(e) /\ i \in Nat
    BY <1>1, <1>2
  <2>. QED
    BY <2>1
<1>. QED
  BY <1>1, <1>2 DEF Parts

\* The calls of an answer are new and wait.
LEMMA CallsAdded ==
  ASSUME NEW c, NEW n \in Nat, NEW r \in Nat, Convo(c, n, r), Open(c, r) = {},
         NEW k \in Nat, NEW calls \in Seq(Item), Len(calls) = k,
         \A i \in 1..k : calls[i].kind = "call" /\ calls[i].id = n + i /\ calls[i].run = r,
         NEW b \in Seq(Nat), Len(b) = k, \A i \in 1..k : b[i] = n + i
  PROVE  /\ Convo(c \o calls, n + k, r)
         /\ Pending(c \o calls, r, b)
<1>. DEFINE d == c \o calls
<1>1. /\ d \in Seq(Item) /\ c \in Seq(Item) /\ Len(d) = Len(c) + k /\ Len(c) \in Nat
      /\ \A i \in 1..Len(c) : d[i] = c[i]
      /\ \A i \in 1..Len(d) : i \notin 1..Len(c) => i - Len(c) \in 1..k /\ d[i] = calls[i - Len(c)]
  <2>1. c \in Seq(Item)
    BY DEF Convo, Bounded
  <2>2. d \in Seq(Item) /\ Parts(d, c, calls)
    BY <2>1, ConcatParts
  <2>. QED
    BY <2>1, <2>2 DEF Parts
<1>. HIDE DEF d
<1>2. \A i \in 1..Len(d) : i \notin 1..Len(c) =>
         /\ CallIn(d, i) /\ ~OutIn(d, i) /\ d[i].id = n + i - Len(c) /\ d[i].run = r
         /\ i > Len(c)
  BY <1>1 DEF CallIn, OutIn
<1>3. \A i \in 1..Len(c) : /\ c[i].id \in Nat /\ c[i].run \in Nat
                           /\ c[i].id <= n /\ c[i].run <= r
  <2>1. \A i \in 1..Len(c) : c[i] \in Item
    BY <1>1
  <2>. QED
    BY <2>1 DEF Convo, Bounded, Item
<1>4. Bounded(d, n + k, r)
  <2>1. ASSUME NEW i \in 1..Len(d) PROVE d[i].id <= n + k /\ d[i].run <= r
    <3>1. CASE i \in 1..Len(c)
      BY <1>1, <1>3, <3>1
    <3>2. CASE i \notin 1..Len(c)
      BY <1>1, <1>2, <3>2
    <3>. QED
      BY <3>1, <3>2
  <2>. QED
    BY <1>1, <2>1 DEF Bounded
<1>5. \A i \in 1..Len(c) : /\ (CallIn(d, i) <=> CallIn(c, i)) /\ (OutIn(d, i) <=> OutIn(c, i))
                           /\ d[i].id = c[i].id /\ d[i].run = c[i].run
  BY <1>1 DEF CallIn, OutIn
<1>6. 1..Len(c) \subseteq 1..Len(d)
  BY <1>1
<1>7. \A j \in 1..Len(d) : OutIn(d, j) => j \in 1..Len(c) /\ d[j].id <= n
  BY <1>2, <1>3, <1>5
<1>8. Linked(d)
  <2>1. Linked(c)
    BY DEF Convo
  <2>2. ASSUME NEW j \in 1..Len(d), OutIn(d, j)
        PROVE  \E i \in 1..Len(d) : i < j /\ CallIn(d, i) /\ d[i].id = d[j].id
    <3>1. j \in 1..Len(c) /\ OutIn(c, j)
      BY <1>7, <1>5, <2>2
    <3>2. PICK i \in 1..Len(c) : i < j /\ CallIn(c, i) /\ c[i].id = c[j].id
      BY <2>1, <3>1 DEF Linked
    <3>. QED
      BY <1>5, <1>6, <3>1, <3>2
  <2>3. ASSUME NEW i \in 1..Len(d), NEW m \in 1..Len(d), CallIn(d, i), CallIn(d, m),
               d[i].id = d[m].id
        PROVE  i = m
    <3>1. CASE i \in 1..Len(c) /\ m \in 1..Len(c)
      BY <1>5, <2>1, <2>3, <3>1 DEF Linked
    <3>2. CASE i \notin 1..Len(c) /\ m \notin 1..Len(c)
      BY <1>1, <1>2, <2>3, <3>2
    <3>3. ASSUME NEW j \in 1..Len(d), j \notin 1..Len(c) PROVE d[j].id > n
      <4>1. d[j].id = n + j - Len(c) /\ j > Len(c)
        BY <1>2, <3>3
      <4>2. j \in Nat /\ Len(c) \in Nat /\ n \in Nat
        BY <1>1
      <4>. QED
        BY <4>1, <4>2
    <3>4. ASSUME NEW j \in 1..Len(c) PROVE ~(d[j].id > n)
      <4>1. d[j].id = c[j].id /\ c[j].id \in Nat /\ c[j].id <= n
        BY <1>3, <1>5
      <4>. QED
        BY <4>1
    <3>. QED
      BY <2>3, <3>1, <3>2, <3>3, <3>4
  <2>4. ASSUME NEW i \in 1..Len(d), NEW m \in 1..Len(d), OutIn(d, i), OutIn(d, m),
               d[i].id = d[m].id
        PROVE  i = m
    BY <1>7, <1>5, <2>1, <2>4 DEF Linked
  <2>. QED
    BY <2>2, <2>3, <2>4 DEF Linked
<1>9. InOrder(d)
  <2>. SUFFICES ASSUME NEW i \in 1..Len(d), NEW m \in 1..Len(d), NEW l \in 1..Len(d),
                       CallIn(d, i), CallIn(d, m), d[i].run = d[m].run, i < m,
                       OutIn(d, l), d[l].id = d[m].id
                PROVE  \E j \in 1..Len(d) : j < l /\ OutIn(d, j) /\ d[j].id = d[i].id
    BY DEF InOrder
  <2>1. l \in 1..Len(c) /\ OutIn(c, l)
    BY <1>5, <1>7
  <2>2. m \in 1..Len(c)
    <3>1. CASE m \notin 1..Len(c)
      <4>1. d[m].id = n + m - Len(c) /\ m > Len(c)
        BY <1>2, <3>1
      <4>2. d[l].id = c[l].id /\ c[l].id \in Nat /\ c[l].id <= n
        BY <1>3, <1>5, <2>1
      <4>. QED
        BY <1>1, <4>1, <4>2
    <3>. QED
      BY <3>1
  <2>3. i \in 1..Len(c)
    BY <1>1, <2>2
  <2>4. PICK j \in 1..Len(c) : j < l /\ OutIn(c, j) /\ c[j].id = c[i].id
    BY <1>5, <2>1, <2>2, <2>3 DEF Convo, InOrder
  <2>. QED
    BY <1>5, <1>6, <2>3, <2>4
<1>10. Open(d, r) = {Len(c) + m : m \in 1..k}
  <2>1. ASSUME NEW i \in Open(d, r) PROVE i \in {Len(c) + m : m \in 1..k}
    <3>1. CASE i \in 1..Len(c)
      <4>1. i \in Open(c, r)
        BY <1>5, <1>6, <2>1, <3>1 DEF Open
      <4>. QED
        BY <4>1
    <3>2. CASE i \notin 1..Len(c)
      <4>1. i \in 1..Len(d)
        BY DEF Open
      <4>2. i - Len(c) \in 1..k /\ i = Len(c) + (i - Len(c))
        BY <1>1, <3>2, <4>1
      <4>. QED
        BY <4>2
    <3>. QED
      BY <3>1, <3>2
  <2>2. ASSUME NEW m \in 1..k PROVE Len(c) + m \in Open(d, r)
    <3>1. Len(c) + m \in 1..Len(d) /\ Len(c) + m \notin 1..Len(c)
      BY <1>1
    <3>2. /\ CallIn(d, Len(c) + m) /\ d[Len(c) + m].run = r
          /\ d[Len(c) + m].id = n + m /\ n + m > n
      BY <1>1, <1>2, <3>1
    <3>3. \A j \in 1..Len(d) : ~(OutIn(d, j) /\ d[j].id = d[Len(c) + m].id)
      BY <1>3, <1>5, <1>7, <3>2
    <3>. QED
      BY <3>1, <3>2, <3>3 DEF Open
  <2>. QED
    BY <2>1, <2>2
<1>11. Pending(d, r, b)
  <2>1. ASSUME NEW m \in 1..Len(b)
        PROVE  /\ Len(c) + m \in 1..Len(d)
               /\ CallIn(d, Len(c) + m) /\ d[Len(c) + m].id = b[m]
    <3>1. Len(c) + m \in 1..Len(d) /\ Len(c) + m \notin 1..Len(c)
      BY <1>1
    <3>2. CallIn(d, Len(c) + m) /\ d[Len(c) + m].id = n + m
      BY <1>1, <1>2, <3>1
    <3>. QED
      BY <3>1, <3>2
  <2>2. \A i \in 1..Len(d) : CallIn(d, i) => i <= Len(c) + Len(b)
    BY <1>1
  <2>. QED
    BY <1>1, <1>10, <2>1, <2>2 DEF Pending
<1>. QED
  BY <1>4, <1>8, <1>9, <1>11 DEF Convo, d

\* Outputs of the first calls of a batch leave the others waiting.
LEMMA OutputsAdded ==
  ASSUME NEW c, NEW n \in Nat, NEW r \in Nat, Convo(c, n, r),
         NEW b \in Seq(Nat), Pending(c, r, b),
         NEW k \in 0..Len(b), NEW outs \in Seq(Item), Len(outs) = k,
         \A i \in 1..k : outs[i].kind = "output" /\ outs[i].id = b[i] /\ outs[i].run = r
  PROVE  /\ Convo(c \o outs, n, r)
         /\ Pending(c \o outs, r, SubSeq(b, k + 1, Len(b)))
<1>. DEFINE d == c \o outs
            rest == SubSeq(b, k + 1, Len(b))
<1>1. /\ d \in Seq(Item) /\ c \in Seq(Item) /\ Len(d) = Len(c) + k /\ Len(c) \in Nat
      /\ \A i \in 1..Len(c) : d[i] = c[i]
      /\ \A i \in 1..Len(d) : i \notin 1..Len(c) => i - Len(c) \in 1..k /\ d[i] = outs[i - Len(c)]
      /\ k \in Nat /\ Len(b) \in Nat
  <2>1. c \in Seq(Item)
    BY DEF Convo, Bounded
  <2>2. d \in Seq(Item) /\ Parts(d, c, outs)
    BY <2>1, ConcatParts
  <2>. QED
    BY <2>1, <2>2 DEF Parts
<1>2. /\ Len(rest) = Len(b) - k /\ \A m \in 1..Len(rest) : rest[m] = b[k + m]
  <2>1. /\ k + 1 \in Int /\ Len(b) \in Int /\ \A i \in (k + 1)..Len(b) : b[i] \in Nat
        /\ k <= Len(b)
    BY <1>1
  <2>2. /\ Len(rest) = IF k + 1 <= Len(b) THEN Len(b) - (k + 1) + 1 ELSE 0
        /\ \A m \in 1..(Len(b) - (k + 1) + 1) : rest[m] = b[k + 1 + m - 1]
    BY <2>1, SubSeqProperties
  <2>3. Len(rest) = Len(b) - k /\ Len(b) - (k + 1) + 1 = Len(b) - k
    BY <1>1, <2>1, <2>2
  <2>4. ASSUME NEW m \in 1..Len(rest) PROVE rest[m] = b[k + m]
    <3>1. m \in 1..(Len(b) - (k + 1) + 1)
      BY <2>3
    <3>2. rest[m] = b[k + 1 + m - 1]
      BY <2>2, <3>1
    <3>3. k + 1 + m - 1 = k + m
      BY <1>1, <3>1
    <3>. QED
      BY <3>2, <3>3
  <2>. QED
    BY <2>3, <2>4
<1>. HIDE DEF d, rest
<1>3. PICK p \in Nat : /\ \A m \in 1..Len(b) : /\ p + m \in 1..Len(c)
                                                /\ CallIn(c, p + m) /\ c[p + m].id = b[m]
                       /\ Open(c, r) = {p + m : m \in 1..Len(b)}
                       /\ \A i \in 1..Len(c) : CallIn(c, i) => i <= p + Len(b)
  BY DEF Pending
<1>4. \A i \in 1..Len(d) : i \notin 1..Len(c) =>
         /\ ~CallIn(d, i) /\ OutIn(d, i) /\ d[i].id = b[i - Len(c)] /\ d[i].run = r
         /\ i > Len(c) /\ i - Len(c) \in 1..Len(b)
  BY <1>1 DEF CallIn, OutIn
<1>5. \A i \in 1..Len(c) : /\ (CallIn(d, i) <=> CallIn(c, i)) /\ (OutIn(d, i) <=> OutIn(c, i))
                           /\ d[i].id = c[i].id /\ d[i].run = c[i].run
  BY <1>1 DEF CallIn, OutIn
<1>6. 1..Len(c) \subseteq 1..Len(d)
  BY <1>1
<1>7. Linked(c) /\ InOrder(c)
  BY DEF Convo
<1>8. Bounded(d, n, r)
  <2>0. \A i \in 1..Len(c) : c[i].id <= n /\ c[i].run <= r
    BY DEF Convo, Bounded
  <2>1. ASSUME NEW i \in 1..Len(d) PROVE d[i].id <= n /\ d[i].run <= r
    <3>1. CASE i \in 1..Len(c)
      BY <1>1, <2>0, <3>1
    <3>2. CASE i \notin 1..Len(c)
      <4>1. d[i].id = c[p + (i - Len(c))].id /\ p + (i - Len(c)) \in 1..Len(c) /\ d[i].run = r
        BY <1>3, <1>4, <3>2
      <4>. QED
        BY <2>0, <4>1
    <3>. QED
      BY <3>1, <3>2
  <2>. QED
    BY <1>1, <2>1 DEF Bounded
\* A new output is of a call that had none.
<1>9. ASSUME NEW j \in 1..Len(d), j \notin 1..Len(c)
      PROVE  /\ p + (j - Len(c)) \in 1..Len(c) /\ j - Len(c) \in 1..Len(b)
             /\ p + (j - Len(c)) \in Open(c, r)
             /\ d[j].id = c[p + (j - Len(c))].id
  BY <1>3, <1>4, <1>9
<1>10. \A i \in 1..Len(d) : CallIn(d, i) => i \in 1..Len(c) /\ CallIn(c, i)
  BY <1>4, <1>5
<1>11. \A i, m \in 1..Len(c) : CallIn(c, i) /\ CallIn(c, m) /\ c[i].id = c[m].id => i = m
  BY <1>7 DEF Linked
<1>12. \A j \in 1..Len(c), i \in Open(c, r) : ~(OutIn(c, j) /\ c[j].id = c[i].id)
  BY DEF Open
<1>13. Linked(d)
  <2>2. ASSUME NEW j \in 1..Len(d), OutIn(d, j)
        PROVE  \E i \in 1..Len(d) : i < j /\ CallIn(d, i) /\ d[i].id = d[j].id
    <3>1. CASE j \in 1..Len(c)
      <4>1. PICK i \in 1..Len(c) : i < j /\ CallIn(c, i) /\ c[i].id = c[j].id
        BY <1>5, <1>7, <2>2, <3>1 DEF Linked
      <4>. QED
        BY <1>5, <1>6, <3>1, <4>1
    <3>2. CASE j \notin 1..Len(c)
      <4>1. /\ p + (j - Len(c)) \in 1..Len(c) /\ CallIn(c, p + (j - Len(c)))
            /\ d[j].id = c[p + (j - Len(c))].id /\ j > Len(c)
        BY <1>3, <1>4, <1>9, <3>2
      <4>2. p + (j - Len(c)) < j
        BY <1>1, <4>1
      <4>3. CallIn(d, p + (j - Len(c))) /\ d[p + (j - Len(c))].id = d[j].id
        BY <1>5, <4>1
      <4>. QED
        BY <1>6, <4>1, <4>2, <4>3
    <3>. QED
      BY <3>1, <3>2
  <2>3. ASSUME NEW i \in 1..Len(d), NEW m \in 1..Len(d), CallIn(d, i), CallIn(d, m),
               d[i].id = d[m].id
        PROVE  i = m
    BY <1>5, <1>10, <1>11, <2>3
  <2>4. ASSUME NEW i \in 1..Len(d), NEW m \in 1..Len(d), OutIn(d, i), OutIn(d, m),
               d[i].id = d[m].id
        PROVE  i = m
    <3>1. CASE i \in 1..Len(c) /\ m \in 1..Len(c)
      BY <1>5, <1>7, <2>4, <3>1 DEF Linked
    <3>2. CASE i \notin 1..Len(c) /\ m \notin 1..Len(c)
      <4>1. /\ p + (i - Len(c)) \in Open(c, r) /\ p + (m - Len(c)) \in Open(c, r)
            /\ c[p + (i - Len(c))].id = c[p + (m - Len(c))].id
        BY <1>9, <2>4, <3>2
      <4>2. p + (i - Len(c)) = p + (m - Len(c))
        BY <1>11, <4>1 DEF Open
      <4>3. i \in Int /\ m \in Int /\ Len(c) \in Int /\ p \in Int
        BY <1>1
      <4>. QED
        BY <4>2, <4>3
    <3>3. ASSUME NEW j \in 1..Len(c), NEW l \in 1..Len(d), l \notin 1..Len(c), OutIn(d, j)
          PROVE  d[j].id # d[l].id
      <4>1. d[j].id = c[j].id /\ OutIn(c, j)
        BY <1>5, <3>3
      <4>2. p + (l - Len(c)) \in Open(c, r) /\ d[l].id = c[p + (l - Len(c))].id
        BY <1>9, <3>3
      <4>. QED
        BY <1>12, <4>1, <4>2
    <3>4. (i \in 1..Len(c)) <=> (m \in 1..Len(c))
      BY <2>4, <3>3
    <3>. QED
      BY <3>1, <3>2, <3>3, <3>4
  <2>. QED
    BY <2>2, <2>3, <2>4 DEF Linked
<1>14. InOrder(d)
  <2>. SUFFICES ASSUME NEW i \in 1..Len(d), NEW m \in 1..Len(d), NEW l \in 1..Len(d),
                       CallIn(d, i), CallIn(d, m), d[i].run = d[m].run, i < m,
                       OutIn(d, l), d[l].id = d[m].id
                PROVE  \E j \in 1..Len(d) : j < l /\ OutIn(d, j) /\ d[j].id = d[i].id
    BY DEF InOrder
  <2>1. i \in 1..Len(c) /\ m \in 1..Len(c) /\ CallIn(c, i) /\ CallIn(c, m)
    BY <1>10
  <2>2. d[i].id = c[i].id /\ d[m].id = c[m].id /\ c[i].run = c[m].run
    BY <1>5, <2>1
  <2>3. CASE l \in 1..Len(c)
    <3>0. OutIn(c, l) /\ c[l].id = c[m].id
      BY <1>5, <2>2, <2>3
    <3>1. PICK j \in 1..Len(c) : j < l /\ OutIn(c, j) /\ c[j].id = c[i].id
      BY <1>7, <2>1, <2>2, <2>3, <3>0 DEF InOrder
    <3>. QED
      BY <1>5, <1>6, <2>2, <3>1
  <2>4. CASE l \notin 1..Len(c)
    <3>1. /\ m = p + (l - Len(c)) /\ l - Len(c) \in 1..Len(b) /\ m \in Open(c, r)
          /\ l > Len(c)
      <4>1. /\ c[m].id = c[p + (l - Len(c))].id /\ p + (l - Len(c)) \in 1..Len(c)
            /\ CallIn(c, p + (l - Len(c))) /\ l - Len(c) \in 1..Len(b)
            /\ p + (l - Len(c)) \in Open(c, r) /\ l > Len(c)
        BY <1>3, <1>4, <1>9, <2>2, <2>4
      <4>. QED
        BY <1>11, <2>1, <4>1
    <3>2. c[i].run = r
      BY <2>2, <3>1 DEF Open
    <3>3. CASE i \in Open(c, r)
      <4>1. PICK x \in 1..Len(b) : i = p + x
        BY <1>3, <3>3
      <4>2. x < l - Len(c) /\ x \in Nat /\ l \in Nat
        BY <1>1, <3>1, <4>1
      <4>3. l - Len(c) <= k
        BY <1>1, <2>4
      <4>4. /\ Len(c) + x \in 1..Len(d) /\ Len(c) + x \notin 1..Len(c)
            /\ Len(c) + x < l /\ Len(c) + x - Len(c) = x
        BY <1>1, <4>2, <4>3
      <4>5. OutIn(d, Len(c) + x) /\ d[Len(c) + x].id = d[i].id
        BY <1>3, <1>4, <2>2, <4>1, <4>4
      <4>. QED
        BY <4>4, <4>5
    <3>4. CASE i \notin Open(c, r)
      <4>1. PICK j \in 1..Len(c) : OutIn(c, j) /\ c[j].id = c[i].id
        BY <2>1, <3>2, <3>4 DEF Open
      <4>2. j < l
        BY <1>1, <3>1
      <4>. QED
        BY <1>5, <1>6, <2>2, <4>1, <4>2
    <3>. QED
      BY <3>3, <3>4
  <2>. QED
    BY <2>3, <2>4
<1>15. Open(d, r) = {p + k + m : m \in 1..Len(rest)}
  <2>1. ASSUME NEW i \in Open(d, r) PROVE i \in {p + k + m : m \in 1..Len(rest)}
    <3>1. i \in 1..Len(c) /\ CallIn(c, i) /\ c[i].run = r
      BY <1>5, <1>10 DEF Open
    <3>2. i \in Open(c, r)
      BY <1>5, <1>6, <2>1, <3>1 DEF Open
    <3>3. PICK m \in 1..Len(b) : i = p + m
      BY <1>3, <3>2
    <3>4. m > k
      <4>1. SUFFICES ASSUME m <= k PROVE FALSE
        BY <1>1
      <4>2. /\ Len(c) + m \in 1..Len(d) /\ Len(c) + m \notin 1..Len(c)
            /\ Len(c) + m - Len(c) = m
        BY <1>1, <4>1
      <4>3. OutIn(d, Len(c) + m) /\ d[Len(c) + m].id = d[i].id
        BY <1>3, <1>4, <1>5, <3>1, <3>3, <4>2
      <4>. QED
        BY <2>1, <4>2, <4>3 DEF Open
    <3>5. m - k \in 1..Len(rest) /\ i = p + k + (m - k)
      <4>1. /\ m \in Nat /\ k \in Nat /\ p \in Nat /\ Len(b) \in Nat /\ m <= Len(b)
            /\ Len(rest) = Len(b) - k /\ i = p + m /\ m > k
        BY <1>1, <1>2, <3>3, <3>4
      <4>. HIDE DEF rest
      <4>. QED
        BY <4>1
    <3>. QED
      BY <3>5
  <2>2. ASSUME NEW m \in 1..Len(rest) PROVE p + k + m \in Open(d, r)
    <3>1. /\ k + m \in 1..Len(b) /\ p + k + m = p + (k + m)
      BY <1>1, <1>2
    <3>2. p + k + m \in Open(c, r) /\ p + k + m \in 1..Len(c)
      BY <1>3, <3>1
    <3>3. ASSUME NEW j \in 1..Len(d), OutIn(d, j), d[j].id = d[p + k + m].id PROVE FALSE
      <4>1. d[p + k + m].id = c[p + k + m].id /\ CallIn(c, p + k + m)
        BY <1>5, <3>2 DEF Open
      <4>2. j \notin 1..Len(c)
        BY <1>5, <1>12, <3>2, <3>3, <4>1
      <4>3. p + k + m = p + (j - Len(c))
        <5>1. p + (j - Len(c)) \in 1..Len(c) /\ CallIn(c, p + (j - Len(c)))
              /\ c[p + k + m].id = c[p + (j - Len(c))].id
          BY <1>3, <1>9, <3>3, <4>1, <4>2
        <5>. QED
          BY <1>11, <3>2, <4>1, <5>1
      <4>. QED
        BY <1>1, <4>2, <4>3
    <3>4. p + k + m \in 1..Len(d) /\ CallIn(d, p + k + m) /\ d[p + k + m].run = r
      BY <1>5, <1>6, <3>2 DEF Open
    <3>. QED
      BY <3>3, <3>4 DEF Open
  <2>. QED
    BY <2>1, <2>2
<1>16. Pending(d, r, rest)
  <2>1. ASSUME NEW m \in 1..Len(rest)
        PROVE  /\ p + k + m \in 1..Len(d)
               /\ CallIn(d, p + k + m) /\ d[p + k + m].id = rest[m]
    <3>1. k + m \in 1..Len(b) /\ p + k + m = p + (k + m) /\ rest[m] = b[k + m]
      BY <1>1, <1>2
    <3>. QED
      BY <1>3, <1>5, <1>6, <3>1
  <2>2. \A i \in 1..Len(d) : CallIn(d, i) => i <= p + k + Len(rest)
    BY <1>1, <1>2, <1>3, <1>10
  <2>3. p + k \in Nat
    BY <1>1
  <2>. QED
    BY <1>15, <2>1, <2>2, <2>3 DEF Pending
<1>. QED
  BY <1>8, <1>13, <1>14, <1>16 DEF Convo, d, rest

----------------------------------------------------------------------------
(* What a retain keeps.                                                    *)

UpTo(P, i) == {j \in P : j <= i}

LEMMA RanksGrow ==
  ASSUME NEW n \in Nat, NEW P \in SUBSET (1..n)
  PROVE  /\ IsFiniteSet(P) /\ Cardinality(P) \in Nat
         /\ \A i \in P : Cardinality(UpTo(P, i)) \in 1..Cardinality(P)
         /\ \A i, m \in P : i < m => Cardinality(UpTo(P, i)) < Cardinality(UpTo(P, m))
<1>1. IsFiniteSet(P) /\ Cardinality(P) \in Nat
  <2>1. IsFiniteSet(1..n)
    BY FS_Interval
  <2>. QED
    BY <2>1, FS_Subset, FS_CardinalityType
<1>2. ASSUME NEW i \in P
      PROVE  /\ IsFiniteSet(UpTo(P, i)) /\ Cardinality(UpTo(P, i)) \in Nat
             /\ Cardinality(UpTo(P, i)) \in 1..Cardinality(P)
  <2>1. UpTo(P, i) \in SUBSET P /\ i \in UpTo(P, i)
    BY DEF UpTo
  <2>2. IsFiniteSet(UpTo(P, i)) /\ Cardinality(UpTo(P, i)) <= Cardinality(P)
    BY <1>1, <2>1, FS_Subset
  <2>3. Cardinality(UpTo(P, i)) \in Nat
    BY <2>2, FS_CardinalityType
  <2>4. Cardinality(UpTo(P, i)) # 0
    BY <2>1, <2>2, FS_EmptySet
  <2>. QED
    BY <1>1, <2>2, <2>3, <2>4
<1>3. ASSUME NEW i \in P, NEW m \in P, i < m
      PROVE  Cardinality(UpTo(P, i)) < Cardinality(UpTo(P, m))
  <2>1. \A j \in P : j <= i => j <= m
    BY <1>3
  <2>2. UpTo(P, i) \in SUBSET UpTo(P, m)
    BY <2>1 DEF UpTo
  <2>3. m \in UpTo(P, m) /\ m \notin UpTo(P, i)
    BY <1>3 DEF UpTo
  <2>4. /\ Cardinality(UpTo(P, i)) <= Cardinality(UpTo(P, m))
        /\ Cardinality(UpTo(P, m)) = Cardinality(UpTo(P, i)) => UpTo(P, m) = UpTo(P, i)
    BY <1>2, <2>2, FS_Subset
  <2>5. Cardinality(UpTo(P, i)) # Cardinality(UpTo(P, m))
    BY <2>3, <2>4
  <2>6. Cardinality(UpTo(P, i)) \in Nat /\ Cardinality(UpTo(P, m)) \in Nat
    BY <1>2
  <2>. QED
    BY <2>4, <2>5, <2>6
<1>. QED
  BY <1>1, <1>2, <1>3

\* Every place has its number, and the numbers are those up to how many there are.
LEMMA PlacesAreNumbered ==
  ASSUME NEW n \in Nat, NEW P \in SUBSET (1..n)
  PROVE  /\ Cardinality(P) \in Nat
         /\ \A k \in 1..Cardinality(P) : Place(P, k) \in P
         /\ \A k, l \in 1..Cardinality(P) : k < l => Place(P, k) < Place(P, l)
         /\ \A i \in P : \E k \in 1..Cardinality(P) : Place(P, k) = i
<1>. DEFINE rank == [i \in P |-> Cardinality(UpTo(P, i))]
            S == 1..Cardinality(P)
<1>1. /\ IsFiniteSet(P) /\ Cardinality(P) \in Nat
      /\ \A i \in P : rank[i] \in S
      /\ \A i, m \in P : i < m => rank[i] < rank[m]
  BY RanksGrow
<1>2. rank \in Injection(P, S)
  <2>1. rank \in [P -> S]
    BY <1>1
  <2>2. ASSUME NEW i \in P, NEW m \in P, rank[i] = rank[m] PROVE i = m
    <3>1. rank[i] \in Nat /\ rank[m] \in Nat /\ i \in Nat /\ m \in Nat
      BY <1>1
    <3>2. ~(i < m) /\ ~(m < i)
      BY <1>1, <2>2, <3>1
    <3>. QED
      BY <3>1, <3>2
  <2>. HIDE DEF rank, S
  <2>. QED
    BY <2>1, <2>2 DEF Injection, IsInjective
<1>3. IsFiniteSet(S) /\ Cardinality(S) = Cardinality(P)
  BY <1>1, FS_Interval
<1>4. rank \in Surjection(P, S)
  <2>. HIDE DEF rank, S
  <2>. QED
    BY <1>1, <1>2, <1>3, FS_Injection
<1>5. \A k \in S : \E i \in P : rank[i] = k
  <2>. HIDE DEF rank, S
  <2>. QED
    BY <1>4 DEF Surjection
<1>6. \A i \in P : Cardinality({j \in P : j <= i}) = rank[i]
  BY DEF UpTo
<1>. HIDE DEF rank
<1>7. ASSUME NEW k \in S PROVE Place(P, k) \in P /\ rank[Place(P, k)] = k
  <2>1. \E i \in P : Cardinality({j \in P : j <= i}) = k
    BY <1>5, <1>6
  <2>2. /\ Place(P, k) \in P
        /\ Cardinality({j \in P : j <= Place(P, k)}) = k
    BY <2>1, Zenon DEF Place
  <2>. QED
    BY <1>6, <2>2
<1>8. \A i, m \in P : rank[i] = rank[m] => i = m
  BY <1>2 DEF Injection, IsInjective
<1>9. \A i \in P : rank[i] \in S /\ Place(P, rank[i]) = i
  BY <1>1, <1>7, <1>8
<1>10. ASSUME NEW k \in S, NEW l \in S, k < l PROVE Place(P, k) < Place(P, l)
  <2>1. Place(P, k) \in Nat /\ Place(P, l) \in Nat /\ k \in Nat /\ l \in Nat
    <3>1. Place(P, k) \in P /\ Place(P, l) \in P
      BY <1>7
    <3>2. P \subseteq Nat /\ S \subseteq Nat
      BY <1>1
    <3>. QED
      BY <3>1, <3>2
  <2>2. Place(P, k) # Place(P, l) /\ ~(Place(P, l) < Place(P, k))
    BY <1>1, <1>7, <1>10, <2>1
  <2>. QED
    BY <2>1, <2>2
<1>. QED
  BY <1>1, <1>7, <1>9, <1>10

\* A history whose items are those of another one, some left out and some shortened,
\* among them all calls and outputs.
Thinned(d, c, at) ==
  /\ at \in [1..Len(d) -> 1..Len(c)]
  /\ \A k, l \in 1..Len(d) : k < l => at[k] < at[l]
  /\ \A k \in 1..Len(d) : /\ d[k].kind = c[at[k]].kind /\ d[k].id = c[at[k]].id
                          /\ d[k].run = c[at[k]].run
  /\ \A i \in 1..Len(c) : CallIn(c, i) \/ OutIn(c, i) => \E k \in 1..Len(d) : at[k] = i

\* A history without open calls keeps its order and its pairs when it is thinned.
LEMMA ThinnedStaysConvo ==
  ASSUME NEW c, NEW n \in Nat, NEW r \in Nat, Convo(c, n, r), Open(c, r) = {},
         NEW d \in Seq(Item), NEW at, Thinned(d, c, at)
  PROVE  Convo(d, n, r) /\ Open(d, r) = {}
<1>1. /\ Len(d) \in Nat /\ at \in [1..Len(d) -> 1..Len(c)] /\ Len(c) \in Nat
      /\ \A k, l \in 1..Len(d) : k < l => at[k] < at[l]
  BY DEF Thinned, Convo, Bounded
<1>2. \A k \in 1..Len(d) : /\ at[k] \in 1..Len(c)
                           /\ d[k].id = c[at[k]].id /\ d[k].run = c[at[k]].run
                           /\ CallIn(d, k) <=> CallIn(c, at[k])
                           /\ OutIn(d, k) <=> OutIn(c, at[k])
  BY <1>1 DEF Thinned, CallIn, OutIn
<1>3. \A k, l \in 1..Len(d) : at[k] < at[l] => k < l
  BY <1>1
<1>4. \A k, l \in 1..Len(d) : at[k] = at[l] => k = l
  BY <1>1
<1>5. \A i \in 1..Len(c) : CallIn(c, i) \/ OutIn(c, i) => \E k \in 1..Len(d) : at[k] = i
  BY DEF Thinned
<1>6. Bounded(d, n, r)
  BY <1>2 DEF Convo, Bounded
<1>7. Linked(d)
  <2>1. Linked(c)
    BY DEF Convo
  <2>2. ASSUME NEW j \in 1..Len(d), OutIn(d, j)
        PROVE  \E i \in 1..Len(d) : i < j /\ CallIn(d, i) /\ d[i].id = d[j].id
    <3>1. PICK i \in 1..Len(c) : i < at[j] /\ CallIn(c, i) /\ c[i].id = c[at[j]].id
      BY <1>2, <2>1, <2>2 DEF Linked
    <3>2. PICK k \in 1..Len(d) : at[k] = i
      BY <1>5, <3>1
    <3>. QED
      BY <1>2, <1>3, <3>1, <3>2
  <2>3. ASSUME NEW i \in 1..Len(d), NEW k \in 1..Len(d), CallIn(d, i), CallIn(d, k),
               d[i].id = d[k].id
        PROVE  i = k
    <3>1. /\ at[i] \in 1..Len(c) /\ at[k] \in 1..Len(c)
          /\ CallIn(c, at[i]) /\ CallIn(c, at[k]) /\ c[at[i]].id = c[at[k]].id
      BY <1>2, <2>3
    <3>2. at[i] = at[k]
      BY <2>1, <3>1 DEF Linked
    <3>. QED
      BY <1>4, <3>2
  <2>4. ASSUME NEW i \in 1..Len(d), NEW k \in 1..Len(d), OutIn(d, i), OutIn(d, k),
               d[i].id = d[k].id
        PROVE  i = k
    <3>1. /\ at[i] \in 1..Len(c) /\ at[k] \in 1..Len(c)
          /\ OutIn(c, at[i]) /\ OutIn(c, at[k]) /\ c[at[i]].id = c[at[k]].id
      BY <1>2, <2>4
    <3>2. at[i] = at[k]
      BY <2>1, <3>1 DEF Linked
    <3>. QED
      BY <1>4, <3>2
  <2>. QED
    BY <2>2, <2>3, <2>4 DEF Linked
<1>8. InOrder(d)
  <2>. SUFFICES ASSUME NEW i \in 1..Len(d), NEW m \in 1..Len(d), NEW l \in 1..Len(d),
                       CallIn(d, i), CallIn(d, m), d[i].run = d[m].run, i < m,
                       OutIn(d, l), d[l].id = d[m].id
                PROVE  \E j \in 1..Len(d) : j < l /\ OutIn(d, j) /\ d[j].id = d[i].id
    BY DEF InOrder
  <2>1. /\ at[i] \in 1..Len(c) /\ at[m] \in 1..Len(c) /\ at[l] \in 1..Len(c)
        /\ CallIn(c, at[i]) /\ CallIn(c, at[m]) /\ OutIn(c, at[l])
        /\ c[at[i]].run = c[at[m]].run /\ c[at[l]].id = c[at[m]].id
    BY <1>2
  <2>2. at[i] < at[m]
    BY <1>1
  <2>3. PICK k \in 1..Len(c) : k < at[l] /\ OutIn(c, k) /\ c[k].id = c[at[i]].id
    BY <2>1, <2>2 DEF Convo, InOrder
  <2>4. PICK j \in 1..Len(d) : at[j] = k
    BY <1>5, <2>3
  <2>5. j < l
    BY <1>3, <2>3, <2>4
  <2>. QED
    BY <1>2, <2>3, <2>4, <2>5
<1>9. Open(d, r) = {}
  <2>1. ASSUME NEW k \in Open(d, r) PROVE FALSE
    <3>1. k \in 1..Len(d) /\ CallIn(d, k) /\ d[k].run = r
      BY DEF Open
    <3>2. PICK j \in 1..Len(c) : OutIn(c, j) /\ c[j].id = c[at[k]].id
      BY <1>2, <3>1 DEF Open
    <3>3. PICK l \in 1..Len(d) : at[l] = j
      BY <1>5, <3>2
    <3>. QED
      BY <1>2, <2>1, <3>1, <3>2, <3>3 DEF Open
  <2>. QED
    BY <2>1
<1>. QED
  BY <1>6, <1>7, <1>8, <1>9 DEF Convo

\* A history without calls and outputs.
LEMMA MessagesAreConvo ==
  ASSUME NEW n, NEW r, NEW d \in Seq(Item),
         \A i \in 1..Len(d) : /\ d[i].id <= n /\ d[i].run <= r
                              /\ ~CallIn(d, i) /\ ~OutIn(d, i)
  PROVE  Convo(d, n, r) /\ Open(d, r) = {}
  BY DEF Convo, Bounded, Linked, InOrder, Open

\* Vec::retain keeps items in their order.
LEMMA RetainedItems ==
  ASSUME NEW c \in Seq(Item), NEW P \in SUBSET (1..Len(c))
  PROVE  /\ Retained(c, P) \in Seq(Item) /\ Len(Retained(c, P)) = Cardinality(P)
         /\ \A k \in 1..Len(Retained(c, P)) :
              Place(P, k) \in P /\ Retained(c, P)[k] = c[Place(P, k)]
         /\ \A k, l \in 1..Len(Retained(c, P)) : k < l => Place(P, k) < Place(P, l)
         /\ \A i \in P : \E k \in 1..Len(Retained(c, P)) : Place(P, k) = i
<1>1. /\ Cardinality(P) \in Nat
      /\ \A k \in 1..Cardinality(P) : Place(P, k) \in P
      /\ \A k, l \in 1..Cardinality(P) : k < l => Place(P, k) < Place(P, l)
      /\ \A i \in P : \E k \in 1..Cardinality(P) : Place(P, k) = i
  <2>1. Len(c) \in Nat
    OBVIOUS
  <2>. QED
    BY <2>1, PlacesAreNumbered
<1>2. ASSUME NEW k \in 1..Cardinality(P) PROVE c[Place(P, k)] \in Item
  <2>1. Place(P, k) \in 1..Len(c)
    BY <1>1
  <2>2. \A i \in 1..Len(c) : c[i] \in Item
    OBVIOUS
  <2>. QED
    BY <2>1, <2>2
<1>. DEFINE d == Retained(c, P)
<1>3. d = [k \in 1..Cardinality(P) |-> c[Place(P, k)]]
  BY DEF Retained
<1>4. d \in Seq(Item) /\ Len(d) = Cardinality(P)
  <2>. HIDE DEF d
  <2>. QED
    BY <1>1, <1>2, <1>3
<1>5. \A k \in 1..Cardinality(P) : d[k] = c[Place(P, k)]
  BY <1>3
<1>. HIDE DEF d
<1>6. Len(d) = Cardinality(P)
  BY <1>4
<1>. QED
  BY <1>1, <1>4, <1>5, <1>6 DEF d

LEMMA CutItemIsItem ==
  ASSUME NEW x \in Item
  PROVE  LET y == [x EXCEPT !.cut = TRUE]
         IN  y \in Item /\ y.kind = x.kind /\ y.id = x.id /\ y.run = x.run
  BY DEF Item

\* Shortening an item changes neither what it is nor whose it is.
LEMMA CutItems ==
  ASSUME NEW c \in Seq(Item), NEW kinds
  PROVE  /\ Cut(c, kinds) \in Seq(Item) /\ Len(Cut(c, kinds)) = Len(c)
         /\ \A i \in 1..Len(c) : /\ Cut(c, kinds)[i].kind = c[i].kind
                                 /\ Cut(c, kinds)[i].id = c[i].id
                                 /\ Cut(c, kinds)[i].run = c[i].run
<1>. DEFINE d == Cut(c, kinds)
            item(i) == IF c[i].kind \in kinds THEN [c[i] EXCEPT !.cut = TRUE] ELSE c[i]
<1>1. d = [i \in 1..Len(c) |-> item(i)] /\ Len(c) \in Nat
  BY DEF Cut
<1>2. ASSUME NEW i \in 1..Len(c)
      PROVE  /\ item(i) \in Item /\ item(i).kind = c[i].kind /\ item(i).id = c[i].id
             /\ item(i).run = c[i].run
  <2>1. c[i] \in Item
    OBVIOUS
  <2>. DEFINE x == c[i]
              y == [x EXCEPT !.cut = TRUE]
  <2>2. y \in Item /\ y.kind = x.kind /\ y.id = x.id /\ y.run = x.run
    <3>1. x \in Item
      BY <2>1
    <3>. HIDE DEF x
    <3>. QED
      BY <3>1, CutItemIsItem
  <2>3. item(i) = IF x.kind \in kinds THEN y ELSE x
    OBVIOUS
  <2>. HIDE DEF x, y, item
  <2>4. item(i) \in Item /\ item(i).kind = x.kind /\ item(i).id = x.id /\ item(i).run = x.run
    BY <2>1, <2>2, <2>3 DEF x
  <2>. QED
    BY <2>4 DEF x
<1>. HIDE DEF item, d
<1>3. d \in Seq(Item) /\ Len(d) = Len(c) /\ \A i \in 1..Len(c) : d[i] = item(i)
  BY <1>1, <1>2
<1>. QED
  BY <1>2, <1>3 DEF d

LEMMA CutIsThinned ==
  ASSUME NEW c \in Seq(Item), NEW kinds
  PROVE  Thinned(Cut(c, kinds), c, [i \in 1..Len(c) |-> i])
<1>1. Len(c) \in Nat
  OBVIOUS
<1>. QED
  BY <1>1, CutItems DEF Thinned

LEMMA RetainedIsThinned ==
  ASSUME NEW c \in Seq(Item), NEW P \in SUBSET (1..Len(c)),
         \A i \in 1..Len(c) : CallIn(c, i) \/ OutIn(c, i) => i \in P
  PROVE  \E at : Thinned(Retained(c, P), c, at)
<1>. DEFINE d == Retained(c, P)
            at == [k \in 1..Len(d) |-> Place(P, k)]
<1>1. /\ d \in Seq(Item)
      /\ \A k \in 1..Len(d) : Place(P, k) \in P /\ d[k] = c[Place(P, k)]
      /\ \A k, l \in 1..Len(d) : k < l => Place(P, k) < Place(P, l)
      /\ \A i \in P : \E k \in 1..Len(d) : Place(P, k) = i
  BY RetainedItems
<1>. HIDE DEF d
<1>2. Thinned(d, c, at)
  <2>1. at \in [1..Len(d) -> 1..Len(c)] /\ \A k \in 1..Len(d) : at[k] = Place(P, k)
    BY <1>1
  <2>. HIDE DEF at
  <2>2. \A i \in 1..Len(c) : CallIn(c, i) \/ OutIn(c, i) => \E k \in 1..Len(d) : at[k] = i
    BY <1>1, <2>1
  <2>. QED
    BY <1>1, <2>1, <2>2 DEF Thinned
<1>. QED
  BY <1>2 DEF d

LEMMA NewItemIsItem ==
  ASSUME NEW kind \in Kinds, NEW id \in Nat, runs \in Nat
  PROVE  /\ NewItem(kind, id) \in Item
         /\ NewItem(kind, id).kind = kind /\ NewItem(kind, id).id = id
         /\ NewItem(kind, id).run = runs
  BY DEF NewItem, Item

----------------------------------------------------------------------------
(* Compaction.                                                             *)

LEMMA VerifyNoticeAdded ==
  ASSUME items \in Nat, runs \in Nat, NEW n \in Nat, n <= items + 2,
         NEW d, Convo(d, n, runs), Open(d, runs) = {}
  PROVE  /\ Convo(WithVerifyNotice(d), items + 2, runs)
         /\ Open(WithVerifyNotice(d), runs) = {}
<1>. DEFINE kept == {i \in 1..Len(d) : d[i].kind # "verify" \/ d[i].cut}
            e == Retained(d, kept)
            notice == NewItem("verify", items + 2)
<1>0. d \in Seq(Item)
  BY DEF Convo, Bounded
<1>1. Convo(e, n, runs) /\ Open(e, runs) = {}
  <2>1. \A i \in 1..Len(d) : CallIn(d, i) \/ OutIn(d, i) => i \in kept
    BY DEF CallIn, OutIn
  <2>2. kept \in SUBSET (1..Len(d))
    OBVIOUS
  <2>. HIDE DEF kept
  <2>3. PICK at : Thinned(e, d, at)
    BY <1>0, <2>1, <2>2, RetainedIsThinned
  <2>4. e \in Seq(Item)
    BY <1>0, <2>2, RetainedItems
  <2>. QED
    BY <2>3, <2>4, ThinnedStaysConvo
<1>2. notice \in Item /\ notice.kind = "verify" /\ notice.id = items + 2 /\ notice.run = runs
  BY NewItemIsItem DEF Kinds
<1>. HIDE DEF e, notice
<1>3. Convo(Append(e, notice), items + 2, runs) /\ Open(Append(e, notice), runs) = {}
  <2>1. items + 2 \in Nat /\ runs <= runs
    OBVIOUS
  <2>2. notice.kind \notin {"call", "output"} /\ notice.id <= items + 2 /\ notice.run <= runs
    BY <1>2
  <2>3. n \in Nat /\ runs \in Nat
    OBVIOUS
  <2>4. Convo(e, n, runs) /\ notice \in Item
    BY <1>1, <1>2
  <2>5. Convo(Append(e, notice), items + 2, runs) /\ Open(Append(e, notice), runs) = Open(e, runs)
    <3>. DEFINE m == items + 2
    <3>1. m \in Nat /\ n <= m
      BY <2>1
    <3>2. notice.id <= m
      BY <2>2
    <3>. HIDE DEF m
    <3>3. Convo(Append(e, notice), m, runs) /\ Open(Append(e, notice), runs) = Open(e, runs)
      BY <2>1, <2>2, <2>3, <2>4, <3>1, <3>2, MessageAdded
    <3>. QED
      BY <3>3 DEF m
  <2>. QED
    BY <1>1, <2>5
<1>4. Convo(d, items + 2, runs)
  <2>1. ASSUME NEW i \in 1..Len(d) PROVE d[i].id \in Nat
    <3>1. d[i] \in Item
      BY <1>0
    <3>. QED
      BY <3>1 DEF Item
  <2>2. \A x \in Nat : x <= n => x <= items + 2
    OBVIOUS
  <2>. QED
    BY <2>1, <2>2 DEF Convo, Bounded
<1>5. WithVerifyNotice(d) \in {Append(e, notice), d}
  BY DEF WithVerifyNotice, e, notice
<1>. QED
  BY <1>3, <1>4, <1>5

\* What the remote endpoint leaves has no calls and no outputs.
LEMMA RemoteIsQuiet ==
  ASSUME items \in Nat, runs \in Nat, Convo(input, items, runs),
         NEW d \in RemoteReplacements
  PROVE  /\ d \in Seq(Item)
         /\ \A i \in 1..Len(d) : /\ d[i].id <= items + 1 /\ d[i].run <= runs
                                  /\ ~CallIn(d, i) /\ ~OutIn(d, i)
<1>. DEFINE of_user == {i \in 1..Len(input) : IsUserMessage(input[i])}
            messages == {i \in 1..Len(input) : input[i].kind \in Messages}
            summary == NewItem("summary", items + 1)
            first == Append(Retained(input, of_user), summary)
            second == Retained(input, messages)
            Quiet(e) == /\ e \in Seq(Item)
                        /\ \A i \in 1..Len(e) :
                             /\ e[i].id <= items + 1 /\ e[i].run <= runs
                             /\ e[i].kind \notin {"call", "output"}
<1>1. input \in Seq(Item) /\ \A i \in 1..Len(input) : input[i].id <= items /\ input[i].run <= runs
  BY DEF Convo, Bounded
<1>2. ASSUME NEW P \in SUBSET (1..Len(input)),
             \A i \in P : input[i].kind \notin {"call", "output"}
      PROVE  Quiet(Retained(input, P))
  <2>. DEFINE e == Retained(input, P)
  <2>1. e \in Seq(Item) /\ \A k \in 1..Len(e) : Place(P, k) \in P /\ e[k] = input[Place(P, k)]
    BY <1>1, RetainedItems
  <2>. HIDE DEF e
  <2>2. ASSUME NEW k \in 1..Len(e)
        PROVE  /\ e[k].id <= items + 1 /\ e[k].run <= runs
               /\ e[k].kind \notin {"call", "output"}
    <3>. DEFINE i == Place(P, k)
    <3>1. e[k] = input[i] /\ i \in 1..Len(input) /\ i \in P
      BY <2>1
    <3>. HIDE DEF i
    <3>4. input[i].id <= items /\ input[i].run <= runs /\ input[i].kind \notin {"call", "output"}
      BY <1>1, <1>2, <3>1
    <3>2. e[k].id <= items /\ e[k].run <= runs /\ e[k].kind \notin {"call", "output"}
      BY <3>1, <3>4
    <3>5. e[k] \in Item
      BY <2>1
    <3>3. e[k].id \in Nat
      BY <3>5 DEF Item
    <3>. QED
      BY <3>2, <3>3
  <2>. QED
    BY <2>1, <2>2 DEF e
<1>3. Quiet(Retained(input, of_user))
  <2>1. \A i \in of_user : input[i].kind \notin {"call", "output"}
    BY DEF IsUserMessage
  <2>. HIDE DEF Quiet
  <2>. QED
    BY <1>2, <2>1
<1>4. Quiet(second)
  <2>1. \A i \in messages : input[i].kind \notin {"call", "output"}
    BY DEF Messages
  <2>. HIDE DEF Quiet
  <2>. QED
    BY <1>2, <2>1
<1>5. Quiet(first)
  <2>. DEFINE e == Retained(input, of_user)
  <2>1. /\ summary \in Item /\ summary.kind = "summary" /\ summary.id = items + 1
        /\ summary.run = runs
    BY NewItemIsItem DEF Kinds
  <2>2. e \in Seq(Item) /\ \A i \in 1..Len(e) :
                             /\ e[i].id <= items + 1 /\ e[i].run <= runs
                             /\ e[i].kind \notin {"call", "output"}
    BY <1>3
  <2>. HIDE DEF e, summary
  <2>3. /\ Append(e, summary) \in Seq(Item) /\ Len(Append(e, summary)) = Len(e) + 1
        /\ Len(e) \in Nat
        /\ \A i \in 1..Len(e) : Append(e, summary)[i] = e[i]
        /\ Append(e, summary)[Len(e) + 1] = summary
    BY <2>1, <2>2
  <2>. DEFINE f == Append(e, summary)
  <2>. HIDE DEF f
  <2>4. ASSUME NEW i \in 1..Len(f)
        PROVE  /\ f[i].id <= items + 1 /\ f[i].run <= runs
               /\ f[i].kind \notin {"call", "output"}
    <3>1. CASE i \in 1..Len(e)
      BY <2>2, <2>3, <3>1 DEF f
    <3>2. CASE i = Len(e) + 1
      BY <2>1, <2>3, <3>2 DEF f
    <3>. QED
      BY <2>3, <3>1, <3>2 DEF f
  <2>5. f \in Seq(Item)
    BY <2>3 DEF f
  <2>6. Quiet(f)
    BY <2>4, <2>5
  <2>. QED
    BY <2>6 DEF f, e
<1>6. PICK e \in {first, second}, kinds \in {{}, Messages} : d = Cut(e, kinds)
  BY DEF RemoteReplacements
<1>7. Quiet(e)
  <2>. HIDE DEF Quiet, first, second
  <2>. QED
    BY <1>4, <1>5
<1>8. /\ d \in Seq(Item) /\ Len(d) = Len(e)
      /\ \A i \in 1..Len(e) : d[i].kind = e[i].kind /\ d[i].id = e[i].id /\ d[i].run = e[i].run
  BY <1>6, <1>7, CutItems
<1>9. \A i \in 1..Len(d) : /\ d[i].id <= items + 1 /\ d[i].run <= runs
                           /\ ~CallIn(d, i) /\ ~OutIn(d, i)
  BY <1>7, <1>8 DEF CallIn, OutIn
<1>. QED
  BY <1>8, <1>9

LEMMA RemoteIsConvo ==
  ASSUME items \in Nat, runs \in Nat, Convo(input, items, runs),
         NEW d \in RemoteReplacements
  PROVE  Convo(d, items + 1, runs) /\ Open(d, runs) = {}
  BY RemoteIsQuiet, MessagesAreConvo

LEMMA LocalIsConvo ==
  ASSUME items \in Nat, runs \in Nat, Convo(input, items, runs), Open(input, runs) = {},
         NEW d \in LocalCuts
  PROVE  Convo(d, items, runs) /\ Open(d, runs) = {}
<1>1. input \in Seq(Item)
  BY DEF Convo, Bounded
<1>2. PICK kinds : d = Cut(input, kinds)
  BY DEF LocalCuts
<1>3. d \in Seq(Item) /\ \E at : Thinned(d, input, at)
  BY <1>1, <1>2, CutItems, CutIsThinned
<1>. QED
  BY <1>3, ThinnedStaysConvo

----------------------------------------------------------------------------
(* The invariant of the conversation.                                      *)

\* ConversationWellFormed is not inductive: that outputs land behind their calls and in
\* order depends on where the calls of the batch stand, and that a request finds none
\* open on which places of the loop hold a batch.
ConvoInv ==
  /\ Convo(input, items, runs)
  /\ batch \in Seq(Nat)
  /\ pc \in {"tools", "calling"} => batch # <<>> /\ Pending(input, runs, batch)
  /\ pc \notin {"tools", "calling"} => batch = <<>>
  /\ pc \notin {"idle", "tools", "calling"} => Open(input, runs) = {}

LEMMA PendingNothing ==
  ASSUME NEW c, NEW r, Pending(c, r, <<>>)
  PROVE  Open(c, r) = {}
<1>1. PICK p \in Nat : Open(c, r) = {p + m : m \in 1..Len(<<>>)}
  BY DEF Pending
<1>2. 1..Len(<<>>) = {}
  OBVIOUS
<1>. QED
  BY <1>1, <1>2

LEMMA InitConvo == Init => ConvoInv
<1>. SUFFICES ASSUME Init PROVE ConvoInv
  OBVIOUS
<1>1. input = <<>> /\ items = 0 /\ runs = 0 /\ batch = <<>> /\ pc = "idle"
  BY DEF Init
<1>2. <<>> \in Seq(Item) /\ 1..Len(<<>>) = {} /\ <<>> \in Seq(Nat)
  OBVIOUS
<1>3. Convo(<<>>, 0, 0)
  BY <1>2 DEF Convo, Bounded, Linked, InOrder
<1>. QED
  BY <1>1, <1>2, <1>3 DEF ConvoInv

\* The outputs of an answer: a message that changes nothing, and calls that wait.
LEMMA AnswerTaken ==
  ASSUME ControlTypeOK, Convo(input, items, runs), Open(input, runs) = {},
         NEW text \in BOOLEAN, NEW n \in Nat
  PROVE  /\ Convo(input \o Outputs(text, n), items + 1 + n, runs)
         /\ Pending(input \o Outputs(text, n), runs, [i \in 1..n |-> items + 1 + i])
<1>. DEFINE message == NewItem("assistant", items + 1)
            calls == [i \in 1..n |-> NewItem("call", items + 1 + i)]
            b == [i \in 1..n |-> items + 1 + i]
            m == items + 1
            c == IF text THEN Append(input, message) ELSE input
<1>0. items \in Nat /\ runs \in Nat /\ m \in Nat /\ items <= m
  BY DEF ControlTypeOK
<1>1. input \in Seq(Item)
  BY DEF Convo, Bounded
<1>2. /\ message \in Item /\ message.kind = "assistant" /\ message.id = m
      /\ message.run = runs
  BY <1>0, NewItemIsItem DEF Kinds
<1>3. /\ calls \in Seq(Item) /\ Len(calls) = n
      /\ \A i \in 1..n : calls[i].kind = "call" /\ calls[i].id = m + i /\ calls[i].run = runs
  <2>1. ASSUME NEW i \in 1..n
        PROVE  LET x == NewItem("call", items + 1 + i)
               IN  x \in Item /\ x.kind = "call" /\ x.id = m + i /\ x.run = runs
    <3>1. items + 1 + i \in Nat
      BY <1>0
    <3>. QED
      BY <1>0, <3>1, NewItemIsItem DEF Kinds
  <2>2. \A i \in 1..n : calls[i] = NewItem("call", items + 1 + i)
    OBVIOUS
  <2>3. calls \in Seq(Item) /\ Len(calls) = n
    BY <2>1
  <2>. QED
    BY <2>1, <2>2, <2>3
<1>4. b \in Seq(Nat) /\ Len(b) = n /\ \A i \in 1..n : b[i] = m + i
  BY <1>0
<1>5. input \o Outputs(text, n) = c \o calls
  <2>1. CASE text
    <3>1. Outputs(text, n) = <<message>> \o calls
      BY <2>1 DEF Outputs
    <3>. HIDE DEF message, calls
    <3>2. input \o (<<message>> \o calls) = (input \o <<message>>) \o calls
      <4>1. <<message>> \in Seq(Item) /\ calls \in Seq(Item)
        BY <1>2, <1>3
      <4>. QED
        BY <1>1, <4>1
    <3>3. input \o <<message>> = Append(input, message)
      BY <1>1, <1>2
    <3>. QED
      BY <2>1, <3>1, <3>2, <3>3
  <2>2. CASE ~text
    <3>1. Outputs(text, n) = <<>> \o calls
      BY <2>2 DEF Outputs
    <3>. HIDE DEF calls
    <3>2. <<>> \o calls = calls
      BY <1>3
    <3>. QED
      BY <2>2, <3>1, <3>2
  <2>. QED
    BY <2>1, <2>2
<1>6. Convo(c, m, runs) /\ Open(c, runs) = {}
  <2>1. CASE text
    <3>1. /\ message.kind \notin {"call", "output"} /\ message.id <= m /\ message.run <= runs
          /\ runs <= runs
      BY <1>0, <1>2
    <3>. HIDE DEF message, m
    <3>2. Convo(Append(input, message), m, runs)
          /\ Open(Append(input, message), runs) = Open(input, runs)
      BY <1>0, <1>2, <3>1, MessageAdded
    <3>. QED
      BY <2>1, <3>2
  <2>2. CASE ~text
    <3>1. Convo(input, m, runs)
      <4>1. ASSUME NEW i \in 1..Len(input) PROVE input[i].id <= m
        <5>1. input[i] \in Item /\ input[i].id <= items
          BY <1>1 DEF Convo, Bounded
        <5>. QED
          BY <1>0, <5>1 DEF Item
      <4>. QED
        BY <4>1 DEF Convo, Bounded
    <3>. QED
      BY <2>2, <3>1
  <2>. QED
    BY <2>1, <2>2
<1>. HIDE DEF c, calls, b, m
<1>7. Convo(c \o calls, m + n, runs) /\ Pending(c \o calls, runs, b)
  BY <1>0, <1>3, <1>4, <1>6, CallsAdded
<1>. QED
  BY <1>5, <1>7 DEF m, b

LEMMA PromptIsItem ==
  ASSUME NEW x \in Item, NEW q \in Nat
  PROVE  LET y == [x EXCEPT !.run = q]
         IN  y \in Item /\ y.kind = x.kind /\ y.id = x.id /\ y.run = q
  BY DEF Item

LEMMA StartConvo == ControlTypeOK /\ ConvoInv /\ StartRun => ConvoInv'
<1>. SUFFICES ASSUME ControlTypeOK, ConvoInv, StartRun PROVE ConvoInv'
  OBVIOUS
<1>0. items \in Nat /\ runs \in Nat
  BY DEF ControlTypeOK
<1>. DEFINE m == items + 1
            q == runs + 1
            prompt == [NewItem("user", items + 1) EXCEPT !.run = runs + 1]
<1>1. /\ input' = Append(input, prompt) /\ items' = m /\ runs' = q
      /\ pc = "idle" /\ pc' = "turn" /\ batch' = batch
  BY DEF StartRun, toolVars
<1>3. m \in Nat /\ q \in Nat /\ items <= m /\ runs < q /\ runs <= q
  BY <1>0
<1>2. /\ prompt \in Item /\ prompt.kind \notin {"call", "output"}
      /\ prompt.id <= m /\ prompt.run <= q
  <2>. DEFINE x == NewItem("user", m)
  <2>1. x \in Item /\ x.kind = "user" /\ x.id = m
    BY <1>0, <1>3, NewItemIsItem DEF Kinds
  <2>2. m \in Nat /\ q \in Nat /\ m <= m /\ q <= q /\ prompt = [x EXCEPT !.run = q]
    BY <1>0
  <2>. HIDE DEF x, prompt, m, q
  <2>3. prompt \in Item /\ prompt.kind = "user" /\ prompt.id = m /\ prompt.run = q
    BY <2>1, <2>2, PromptIsItem
  <2>. QED
    BY <2>2, <2>3
<1>4. Convo(input, items, runs) /\ batch \in Seq(Nat) /\ batch = <<>>
  BY <1>1 DEF ConvoInv
<1>. HIDE DEF m, q, prompt
<1>5. Convo(Append(input, prompt), m, q) /\ Open(Append(input, prompt), q) = {}
  BY <1>0, <1>2, <1>3, <1>4, MessageAdded
<1>. QED
  BY <1>1, <1>4, <1>5 DEF ConvoInv

LEMMA AnswerConvo ==
  ASSUME ControlTypeOK, ConvoInv, pc = "waiting",
         NEW text \in BOOLEAN, NEW n \in CallCounts, NEW local \in BOOLEAN,
         TakeAnswer(text, n, local, Outputs(text, n))
  PROVE  ConvoInv'
<1>0. n \in Nat /\ items \in Nat /\ runs \in Nat
  BY BoundAssumption DEF CallCounts, ControlTypeOK
<1>. DEFINE d == input \o Outputs(text, n)
            b == [i \in 1..n |-> items + 1 + i]
<1>1. Convo(d, items + 1 + n, runs) /\ Pending(d, runs, b)
  BY <1>0, AnswerTaken DEF ConvoInv
<1>2. /\ input' = d /\ items' = items + 1 + n /\ runs' = runs
      /\ n = 0 => pc' = "idle" /\ batch' = <<>>
      /\ n # 0 => pc' = "tools" /\ batch' = b
  BY DEF TakeAnswer, EndRun
<1>3. b \in Seq(Nat) /\ (n # 0 => b # <<>>) /\ <<>> \in Seq(Nat)
  <2>1. b \in Seq(Nat) /\ Len(b) = n
    BY <1>0
  <2>. HIDE DEF b
  <2>. QED
    BY <2>1
<1>. HIDE DEF d, b
<1>. QED
  BY <1>1, <1>2, <1>3 DEF ConvoInv

LEMMA OutputOfIsItem ==
  ASSUME runs \in Nat, NEW call \in Nat
  PROVE  /\ OutputOf(call) \in Item /\ OutputOf(call).kind = "output"
         /\ OutputOf(call).id = call /\ OutputOf(call).run = runs
  BY DEF OutputOf, NewItem, Item, Kinds

LEMMA ParallelConvo == ControlTypeOK /\ ConvoInv /\ BatchReturns => ConvoInv'
<1>. SUFFICES ASSUME ControlTypeOK, ConvoInv, BatchReturns PROVE ConvoInv'
  OBVIOUS
<1>0. items \in Nat /\ runs \in Nat /\ batch \in Seq(Nat) /\ Convo(input, items, runs)
      /\ Pending(input, runs, batch) /\ Len(batch) \in Nat /\ <<>> \in Seq(Nat)
  BY DEF ControlTypeOK, ConvoInv, BatchReturns
<1>2. CASE /\ input' = input \o ParallelOutputs /\ pc' = "turn" /\ batch' = <<>>
           /\ UNCHANGED <<runs, items>>
  <2>. DEFINE outs == ParallelOutputs
              k == Len(batch)
  <2>1. /\ outs \in Seq(Item) /\ Len(outs) = k
        /\ \A i \in 1..k : outs[i].kind = "output" /\ outs[i].id = batch[i]
                           /\ outs[i].run = runs
    <3>1. \A i \in 1..k : batch[i] \in Nat
      BY <1>0
    <3>2. outs = [i \in 1..k |-> OutputOf(batch[i])]
      BY DEF ParallelOutputs
    <3>3. \A i \in 1..k : /\ OutputOf(batch[i]) \in Item /\ OutputOf(batch[i]).kind = "output"
                          /\ OutputOf(batch[i]).id = batch[i] /\ OutputOf(batch[i]).run = runs
      BY <1>0, <3>1, OutputOfIsItem
    <3>4. k \in Nat
      BY <1>0
    <3>. HIDE DEF outs, k
    <3>5. outs \in Seq(Item) /\ Len(outs) = k /\ \A i \in 1..k : outs[i] = OutputOf(batch[i])
      BY <3>2, <3>3, <3>4
    <3>. QED
      BY <3>3, <3>5
  <2>2. k \in 0..Len(batch)
    BY <1>0
  <2>3. SubSeq(batch, k + 1, Len(batch)) = <<>>
    BY <1>0
  <2>. HIDE DEF outs
  <2>4. Convo(input \o outs, items, runs)
        /\ Pending(input \o outs, runs, SubSeq(batch, k + 1, Len(batch)))
    BY <1>0, <2>1, <2>2, OutputsAdded
  <2>5. Open(input \o outs, runs) = {}
    BY <2>3, <2>4, PendingNothing
  <2>. QED
    BY <1>0, <1>2, <2>4, <2>5 DEF ConvoInv, outs
<1>. QED
  BY <1>2 DEF BatchReturns

LEMMA SerialConvo == ControlTypeOK /\ ConvoInv /\ CallReturns => ConvoInv'
<1>. SUFFICES ASSUME ControlTypeOK, ConvoInv, CallReturns PROVE ConvoInv'
  OBVIOUS
<1>0. items \in Nat /\ runs \in Nat /\ batch \in Seq(Nat) /\ Convo(input, items, runs)
      /\ Pending(input, runs, batch) /\ Len(batch) \in Nat /\ <<>> \in Seq(Nat)
      /\ batch # <<>>
  BY DEF ControlTypeOK, ConvoInv, CallReturns
<1>2. CASE /\ input' = Append(input, OutputOf(Head(batch))) /\ batch' = Tail(batch)
           /\ pc' = AfterCall /\ UNCHANGED <<runs, items>>
  <2>. DEFINE outs == <<OutputOf(Head(batch))>>
              rest == Tail(batch)
  <2>0. Head(batch) \in Nat /\ Head(batch) = batch[1] /\ Len(batch) >= 1
    BY <1>0
  <2>1. /\ outs \in Seq(Item) /\ Len(outs) = 1
        /\ \A i \in 1..1 : outs[i].kind = "output" /\ outs[i].id = batch[i]
                           /\ outs[i].run = runs
    <3>1. /\ OutputOf(Head(batch)) \in Item /\ OutputOf(Head(batch)).kind = "output"
          /\ OutputOf(Head(batch)).id = Head(batch) /\ OutputOf(Head(batch)).run = runs
      BY <1>0, <2>0, OutputOfIsItem
    <3>. DEFINE x == OutputOf(Head(batch))
    <3>. HIDE DEF x
    <3>2. outs \in Seq(Item) /\ Len(outs) = 1 /\ outs[1] = x
      BY <3>1 DEF x
    <3>. HIDE DEF outs
    <3>. QED
      BY <2>0, <3>1, <3>2 DEF x
  <2>2. 1 \in 0..Len(batch)
    BY <1>0, <2>0
  <2>3. SubSeq(batch, 1 + 1, Len(batch)) = rest /\ rest \in Seq(Nat)
        /\ Len(rest) = Len(batch) - 1 /\ (Len(batch) # 1 => rest # <<>>)
        /\ (Len(batch) = 1 => rest = <<>>)
    <3>1. rest \in Seq(Nat) /\ Len(rest) = Len(batch) - 1
      BY <1>0, HeadTailProperties
    <3>2. rest = SubSeq(batch, 2, Len(batch))
      BY <1>0, TailIsSubSeq
    <3>. HIDE DEF rest
    <3>4. (Len(batch) # 1 => rest # <<>>) /\ (Len(batch) = 1 => rest = <<>>)
      BY <1>0, <2>0, <3>1
    <3>. QED
      BY <3>1, <3>2, <3>4
  <2>4. input \o outs = Append(input, OutputOf(Head(batch)))
    <3>1. input \in Seq(Item)
      BY <1>0 DEF Convo, Bounded
    <3>. QED
      BY <3>1, <2>1
  <2>. HIDE DEF outs, rest
  <2>5. Convo(input \o outs, items, runs)
        /\ Pending(input \o outs, runs, SubSeq(batch, 1 + 1, Len(batch)))
    BY <1>0, <2>1, <2>2, OutputsAdded
  <2>6. rest = <<>> => Open(input \o outs, runs) = {}
    BY <2>3, <2>5, PendingNothing
  <2>7. batch' = rest /\ input' = input \o outs /\ runs' = runs /\ items' = items
    BY <1>2, <2>4 DEF rest
  <2>8. pc' = IF rest = <<>> THEN "turn" ELSE "tools"
    BY <1>2, <2>3 DEF AfterCall
  <2>9. Pending(input \o outs, runs, rest)
    BY <2>3, <2>5
  <2>. QED
    BY <2>3, <2>5, <2>6, <2>7, <2>8, <2>9 DEF ConvoInv
<1>. QED
  BY <1>2 DEF CallReturns

LEMMA InstallConvo ==
  ASSUME ControlTypeOK, ConvoInv, pc = "compacting",
         NEW d, NEW n \in Nat, n <= items + 2, Convo(d, n, runs), Open(d, runs) = {},
         InstallHistory(d)
  PROVE  ConvoInv'
<1>1. items \in Nat /\ runs \in Nat /\ batch = <<>> /\ <<>> \in Seq(Nat)
  BY DEF ControlTypeOK, ConvoInv
<1>2. /\ input' = WithVerifyNotice(d) /\ items' = items + 2 /\ pc' = "ready"
      /\ runs' = runs /\ batch' = batch
  BY DEF InstallHistory, toolVars
<1>3. Convo(WithVerifyNotice(d), items + 2, runs) /\ Open(WithVerifyNotice(d), runs) = {}
  BY <1>1, VerifyNoticeAdded
<1>. QED
  BY <1>1, <1>2, <1>3 DEF ConvoInv

LEMMA CompactConvo == ControlTypeOK /\ ConvoInv /\ Compact => ConvoInv'
<1>. SUFFICES ASSUME ControlTypeOK, ConvoInv, Compact PROVE ConvoInv'
  OBVIOUS
<1>0. items \in Nat /\ runs \in Nat /\ Convo(input, items, runs) /\ Open(input, runs) = {}
      /\ pc = "compacting"
  BY DEF ControlTypeOK, ConvoInv, Compact, CompactRemotely, CompactLocally
<1>1. ASSUME NEW d \in RemoteReplacements, InstallHistory(d) PROVE ConvoInv'
  <2>1. Convo(d, items + 1, runs) /\ Open(d, runs) = {}
    BY <1>0, RemoteIsConvo
  <2>2. items + 1 \in Nat /\ items + 1 <= items + 2
    BY <1>0
  <2>. DEFINE n == items + 1
  <2>. HIDE DEF n
  <2>3. n \in Nat /\ n <= items + 2 /\ Convo(d, n, runs)
    BY <2>1, <2>2 DEF n
  <2>. QED
    BY <1>0, <1>1, <2>1, <2>3, InstallConvo
<1>2. ASSUME NEW d \in LocalCuts, InstallHistory(d) PROVE ConvoInv'
  <2>1. Convo(d, items, runs) /\ Open(d, runs) = {}
    BY <1>0, LocalIsConvo
  <2>2. items <= items + 2
    BY <1>0
  <2>. QED
    BY <1>0, <1>2, <2>1, <2>2, InstallConvo
<1>3. CASE EndRun("compaction") /\ UNCHANGED convoVars
  BY <1>0, <1>3 DEF ConvoInv, EndRun, convoVars
<1>. QED
  BY <1>1, <1>2, <1>3 DEF Compact, CompactRemotely, CompactLocally

LEMMA NoticeConvo ==
  ASSUME ControlTypeOK, ConvoInv, pc = "ready", PushNotice, UNCHANGED runs
  PROVE  Convo(input', items', runs') /\ Open(input', runs') = {}
<1>0. items \in Nat /\ runs \in Nat /\ Convo(input, items, runs) /\ Open(input, runs) = {}
  BY DEF ControlTypeOK, ConvoInv
<1>1. CASE NoticeDue
  <2>. DEFINE m == items + 1
              notice == NewItem("nudge", items + 1)
  <2>1. /\ notice \in Item /\ notice.kind = "nudge" /\ notice.id = m /\ notice.run = runs
    BY <1>0, NewItemIsItem DEF Kinds
  <2>2. /\ m \in Nat /\ items <= m /\ runs <= runs
        /\ notice.kind \notin {"call", "output"} /\ notice.id <= m /\ notice.run <= runs
    BY <1>0, <2>1
  <2>3. input' = Append(input, notice) /\ items' = m
    BY <1>1 DEF PushNotice
  <2>. HIDE DEF m, notice
  <2>4. Convo(Append(input, notice), m, runs)
        /\ Open(Append(input, notice), runs) = Open(input, runs)
    BY <1>0, <2>1, <2>2, MessageAdded
  <2>. QED
    BY <1>0, <2>3, <2>4
<1>2. CASE ~NoticeDue
  BY <1>0, <1>2 DEF PushNotice, convoVars
<1>. QED
  BY <1>1, <1>2

LEMMA BeginConvo == ControlTypeOK /\ ConvoInv /\ BeginRequest => ConvoInv'
<1>. SUFFICES ASSUME ControlTypeOK, ConvoInv, BeginRequest PROVE ConvoInv'
  OBVIOUS
<1>1. /\ PushNotice /\ pc = "ready" /\ runs' = runs
      /\ pc' \notin {"tools", "calling"} /\ batch' \in {batch, <<>>}
  BY DEF BeginRequest, EndRun, toolVars
<1>2. Convo(input', items', runs') /\ Open(input', runs') = {}
  BY <1>1, NoticeConvo
<1>3. batch = <<>> /\ <<>> \in Seq(Nat)
  BY <1>1 DEF ConvoInv
<1>. QED
  BY <1>1, <1>2, <1>3 DEF ConvoInv

\* Every action keeps the invariant of the conversation.
LEMMA NextConvo == ControlTypeOK /\ ConvoInv /\ [Next]_vars => ConvoInv'
<1>. SUFFICES ASSUME ControlTypeOK, ConvoInv, [Next]_vars PROVE ConvoInv'
  OBVIOUS
\* Steps that leave the conversation alone.
<1>0. ASSUME UNCHANGED convoVars, UNCHANGED runs,
             \/ pc' = "idle" /\ batch' = <<>>
             \/ UNCHANGED <<pc, batch>>
             \/ UNCHANGED batch /\ pc = "tools" /\ pc' = "calling"
             \/ /\ UNCHANGED batch /\ pc \notin {"idle", "tools", "calling"}
                /\ pc' \notin {"idle", "tools", "calling"}
      PROVE  ConvoInv'
  <2>1. input' = input /\ items' = items /\ runs' = runs /\ <<>> \in Seq(Nat)
    BY <1>0 DEF convoVars
  <2>. QED
    BY <1>0, <2>1 DEF ConvoInv
<1>1. CASE StartRun
  BY <1>1, StartConvo
<1>2. CASE Cancel
  BY <1>0, <1>2 DEF Cancel, toolVars
<1>3. CASE DropRun
  BY <1>0, <1>3 DEF DropRun, EndRun
<1>4. CASE StreamText
  BY <1>0, <1>4 DEF StreamText, runVars, toolVars
<1>5. CASE AnswerOverSocket
  BY <1>5, AnswerConvo DEF AnswerOverSocket
<1>6. CASE AnswerOverHttp
  BY <1>6, AnswerConvo DEF AnswerOverHttp
<1>7. CASE RetryableFailure
  BY <1>0, <1>7 DEF RetryableFailure, EndRun, runVars, toolVars
<1>8. CASE FatalFailure
  BY <1>0, <1>8 DEF FatalFailure, EndRun
<1>9. CASE Compact
  BY <1>9, CompactConvo
<1>10. CASE StartCall
  BY <1>0, <1>10 DEF StartCall, EndRun, toolVars
<1>11. CASE BatchReturns \/ CallReturns
  BY <1>11, ParallelConvo, SerialConvo
<1>12. CASE TurnStart
  BY <1>0, <1>12 DEF TurnStart, EndRun, toolVars
<1>13. CASE BeginRequest
  BY <1>13, BeginConvo
<1>14. CASE DeadlinePasses
  BY <1>0, <1>14 DEF DeadlinePasses, EndRun, runVars, toolVars
<1>15. CASE Backoff
  BY <1>0, <1>15 DEF Backoff, EndRun, toolVars
<1>16. CASE UNCHANGED vars
  BY <1>0, <1>16 DEF vars, runVars, toolVars
<1>. QED
  BY <1>1, <1>2, <1>3, <1>4, <1>5, <1>6, <1>7, <1>8, <1>9, <1>10, <1>11, <1>12,
     <1>13, <1>14, <1>15, <1>16
  DEF Next, Surface, Answer, Failure, Tools

LEMMA ConvoInvHolds == Spec => []ConvoInv
  BY InitConvo, NextConvo, ControlTypeCorrect, PTL DEF Spec

----------------------------------------------------------------------------
(* What the API sees of it.                                                *)

LEMMA SingletonCount ==
  ASSUME NEW S, NEW x, S = {x}
  PROVE  IsFiniteSet(S) /\ Cardinality(S) = 1
  BY FS_Singleton

LEMMA AtMostOne ==
  ASSUME NEW S, \A x, y \in S : x = y
  PROVE  Cardinality(S) <= 1
<1>1. CASE S = {}
  BY <1>1, FS_EmptySet
<1>2. CASE \E x : x \in S
  <2>1. PICK x : x \in S
    BY <1>2
  <2>2. S = {x}
    BY <2>1
  <2>3. Cardinality(S) = 1
    BY <2>2, SingletonCount
  <2>. QED
    BY <2>3
<1>. QED
  BY <1>1, <1>2

LEMMA ConvoIsWellFormed == ConvoInv /\ ControlTypeOK => ConversationWellFormed
<1>. SUFFICES ASSUME ConvoInv, ControlTypeOK PROVE ConversationWellFormed
  OBVIOUS
<1>. DEFINE places == 1..Len(input)
<1>0. /\ input \in Seq(Item) /\ Len(input) \in Nat /\ Linked(input) /\ InOrder(input)
      /\ pc \in {"waiting", "backoff"} => Open(input, runs) = {}
  BY DEF ConvoInv, Convo, Bounded
<1>1. \A i \in places : IsCall(i) <=> CallIn(input, i)
  BY DEF IsCall, CallIn
<1>2. \A i, j \in places : Answers(j, i) <=> OutIn(input, j) /\ input[j].id = input[i].id
  BY DEF Answers, OutIn
<1>3. ASSUME NEW j \in places, input[j].kind = "output"
      PROVE  Cardinality({i \in 1..(j - 1) : IsCall(i) /\ Answers(j, i)}) = 1
  <2>1. OutIn(input, j)
    BY <1>3 DEF OutIn
  <2>2. PICK i \in places : i < j /\ CallIn(input, i) /\ input[i].id = input[j].id
    BY <1>0, <2>1 DEF Linked
  <2>3. 1..(j - 1) \subseteq places /\ i \in 1..(j - 1)
    BY <1>0, <2>2
  <2>4. \A k \in places : CallIn(input, k) /\ input[k].id = input[j].id => k = i
    BY <1>0, <2>2 DEF Linked
  <2>5. {k \in 1..(j - 1) : IsCall(k) /\ Answers(j, k)} = {i}
    <3>. HIDE DEF places
    <3>1. \A k \in 1..(j - 1) : IsCall(k) /\ Answers(j, k) <=> k = i
      BY <1>1, <1>2, <2>1, <2>2, <2>3, <2>4
    <3>. QED
      BY <2>3, <3>1
  <2>. QED
    BY <2>5, SingletonCount
<1>4. ASSUME NEW i \in places, IsCall(i)
      PROVE  Cardinality({j \in places : Answers(j, i)}) <= 1
  <2>1. \A j, l \in places : Answers(j, i) /\ Answers(l, i) => j = l
    BY <1>0, <1>2 DEF Linked
  <2>. HIDE DEF places
  <2>. QED
    BY <2>1, AtMostOne
<1>5. ASSUME NEW i \in {p \in places : IsCall(p)}, NEW k \in {p \in places : IsCall(p)},
             i < k, input[i].run = input[k].run, NEW l \in places, Answers(l, k)
      PROVE  \E j \in places : j < l /\ Answers(j, i)
  <2>1. /\ i \in places /\ k \in places /\ CallIn(input, i) /\ CallIn(input, k)
        /\ OutIn(input, l) /\ input[l].id = input[k].id
    BY <1>1, <1>2, <1>5
  <2>2. PICK j \in places : j < l /\ OutIn(input, j) /\ input[j].id = input[i].id
    BY <1>0, <1>5, <2>1 DEF InOrder
  <2>. QED
    BY <1>2, <2>1, <2>2
<1>6. ASSUME pc \in {"waiting", "backoff"},
             NEW i \in {p \in places : IsCall(p) /\ input[p].run = runs}
      PROVE  \E j \in places : Answers(j, i)
  <2>1. i \in places /\ CallIn(input, i) /\ input[i].run = runs
    BY <1>1
  <2>2. PICK j \in places : OutIn(input, j) /\ input[j].id = input[i].id
    BY <1>0, <1>6, <2>1 DEF Open
  <2>. QED
    BY <1>2, <2>1, <2>2
<1>. QED
  BY <1>3, <1>4, <1>5, <1>6 DEF ConversationWellFormed

\* Whatever a run is interrupted by, and whatever compaction does to its history,
\* every output in it follows its one call, no call has two, the outputs of each run
\* answer its calls in their order, and a request goes out only when the calls of the
\* current run are answered.  What stopped runs left without outputs stays.
THEOREM ConversationIsWellFormed == Spec => []ConversationWellFormed
  BY ConvoInvHolds, ControlTypeCorrect, ConvoIsWellFormed, PTL

----------------------------------------------------------------------------
(* The protocol of tool calls.                                             *)

LEMMA OpenCallsAreOpen == input \in Seq(Item) => OpenCalls = Open(input, runs)
  BY Zenon DEF OpenCalls, Open, IsCall, Answers, CallIn, OutIn

\* The places of a block of neighbours, in their order.
LEMMA BlockPlace ==
  ASSUME NEW p \in Nat, NEW n \in Nat, NEW k \in 1..n, NEW P, P = {p + m : m \in 1..n}
  PROVE  Place(P, k) = p + k
<1>1. ASSUME NEW m \in 1..n PROVE Cardinality({j \in P : j <= p + m}) = m
  <2>1. {j \in P : j <= p + m} = (p + 1)..(p + m)
    <3>1. ASSUME NEW j \in (p + 1)..(p + m) PROVE j \in P /\ j <= p + m
      <4>1. j = p + (j - p) /\ j - p \in 1..n /\ j <= p + m
        OBVIOUS
      <4>. QED
        BY <4>1
    <3>2. ASSUME NEW j \in P, j <= p + m PROVE j \in (p + 1)..(p + m)
      BY <3>2
    <3>. QED
      BY <3>1, <3>2
  <2>2. Cardinality((p + 1)..(p + m)) = m
    <3>1. p + 1 \in Int /\ p + m \in Int /\ p + 1 <= p + m /\ p + m - (p + 1) + 1 = m
      OBVIOUS
    <3>. DEFINE a == p + 1
                b == p + m
    <3>. HIDE DEF a, b
    <3>2. Cardinality(a..b) = b - a + 1
      BY <3>1, FS_Interval DEF a, b
    <3>. QED
      BY <3>1, <3>2 DEF a, b
  <2>. QED
    BY <2>1, <2>2
<1>2. p + k \in P /\ Cardinality({j \in P : j <= p + k}) = k
  BY <1>1
<1>3. \E i \in P : Cardinality({j \in P : j <= i}) = k
  BY <1>2
<1>. DEFINE x == Place(P, k)
<1>4. x \in P /\ Cardinality({j \in P : j <= x}) = k
  BY <1>3, Zenon DEF Place
<1>. HIDE DEF x
<1>5. PICK m \in 1..n : x = p + m
  BY <1>4
<1>6. m = k
  BY <1>1, <1>4, <1>5
<1>. QED
  BY <1>5, <1>6 DEF x

LEMMA PendingIsUnanswered ==
  ASSUME input \in Seq(Item), batch \in Seq(Nat), Pending(input, runs, batch)
  PROVE  CallsWithoutOutput = batch
<1>. DEFINE n == Len(batch)
<1>1. PICK p \in Nat : /\ \A m \in 1..n : /\ p + m \in 1..Len(input)
                                          /\ CallIn(input, p + m) /\ input[p + m].id = batch[m]
                       /\ Open(input, runs) = {p + m : m \in 1..n}
  BY DEF Pending
<1>2. n \in Nat
  OBVIOUS
<1>. DEFINE P == OpenCalls
<1>3. P = {p + m : m \in 1..n}
  BY <1>1, OpenCallsAreOpen
<1>. HIDE DEF P
<1>4. Cardinality(P) = n
  <2>1. P = (p + 1)..(p + n)
    <3>1. ASSUME NEW j \in (p + 1)..(p + n) PROVE j \in P
      <4>1. j = p + (j - p) /\ j - p \in 1..n
        BY <1>2
      <4>. QED
        BY <1>3, <4>1
    <3>2. ASSUME NEW j \in P PROVE j \in (p + 1)..(p + n)
      BY <1>2, <1>3, <3>2
    <3>. QED
      BY <3>1, <3>2
  <2>. DEFINE a == p + 1
              b == p + n
  <2>2. a \in Int /\ b \in Int /\ (a <= b => b - a + 1 = n) /\ (a > b => n = 0)
    BY <1>2
  <2>3. Cardinality(a..b) = IF a > b THEN 0 ELSE b - a + 1
    <3>. HIDE DEF a, b
    <3>. QED
      BY <2>2, FS_Interval
  <2>. QED
    BY <1>2, <2>1, <2>2, <2>3
<1>5. ASSUME NEW k \in 1..n PROVE Retained(input, P)[k].id = batch[k]
  <2>1. Place(P, k) = p + k
    BY <1>2, <1>3, BlockPlace
  <2>2. Retained(input, P)[k] = input[Place(P, k)]
    BY <1>4 DEF Retained
  <2>. QED
    BY <1>1, <2>1, <2>2
<1>6. CallsWithoutOutput = [k \in 1..n |-> Retained(input, P)[k].id]
  BY <1>4 DEF CallsWithoutOutput, P
<1>7. batch = [k \in 1..n |-> batch[k]]
  OBVIOUS
<1>. QED
  BY <1>5, <1>6, <1>7

\* What the protocol sees is the batch.
LEMMA UnansweredIsBatch ==
  ASSUME ConvoInv
  PROVE  (IF pc = "idle" THEN <<>> ELSE CallsWithoutOutput) = batch
<1>0. input \in Seq(Item) /\ batch \in Seq(Nat)
  BY DEF ConvoInv, Convo, Bounded
<1>1. CASE pc = "idle"
  BY <1>1 DEF ConvoInv
<1>2. CASE pc \in {"tools", "calling"}
  BY <1>0, <1>2, PendingIsUnanswered DEF ConvoInv
<1>3. CASE pc \notin {"idle", "tools", "calling"}
  <2>1. batch = <<>> /\ OpenCalls = {}
    BY <1>0, <1>3, OpenCallsAreOpen DEF ConvoInv
  <2>2. Cardinality({}) = 0
    BY FS_EmptySet
  <2>3. CallsWithoutOutput = [k \in 1..0 |-> Retained(input, {})[k].id]
    BY <2>1, <2>2 DEF CallsWithoutOutput
  <2>4. [k \in 1..0 |-> Retained(input, {})[k].id] = <<>>
    OBVIOUS
  <2>. QED
    BY <1>3, <2>1, <2>3, <2>4
<1>. QED
  BY <1>1, <1>2, <1>3

ViewIsBatch == (IF pc = "idle" THEN <<>> ELSE CallsWithoutOutput) = batch

\* What a step of the protocol is, said of the batch.
ProtocolStep(p, b, pNew, bNew) ==
  LET T(q) == CASE q = "idle" -> "over" [] q \in {"waiting", "backoff"} -> "server"
                [] OTHER -> "client"
  IN  \/ T(p) = "over" /\ T(pNew) = "client" /\ bNew = <<>>
      \/ T(p) = "client" /\ b = <<>> /\ T(pNew) = "server" /\ bNew = b
      \/ T(p) = "server" /\ bNew \in Seq(Nat)
         /\ T(pNew) = IF bNew = <<>> THEN "over" ELSE "client"
      \/ /\ T(p) = "client" /\ b # <<>> /\ T(pNew) = T(p)
         /\ \E n \in 1..Len(b) : bNew = SubSeq(b, n + 1, Len(b))
      \/ T(p) # "over" /\ T(pNew) = "over" /\ bNew = <<>>
      \/ T(p) = T(pNew) /\ b = bNew

LEMMA StepIsProtocolStep ==
  ASSUME ViewIsBatch, ViewIsBatch', ProtocolStep(pc, batch, pc', batch')
  PROVE  [Protocol!Next]_(Protocol!vars)
  BY Zenon DEF ViewIsBatch, ProtocolStep, Turn, Protocol!Next, Protocol!vars, Protocol!Prompt,
         Protocol!Request, Protocol!Answer, Protocol!Output, Protocol!Stop

LEMMA NextIsProtocolStep ==
  ASSUME ControlTypeOK, ConvoInv, [Next]_vars
  PROVE  ProtocolStep(pc, batch, pc', batch')
<1>0. /\ batch \in Seq(Nat) /\ (pc \in {"tools", "calling"} => batch # <<>>)
      /\ (pc \notin {"tools", "calling"} => batch = <<>>)
      /\ Len(batch) \in Nat /\ pc \in Places /\ <<>> \in Seq(Nat)
  BY DEF ConvoInv, ControlTypeOK
<1>. USE <1>0 DEF ProtocolStep
\* Steps that are none of the protocol.
<1>1. ASSUME UNCHANGED <<pc, batch>> PROVE ProtocolStep(pc, batch, pc', batch')
  BY <1>1
<1>2. ASSUME pc # "idle", pc' = "idle", batch' = <<>>
      PROVE  ProtocolStep(pc, batch, pc', batch')
  BY <1>2
<1>3. ASSUME UNCHANGED batch, pc \in {"turn", "compacting", "ready"},
             pc' \in {"turn", "compacting", "ready"}
      PROVE  ProtocolStep(pc, batch, pc', batch')
  BY <1>3
<1>4. ASSUME UNCHANGED batch, pc \in {"waiting", "backoff"}, pc' \in {"waiting", "backoff"}
      PROVE  ProtocolStep(pc, batch, pc', batch')
  BY <1>4
<1>5. CASE StartRun
  BY <1>5 DEF StartRun, toolVars
<1>6. CASE Cancel
  BY <1>1, <1>6 DEF Cancel, toolVars
<1>7. CASE DropRun
  BY <1>2, <1>7 DEF DropRun, EndRun
<1>8. CASE StreamText
  BY <1>1, <1>8 DEF StreamText, runVars, toolVars
<1>9. CASE AnswerOverSocket \/ AnswerOverHttp
  <2>1. PICK text \in BOOLEAN, n \in CallCounts, local \in BOOLEAN :
          TakeAnswer(text, n, local, Outputs(text, n))
    BY <1>9 DEF AnswerOverSocket, AnswerOverHttp
  <2>2. pc = "waiting"
    BY <1>9 DEF AnswerOverSocket, AnswerOverHttp
  <2>3. CASE n = 0
    BY <1>2, <2>1, <2>2, <2>3 DEF TakeAnswer, EndRun
  <2>4. CASE n # 0
    <3>. DEFINE b == [i \in 1..n |-> items + 1 + i]
    <3>1. pc' = "tools" /\ batch' = b
      BY <2>1, <2>4 DEF TakeAnswer
    <3>2. b \in Seq(Nat) /\ b # <<>>
      <4>1. n \in Nat /\ items \in Nat
        BY BoundAssumption DEF CallCounts, ControlTypeOK
      <4>2. b \in Seq(Nat) /\ Len(b) = n
        BY <4>1
      <4>. HIDE DEF b
      <4>. QED
        BY <2>4, <4>2
    <3>. HIDE DEF b
    <3>. QED
      BY <2>2, <3>1, <3>2
  <2>. QED
    BY <2>3, <2>4
<1>10. CASE RetryableFailure
  BY <1>1, <1>2, <1>4, <1>10 DEF RetryableFailure, EndRun, runVars, toolVars
<1>11. CASE FatalFailure
  BY <1>2, <1>11 DEF FatalFailure, EndRun
<1>12. CASE Compact
  BY <1>2, <1>3, <1>12
  DEF Compact, CompactRemotely, CompactLocally, InstallHistory, EndRun, toolVars
<1>13. CASE StartCall \/ BatchReturns
  <2>1. CASE StartCall
    BY <1>2, <2>1 DEF StartCall, EndRun, toolVars
  <2>2. CASE BatchReturns
    <3>1. /\ pc = "calling" /\ Len(batch) \in 1..Len(batch)
          /\ pc' = "turn" /\ batch' = <<>>
      BY <2>2 DEF BatchReturns
    <3>2. SubSeq(batch, Len(batch) + 1, Len(batch)) = <<>>
      OBVIOUS
    <3>. QED
      BY <3>1, <3>2
  <2>. QED
    BY <1>13, <2>1, <2>2
<1>14. CASE CallReturns
  <2>1. /\ pc = "calling" /\ 1 \in 1..Len(batch) /\ pc' \in {"tools", "turn"}
        /\ batch' = Tail(batch)
    BY <1>14 DEF CallReturns, AfterCall
  <2>2. Tail(batch) = SubSeq(batch, 1 + 1, Len(batch))
    BY <2>1, TailIsSubSeq
  <2>. QED
    BY <2>1, <2>2
<1>15. CASE TurnStart
  BY <1>2, <1>3, <1>15 DEF TurnStart, EndRun, toolVars
<1>16. CASE BeginRequest
  BY <1>2, <1>16 DEF BeginRequest, EndRun, toolVars
<1>17. CASE DeadlinePasses
  BY <1>1, <1>2, <1>17 DEF DeadlinePasses, EndRun, runVars, toolVars
<1>18. CASE Backoff
  BY <1>2, <1>4, <1>18 DEF Backoff, EndRun, toolVars
<1>19. CASE UNCHANGED vars
  BY <1>1, <1>19 DEF vars, runVars, toolVars
<1>. QED
  BY <1>5, <1>6, <1>7, <1>8, <1>9, <1>10, <1>11, <1>12, <1>13, <1>14, <1>15, <1>16,
     <1>17, <1>18, <1>19
  DEF Next, Surface, Answer, Failure, Tools

\* run_until_idle implements the protocol: each of its steps is a step of the protocol
\* on the calls that wait for an output, or a stutter of it.
THEOREM RunImplementsProtocol == Spec => ImplementsProtocol
<1>1. ConvoInv => ViewIsBatch
  BY UnansweredIsBatch DEF ViewIsBatch
<1>2. Init => Protocol!Init
  BY DEF Init, Protocol!Init, Turn
<1>3. /\ ControlTypeOK /\ ConvoInv /\ [Next]_vars /\ ViewIsBatch /\ ViewIsBatch'
      => [Protocol!Next]_(Protocol!vars)
  BY NextIsProtocolStep, StepIsProtocolStep
<1>. QED
  BY <1>1, <1>2, <1>3, ControlTypeCorrect, ConvoInvHolds, PTL
  DEF Spec, ImplementsProtocol, Protocol!Spec

----------------------------------------------------------------------------
(* A cancelled run.                                                        *)

OutputPlaces(c) == {i \in 1..Len(c) : c[i].kind = "output"}

\* A thinned history has no more outputs than the history it comes from.
LEMMA ThinnedOutputs ==
  ASSUME NEW c \in Seq(Item), NEW d \in Seq(Item), NEW at, Thinned(d, c, at)
  PROVE  OutputCount(d) <= OutputCount(c)
<1>. DEFINE A == OutputPlaces(d)
            B == OutputPlaces(c)
            f == [k \in A |-> at[k]]
<1>1. Len(c) \in Nat /\ Len(d) \in Nat
  OBVIOUS
<1>2. IsFiniteSet(A) /\ IsFiniteSet(B)
  <2>1. IsFiniteSet(1..Len(c)) /\ IsFiniteSet(1..Len(d))
    BY <1>1, FS_Interval
  <2>2. A \in SUBSET (1..Len(d)) /\ B \in SUBSET (1..Len(c))
    BY DEF OutputPlaces
  <2>. QED
    BY <2>1, <2>2, FS_Subset
<1>3. f \in Injection(A, B)
  <2>1. \A k \in 1..Len(d) : at[k] \in 1..Len(c) /\ d[k].kind = c[at[k]].kind
    BY DEF Thinned
  <2>2. \A k \in A : at[k] \in B
    BY <2>1 DEF OutputPlaces
  <2>3. A \subseteq 1..Len(d)
    BY DEF OutputPlaces
  <2>4. \A k, l \in 1..Len(d) : at[k] = at[l] => k = l
    <3>1. \A k, l \in 1..Len(d) : k < l => at[k] < at[l]
      BY DEF Thinned
    <3>2. \A k \in 1..Len(d) : at[k] \in Nat /\ k \in Nat
      BY <1>1, <2>1
    <3>. QED
      BY <3>1, <3>2
  <2>5. f \in [A -> B] /\ \A k \in A : f[k] = at[k]
    <3>. HIDE DEF A, B
    <3>. QED
      BY <2>2
  <2>6. \A k, l \in A : f[k] = f[l] => k = l
    <3>. HIDE DEF f, A, B
    <3>. QED
      BY <2>3, <2>4, <2>5
  <2>. HIDE DEF f, A, B
  <2>. QED
    BY <2>5, <2>6 DEF Injection, IsInjective
<1>4. Cardinality(A) <= Cardinality(B)
  <2>. HIDE DEF f, A, B
  <2>. QED
    BY <1>2, <1>3, FS_Injection
<1>5. OutputCount(d) = Cardinality(A) /\ OutputCount(c) = Cardinality(B)
  BY DEF OutputCount, OutputPlaces
<1>. QED
  BY <1>4, <1>5

\* Another item, no output, leaves their number.
LEMMA NoOutputAdded ==
  ASSUME NEW c \in Seq(Item), NEW e \in Seq(Item),
         \A i \in 1..Len(e) : e[i].kind # "output"
  PROVE  OutputCount(c \o e) = OutputCount(c)
<1>. DEFINE d == c \o e
<1>1. d \in Seq(Item) /\ Parts(d, c, e)
  BY ConcatParts
<1>. HIDE DEF d
<1>2. \A i \in 1..Len(d) : i \notin 1..Len(c) => d[i].kind # "output"
  BY <1>1 DEF Parts
<1>3. \A i \in 1..Len(c) : d[i] = c[i] /\ i \in 1..Len(d)
  BY <1>1 DEF Parts
<1>4. {i \in 1..Len(d) : d[i].kind = "output"} = {i \in 1..Len(c) : c[i].kind = "output"}
  BY <1>2, <1>3
<1>. QED
  BY <1>4 DEF OutputCount, d

LEMMA CountIsNat ==
  ASSUME NEW c \in Seq(Item)
  PROVE  OutputCount(c) \in Nat
<1>1. Len(c) \in Nat
  OBVIOUS
<1>2. IsFiniteSet(1..Len(c))
  BY <1>1, FS_Interval
<1>. DEFINE A == {i \in 1..Len(c) : c[i].kind = "output"}
<1>3. A \in SUBSET (1..Len(c))
  OBVIOUS
<1>. HIDE DEF A
<1>4. Cardinality(A) \in Nat
  BY <1>2, <1>3, FS_Subset, FS_CardinalityType
<1>. QED
  BY <1>4 DEF OutputCount, A

LEMMA OneItemAdded ==
  ASSUME NEW c \in Seq(Item), NEW item \in Item, item.kind # "output"
  PROVE  OutputCount(Append(c, item)) = OutputCount(c)
<1>1. Append(c, item) = c \o <<item>> /\ <<item>> \in Seq(Item)
  OBVIOUS
<1>2. \A i \in 1..Len(<<item>>) : <<item>>[i].kind # "output"
  OBVIOUS
<1>. DEFINE e == <<item>>
<1>. HIDE DEF e
<1>3. e \in Seq(Item) /\ \A i \in 1..Len(e) : e[i].kind # "output"
  BY <1>1, <1>2 DEF e
<1>4. OutputCount(c \o e) = OutputCount(c)
  BY <1>3, NoOutputAdded
<1>. QED
  BY <1>1, <1>4 DEF e

LEMMA NoticeAddsNoOutput ==
  ASSUME items \in Nat, runs \in Nat, NEW d \in Seq(Item)
  PROVE  /\ WithVerifyNotice(d) \in Seq(Item)
         /\ OutputCount(WithVerifyNotice(d)) <= OutputCount(d)
<1>. DEFINE kept == {i \in 1..Len(d) : d[i].kind # "verify" \/ d[i].cut}
            e == Retained(d, kept)
            notice == NewItem("verify", items + 2)
<1>1. e \in Seq(Item) /\ OutputCount(e) <= OutputCount(d)
  <2>1. \A i \in 1..Len(d) : CallIn(d, i) \/ OutIn(d, i) => i \in kept
    BY DEF CallIn, OutIn
  <2>2. kept \in SUBSET (1..Len(d))
    OBVIOUS
  <2>. HIDE DEF kept
  <2>3. PICK at : Thinned(e, d, at)
    BY <2>1, <2>2, RetainedIsThinned
  <2>4. e \in Seq(Item)
    BY <2>2, RetainedItems
  <2>. QED
    BY <2>3, <2>4, ThinnedOutputs
<1>2. notice \in Item /\ notice.kind = "verify"
  <2>1. items + 2 \in Nat
    OBVIOUS
  <2>. QED
    BY <2>1, NewItemIsItem DEF Kinds
<1>3. WithVerifyNotice(d) \in {Append(e, notice), d}
  BY DEF WithVerifyNotice
<1>. HIDE DEF e, notice
<1>4. OutputCount(Append(e, notice)) = OutputCount(e) /\ Append(e, notice) \in Seq(Item)
  BY <1>1, <1>2, OneItemAdded
<1>5. OutputCount(d) \in Nat
  BY CountIsNat
<1>6. OutputCount(d) <= OutputCount(d)
  BY <1>5
<1>7. CASE WithVerifyNotice(d) = d
  BY <1>6, <1>7
<1>8. CASE WithVerifyNotice(d) = Append(e, notice)
  <2>1. OutputCount(WithVerifyNotice(d)) = OutputCount(e)
    BY <1>4, <1>8
  <2>. QED
    BY <1>1, <1>4, <1>8, <2>1
<1>. QED
  BY <1>3, <1>7, <1>8

LEMMA RemoteHasNoOutput ==
  ASSUME items \in Nat, runs \in Nat, Convo(input, items, runs),
         NEW d \in RemoteReplacements
  PROVE  d \in Seq(Item) /\ OutputCount(d) <= OutputCount(input)
<1>1. d \in Seq(Item) /\ \A i \in 1..Len(d) : d[i].kind # "output"
  BY RemoteIsQuiet DEF OutIn
<1>2. {i \in 1..Len(d) : d[i].kind = "output"} = {}
  BY <1>1
<1>3. OutputCount(d) = 0
  BY <1>2, FS_EmptySet DEF OutputCount
<1>4. OutputCount(input) \in Nat
  BY CountIsNat DEF Convo, Bounded
<1>. QED
  BY <1>1, <1>3, <1>4

LEMMA LocalAddsNoOutput ==
  ASSUME input \in Seq(Item), NEW d \in LocalCuts
  PROVE  d \in Seq(Item) /\ OutputCount(d) <= OutputCount(input)
<1>1. PICK kinds : d = Cut(input, kinds)
  BY DEF LocalCuts
<1>2. d \in Seq(Item) /\ \E at : Thinned(d, input, at)
  BY <1>1, CutItems, CutIsThinned
<1>. QED
  BY <1>2, ThinnedOutputs

LEMMA OutputsAreItems ==
  ASSUME items \in Nat, runs \in Nat, NEW text \in BOOLEAN, NEW n \in Nat
  PROVE  /\ Outputs(text, n) \in Seq(Item)
         /\ \A i \in 1..Len(Outputs(text, n)) : Outputs(text, n)[i].kind # "output"
<1>. DEFINE message == NewItem("assistant", items + 1)
            calls == [i \in 1..n |-> NewItem("call", items + 1 + i)]
            first == IF text THEN <<message>> ELSE <<>>
            e == Outputs(text, n)
<1>1. message \in Item /\ message.kind = "assistant"
  <2>1. items + 1 \in Nat
    OBVIOUS
  <2>. QED
    BY <2>1, NewItemIsItem DEF Kinds
<1>2. calls \in Seq(Item) /\ \A i \in 1..Len(calls) : calls[i].kind = "call"
  <2>1. ASSUME NEW i \in 1..n
        PROVE  NewItem("call", items + 1 + i) \in Item
               /\ NewItem("call", items + 1 + i).kind = "call"
    <3>1. items + 1 + i \in Nat
      OBVIOUS
    <3>. QED
      BY <3>1, NewItemIsItem DEF Kinds
  <2>2. \A i \in 1..n : calls[i] = NewItem("call", items + 1 + i)
    OBVIOUS
  <2>3. calls \in Seq(Item) /\ Len(calls) = n
    BY <2>1
  <2>. QED
    BY <2>1, <2>2, <2>3
<1>3. first \in Seq(Item) /\ \A i \in 1..Len(first) : first[i].kind # "output"
  <2>. HIDE DEF message
  <2>. QED
    BY <1>1
<1>4. e = first \o calls
  BY DEF Outputs
<1>. HIDE DEF first, calls, e
<1>5. e \in Seq(Item) /\ Parts(e, first, calls)
  BY <1>2, <1>3, <1>4, ConcatParts
<1>6. ASSUME NEW i \in 1..Len(e) PROVE e[i].kind # "output"
  <2>1. CASE i \in 1..Len(first)
    BY <1>3, <1>5, <2>1 DEF Parts
  <2>2. CASE i \notin 1..Len(first)
    BY <1>2, <1>5, <2>2 DEF Parts
  <2>. QED
    BY <2>1, <2>2
<1>. QED
  BY <1>5, <1>6 DEF e

\* What a step of a cancelled run does, action by action.
LEMMA CancelledStep ==
  ASSUME ControlTypeOK, ConvoInv, Next, cancelled, pc # "idle"
  PROVE  /\ pc' \in {"compacting", "calling"} => pc' = pc
         /\ pc' = "waiting" => request_seq' = request_seq
         /\ pc # "calling" => OutputCount(input') <= OutputCount(input)
<1>0. /\ items \in Nat /\ runs \in Nat /\ input \in Seq(Item) /\ Convo(input, items, runs)
      /\ OutputCount(input) \in Nat
  BY CountIsNat DEF ControlTypeOK, ConvoInv, Convo, Bounded
<1>. DEFINE Goal == /\ pc' \in {"compacting", "calling"} => pc' = pc
                    /\ pc' = "waiting" => request_seq' = request_seq
                    /\ pc # "calling" => OutputCount(input') <= OutputCount(input)
<1>1. ASSUME input' = input PROVE OutputCount(input') <= OutputCount(input)
  BY <1>0, <1>1
<1>2. CASE Cancel \/ DropRun \/ StreamText \/ RetryableFailure \/ FatalFailure
           \/ DeadlinePasses \/ Backoff
  <2>1. input' = input /\ request_seq' = request_seq
    BY <1>2 DEF Cancel, DropRun, StreamText, RetryableFailure, FatalFailure,
                DeadlinePasses, Backoff, convoVars
  <2>2. pc' \in {"compacting", "calling"} => pc' = pc
    BY <1>2 DEF Cancel, DropRun, StreamText, RetryableFailure, FatalFailure,
                DeadlinePasses, Backoff, EndRun, runVars
  <2>. QED
    BY <1>1, <2>1, <2>2
<1>3. CASE AnswerOverSocket \/ AnswerOverHttp
  <2>1. PICK text \in BOOLEAN, n \in CallCounts, local \in BOOLEAN :
          TakeAnswer(text, n, local, Outputs(text, n))
    BY <1>3 DEF AnswerOverSocket, AnswerOverHttp
  <2>2. n \in Nat
    BY BoundAssumption DEF CallCounts
  <2>3. input' = input \o Outputs(text, n) /\ pc' \in {"idle", "tools"}
    BY <2>1 DEF TakeAnswer, EndRun
  <2>4. OutputCount(input') = OutputCount(input)
    BY <1>0, <2>2, <2>3, OutputsAreItems, NoOutputAdded
  <2>. QED
    BY <1>0, <2>3, <2>4
<1>4. CASE Compact
  <2>1. ASSUME NEW d \in Seq(Item), OutputCount(d) <= OutputCount(input), InstallHistory(d)
        PROVE  OutputCount(input') <= OutputCount(input)
    <3>1. input' = WithVerifyNotice(d)
      BY <2>1 DEF InstallHistory
    <3>2. /\ WithVerifyNotice(d) \in Seq(Item)
          /\ OutputCount(WithVerifyNotice(d)) <= OutputCount(d)
      BY <1>0, NoticeAddsNoOutput
    <3>3. OutputCount(d) \in Nat /\ OutputCount(WithVerifyNotice(d)) \in Nat
      BY <3>2, CountIsNat
    <3>. QED
      BY <1>0, <2>1, <3>1, <3>2, <3>3
  <2>2. ASSUME NEW d \in RemoteReplacements, InstallHistory(d)
        PROVE  OutputCount(input') <= OutputCount(input)
    BY <1>0, <2>1, <2>2, RemoteHasNoOutput
  <2>3. ASSUME NEW d \in LocalCuts, InstallHistory(d)
        PROVE  OutputCount(input') <= OutputCount(input)
    BY <1>0, <2>1, <2>3, LocalAddsNoOutput
  <2>4. pc = "compacting" /\ pc' \in {"ready", "idle"}
    BY <1>4 DEF Compact, CompactRemotely, CompactLocally, InstallHistory, EndRun
  <2>5. OutputCount(input') <= OutputCount(input)
    BY <1>1, <1>4, <2>2, <2>3 DEF Compact, CompactRemotely, CompactLocally, convoVars
  <2>. QED
    BY <2>4, <2>5
<1>5. CASE Tools
  <2>1. CASE StartCall
    <3>1. input' = input /\ pc' = "idle"
      BY <2>1 DEF StartCall, MayRunTools, EndRun, convoVars
    <3>. QED
      BY <1>1, <3>1
  <2>2. CASE BatchReturns \/ CallReturns
    <3>1. pc = "calling" /\ pc' \in {"turn", "tools"}
      BY <2>2 DEF BatchReturns, CallReturns, AfterCall
    <3>. QED
      BY <3>1
  <2>. QED
    BY <1>5, <2>1, <2>2 DEF Tools
<1>6. CASE TurnStart
  <2>1. input' = input /\ pc' = "idle"
    BY <1>6 DEF TurnStart, EndRun, convoVars
  <2>. QED
    BY <1>1, <2>1
<1>7. CASE BeginRequest
  <2>1. pc' = "idle" /\ PushNotice
    BY <1>7 DEF BeginRequest, EndRun
  <2>2. OutputCount(input') <= OutputCount(input)
    <3>1. CASE NoticeDue
      <4>1. input' = Append(input, NewItem("nudge", items + 1))
        BY <2>1, <3>1 DEF PushNotice
      <4>2. items + 1 \in Nat
        BY <1>0
      <4>3. NewItem("nudge", items + 1) \in Item /\ NewItem("nudge", items + 1).kind = "nudge"
        BY <1>0, <4>2, NewItemIsItem DEF Kinds
      <4>. QED
        BY <1>0, <4>1, <4>3, OneItemAdded
    <3>2. CASE ~NoticeDue
      BY <1>1, <2>1, <3>2 DEF PushNotice, convoVars
    <3>. QED
      BY <3>1, <3>2
  <2>. QED
    BY <2>1, <2>2
<1>8. CASE StartRun
  BY <1>8 DEF StartRun
<1>. QED
  BY <1>2, <1>3, <1>4, <1>5, <1>6, <1>7, <1>8 DEF Next, Surface, Answer, Failure

\* A step of a cancelled run starts no compaction, no tool and no new request, and
\* adds no output to the conversation but those of the call that was under way.
THEOREM CancelledRunStartsNothing == Spec => CancelledStartsNothing
<1>1. ControlTypeOK /\ ConvoInv /\ [Next]_vars
        => [cancelled /\ pc # "idle" =>
              /\ pc' \in {"compacting", "calling"} => pc' = pc
              /\ pc' = "waiting" => request_seq' = request_seq
              /\ pc # "calling" => OutputCount(input') <= OutputCount(input)]_vars
  BY CancelledStep
<1>. QED
  BY <1>1, ControlTypeCorrect, ConvoInvHolds, PTL DEF Spec, CancelledStartsNothing

----------------------------------------------------------------------------
(* Types of the client's state.                                            *)

Contexts == [id : Nat, ctx : Seq(Item)]
SocketType == [open : BOOLEAN, queue : Seq(ReplyType(Item)), known : SUBSET Contexts]

LEMMA SocketParts ==
  ASSUME NEW open \in BOOLEAN, NEW queue \in Seq(ReplyType(Item)),
         NEW known \in SUBSET Contexts
  PROVE  [open |-> open, queue |-> queue, known |-> known] \in SocketType
  BY Zenon DEF SocketType

LEMMA SocketFields ==
  ASSUME NEW sock \in SocketType
  PROVE  /\ sock = [open |-> sock.open, queue |-> sock.queue, known |-> sock.known]
         /\ sock.open \in BOOLEAN
         /\ sock.queue \in Seq(ReplyType(Item))
         /\ sock.known \in SUBSET Contexts
  BY Zenon DEF SocketType

LEMMA EmptySocketTypes == NoSocket \in SocketType /\ NewSocket \in SocketType
<1>1. FALSE \in BOOLEAN /\ TRUE \in BOOLEAN /\ {} \in SUBSET Contexts
      /\ <<>> \in Seq(ReplyType(Item))
  OBVIOUS
<1>2. NoSocket = [open |-> FALSE, queue |-> <<>>, known |-> {}]
  BY DEF NoSocket
<1>3. NoSocket \in SocketType
  BY <1>1, <1>2, SocketParts
<1>. DEFINE sock == NoSocket
<1>4. /\ sock = [open |-> sock.open, queue |-> sock.queue, known |-> sock.known]
      /\ sock.queue \in Seq(ReplyType(Item)) /\ sock.known \in SUBSET Contexts
  BY <1>3, SocketFields
<1>5. NewSocket = [sock EXCEPT !.open = TRUE]
  BY DEF NewSocket
<1>. HIDE DEF sock
<1>6. NewSocket = [open |-> TRUE, queue |-> sock.queue, known |-> sock.known]
  BY <1>4, <1>5
<1>7. NewSocket \in SocketType
  BY <1>1, <1>4, <1>6, SocketParts
<1>. QED
  BY <1>3, <1>7

LEMMA ReplyTyped ==
  ASSUME NEW sock \in SocketType, NEW req \in Nat, NEW convo \in Seq(Item),
         NEW previous, NEW start \in Nat
  PROVE  Reply(sock, req, convo, previous, start) \in ReplyType(Item)
<1>. DEFINE new == SubSeq(convo, start + 1, Len(convo))
            reply == Reply(sock, req, convo, previous, start)
<1>1. new \in Seq(Item)
  <2>1. start + 1 \in Int /\ Len(convo) \in Int
        /\ \A i \in (start + 1)..Len(convo) : convo[i] \in Item
    OBVIOUS
  <2>. QED
    BY <2>1, SubSeqProperties
<1>2. ASSUME Resolves(sock, previous)
      PROVE  ContextOf(sock, previous) \o new \in Seq(Item)
  <2>1. \E k \in sock.known : k.id = previous
    BY <1>2 DEF Resolves
  <2>. DEFINE k == CHOOSE k \in sock.known : k.id = previous
  <2>2. k \in sock.known
    BY <2>1
  <2>. HIDE DEF k
  <2>3. k \in Contexts
    BY <2>2, SocketFields
  <2>4. k.ctx \in Seq(Item)
    BY <2>3, Zenon DEF Contexts
  <2>5. ContextOf(sock, previous) = k.ctx
    BY DEF ContextOf, k
  <2>. HIDE DEF new
  <2>. QED
    BY <1>1, <2>4, <2>5
<1>3. \E ok \in BOOLEAN, ctx \in Seq(Item) : reply = [req |-> req, ok |-> ok, ctx |-> ctx]
  <2>1. <<>> \in Seq(Item) /\ TRUE \in BOOLEAN /\ FALSE \in BOOLEAN
    OBVIOUS
  <2>2. CASE previous = NoResponse
    <3>1. reply = [req |-> req, ok |-> TRUE, ctx |-> convo]
      BY <2>2 DEF Reply
    <3>. QED
      BY <2>1, <3>1, Zenon
  <2>3. CASE previous # NoResponse /\ Resolves(sock, previous)
    <3>1. reply = [req |-> req, ok |-> TRUE, ctx |-> ContextOf(sock, previous) \o new]
      BY <2>3 DEF Reply
    <3>. HIDE DEF reply, new
    <3>. QED
      BY <1>2, <2>1, <2>3, <3>1, Zenon
  <2>4. CASE previous # NoResponse /\ ~Resolves(sock, previous)
    <3>1. reply = [req |-> req, ok |-> FALSE, ctx |-> <<>>]
      BY <2>4 DEF Reply
    <3>. QED
      BY <2>1, <3>1, Zenon
  <2>. QED
    BY <2>2, <2>3, <2>4
<1>. HIDE DEF reply
<1>4. PICK ok \in BOOLEAN, ctx \in Seq(Item) : reply = [req |-> req, ok |-> ok, ctx |-> ctx]
  BY <1>3
<1>5. reply \in ReplyType(Item)
  BY <1>4, Zenon DEF ReplyType
<1>. QED
  BY <1>5 DEF reply

\* What each step does to the socket leaves it one.
LEMMA ConnectedTyped == socket \in SocketType => Connected \in SocketType
  BY EmptySocketTypes DEF Connected

LEMMA SendTyped ==
  ASSUME socket \in SocketType, wire \in Nat,
         NEW convo \in Seq(Item), NEW previous, NEW start \in Nat,
         Send(convo, previous, start)
  PROVE  socket' \in SocketType
<1>. DEFINE sock == Connected
            reply == Reply(Connected, wire + 1, convo, previous, start)
            queue == Append(sock.queue, reply)
<1>1. sock \in SocketType
  BY ConnectedTyped
<1>2. reply \in ReplyType(Item)
  <2>1. wire + 1 \in Nat
    OBVIOUS
  <2>. QED
    BY <1>1, <2>1, ReplyTyped
<1>3. socket' = IF websocket_enabled THEN [sock EXCEPT !.queue = queue] ELSE socket
  BY DEF Send
<1>. HIDE DEF sock, reply
<1>4. /\ sock = [open |-> sock.open, queue |-> sock.queue, known |-> sock.known]
      /\ sock.open \in BOOLEAN /\ sock.queue \in Seq(ReplyType(Item))
      /\ sock.known \in SUBSET Contexts
  BY <1>1, SocketFields
<1>5. queue \in Seq(ReplyType(Item))
  BY <1>2, <1>4
<1>. HIDE DEF queue
<1>6. [sock EXCEPT !.queue = queue]
        = [open |-> sock.open, queue |-> queue, known |-> sock.known]
  BY <1>4
<1>7. [sock EXCEPT !.queue = queue] \in SocketType
  BY <1>4, <1>5, <1>6, SocketParts
<1>. QED
  BY <1>3, <1>7

LEMMA ReadTyped ==
  ASSUME socket \in SocketType, HasReply, NEW outputs \in Seq(Item), ReadReply(outputs)
  PROVE  socket' \in SocketType /\ NextReply.req \in Nat
<1>. DEFINE context == [id |-> NextReply.req, ctx |-> NextReply.ctx \o outputs]
            queue == Tail(socket.queue)
            known == socket.known \cup {context}
            reply == NextReply
<1>1. /\ socket = [open |-> socket.open, queue |-> socket.queue, known |-> socket.known]
      /\ socket.open \in BOOLEAN /\ socket.queue \in Seq(ReplyType(Item))
      /\ socket.known \in SUBSET Contexts
  BY SocketFields
<1>2. reply \in ReplyType(Item) /\ queue \in Seq(ReplyType(Item))
  BY <1>1 DEF HasReply, NextReply
<1>3. socket' = [socket EXCEPT !.queue = queue, !.known = known]
  BY DEF ReadReply
<1>. HIDE DEF reply, queue
<1>4. reply.req \in Nat /\ reply.ctx \in Seq(Item)
  BY <1>2, Zenon DEF ReplyType
<1>5. context = [id |-> reply.req, ctx |-> reply.ctx \o outputs]
  BY DEF reply
<1>6. reply.ctx \o outputs \in Seq(Item)
  BY <1>4
<1>7. context \in Contexts
  <2>. DEFINE ctx == reply.ctx \o outputs
  <2>. HIDE DEF ctx, context
  <2>1. context = [id |-> reply.req, ctx |-> ctx] /\ ctx \in Seq(Item)
    BY <1>5, <1>6 DEF ctx
  <2>. QED
    BY <1>4, <2>1, Zenon DEF Contexts
<1>. HIDE DEF context
<1>8. known \in SUBSET Contexts
  BY <1>1, <1>7
<1>. HIDE DEF known
<1>9. socket' = [open |-> socket.open, queue |-> queue, known |-> known]
  BY <1>1, <1>3
<1>10. [open |-> socket.open, queue |-> queue, known |-> known] \in SocketType
  BY <1>1, <1>2, <1>8, SocketParts
<1>11. reply = NextReply
  BY DEF reply
<1>. QED
  BY <1>4, <1>9, <1>10, <1>11

ClientInv ==
  /\ socket \in SocketType
  /\ previous_response_id \in Nat /\ continuation_input_start \in Nat

LEMMA InitClient == Init => ClientInv
  BY EmptySocketTypes DEF Init, ClientInit, ClientInv, NoResponse

\* Every action keeps the types of the socket and of the chain.
LEMMA NextClient ==
  ASSUME ControlTypeOK, ConvoInv, ConvoInv', ClientInv, [Next]_vars
  PROVE  ClientInv'
<1>0. /\ socket \in SocketType /\ NoSocket \in SocketType /\ wire \in Nat
      /\ previous_response_id \in Nat /\ continuation_input_start \in Nat
      /\ items \in Nat /\ runs \in Nat /\ input \in Seq(Item) /\ NoResponse \in Nat
  BY EmptySocketTypes DEF ControlTypeOK, ClientInv, ConvoInv, Convo, Bounded, NoResponse
<1>a. input' \in Seq(Item) /\ Len(input') \in Nat
  BY DEF ConvoInv, Convo, Bounded
<1>1. ASSUME UNCHANGED chainVars \/ ChainBroken,
             socket' \in SocketType
      PROVE  ClientInv'
  BY <1>0, <1>1 DEF chainVars, ChainBroken, ClientInv
<1>2. CASE StartRun
  BY <1>0, <1>1, <1>2 DEF StartRun, clientVars, ChainBroken
<1>3. CASE Cancel
  BY <1>0, <1>1, <1>3 DEF Cancel, clientVars
<1>4. CASE DropRun
  BY <1>0, <1>1, <1>4 DEF DropRun, DropSocket
<1>5. CASE StreamText
  BY <1>0, <1>1, <1>5 DEF StreamText, clientVars
<1>6. CASE AnswerOverSocket
  <2>1. PICK text \in BOOLEAN, n \in CallCounts : HasReply /\ ReadReply(Outputs(text, n))
    BY <1>6 DEF AnswerOverSocket
  <2>2. n \in Nat
    BY BoundAssumption DEF CallCounts
  <2>3. Outputs(text, n) \in Seq(Item)
    BY <1>0, <2>2, OutputsAreItems
  <2>4. socket' \in SocketType /\ NextReply.req \in Nat
    BY <1>0, <2>1, <2>3, ReadTyped
  <2>5. previous_response_id' = NextReply.req /\ continuation_input_start' = Len(input')
    BY <1>6 DEF AnswerOverSocket, ChainedUpTo
  <2>. QED
    BY <1>a, <2>4, <2>5 DEF ClientInv
<1>7. CASE AnswerOverHttp
  BY <1>0, <1>1, <1>7 DEF AnswerOverHttp, clientVars, ChainBroken
<1>8. CASE RetryableFailure
  BY <1>0, <1>1, <1>8 DEF RetryableFailure, clientVars, DropSocket, ResendOverHttp
<1>9. CASE FatalFailure
  BY <1>0, <1>1, <1>9 DEF FatalFailure, DropSocket
<1>10. CASE Compact
  <2>1. CompactionTransport /\ (UNCHANGED chainVars \/ ChainBroken)
    BY <1>10 DEF Compact, CompactRemotely, CompactLocally, InstallHistory
  <2>2. socket' \in SocketType
    <3>1. CASE HasReply /\ ReadReply(<<>>)
      <4>1. <<>> \in Seq(Item)
        OBVIOUS
      <4>. QED
        BY <1>0, <3>1, <4>1, ReadTyped
    <3>2. CASE ResendOverHttp
      BY <1>0, <3>2 DEF ResendOverHttp
    <3>3. CASE UNCHANGED clientVars
      BY <1>0, <3>3 DEF clientVars
    <3>. QED
      BY <2>1, <3>1, <3>2, <3>3 DEF CompactionTransport
  <2>. QED
    BY <1>1, <2>1, <2>2
<1>11. CASE Tools
  BY <1>0, <1>1, <1>11 DEF Tools, StartCall, BatchReturns, CallReturns, clientVars
<1>12. CASE TurnStart
  <2>1. UNCHANGED chainVars /\ (UNCHANGED clientVars \/ Send(input, NoResponse, 0))
    BY <1>12 DEF TurnStart
  <2>2. 0 \in Nat
    OBVIOUS
  <2>3. socket' \in SocketType
    BY <1>0, <2>1, <2>2, SendTyped DEF clientVars
  <2>. QED
    BY <1>1, <2>1, <2>3
<1>13. CASE BeginRequest
  <2>1. /\ UNCHANGED chainVars
        /\ \/ UNCHANGED clientVars
           \/ Send(input', previous_response_id, continuation_input_start)
    BY <1>13 DEF BeginRequest
  <2>2. socket' \in SocketType
    BY <1>0, <1>a, <2>1, SendTyped DEF clientVars
  <2>. QED
    BY <1>1, <2>1, <2>2
<1>14. CASE DeadlinePasses
  BY <1>0, <1>1, <1>14 DEF DeadlinePasses, clientVars, ResendOverHttp
<1>15. CASE Backoff
  <2>1. /\ UNCHANGED chainVars
        /\ \/ UNCHANGED clientVars
           \/ Send(input, previous_response_id, continuation_input_start)
    BY <1>15 DEF Backoff
  <2>2. socket' \in SocketType
    BY <1>0, <2>1, SendTyped DEF clientVars
  <2>. QED
    BY <1>1, <2>1, <2>2
<1>16. CASE UNCHANGED vars
  BY <1>0, <1>1, <1>16 DEF vars, clientVars
<1>. QED
  BY <1>2, <1>3, <1>4, <1>5, <1>6, <1>7, <1>8, <1>9, <1>10, <1>11, <1>12, <1>13,
     <1>14, <1>15, <1>16
  DEF Next, Surface, Answer, Failure

LEMMA ClientInvHolds == Spec => []ClientInv
<1>1. ControlTypeOK /\ ConvoInv /\ ConvoInv' /\ ClientInv /\ [Next]_vars => ClientInv'
  BY NextClient
<1>. QED
  BY <1>1, InitClient, ControlTypeCorrect, ConvoInvHolds, PTL DEF Spec

\* The whole state of runner and client keeps its types: a history is rebuilt from items
\* only, whatever is cut out of it, and so is what the far end remembers.
THEOREM TypeCorrect == Spec => []TypeOK
<1>1. FlagsTypeOK /\ ControlTypeOK /\ ConvoInv /\ ClientInv => TypeOK
  BY Zenon DEF TypeOK, FlagsTypeOK, ControlTypeOK, ConvoInv, Convo, Bounded, ClientInv,
               ClientTypeOK, SocketType, Contexts
<1>. QED
  BY <1>1, FlagsType, ControlTypeCorrect, ConvoInvHolds, ClientInvHolds, PTL

----------------------------------------------------------------------------
(* What the far end continues from.                                        *)

\* The context kept under a response is the conversation up to its answer.
Continues(known, previous, start, convo) ==
  /\ start \in 0..Len(convo)
  /\ previous # NoResponse =>
       \A k \in known : k.id = previous => k.ctx = SubSeq(convo, 1, start)

\* Every response has one context, older than the request whose reply is not read yet.
KnownInv ==
  /\ \A k, l \in socket.known : k.id = l.id => k = l
  /\ \A k \in socket.known : k.id <= wire /\ (socket.queue # <<>> => k.id < wire)
  /\ previous_response_id <= wire
  /\ pc \in {"waiting", "compacting"} => previous_response_id < wire
  /\ ~websocket_enabled => socket.queue = <<>>

ChainInv ==
  /\ KnownInv
  /\ Continues(socket.known, previous_response_id, continuation_input_start, input)
  /\ ServerSeesConversation

\* More conversation, and contexts of other responses, change nothing.
LEMMA ContinuesLonger ==
  ASSUME NEW known, NEW previous, NEW start, NEW c \in Seq(Item), NEW e \in Seq(Item),
         Continues(known, previous, start, c),
         NEW learned, \A k \in learned : k.id = previous => k \in known
  PROVE  Continues(learned, previous, start, c \o e)
<1>. DEFINE d == c \o e
<1>1. d \in Seq(Item) /\ Parts(d, c, e)
  BY ConcatParts
<1>. HIDE DEF d
<1>2. start \in 0..Len(c) /\ Len(c) \in Nat /\ Len(d) \in Nat /\ Len(c) <= Len(d)
      /\ Len(e) \in Nat
  BY <1>1 DEF Continues, Parts
<1>3. SubSeq(d, 1, start) = SubSeq(c, 1, start)
  <2>1. start \in Int /\ \A i \in 1..start : i \in 1..Len(c) /\ i \in 1..Len(d)
    BY <1>2
  <2>2. \A i \in 1..start : c[i] \in Item /\ d[i] \in Item /\ d[i] = c[i]
    BY <1>1, <2>1 DEF Parts
  <2>3. 1 \in Int /\ start - 1 + 1 = start /\ (1 <= start => start - 1 + 1 = start)
        /\ (~(1 <= start) => start = 0)
    BY <1>2
  <2>4. /\ SubSeq(d, 1, start) \in Seq(Item) /\ SubSeq(c, 1, start) \in Seq(Item)
        /\ Len(SubSeq(d, 1, start)) = start /\ Len(SubSeq(c, 1, start)) = start
        /\ \A i \in 1..start : SubSeq(d, 1, start)[i] = d[1 + i - 1]
        /\ \A i \in 1..start : SubSeq(c, 1, start)[i] = c[1 + i - 1]
    BY <2>1, <2>2, <2>3, SubSeqProperties
  <2>5. \A i \in 1..start : 1 + i - 1 = i
    BY <2>1
  <2>6. \A i \in 1..Len(SubSeq(d, 1, start)) :
          SubSeq(d, 1, start)[i] = SubSeq(c, 1, start)[i]
    BY <2>2, <2>4, <2>5
  <2>. QED
    BY <2>4, <2>6, SeqEqual
<1>4. start \in 0..Len(d)
  BY <1>2
<1>5. previous # NoResponse =>
         \A k \in learned : k.id = previous => k.ctx = SubSeq(d, 1, start)
  BY <1>3 DEF Continues
<1>. QED
  BY <1>4, <1>5 DEF Continues, d

\* The reply to a request that continues a context is about the whole conversation.
LEMMA ReplySeesConversation ==
  ASSUME NEW sock, NEW req, NEW previous, NEW start, NEW convo \in Seq(Item),
         Continues(sock.known, previous, start, convo),
         Reply(sock, req, convo, previous, start).ok
  PROVE  Reply(sock, req, convo, previous, start).ctx = convo
<1>. DEFINE new == SubSeq(convo, start + 1, Len(convo))
            reply == Reply(sock, req, convo, previous, start)
<1>1. CASE previous = NoResponse
  BY <1>1 DEF Reply
<1>2. CASE previous # NoResponse /\ Resolves(sock, previous)
  <2>1. \E k \in sock.known : k.id = previous
    BY <1>2 DEF Resolves
  <2>. DEFINE k == CHOOSE k \in sock.known : k.id = previous
  <2>2. k \in sock.known /\ k.id = previous
    BY <2>1
  <2>3. ContextOf(sock, previous) = k.ctx
    BY DEF ContextOf
  <2>. HIDE DEF k
  <2>4. k.ctx = SubSeq(convo, 1, start) /\ start \in 0..Len(convo)
    BY <1>2, <2>2 DEF Continues
  <2>5. SubSeq(convo, 1, start) \o SubSeq(convo, start + 1, Len(convo)) = convo
    <3>1. /\ 1 \in 1..(Len(convo) + 1) /\ start \in (1 - 1)..Len(convo)
          /\ Len(convo) \in start..Len(convo)
      BY <2>4
    <3>. QED
      BY <3>1, ConcatAdjacentSubSeq, SubSeqFull
  <2>6. reply = [req |-> req, ok |-> TRUE, ctx |-> ContextOf(sock, previous) \o new]
    BY <1>2 DEF Reply
  <2>7. reply.ctx = ContextOf(sock, previous) \o new
    <3>. DEFINE whole == ContextOf(sock, previous) \o new
    <3>. HIDE DEF whole, reply
    <3>1. reply = [req |-> req, ok |-> TRUE, ctx |-> whole]
      BY <2>6 DEF whole
    <3>. QED
      BY <3>1 DEF whole
  <2>. QED
    BY <2>3, <2>4, <2>5, <2>7
<1>3. CASE previous # NoResponse /\ ~Resolves(sock, previous)
  <2>1. reply = [req |-> req, ok |-> FALSE, ctx |-> <<>>]
    BY <1>3 DEF Reply
  <2>2. reply.ok = FALSE
    BY <2>1
  <2>. QED
    BY <2>2
<1>. QED
  BY <1>1, <1>2, <1>3

\* What a request on a quiet socket leaves there.
LEMMA SendLeavesReply ==
  ASSUME NEW convo, NEW previous, NEW start, Send(convo, previous, start),
         SocketShape, ~socket.open => socket.queue = <<>>,
         websocket_enabled => socket.queue = <<>>
  PROVE  /\ ~websocket_enabled => UNCHANGED socket
         /\ websocket_enabled =>
              /\ socket'.queue = <<Reply(Connected, wire + 1, convo, previous, start)>>
              /\ socket'.known = Connected.known
         /\ Connected.known \subseteq socket.known
<1>1. ~websocket_enabled => UNCHANGED socket
  BY DEF Send
<1>2. Connected.open /\ (websocket_enabled => Connected.queue = <<>>)
      /\ Connected = [open |-> Connected.open, queue |-> Connected.queue,
                      known |-> Connected.known]
      /\ Connected.known \subseteq socket.known
  BY DEF Connected, NewSocket, NoSocket, SocketShape
<1>. DEFINE reply == Reply(Connected, wire + 1, convo, previous, start)
            sock == Connected
<1>3. CASE websocket_enabled
  <2>1. socket' = [sock EXCEPT !.queue = Append(@, reply)]
    BY <1>3 DEF Send
  <2>. HIDE DEF reply, sock
  <2>2. sock.queue = <<>> /\ sock = [open |-> sock.open, queue |-> sock.queue,
                                     known |-> sock.known]
    BY <1>2, <1>3 DEF sock
  <2>3. Append(sock.queue, reply) = <<reply>>
    BY <2>2
  <2>4. socket' = [open |-> sock.open, queue |-> <<reply>>, known |-> sock.known]
    BY <2>1, <2>2, <2>3
  <2>5. socket'.queue = <<reply>> /\ socket'.known = sock.known
    BY <2>4
  <2>. QED
    BY <1>2, <1>3, <2>5 DEF reply, sock
<1>. QED
  BY <1>1, <1>2, <1>3

LEMMA InitChain == Init => ChainInv
<1>. SUFFICES ASSUME Init PROVE ChainInv
  OBVIOUS
<1>1. /\ socket.known = {} /\ socket.queue = <<>> /\ previous_response_id = 0 /\ wire = 0
      /\ continuation_input_start = 0 /\ input = <<>> /\ pc = "idle" /\ websocket_enabled
  BY DEF Init, ClientInit, NoSocket, NoResponse
<1>2. KnownInv
  BY <1>1 DEF KnownInv
<1>3. Continues({}, 0, 0, <<>>)
  BY DEF Continues
<1>4. ServerSeesConversation
  BY <1>1 DEF ServerSeesConversation
<1>. QED
  BY <1>1, <1>2, <1>3, <1>4 DEF ChainInv

\* Steps that send and read nothing: the conversation may grow where no request is out.
LEMMA SilentStep ==
  ASSUME ChainInv, input \in Seq(Item), UNCHANGED <<clientVars, chainVars>>,
         \/ input' = input /\ (pc' = pc \/ pc' \notin {"waiting", "compacting"})
         \/ /\ pc' \notin {"waiting", "compacting"}
            /\ \E e \in Seq(Item) : input' = input \o e
  PROVE  ChainInv'
<1>1. /\ socket' = socket /\ wire' = wire /\ websocket_enabled' = websocket_enabled
      /\ previous_response_id' = previous_response_id
      /\ continuation_input_start' = continuation_input_start
      /\ pc' \in {"waiting", "compacting"} => pc' = pc /\ input' = input
  BY DEF clientVars, chainVars
<1>2. KnownInv'
  BY <1>1 DEF ChainInv, KnownInv
<1>3. Continues(socket.known, previous_response_id, continuation_input_start, input')
  BY ContinuesLonger DEF ChainInv
<1>4. ServerSeesConversation'
  BY <1>1 DEF ChainInv, ServerSeesConversation
<1>. QED
  BY <1>1, <1>2, <1>3, <1>4 DEF ChainInv

\* Steps that drop the socket.
LEMMA DroppingStep ==
  ASSUME ChainInv, wire \in Nat, previous_response_id \in Nat,
         UNCHANGED <<chainVars, input>>, socket' = NoSocket,
         wire' \in {wire, wire + 1},
         pc' = pc \/ pc' \notin {"waiting", "compacting"}
  PROVE  ChainInv'
<1>1. /\ socket'.known = {} /\ socket'.queue = <<>> /\ input' = input
      /\ previous_response_id' = previous_response_id
      /\ continuation_input_start' = continuation_input_start
  BY DEF NoSocket, chainVars
<1>2. KnownInv'
  BY <1>1 DEF ChainInv, KnownInv
<1>3. Continues({}, previous_response_id, continuation_input_start, input)
  BY DEF ChainInv, Continues
<1>4. ServerSeesConversation'
  <2>1. 1..Len(<<>>) = {}
    OBVIOUS
  <2>. QED
    BY <1>1, <2>1 DEF ServerSeesConversation
<1>. QED
  BY <1>1, <1>2, <1>3, <1>4 DEF ChainInv

\* Steps that break the chain.
LEMMA BreakingStep ==
  ASSUME ChainBroken, KnownInv', input' \in Seq(Item), pc' # "waiting"
  PROVE  ChainInv'
<1>1. Continues(socket'.known, previous_response_id', continuation_input_start', input')
  BY DEF Continues, ChainBroken
<1>. QED
  BY <1>1 DEF ChainInv, ServerSeesConversation

LEMMA SendStep ==
  ASSUME ReplyInv, ChainInv, wire \in Nat, previous_response_id \in Nat,
         socket \in SocketType, UNCHANGED chainVars, input' \in Seq(Item),
         pc \in {"turn", "ready", "backoff"}, pc' \in {"waiting", "compacting"},
         Continues(socket.known, previous_response_id, continuation_input_start, input'),
         NEW previous, NEW start, Send(input', previous, start),
         \/ pc' = "compacting"
         \/ previous = previous_response_id /\ start = continuation_input_start
  PROVE  ChainInv'
<1>. DEFINE reply == Reply(Connected, wire + 1, input', previous, start)
<1>1. /\ previous_response_id' = previous_response_id
      /\ continuation_input_start' = continuation_input_start
  BY DEF chainVars
<1>2. wire' = wire + 1 /\ websocket_enabled' = websocket_enabled
  BY SendCounts
<1>3. /\ ~websocket_enabled => socket' = socket
      /\ websocket_enabled => socket'.queue = <<reply>> /\ socket'.known = Connected.known
      /\ Connected.known \subseteq socket.known
  <2>1. /\ SocketShape /\ (~socket.open => socket.queue = <<>>)
        /\ (websocket_enabled => socket.queue = <<>>)
    BY DEF ReplyInv
  <2>. QED
    BY <2>1, SendLeavesReply
<1>. HIDE DEF reply
<1>4. socket'.known \subseteq socket.known
  BY <1>3
<1>5. \A k \in socket.known : k.id \in Nat
  <2>1. \A k \in socket.known : k \in Contexts
    BY SocketFields
  <2>. QED
    BY <2>1, Zenon DEF Contexts
<1>6. ~websocket_enabled => socket.queue = <<>>
  BY DEF ChainInv, KnownInv
<1>7. KnownInv'
  <2>1. \A k, l \in socket'.known : k.id = l.id => k = l
    BY <1>4 DEF ChainInv, KnownInv
  <2>2. \A k \in socket'.known : k.id <= wire' /\ k.id < wire'
    <3>1. \A k \in socket.known : k.id <= wire
      BY DEF ChainInv, KnownInv
    <3>. QED
      BY <1>2, <1>4, <1>5, <3>1
  <2>3. previous_response_id' < wire'
    BY <1>1, <1>2 DEF ChainInv, KnownInv
  <2>4. previous_response_id' <= wire'
    BY <1>1, <1>2 DEF ChainInv, KnownInv
  <2>5. ~websocket_enabled' => socket'.queue = <<>>
    BY <1>2, <1>3, <1>6
  <2>. QED
    BY <2>1, <2>2, <2>3, <2>4, <2>5 DEF KnownInv
<1>8. Continues(socket'.known, previous_response_id, continuation_input_start, input')
  BY <1>4 DEF Continues
<1>9. ASSUME pc' = "waiting", NEW i \in 1..Len(socket'.queue),
             socket'.queue[i].req = wire', socket'.queue[i].ok
      PROVE  socket'.queue[i].ctx = input'
  <2>1. CASE websocket_enabled
    <3>1. socket'.queue[i] = reply
      <4>1. socket'.queue = <<reply>> /\ i = 1
        BY <1>3, <1>9, <2>1
      <4>. QED
        BY <4>1
    <3>2. previous = previous_response_id /\ start = continuation_input_start
      BY <1>9
    <3>3. Continues(Connected.known, previous, start, input')
      BY <1>3, <3>2 DEF Continues
    <3>4. Reply(Connected, wire + 1, input', previous, start).ok
      BY <1>9, <3>1 DEF reply
    <3>5. Reply(Connected, wire + 1, input', previous, start).ctx = input'
      BY <3>3, <3>4, ReplySeesConversation
    <3>. QED
      BY <3>1, <3>5 DEF reply
  <2>2. CASE ~websocket_enabled
    <3>1. socket'.queue = <<>>
      BY <1>3, <1>6, <2>2
    <3>2. 1..Len(<<>>) = {}
      OBVIOUS
    <3>. QED
      BY <1>9, <3>1, <3>2
  <2>. QED
    BY <2>1, <2>2
<1>. QED
  BY <1>1, <1>7, <1>8, <1>9 DEF ChainInv, ServerSeesConversation

\* The reply that is read is the one to the request that is out.
LEMMA ReadLearns ==
  ASSUME ReplyInv, ChainInv, wire \in Nat, socket \in SocketType,
         pc \in {"waiting", "compacting"}, websocket_enabled,
         NEW outputs, ReadReply(outputs), UNCHANGED <<websocket_enabled, wire>>
  PROVE  /\ socket'.queue = <<>> /\ NextReply.req = wire
         /\ socket'.known = socket.known \cup {[id |-> wire, ctx |-> NextReply.ctx \o outputs]}
         /\ \A k \in socket.known : k.id \in Nat /\ k.id < wire
         /\ pc = "waiting" /\ NextReply.ok => NextReply.ctx = input
<1>1. PICK reply : socket.queue = <<reply>> /\ reply.req = wire
  BY DEF ReplyInv
<1>2. NextReply = reply
  BY <1>1 DEF NextReply
<1>. DEFINE known == socket.known \cup {[id |-> NextReply.req, ctx |-> NextReply.ctx \o outputs]}
<1>3. socket' = [socket EXCEPT !.queue = Tail(@), !.known = known]
  BY DEF ReadReply
<1>. HIDE DEF known
<1>4. socket = [open |-> socket.open, queue |-> socket.queue, known |-> socket.known]
  BY SocketFields
<1>5. Tail(socket.queue) = <<>>
  BY <1>1
<1>6. socket' = [open |-> socket.open, queue |-> <<>>, known |-> known]
  BY <1>3, <1>4, <1>5
<1>7. socket'.queue = <<>> /\ socket'.known = known
  BY <1>6
<1>8. \A k \in socket.known : k.id \in Nat
  <2>1. \A k \in socket.known : k \in Contexts
    BY SocketFields
  <2>. QED
    BY <2>1, Zenon DEF Contexts
<1>9. \A k \in socket.known : k.id < wire
  <2>1. socket.queue # <<>>
    BY <1>1
  <2>. QED
    BY <2>1 DEF ChainInv, KnownInv
<1>10. pc = "waiting" /\ NextReply.ok => NextReply.ctx = input
  <2>1. 1 \in 1..Len(socket.queue) /\ socket.queue[1] = reply
    BY <1>1
  <2>. QED
    BY <1>1, <1>2, <2>1 DEF ChainInv, ServerSeesConversation
<1>. QED
  BY <1>1, <1>2, <1>7, <1>8, <1>9, <1>10 DEF known

LEMMA AnswerStep ==
  ASSUME ReplyInv, ChainInv, wire \in Nat, socket \in SocketType,
         input \in Seq(Item), items \in Nat, runs \in Nat, AnswerOverSocket
  PROVE  ChainInv'
<1>1. PICK text \in BOOLEAN, n \in CallCounts, local \in BOOLEAN :
        /\ TakeAnswer(text, n, local, Outputs(text, n))
        /\ ReadReply(Outputs(text, n))
  BY DEF AnswerOverSocket
<1>. DEFINE outs == Outputs(text, n)
            new == [id |-> wire, ctx |-> NextReply.ctx \o outs]
<1>2. /\ pc = "waiting" /\ websocket_enabled /\ NextReply.ok
      /\ wire' = wire /\ websocket_enabled' = websocket_enabled
      /\ previous_response_id' = NextReply.req /\ continuation_input_start' = Len(input')
  BY DEF AnswerOverSocket, ChainedUpTo
<1>3. outs \in Seq(Item)
  <2>1. n \in Nat
    BY BoundAssumption DEF CallCounts
  <2>. QED
    BY <2>1, OutputsAreItems
<1>4. input' = input \o outs /\ pc' \in {"idle", "tools"}
  BY <1>1 DEF TakeAnswer, EndRun
<1>5. /\ socket'.queue = <<>> /\ NextReply.req = wire
      /\ socket'.known = socket.known \cup {new}
      /\ \A k \in socket.known : k.id \in Nat /\ k.id < wire
      /\ NextReply.ctx = input
  BY <1>1, <1>2, ReadLearns
<1>6. new.id = wire /\ new.ctx = input' /\ input' \in Seq(Item)
  <2>1. input' \in Seq(Item)
    BY <1>3, <1>4
  <2>2. new = [id |-> wire, ctx |-> input']
    BY <1>4, <1>5
  <2>. QED
    BY <2>1, <2>2
<1>. HIDE DEF outs, new
<1>7. KnownInv'
  <2>1. ASSUME NEW k \in socket'.known, NEW l \in socket'.known, k.id = l.id PROVE k = l
    <3>1. CASE k \in socket.known /\ l \in socket.known
      BY <2>1, <3>1 DEF ChainInv, KnownInv
    <3>2. CASE k = new /\ l = new
      BY <3>2
    <3>3. \A x \in socket.known : x.id # new.id
      BY <1>5, <1>6
    <3>. QED
      BY <1>5, <2>1, <3>1, <3>2, <3>3
  <2>2. \A k \in socket'.known : k.id <= wire'
    BY <1>2, <1>5, <1>6
  <2>3. previous_response_id' <= wire' /\ pc' \notin {"waiting", "compacting"}
    BY <1>2, <1>4, <1>5
  <2>. QED
    BY <1>5, <2>1, <2>2, <2>3 DEF KnownInv
<1>8. Continues(socket'.known, previous_response_id', continuation_input_start', input')
  <2>1. continuation_input_start' = Len(input') /\ Len(input') \in 0..Len(input')
    BY <1>2, <1>6
  <2>2. \A k \in socket'.known : k.id = previous_response_id' => k = new
    BY <1>2, <1>5
  <2>3. SubSeq(input', 1, Len(input')) = input'
    BY <1>6, SubSeqFull
  <2>. QED
    BY <1>6, <2>1, <2>2, <2>3 DEF Continues
<1>9. ServerSeesConversation'
  BY <1>4 DEF ServerSeesConversation
<1>. QED
  BY <1>7, <1>8, <1>9 DEF ChainInv

LEMMA CompactStep ==
  ASSUME ReplyInv, ChainInv, wire \in Nat, socket \in SocketType,
         previous_response_id \in Nat, input \in Seq(Item), input' \in Seq(Item), Compact
  PROVE  ChainInv'
<1>1. /\ pc = "compacting" /\ CompactionTransport /\ pc' \in {"ready", "idle"}
      /\ \/ ChainBroken
         \/ UNCHANGED <<chainVars, input>>
  BY DEF Compact, CompactRemotely, CompactLocally, InstallHistory, EndRun, convoVars
<1>2. CASE UNCHANGED clientVars
  <2>1. socket' = socket /\ wire' = wire /\ websocket_enabled' = websocket_enabled
    BY <1>2 DEF clientVars
  <2>2. CASE ChainBroken
    <3>1. KnownInv'
      BY <1>1, <2>1, <2>2 DEF ChainInv, KnownInv, ChainBroken, NoResponse
    <3>. QED
      BY <1>1, <2>2, <3>1, BreakingStep
  <2>3. CASE UNCHANGED <<chainVars, input>>
    BY <1>1, <1>2, <2>3, SilentStep
  <2>. QED
    BY <1>1, <2>2, <2>3
<1>3. CASE ResendOverHttp
  <2>1. /\ socket' = NoSocket /\ wire' = wire + 1
        /\ socket'.known = {} /\ socket'.queue = <<>>
    BY <1>3 DEF ResendOverHttp, NoSocket
  <2>2. CASE ChainBroken
    <3>1. KnownInv'
      BY <1>1, <2>1, <2>2 DEF KnownInv, ChainBroken, NoResponse
    <3>. QED
      BY <1>1, <2>2, <3>1, BreakingStep
  <2>3. CASE UNCHANGED <<chainVars, input>>
    BY <1>1, <2>1, <2>3, DroppingStep
  <2>. QED
    BY <1>1, <2>2, <2>3
<1>4. CASE websocket_enabled /\ ReadReply(<<>>) /\ UNCHANGED <<websocket_enabled, wire>>
  <2>. DEFINE new == [id |-> wire, ctx |-> NextReply.ctx \o <<>>]
  <2>1. /\ socket'.queue = <<>> /\ socket'.known = socket.known \cup {new}
        /\ \A k \in socket.known : k.id \in Nat /\ k.id < wire
    BY <1>1, <1>4, ReadLearns
  <2>2. new.id = wire
    OBVIOUS
  <2>. HIDE DEF new
  <2>3. ASSUME previous_response_id' <= wire PROVE KnownInv'
    <3>1. ASSUME NEW k \in socket'.known, NEW l \in socket'.known, k.id = l.id PROVE k = l
      <4>1. CASE k \in socket.known /\ l \in socket.known
        BY <3>1, <4>1 DEF ChainInv, KnownInv
      <4>2. CASE k = new /\ l = new
        BY <4>2
      <4>3. \A x \in socket.known : x.id # new.id
        BY <2>1, <2>2
      <4>. QED
        BY <2>1, <3>1, <4>1, <4>2, <4>3
    <3>2. \A k \in socket'.known : k.id <= wire'
      BY <1>4, <2>1, <2>2
    <3>. QED
      BY <1>1, <1>4, <2>1, <2>3, <3>1, <3>2 DEF KnownInv
  <2>4. CASE ChainBroken
    <3>1. KnownInv'
      BY <2>3, <2>4 DEF ChainBroken, NoResponse
    <3>. QED
      BY <1>1, <2>4, <3>1, BreakingStep
  <2>5. CASE UNCHANGED <<chainVars, input>>
    <3>1. previous_response_id < wire
      BY <1>1 DEF ChainInv, KnownInv
    <3>2. KnownInv'
      BY <2>3, <2>5, <3>1 DEF ChainInv, KnownInv, chainVars
    <3>3. \A k \in socket'.known : k.id = previous_response_id => k \in socket.known
      BY <2>1, <2>2, <3>1
    <3>4. Continues(socket'.known, previous_response_id, continuation_input_start, input)
      BY <3>3 DEF ChainInv, Continues
    <3>. QED
      BY <1>1, <2>5, <3>2, <3>4 DEF ChainInv, ServerSeesConversation, chainVars
  <2>. QED
    BY <1>1, <2>4, <2>5
<1>. QED
  BY <1>1, <1>2, <1>3, <1>4 DEF CompactionTransport

\* Every action keeps the invariant of the chain.
LEMMA NextChain ==
  ASSUME OnePromptNeverDropped, ControlTypeOK, ConvoInv, ConvoInv', ClientInv, ReplyInv,
         ChainInv, [Next]_vars
  PROVE  ChainInv'
<1>0. /\ socket \in SocketType /\ wire \in Nat /\ previous_response_id \in Nat
      /\ items \in Nat /\ runs \in Nat /\ input \in Seq(Item) /\ input' \in Seq(Item)
  BY DEF ControlTypeOK, ClientInv, ConvoInv, Convo, Bounded
<1>1. CASE StartRun
  <2>1. /\ ChainBroken /\ pc' = "turn" /\ UNCHANGED clientVars /\ pc = "idle"
        /\ runs < 1
    BY <1>1 DEF StartRun, ChainBroken, OnePromptNeverDropped
  <2>2. KnownInv'
    BY <1>0, <2>1 DEF ChainInv, KnownInv, ChainBroken, NoResponse, clientVars
  <2>. QED
    BY <1>0, <2>1, <2>2, BreakingStep
<1>2. CASE Cancel
  BY <1>0, <1>2, SilentStep DEF Cancel, convoVars
<1>3. CASE DropRun
  BY <1>3 DEF DropRun, OnePromptNeverDropped
<1>4. CASE StreamText
  BY <1>0, <1>4, SilentStep DEF StreamText, convoVars, runVars
<1>5. CASE AnswerOverSocket
  BY <1>0, <1>5, AnswerStep
<1>6. CASE AnswerOverHttp
  <2>1. ChainBroken /\ UNCHANGED clientVars /\ pc' \in {"idle", "tools"}
    BY <1>6 DEF AnswerOverHttp, ChainBroken, TakeAnswer, EndRun
  <2>2. KnownInv'
    BY <1>0, <2>1 DEF ChainInv, KnownInv, ChainBroken, NoResponse, clientVars
  <2>. QED
    BY <1>0, <2>1, <2>2, BreakingStep
<1>7. CASE RetryableFailure
  <2>1. UNCHANGED chainVars /\ UNCHANGED input /\ pc = "waiting"
        /\ pc' \in {"waiting", "idle", "backoff"}
    BY <1>7 DEF RetryableFailure, convoVars, EndRun, runVars
  <2>2. CASE socket' = NoSocket /\ wire' \in {wire, wire + 1}
    BY <1>0, <2>1, <2>2, DroppingStep
  <2>3. CASE UNCHANGED clientVars
    BY <1>0, <2>1, <2>3, SilentStep
  <2>. QED
    BY <1>7, <2>2, <2>3 DEF RetryableFailure, DropSocket, ResendOverHttp
<1>8. CASE FatalFailure
  <2>1. /\ UNCHANGED chainVars /\ UNCHANGED input /\ pc' = "idle"
        /\ socket' = NoSocket /\ wire' = wire
    BY <1>8 DEF FatalFailure, convoVars, EndRun, DropSocket
  <2>. QED
    BY <1>0, <2>1, DroppingStep
<1>9. CASE Compact
  BY <1>0, <1>9, CompactStep
<1>10. CASE Tools
  <2>1. UNCHANGED <<clientVars, chainVars>> /\ pc' \in {"idle", "turn", "tools", "calling"}
    BY <1>10 DEF Tools, StartCall, BatchReturns, CallReturns, AfterCall, EndRun
  <2>2. input' = input \/ \E e \in Seq(Item) : input' = input \o e
    <3>0. batch \in Seq(Nat) /\ (pc = "calling" => batch # <<>>)
      BY DEF ConvoInv
    <3>1. CASE input' = input \o ParallelOutputs
      <4>1. \A i \in 1..Len(batch) : OutputOf(batch[i]) \in Item
        <5>1. \A i \in 1..Len(batch) : batch[i] \in Nat
          BY <3>0
        <5>. QED
          BY <1>0, <5>1, OutputOfIsItem
      <4>2. ParallelOutputs \in Seq(Item)
        <5>1. Len(batch) \in Nat
          BY <3>0
        <5>. QED
          BY <4>1, <5>1 DEF ParallelOutputs
      <4>. QED
        BY <3>1, <4>2
    <3>2. CASE pc = "calling" /\ input' = Append(input, OutputOf(Head(batch)))
      <4>1. Head(batch) \in Nat
        BY <3>0, <3>2
      <4>. DEFINE x == OutputOf(Head(batch))
      <4>2. x \in Item
        BY <1>0, <4>1, OutputOfIsItem
      <4>. HIDE DEF x
      <4>3. <<x>> \in Seq(Item) /\ Append(input, x) = input \o <<x>>
        BY <1>0, <4>2
      <4>. QED
        BY <3>2, <4>3 DEF x
    <3>. QED
      BY <1>10, <3>1, <3>2 DEF Tools, StartCall, BatchReturns, CallReturns, convoVars
  <2>. QED
    BY <1>0, <2>1, <2>2, SilentStep
<1>11. CASE TurnStart
  <2>1. /\ UNCHANGED chainVars /\ input' = input /\ pc = "turn"
        /\ \/ UNCHANGED clientVars /\ pc' \in {"idle", "ready"}
           \/ Send(input, NoResponse, 0) /\ pc' = "compacting"
    BY <1>11 DEF TurnStart, convoVars, EndRun
  <2>2. CASE UNCHANGED clientVars /\ pc' \in {"idle", "ready"}
    BY <1>0, <2>1, <2>2, SilentStep
  <2>3. CASE Send(input, NoResponse, 0) /\ pc' = "compacting"
    <3>1. Continues(socket.known, previous_response_id, continuation_input_start, input')
      BY <2>1 DEF ChainInv
    <3>2. Send(input', NoResponse, 0)
      BY <2>1, <2>3
    <3>. QED
      BY <1>0, <2>1, <2>3, <3>1, <3>2, SendStep
  <2>. QED
    BY <2>1, <2>2, <2>3
<1>12. CASE BeginRequest
  <2>1. /\ UNCHANGED chainVars /\ pc = "ready" /\ PushNotice
        /\ \/ UNCHANGED clientVars /\ pc' = "idle"
           \/ /\ Send(input', previous_response_id, continuation_input_start)
              /\ pc' = "waiting"
    BY <1>12 DEF BeginRequest, EndRun
  <2>2. input' = input \/ \E e \in Seq(Item) : input' = input \o e
    <3>1. CASE NoticeDue
      <4>. DEFINE x == NewItem("nudge", items + 1)
      <4>1. input' = Append(input, x)
        BY <2>1, <3>1 DEF PushNotice
      <4>2. items + 1 \in Nat
        BY <1>0
      <4>3. x \in Item
        BY <1>0, <4>2, NewItemIsItem DEF Kinds
      <4>. HIDE DEF x
      <4>4. <<x>> \in Seq(Item) /\ Append(input, x) = input \o <<x>>
        BY <1>0, <4>3
      <4>. QED
        BY <4>1, <4>4
    <3>2. CASE ~NoticeDue
      BY <2>1, <3>2 DEF PushNotice, convoVars
    <3>. QED
      BY <3>1, <3>2
  <2>3. CASE UNCHANGED clientVars /\ pc' = "idle"
    BY <1>0, <2>1, <2>2, <2>3, SilentStep
  <2>4. CASE Send(input', previous_response_id, continuation_input_start) /\ pc' = "waiting"
    <3>1. Continues(socket.known, previous_response_id, continuation_input_start, input)
      BY DEF ChainInv
    <3>2. Continues(socket.known, previous_response_id, continuation_input_start, input')
      BY <1>0, <2>2, <3>1, ContinuesLonger
    <3>. QED
      BY <1>0, <2>1, <2>4, <3>2, SendStep
  <2>. QED
    BY <2>1, <2>3, <2>4
<1>13. CASE DeadlinePasses
  <2>1. UNCHANGED chainVars /\ UNCHANGED input /\ (pc' = pc \/ pc' = "idle")
    BY <1>13 DEF DeadlinePasses, convoVars, EndRun, runVars
  <2>2. CASE socket' = NoSocket /\ wire' = wire + 1
    BY <1>0, <2>1, <2>2, DroppingStep
  <2>3. CASE UNCHANGED clientVars
    BY <1>0, <2>1, <2>3, SilentStep
  <2>. QED
    BY <1>13, <2>2, <2>3 DEF DeadlinePasses, ResendOverHttp
<1>14. CASE Backoff
  <2>1. /\ UNCHANGED chainVars /\ input' = input /\ pc = "backoff"
        /\ \/ UNCHANGED clientVars /\ pc' = "idle"
           \/ /\ Send(input, previous_response_id, continuation_input_start)
              /\ pc' = "waiting"
    BY <1>14 DEF Backoff, EndRun, convoVars
  <2>2. CASE UNCHANGED clientVars /\ pc' = "idle"
    BY <1>0, <2>1, <2>2, SilentStep
  <2>3. CASE Send(input, previous_response_id, continuation_input_start) /\ pc' = "waiting"
    <3>1. Continues(socket.known, previous_response_id, continuation_input_start, input')
      BY <2>1 DEF ChainInv
    <3>2. Send(input', previous_response_id, continuation_input_start)
      BY <2>1, <2>3
    <3>. QED
      BY <1>0, <2>1, <2>3, <3>1, <3>2, SendStep
  <2>. QED
    BY <2>1, <2>2, <2>3
<1>15. CASE UNCHANGED vars
  BY <1>0, <1>15, SilentStep DEF vars, convoVars, runVars
<1>. QED
  BY <1>1, <1>2, <1>3, <1>4, <1>5, <1>6, <1>7, <1>8, <1>9, <1>10, <1>11, <1>12, <1>13,
     <1>14, <1>15
  DEF Next, Surface, Answer, Failure

\* Where a runner serves one prompt and its future is never dropped, continuing a
\* response by its id gives the far end the same conversation as sending it whole.
THEOREM ServerSeesTheConversation ==
  ASSUME OnePromptNeverDropped
  PROVE  Spec => []ServerSeesConversation
<1>1. ControlTypeOK /\ ReplyInv /\ [Next]_vars => ReplyInv'
  BY NextReplyInv
<1>2. ControlTypeOK /\ ConvoInv /\ ConvoInv' /\ ClientInv /\ ReplyInv /\ ChainInv /\ [Next]_vars
        => ChainInv'
  BY NextChain
<1>3. ChainInv => ServerSeesConversation
  BY DEF ChainInv
<1>. QED
  BY <1>1, <1>2, <1>3, InitReply, InitChain, ControlTypeCorrect, ConvoInvHolds,
     ClientInvHolds, PTL DEF Spec
=============================================================================
