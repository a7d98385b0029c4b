---------------------------- MODULE SparkClient ----------------------------
(***************************************************************************)
(* The Responses client of src/src/client.rs: one optional WebSocket that  *)
(* is kept open between requests, a flag that says whether the WebSocket   *)
(* may still be used, and the HTTP/SSE transport it falls back to.         *)
(*                                                                         *)
(* The far end is external.  What the code relies on is that a connection  *)
(* answers its requests in order and that a response id can be continued   *)
(* on the connection that produced it (every request says store: false).   *)
(***************************************************************************)
EXTENDS Naturals, Sequences, FiniteSets

VARIABLES
  websocket_enabled,  \* the AtomicBool: cleared once, by the fallback to HTTP
  socket,             \* Arc<Mutex<Option<ResponsesWebSocket>>> and its far end
  wire                \* how many requests were put on the wire so far

clientVars == <<websocket_enabled, socket, wire>>

NoResponse == 0       \* previous_response_id is None; ids are wire numbers >= 1

\* A socket holds the replies that were requested on it and not read yet, and
\* the contexts its far end can continue from, by response id.
NoSocket == [open |-> FALSE, queue |-> <<>>, known |-> {}]
NewSocket == [NoSocket EXCEPT !.open = TRUE]

\* send_websocket_body reuses the stored socket and connects when there is none.
Connected == IF socket.open THEN socket ELSE NewSocket

Resolves(sock, id) == \E k \in sock.known : k.id = id
ContextOf(sock, id) == (CHOOSE k \in sock.known : k.id = id).ctx

\* websocket_request_body: with a previous response only the items from
\* `start` on are sent, and the far end puts them behind what it remembers.
Reply(sock, req, convo, previous, start) ==
  LET new == SubSeq(convo, start + 1, Len(convo))
  IN  IF previous = NoResponse
      THEN [req |-> req, ok |-> TRUE, ctx |-> convo]
      ELSE IF Resolves(sock, previous)
           THEN [req |-> req, ok |-> TRUE, ctx |-> ContextOf(sock, previous) \o new]
           ELSE [req |-> req, ok |-> FALSE, ctx |-> <<>>]

----------------------------------------------------------------------------

ClientInit ==
  /\ websocket_enabled = TRUE
  /\ socket = NoSocket
  /\ wire = 0

\* Put a request on the current transport.  An HTTP request carries the whole
\* conversation and its answer cannot be mistaken for another one's.
Send(convo, previous, start) ==
  /\ wire' = wire + 1
  /\ socket' = IF websocket_enabled
               THEN [Connected EXCEPT !.queue =
                       Append(@, Reply(Connected, wire + 1, convo, previous, start))]
               ELSE socket
  /\ UNCHANGED websocket_enabled

\* run_websocket_response reads events until the first response.completed and
\* leaves whatever follows on the socket.
HasReply == socket.open /\ socket.queue # <<>>
NextReply == Head(socket.queue)

ReadReply(outputs) ==
  socket' = [socket EXCEPT
               !.queue = Tail(@),
               !.known = @ \cup {[id |-> NextReply.req, ctx |-> NextReply.ctx \o outputs]}]

\* An attempt that returns an error drops the stored socket.  (Fault: it is kept.)
KeepSocket == UNCHANGED socket
DropSocket == socket' = NoSocket

\* switch_to_http_transport swaps the flag and takes the socket; its callers send
\* the full conversation again over HTTP at once.  (Fault: the old value of the flag
\* is not looked at.)
ResendRepeatedly == websocket_enabled' = FALSE /\ socket' = NoSocket /\ wire' = wire + 1

ResendOverHttp ==
  /\ websocket_enabled
  /\ websocket_enabled' = FALSE
  /\ socket' = NoSocket
  /\ wire' = wire + 1

----------------------------------------------------------------------------

ReplyType(Item) == [req : Nat, ok : BOOLEAN, ctx : Seq(Item)]

ClientTypeOK(Item) ==
  /\ websocket_enabled \in BOOLEAN
  /\ socket \in [open : BOOLEAN,
                 queue : Seq(ReplyType(Item)),
                 known : SUBSET [id : Nat, ctx : Seq(Item)]]
  /\ wire \in Nat
============================================================================
