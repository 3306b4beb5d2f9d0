----------------------------- MODULE Connection -----------------------------
(***************************************************************************)
(* One HTTP connection of osrm-routed (server::Connection) and its client. *)
(* Reads and writes are asynchronous; their handlers handle_read and       *)
(* handle_write run in the connection's strand, one after the other.  The  *)
(* handler of the keep-alive timer, handle_timeout, is not wrapped in the  *)
(* strand, so another thread of the pool may run it while handle_read      *)
(* works on a request.                                                     *)
(*                                                                         *)
(* A request travels in pieces.  "head" leaves the parser inside a request,*)
(* "tail" ends the request a head has begun, and "bad" is refused wherever *)
(* it stands.  The client sends the next request when it has as many       *)
(* replies as requests (HTTP/1.0, no pipelining).                          *)
(***************************************************************************)
EXTENDS Integers, Sequences

CONSTANTS ProcessedRequests,  \* initial value of processed_requests; 512 in the code
          MaxRequests         \* bound: the requests the client sends

ASSUME ProcessedAssumption == ProcessedRequests \in Nat
ASSUME RequestsAssumption == MaxRequests \in Nat

VARIABLES requests,           \* the requests the client has begun to send
          unsent,             \* the pieces of the last one it still has to send
          inbox,              \* the pieces in the socket's receive buffer
          replies,            \* the replies the client has received
          client,             \* whether the client has its end open
          socket,             \* TCP_socket: "open", "shut" down, or "closed"
          op,                 \* the operation in flight or the strand's handler
          incoming_data_buffer,
          request_parser,     \* "fresh", or "inside" a request
          current_request,    \* the number of the request being parsed or handled, 0 if none
          current_reply,
          keep_alive,
          processed_requests,
          timer,              \* whether an async_wait is pending
          expired             \* calls of handle_timeout that are queued with no error

clientVars == <<requests, unsent, client>>
parseVars == <<incoming_data_buffer, request_parser, current_request>>
timerVars == <<timer, expired>>
vars == <<requests, unsent, inbox, replies, client, socket, op, incoming_data_buffer,
          request_parser, current_request, current_reply, keep_alive, processed_requests,
          timer, expired>>

Kinds == {"head", "tail", "bad"}
WellFormed == <<"head", "tail">>
Texts == {WellFormed, <<"bad", "tail">>, <<"head", "bad">>}

(* What the client may send; only a request that parses has its Connection *)
(* header looked at.                                                       *)
Request == [text : {WellFormed}, close : BOOLEAN]
               \cup [text : Texts \ {WellFormed}, close : {FALSE}]

(* A piece in transit remembers which request it is of. *)
Piece == [kind : Kinds, of : 1 .. MaxRequests]

Statuses == {"ok", "bad_request", "internal_server_error"}

(* A reply: the request whose piece triggered it, the status, and the value *)
(* of its Connection header.                                               *)
Connections == {"close", "keep-alive", "absent"}
Reply == [of : 1 .. MaxRequests, status : Statuses, connection : Connections]
Received == [of : 1 .. MaxRequests, connection : Connections]
NoReply == [of |-> 0, status |-> "ok", connection |-> "absent"]

(* The connection's state is well typed. *)
TypeOK == /\ requests \in Seq(Request) /\ Len(requests) <= MaxRequests
          /\ unsent \in Seq(Kinds)
          /\ inbox \in Seq(Piece)
          /\ replies \in Seq(Received)
          /\ client \in BOOLEAN
          /\ socket \in {"open", "shut", "closed"}
          /\ op \in {"read", "readDone", "readError", "handling",
                     "write", "writeDone", "writeError", "none"}
          /\ incoming_data_buffer \in Seq(Piece)
          /\ request_parser \in {"fresh", "inside"}
          /\ current_request \in 0 .. MaxRequests
          /\ current_reply \in Reply \cup {NoReply}
          /\ keep_alive \in BOOLEAN
          /\ processed_requests \in 0 .. ProcessedRequests
          /\ timer \in BOOLEAN
          /\ expired \in Nat

(* The server has accepted the connection and called start() on it: the    *)
(* first read is in flight and, with keep_alive false, no timer runs.      *)
Init == /\ requests = <<>>
        /\ unsent = <<>>
        /\ inbox = <<>>
        /\ replies = <<>>
        /\ client = TRUE
        /\ socket = "open"
        /\ op = "read"
        /\ incoming_data_buffer = <<>>
        /\ request_parser = "fresh"
        /\ current_request = 0
        /\ current_reply = NoReply
        /\ keep_alive = FALSE
        /\ processed_requests = ProcessedRequests
        /\ timer = FALSE
        /\ expired = 0

-----------------------------------------------------------------------------
(* The client *)

ClientAsks(r) ==
    /\ client
    /\ socket = "open"
    /\ unsent = <<>>
    /\ Len(replies) >= Len(requests)
    /\ Len(requests) < MaxRequests
    /\ requests' = Append(requests, r)
    /\ unsent' = r.text
    /\ UNCHANGED <<inbox, replies, client, socket, op, parseVars, current_reply,
                   keep_alive, processed_requests, timerVars>>

PieceArrives ==
    /\ client
    /\ socket = "open"
    /\ unsent # <<>>
    /\ inbox' = Append(inbox, [kind |-> Head(unsent), of |-> Len(requests)])
    /\ unsent' = Tail(unsent)
    /\ UNCHANGED <<requests, replies, client, socket, op, parseVars, current_reply,
                   keep_alive, processed_requests, timerVars>>

ClientCloses ==
    /\ client
    /\ client' = FALSE
    /\ UNCHANGED <<requests, unsent, inbox, replies, socket, op, parseVars, current_reply,
                   keep_alive, processed_requests, timerVars>>

-----------------------------------------------------------------------------
(* The operating system and Asio complete the operation in flight. *)

PeerGone == ~client \/ socket # "open"

(* async_read_some takes some of what has arrived, at least one piece. *)
ReadCompletes ==
    /\ op = "read"
    /\ \E n \in 1 .. Len(inbox) :
           /\ incoming_data_buffer' = SubSeq(inbox, 1, n)
           /\ inbox' = SubSeq(inbox, n + 1, Len(inbox))
    /\ op' = "readDone"
    /\ UNCHANGED <<clientVars, replies, socket, request_parser, current_request, current_reply,
                   keep_alive, processed_requests, timerVars>>

ReadFails ==
    /\ op = "read"
    /\ PeerGone
    /\ op' = "readError"
    /\ UNCHANGED <<clientVars, inbox, replies, socket, parseVars, current_reply,
                   keep_alive, processed_requests, timerVars>>

(* The reply is in the kernel's hands; a client that has closed misses it. *)
WriteCompletes ==
    /\ op = "write"
    /\ socket = "open"
    /\ op' = "writeDone"
    /\ replies' = IF client
                  THEN Append(replies, [of |-> current_reply.of,
                                        connection |-> current_reply.connection])
                  ELSE replies
    /\ UNCHANGED <<clientVars, inbox, socket, parseVars, current_reply,
                   keep_alive, processed_requests, timerVars>>

WriteFails ==
    /\ op = "write"
    /\ PeerGone
    /\ op' = "writeError"
    /\ UNCHANGED <<clientVars, inbox, replies, socket, parseVars, current_reply,
                   keep_alive, processed_requests, timerVars>>

(* The five seconds are over: handle_timeout is queued with no error, and   *)
(* timer.cancel() no longer reaches it.                                     *)
TimerExpires ==
    /\ timer
    /\ timer' = FALSE
    /\ expired' = expired + 1
    /\ UNCHANGED <<clientVars, inbox, replies, socket, op, parseVars, current_reply,
                   keep_alive, processed_requests>>

(* When the last handler that holds a shared_ptr to it has run, the         *)
(* connection is destroyed and its socket closed.                           *)
Destroy ==
    /\ op = "none"
    /\ ~timer
    /\ expired = 0
    /\ socket # "closed"
    /\ socket' = "closed"
    /\ UNCHANGED <<clientVars, inbox, replies, op, parseVars, current_reply,
                   keep_alive, processed_requests, timerVars>>

-----------------------------------------------------------------------------
(* The handlers *)

consumeLenient(s, kind) ==
    IF s = "inside" /\ kind = "tail" THEN "valid" ELSE "indeterminate"

(* consume(), over a piece: what the parser says of a piece of this kind in *)
(* its state s.                                                             *)
consume(s, kind) ==
    CASE s = "fresh" /\ kind = "head" -> "indeterminate"
      [] s = "inside" /\ kind = "tail" -> "valid"
      [] OTHER -> "invalid"

(* parse() stops at the first piece i that decides, and the rest of the     *)
(* buffer is never looked at; if none decides it gets to the last one.      *)
Verdict(i) == consume(IF i = 1 THEN request_parser ELSE "inside", incoming_data_buffer[i].kind)
Deciding == {i \in DOMAIN incoming_data_buffer : Verdict(i) # "indeterminate"}
parse(i, result) ==
    \/ i = Len(incoming_data_buffer) /\ Deciding = {} /\ result = "indeterminate"
    \/ i \in Deciding /\ (\A j \in Deciding : i <= j) /\ result = Verdict(i)

CancelNothing == UNCHANGED timer

(* timer.cancel(): a wait that is still pending ends with operation_aborted, *)
(* which handle_timeout ignores; one that has expired stays queued.          *)
CancelTimer == timer' = FALSE

startUntimed == op' = "read" /\ UNCHANGED timer

(* start(), from handle_write: read, and arm the timer of a kept connection *)
start == op' = "read" /\ timer' = (keep_alive \/ timer)

(* handle_shutdown(); shutting down a socket again has no effect *)
handle_shutdown == socket' = IF socket = "open" THEN "shut" ELSE socket

HandleReadErrorRetries ==
    /\ op = "readError"
    /\ op' = "read"
    /\ UNCHANGED <<clientVars, inbox, replies, socket, parseVars, current_reply,
                   keep_alive, processed_requests, timerVars>>

(* handle_read with an error: nothing is started, the timer is left alone. *)
HandleReadError ==
    /\ op = "readError"
    /\ op' = "none"
    /\ UNCHANGED <<clientVars, inbox, replies, socket, parseVars, current_reply,
                   keep_alive, processed_requests, timerVars>>

(* handle_read up to the parser's verdict.  A request that is not complete  *)
(* is read on; one that does not parse is answered with a stock reply; a    *)
(* valid one goes to the request handler unless remote_endpoint() fails,    *)
(* which it may only when the peer is gone.                                 *)
HandleRead ==
    /\ op = "readDone"
    /\ IF keep_alive THEN CancelTimer ELSE UNCHANGED timer
    /\ \E i \in DOMAIN incoming_data_buffer :
           /\ current_request' = incoming_data_buffer[i].of
           /\ \/ /\ parse(i, "indeterminate")
                 /\ request_parser' = "inside"
                 /\ op' = "read"
                 /\ UNCHANGED <<socket, current_reply>>
              \/ /\ parse(i, "invalid")
                 /\ current_reply' = [of |-> current_request', status |-> "bad_request",
                                      connection |-> "absent"]
                 /\ op' = "write"
                 /\ UNCHANGED <<request_parser, socket>>
              \/ /\ parse(i, "valid")
                 /\ op' = "handling"
                 /\ UNCHANGED <<request_parser, socket, current_reply>>
              \/ /\ parse(i, "valid")
                 /\ PeerGone
                 /\ handle_shutdown
                 /\ op' = "none"
                 /\ UNCHANGED <<request_parser, current_reply>>
    /\ incoming_data_buffer' = <<>>
    /\ UNCHANGED <<clientVars, inbox, replies, keep_alive, processed_requests, expired>>

(* HandleRequest gives a reply whatever happens: a result, a refusal of the *)
(* URL or of the query, or the stock reply for an exception it catches.     *)
HandleRequest(status) == [of |-> current_request, status |-> status, connection |-> "absent"]

(* The rest of handle_read for a valid request: HandleRequest, the headers, *)
(* and async_write.  keep_alive is set here and never cleared.              *)
Respond(status) ==
    /\ op = "handling"
    /\ LET close == requests[current_request].close
       IN  /\ keep_alive' = (keep_alive \/ ~close)
           /\ current_reply' = [HandleRequest(status) EXCEPT
                                    !.connection = IF close THEN "close" ELSE "keep-alive"]
    /\ op' = "write"
    /\ UNCHANGED <<clientVars, inbox, replies, socket, parseVars, processed_requests, timerVars>>

HandleWriteError ==
    /\ op = "writeError"
    /\ op' = "none"
    /\ UNCHANGED <<clientVars, inbox, replies, socket, parseVars, current_reply,
                   keep_alive, processed_requests, timerVars>>

KeepsUnlimited == keep_alive

(* whether handle_write goes on to another request *)
Keeps == keep_alive /\ processed_requests > 0

ResetAllButParser == /\ current_request' = 0
                     /\ current_reply' = NoReply
                     /\ incoming_data_buffer' = <<>>
                     /\ UNCHANGED request_parser

(* what handle_write forgets of the request it has answered *)
Reset == /\ current_request' = 0
         /\ current_reply' = NoReply
         /\ request_parser' = "fresh"
         /\ incoming_data_buffer' = <<>>

(* handle_write: the next request of a kept connection, or the end of it *)
HandleWrite ==
    /\ op = "writeDone"
    /\ \/ /\ Keeps
          /\ processed_requests' = processed_requests - 1
          /\ Reset
          /\ start
          /\ UNCHANGED socket
       \/ /\ ~Keeps
          /\ handle_shutdown
          /\ op' = "none"
          /\ UNCHANGED <<parseVars, current_reply, processed_requests, timer>>
    /\ UNCHANGED <<clientVars, inbox, replies, keep_alive, expired>>

HandleTimeoutIgnored ==
    /\ expired > 0
    /\ expired' = expired - 1
    /\ UNCHANGED <<clientVars, inbox, replies, socket, op, parseVars, current_reply,
                   keep_alive, processed_requests, timer>>

(* handle_timeout without an error: TCP_socket.cancel() aborts the operation *)
(* in flight, and the socket is shut down.  The two calls are one step: an   *)
(* operation that starts between them fails, or completes as it would have   *)
(* done before both.                                                         *)
HandleTimeout ==
    /\ expired > 0
    /\ expired' = expired - 1
    /\ op' = CASE op = "read" -> "readError"
               [] op = "write" -> "writeError"
               [] OTHER -> op
    /\ handle_shutdown
    /\ UNCHANGED <<clientVars, inbox, replies, parseVars, current_reply,
                   keep_alive, processed_requests, timer>>

-----------------------------------------------------------------------------
Client == (\E r \in Request : ClientAsks(r)) \/ PieceArrives \/ ClientCloses

Strand == \/ HandleReadError \/ HandleRead
          \/ \E status \in Statuses : Respond(status)
          \/ HandleWriteError \/ HandleWrite

Completion == ReadCompletes \/ ReadFails \/ WriteCompletes \/ WriteFails

Next == Client \/ Completion \/ Strand \/ TimerExpires \/ HandleTimeout \/ Destroy

Spec == Init /\ [][Next]_vars

(* The io_service's threads run every handler that is ready, an operation   *)
(* that can complete does, and a timer expires.  Nothing is asked of the    *)
(* client.                                                                  *)
Fairness == /\ WF_vars(Completion)
            /\ WF_vars(Strand)
            /\ WF_vars(TimerExpires)
            /\ WF_vars(HandleTimeout)
            /\ WF_vars(Destroy)

FairSpec == Spec /\ Fairness

-----------------------------------------------------------------------------
(* Up to and including the first malformed request, the k-th reply the      *)
(* client receives answers its k-th request: handle_write resets the parser *)
(* and the request before it reads on, and a request that came in pieces is *)
(* answered once (connection.cpp, handle_read and handle_write).            *)
AnswersInOrder ==
    \A k \in DOMAIN replies :
        (\A j \in 1 .. k - 1 : j \in DOMAIN requests => requests[j].text = WellFormed)
            => replies[k].of = k

(* A connection serves at most one request more than processed_requests     *)
(* starts with: it is tested before it is decremented (handle_write).       *)
RequestsLimited == Len(replies) <= ProcessedRequests + 1

(* While a request is parsed on, handled or answered, no keep-alive timer   *)
(* is running: handle_read cancels it with the first bytes, and only start  *)
(* arms it again.                                                           *)
TimerOnlyBetweenRequests ==
    timer => op \notin {"handling", "write", "writeDone", "writeError"} /\ request_parser = "fresh"

(* Between two requests of a kept connection a read is in flight only with  *)
(* something that ends the wait: the timer runs, handle_timeout is queued,  *)
(* or the socket is no longer open.                                         *)
IdleIsWatched ==
    (op = "read" /\ keep_alive /\ request_parser = "fresh")
        => timer \/ expired > 0 \/ socket # "open"

(* Requests that are under way: what is in transit is of a request that has *)
(* been sent, and what the strand works on is there.                        *)
UnderWay == /\ unsent # <<>> => requests # <<>>
            /\ \A i \in DOMAIN inbox : inbox[i].of <= Len(requests)
            /\ \A i \in DOMAIN incoming_data_buffer : incoming_data_buffer[i].of <= Len(requests)
            /\ op = "handling" => current_request \in DOMAIN requests
            /\ op = "write" => current_reply \in Reply

(* The replies and the requests still allowed; the last reply is counted    *)
(* before handle_write counts it.                                           *)
Counted == LET left == ProcessedRequests - processed_requests
           IN  /\ Len(replies) <= left + 1
               /\ op \notin {"writeDone", "none"} => Len(replies) <= left

(* The inductive invariant *)
IInv == /\ TypeOK
        /\ UnderWay
        /\ Counted
        /\ timer => keep_alive
        /\ TimerOnlyBetweenRequests
        /\ IdleIsWatched

(* The order of the answers, with n requests sent.  Nobody adds a request or *)
(* a reply once the peer is gone.  Until then, as long as the requests parse, *)
(* only pieces of the n-th are under way while it is due, each of its pieces  *)
(* is in one place, where the parser will meet it in the state it needs, and  *)
(* nothing is left of it once it is answered.                                 *)
Sound(n) == \A j \in 1 .. n : requests[j].text = WellFormed
Due == Len(replies) < Len(requests)
HeadPiece == [kind |-> "head", of |-> Len(requests)]
TailPiece == [kind |-> "tail", of |-> Len(requests)]

NothingToCome == inbox = <<>> /\ unsent = <<>>
TailToCome == \/ inbox = <<>> /\ unsent = <<"tail">>
              \/ inbox = <<TailPiece>> /\ unsent = <<>>
AllToCome == \/ inbox = <<>> /\ unsent = WellFormed
             \/ inbox = <<HeadPiece>> /\ unsent = <<"tail">>
             \/ inbox = <<HeadPiece, TailPiece>> /\ unsent = <<>>

AwaitsRequest == /\ op \in {"read", "writeDone"}
                 /\ op = "read" => request_parser = "fresh"
                 /\ incoming_data_buffer = <<>>

MetOnce ==
    \/ AwaitsRequest /\ AllToCome
    \/ /\ op = "readDone" /\ request_parser = "fresh"
       /\ \/ incoming_data_buffer = <<HeadPiece>> /\ TailToCome
          \/ incoming_data_buffer = <<HeadPiece, TailPiece>> /\ NothingToCome
    \/ op = "read" /\ request_parser = "inside" /\ incoming_data_buffer = <<>> /\ TailToCome
    \/ /\ op = "readDone" /\ request_parser = "inside"
       /\ incoming_data_buffer = <<TailPiece>> /\ NothingToCome
    \/ op \in {"handling", "write"} /\ incoming_data_buffer = <<>> /\ NothingToCome

OnlyOf(n) == /\ \A i \in DOMAIN inbox : inbox[i].of = n
             /\ \A i \in DOMAIN incoming_data_buffer : incoming_data_buffer[i].of = n
             /\ op = "handling" => current_request = n
             /\ op = "write" => current_reply.of = n

Connected == /\ op \notin {"readError", "writeError", "none"}
             /\ Due /\ Sound(Len(requests) - 1) => OnlyOf(Len(requests))
             /\ Due /\ Sound(Len(requests)) => MetOnce
             /\ ~Due /\ Sound(Len(requests)) => /\ Len(replies) = Len(requests)
                                               /\ AwaitsRequest
                                               /\ NothingToCome

Ordered == /\ AnswersInOrder
           /\ Len(replies) >= Len(requests) - 1
           /\ PeerGone \/ Connected

(* The kept connection that gets no further request is shut down: an idle   *)
(* read ends with the connection's end or with the next request's bytes.    *)
IdleEnds == (op = "read" /\ keep_alive /\ request_parser = "fresh")
                ~> (socket = "closed" \/ op = "readDone")

(* The n-th request, once sent, is answered, unless the connection ends:    *)
(* whatever pieces it comes in and whatever HandleRequest meets.            *)
RequestsAnswered ==
    \A n \in 1 .. MaxRequests :
        (Len(requests) = n /\ unsent = <<>>) ~> (Len(replies) >= n \/ socket = "closed")

(* When the client has gone the connection is destroyed, though a failed    *)
(* read leaves the timer, which holds a reference to it, running.           *)
GoneIsFreed == ~client ~> socket = "closed"
=============================================================================
