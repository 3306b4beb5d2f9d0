-------------------------- MODULE ConnectionProofs --------------------------
(* Proofs about Connection, for every limit and every number of requests. *)
EXTENDS Connection, SequenceTheorems, TLAPS

(* A new connection satisfies the invariant. *)
LEMMA InitInv == Init => IInv
<1> SUFFICES ASSUME Init PROVE IInv
    OBVIOUS
<1>1. TypeOK
    <2>1. /\ requests \in Seq(Request) /\ unsent \in Seq(Kinds) /\ inbox \in Seq(Piece)
          /\ replies \in Seq(Received) /\ incoming_data_buffer \in Seq(Piece)
        BY DEF Init
    <2>2. Len(requests) <= MaxRequests /\ current_request \in 0 .. MaxRequests
        BY RequestsAssumption DEF Init
    <2>3. processed_requests \in 0 .. ProcessedRequests /\ expired \in Nat
        BY ProcessedAssumption DEF Init
    <2> QED
        BY <2>1, <2>2, <2>3, ZenonT(30) DEF Init, TypeOK
<1>2. UnderWay /\ Counted
    BY ProcessedAssumption DEF Init, UnderWay, Counted
<1> QED
    BY <1>1, <1>2 DEF Init, IInv, TimerOnlyBetweenRequests, IdleIsWatched

(* The texts a client sends are sequences of pieces. *)
LEMMA TextTyped == ASSUME NEW r \in Request PROVE r.text \in Seq(Kinds)
<1>1. /\ <<"head", "tail">> \in Seq(Kinds)
      /\ <<"bad", "tail">> \in Seq(Kinds)
      /\ <<"head", "bad">> \in Seq(Kinds)
    BY DEF Kinds
<1>2. r.text \in Texts
    BY ZenonT(30) DEF Request, Texts
<1> QED
    BY <1>1, <1>2, ZenonT(30) DEF Texts, WellFormed

(* The pieces in the socket and in the buffer are of numbered requests. *)
LEMMA PiecesNumbered ==
    ASSUME TypeOK
    PROVE  /\ \A i \in DOMAIN inbox : inbox[i] \in Piece /\ inbox[i].of \in Nat
           /\ \A i \in DOMAIN incoming_data_buffer :
                  incoming_data_buffer[i] \in Piece /\ incoming_data_buffer[i].of \in Nat
<1>1. \A p \in Piece : p.of \in Nat
    BY RequestsAssumption DEF Piece
<1>2. /\ \A i \in DOMAIN inbox : inbox[i] \in Piece
      /\ \A i \in DOMAIN incoming_data_buffer : incoming_data_buffer[i] \in Piece
    BY DEF TypeOK
<1> QED
    BY <1>1, <1>2

(* The client's steps preserve the invariant: they add requests and pieces  *)
(* of requests it has sent, and leave the connection alone.                 *)
LEMMA ClientInv == IInv /\ Client => IInv'
<1> SUFFICES ASSUME IInv, Client PROVE IInv'
    OBVIOUS
<1> USE RequestsAssumption, ProcessedAssumption DEF IInv
<1>1. ASSUME NEW r \in Request, ClientAsks(r) PROVE IInv'
    <2>1. Len(requests') = Len(requests) + 1 /\ Len(requests) \in Nat
        BY <1>1 DEF ClientAsks, TypeOK
    <2>2. TypeOK'
        BY <1>1, <2>1, TextTyped DEF ClientAsks, TypeOK, parseVars, timerVars
    <2>3. UnderWay'
        <3>1. op' = "handling" => current_request' \in DOMAIN requests'
            BY <1>1, <2>1 DEF ClientAsks, TypeOK, UnderWay, parseVars
        <3> QED
            BY <1>1, <2>1, <3>1, PiecesNumbered DEF ClientAsks, UnderWay, parseVars
    <2> QED
        BY <1>1, <2>2, <2>3 DEF ClientAsks, Counted, TimerOnlyBetweenRequests, IdleIsWatched,
                                parseVars, timerVars
<1>2. CASE PieceArrives
    <2> DEFINE p == [kind |-> Head(unsent), of |-> Len(requests)]
    <2>1. Head(unsent) \in Kinds /\ unsent' \in Seq(Kinds)
        BY <1>2 DEF PieceArrives, TypeOK
    <2>2. Len(requests) \in 1 .. MaxRequests
        <3>1. Len(requests) \in Nat /\ Len(requests) # 0
            BY <1>2 DEF PieceArrives, TypeOK, UnderWay
        <3> QED
            BY <3>1 DEF TypeOK
    <2>3. p \in Piece
        BY <2>1, <2>2 DEF Piece
    <2>4. TypeOK'
        BY <1>2, <2>1, <2>3 DEF PieceArrives, TypeOK, parseVars, timerVars
    <2>5. UnderWay'
        <3>1. /\ Len(inbox') = Len(inbox) + 1 /\ Len(inbox) \in Nat
              /\ DOMAIN inbox = 1 .. Len(inbox) /\ DOMAIN inbox' = 1 .. Len(inbox')
              /\ \A i \in DOMAIN inbox : inbox'[i] = inbox[i]
              /\ inbox'[Len(inbox) + 1] = p
            BY <1>2, <2>3, SMTT(30) DEF PieceArrives, TypeOK
        <3>2. \A i \in DOMAIN inbox' : inbox'[i].of <= Len(requests)
            BY <2>2, <3>1 DEF UnderWay
        <3> QED
            BY <1>2, <2>2, <3>2 DEF PieceArrives, UnderWay, parseVars
    <2> QED
        BY <1>2, <2>4, <2>5 DEF PieceArrives, Counted, TimerOnlyBetweenRequests, IdleIsWatched,
                                parseVars, timerVars
<1>3. CASE ClientCloses
    <2>1. /\ UNCHANGED <<requests, unsent, inbox, replies, socket, op, incoming_data_buffer,
                          request_parser, current_request, current_reply, keep_alive,
                          processed_requests, timer, expired>>
          /\ client' \in BOOLEAN
        BY <1>3, ZenonT(30) DEF ClientCloses, parseVars, timerVars
    <2>2. TypeOK'
        BY <2>1, SMTT(30) DEF TypeOK
    <2>3. UnderWay' /\ Counted'
        BY <2>1, SMTT(30) DEF UnderWay, Counted
    <2> QED
        BY <2>1, <2>2, <2>3, SMTT(30) DEF TimerOnlyBetweenRequests, IdleIsWatched
<1> QED
    BY <1>1, <1>2, <1>3 DEF Client

(* The completion of a read or a write preserves the invariant: a read      *)
(* hands over pieces of the receive buffer, a write counts a reply that     *)
(* handle_write has yet to count.                                           *)
LEMMA CompletionInv == IInv /\ Completion => IInv'
<1> SUFFICES ASSUME IInv, Completion PROVE IInv'
    OBVIOUS
<1> USE RequestsAssumption, ProcessedAssumption DEF IInv
<1>1. CASE ReadCompletes
    <2>1. PICK n \in 1 .. Len(inbox) :
              /\ incoming_data_buffer' = SubSeq(inbox, 1, n)
              /\ inbox' = SubSeq(inbox, n + 1, Len(inbox))
        BY <1>1 DEF ReadCompletes
    <2>2. inbox \in Seq(Piece) /\ Len(inbox) \in Nat
        BY DEF TypeOK
    <2>3. /\ incoming_data_buffer' \in Seq(Piece)
          /\ Len(incoming_data_buffer') = n
          /\ \A i \in 1 .. n : incoming_data_buffer'[i] = inbox[i]
        BY <2>1, <2>2, SubSeqProperties
    <2>4. /\ inbox' \in Seq(Piece)
          /\ Len(inbox') = Len(inbox) - n
          /\ \A i \in 1 .. Len(inbox) - n : inbox'[i] = inbox[n + i]
        BY <2>1, <2>2, SubSeqProperties
    <2>5. TypeOK'
        BY <1>1, <2>3, <2>4 DEF ReadCompletes, TypeOK, clientVars, timerVars
    <2>6. UnderWay'
        <3>1. \A i \in DOMAIN incoming_data_buffer' : incoming_data_buffer'[i].of <= Len(requests)
            BY <2>1, <2>2, <2>3 DEF UnderWay
        <3>2. \A i \in DOMAIN inbox' : inbox'[i].of <= Len(requests)
            <4> SUFFICES ASSUME NEW i \in DOMAIN inbox' PROVE inbox'[i].of <= Len(requests)
                OBVIOUS
            <4>1. i \in 1 .. Len(inbox) - n /\ n + i \in DOMAIN inbox
                BY <2>1, <2>2, <2>4
            <4> QED
                BY <2>4, <4>1, SMTT(30) DEF UnderWay
        <3> QED
            BY <1>1, <3>1, <3>2 DEF ReadCompletes, UnderWay, clientVars
    <2> QED
        BY <1>1, <2>5, <2>6 DEF ReadCompletes, Counted, TimerOnlyBetweenRequests, IdleIsWatched,
                                clientVars, timerVars
<1>2. CASE ReadFails
    BY <1>2 DEF ReadFails, TypeOK, UnderWay, Counted, TimerOnlyBetweenRequests, IdleIsWatched,
                clientVars, parseVars, timerVars
<1>3. CASE WriteCompletes
    <2>1. replies' \in Seq(Received) /\ Len(replies') \in {Len(replies), Len(replies) + 1}
        <3>1. [of |-> current_reply.of, connection |-> current_reply.connection] \in Received
            BY <1>3 DEF WriteCompletes, UnderWay, Reply, Received
        <3> QED
            BY <1>3, <3>1 DEF WriteCompletes, TypeOK
    <2>2. TypeOK'
        BY <1>3, <2>1 DEF WriteCompletes, TypeOK, clientVars, parseVars, timerVars
    <2>3. Counted'
        BY <1>3, <2>1 DEF WriteCompletes, Counted, TypeOK
    <2> QED
        BY <1>3, <2>2, <2>3 DEF WriteCompletes, UnderWay, TimerOnlyBetweenRequests, IdleIsWatched,
                                clientVars, parseVars, timerVars
<1>4. CASE WriteFails
    BY <1>4 DEF WriteFails, TypeOK, UnderWay, Counted, TimerOnlyBetweenRequests, IdleIsWatched,
                clientVars, parseVars, timerVars
<1> QED
    BY <1>1, <1>2, <1>3, <1>4 DEF Completion

(* handle_read, handle_write and the handler of a request preserve the      *)
(* invariant.                                                               *)
LEMMA StrandInv == IInv /\ Strand => IInv'
<1> SUFFICES ASSUME IInv, Strand PROVE IInv'
    OBVIOUS
<1> USE RequestsAssumption, ProcessedAssumption DEF IInv
<1>1. CASE HandleReadError
    BY <1>1 DEF HandleReadError, TypeOK, UnderWay, Counted, TimerOnlyBetweenRequests,
                IdleIsWatched, clientVars, parseVars, timerVars
<1>2. CASE HandleRead
    <2>1. PICK i \in DOMAIN incoming_data_buffer : current_request' = incoming_data_buffer[i].of
        BY <1>2 DEF HandleRead
    <2>2. current_request' \in 1 .. MaxRequests /\ current_request' \in DOMAIN requests
        <3>1. incoming_data_buffer[i] \in Piece
            BY PiecesNumbered
        <3> QED
            BY <2>1, <3>1 DEF UnderWay, TypeOK, Piece
    <2>3. timer' = FALSE
        BY <1>2 DEF HandleRead, CancelTimer, TypeOK
    <2>4. /\ op' \in {"read", "write", "handling", "none"}
          /\ op' = "read" => request_parser' = "inside"
          /\ op' = "write" => current_reply' = [of |-> current_request', status |-> "bad_request",
                                                connection |-> "absent"]
          /\ op' # "write" => current_reply' = current_reply
          /\ request_parser' \in {"inside", request_parser}
          /\ socket' \in {"open", "shut", "closed"}
        BY <1>2 DEF HandleRead, TypeOK, handle_shutdown
    <2>5. current_reply' \in Reply \cup {NoReply} /\ (op' = "write" => current_reply' \in Reply)
        BY <2>2, <2>4, SMTT(30) DEF Reply, Statuses, Connections, TypeOK
    <2>6. TypeOK'
        <3>1. /\ incoming_data_buffer' = <<>>
              /\ UNCHANGED <<requests, unsent, client, inbox, replies, keep_alive,
                             processed_requests, expired>>
            BY <1>2 DEF HandleRead, clientVars
        <3>2. incoming_data_buffer' \in Seq(Piece)
            BY <3>1
        <3>3. current_request' \in 0 .. MaxRequests
            BY <2>2
        <3>4. /\ op' \in {"read", "readDone", "readError", "handling",
                          "write", "writeDone", "writeError", "none"}
              /\ request_parser' \in {"fresh", "inside"}
            BY <2>4 DEF TypeOK
        <3>5. timer' \in BOOLEAN
            BY <2>3, ZenonT(30)
        <3> QED
            BY <2>4, <2>5, <3>1, <3>2, <3>3, <3>4, <3>5 DEF TypeOK
    <2>7. UnderWay'
        BY <1>2, <2>2, <2>5 DEF HandleRead, UnderWay, clientVars
    <2>8. Counted'
        BY <1>2 DEF HandleRead, Counted, TypeOK
    <2> QED
        BY <2>3, <2>4, <2>6, <2>7, <2>8 DEF TimerOnlyBetweenRequests, IdleIsWatched
<1>3. ASSUME NEW status \in Statuses, Respond(status) PROVE IInv'
    <2>1. current_reply' \in Reply
        BY <1>3, SMTT(30) DEF Respond, HandleRequest, Reply, Connections, UnderWay, TypeOK
    <2>2. TypeOK'
        BY <1>3, <2>1 DEF Respond, TypeOK, clientVars, parseVars, timerVars
    <2> QED
        BY <1>3, <2>1, <2>2 DEF Respond, UnderWay, Counted, TimerOnlyBetweenRequests,
                                IdleIsWatched, clientVars, parseVars, timerVars
<1>4. CASE HandleWriteError
    BY <1>4 DEF HandleWriteError, TypeOK, UnderWay, Counted, TimerOnlyBetweenRequests,
                IdleIsWatched, clientVars, parseVars, timerVars
<1>5. CASE HandleWrite
    <2>1. CASE Keeps
        <3>1. /\ op' = "read" /\ timer' = TRUE /\ request_parser' = "fresh"
              /\ processed_requests' = processed_requests - 1
              /\ current_request' = 0 /\ current_reply' = NoReply
              /\ incoming_data_buffer' = <<>>
              /\ UNCHANGED <<clientVars, inbox, replies, keep_alive, expired, socket>>
            BY <1>5, <2>1, ZenonT(30) DEF HandleWrite, Keeps, Reset, start
        <3>2. TypeOK'
            BY <2>1, <3>1 DEF Keeps, TypeOK, clientVars
        <3>3. Counted'
            BY <1>5, <2>1, <3>1 DEF HandleWrite, Keeps, Counted, TypeOK
        <3> QED
            BY <2>1, <3>1, <3>2, <3>3 DEF Keeps, UnderWay, TimerOnlyBetweenRequests, IdleIsWatched,
                                          clientVars
    <2>2. CASE ~Keeps
        <3>1. /\ op = "writeDone" /\ op' = "none" /\ handle_shutdown
              /\ UNCHANGED <<clientVars, inbox, replies, keep_alive, expired, parseVars, current_reply,
                             processed_requests, timer>>
            BY <1>5, <2>2 DEF HandleWrite
        <3>2. TypeOK'
            BY <3>1 DEF handle_shutdown, TypeOK, clientVars, parseVars
        <3>3. UnderWay' /\ Counted'
            BY <3>1 DEF UnderWay, Counted, clientVars, parseVars
        <3> QED
            BY <3>1, <3>2, <3>3 DEF TimerOnlyBetweenRequests, IdleIsWatched, clientVars
    <2> QED
        BY <2>1, <2>2
<1> QED
    BY <1>1, <1>2, <1>3, <1>4, <1>5 DEF Strand

(* The timer, its handler and the destruction preserve the invariant.       *)
LEMMA TimerInv == IInv /\ (TimerExpires \/ HandleTimeout \/ Destroy) => IInv'
<1> SUFFICES ASSUME IInv, TimerExpires \/ HandleTimeout \/ Destroy PROVE IInv'
    OBVIOUS
<1> USE DEF IInv
<1>1. CASE TimerExpires
    <2>1. TypeOK'
        <3>1. timer' \in BOOLEAN
            BY <1>1, ZenonT(30) DEF TimerExpires
        <3>2. expired' \in Nat
            BY <1>1 DEF TimerExpires, TypeOK
        <3>3. UNCHANGED <<requests, unsent, client, inbox, replies, socket, op,
                          incoming_data_buffer, request_parser, current_request, current_reply,
                          keep_alive, processed_requests>>
            BY <1>1, SMTT(30) DEF TimerExpires, clientVars, parseVars
        <3> QED
            BY <3>1, <3>2, <3>3 DEF TypeOK
    <2>2. UnderWay' /\ Counted'
        BY <1>1 DEF TimerExpires, UnderWay, Counted, clientVars, parseVars
    <2>3. expired' > 0 /\ timer' = FALSE
        BY <1>1 DEF TimerExpires, TypeOK
    <2> QED
        BY <2>1, <2>2, <2>3 DEF TimerOnlyBetweenRequests, IdleIsWatched
<1>2. CASE HandleTimeout
    <2>1. /\ expired' = expired - 1 /\ expired > 0
          /\ op' = IF op = "read" THEN "readError" ELSE IF op = "write" THEN "writeError" ELSE op
          /\ socket' = IF socket = "open" THEN "shut" ELSE socket
          /\ UNCHANGED <<requests, unsent, client, inbox, replies, incoming_data_buffer,
                         request_parser, current_request, current_reply, keep_alive,
                         processed_requests, timer>>
        BY <1>2 DEF HandleTimeout, handle_shutdown, clientVars, parseVars
    <2>2. TypeOK'
        BY <2>1 DEF TypeOK
    <2>3. UnderWay' /\ Counted'
        BY <2>1 DEF UnderWay, Counted
    <2> QED
        BY <2>1, <2>2, <2>3 DEF TimerOnlyBetweenRequests, IdleIsWatched
<1>3. CASE Destroy
    BY <1>3 DEF Destroy, TypeOK, UnderWay, Counted, TimerOnlyBetweenRequests, IdleIsWatched,
                clientVars, parseVars, timerVars
<1> QED
    BY <1>1, <1>2, <1>3

(* IInv is inductive. *)
LEMMA Invariance == Spec => []IInv
<1>1. IInv /\ [Next]_vars => IInv'
    <2> SUFFICES ASSUME IInv, [Next]_vars PROVE IInv'
        OBVIOUS
    <2>1. CASE UNCHANGED vars
        BY <2>1 DEF vars, IInv, TypeOK, UnderWay, Counted, TimerOnlyBetweenRequests, IdleIsWatched
    <2>2. CASE Next
        BY <2>2, ClientInv, CompletionInv, StrandInv, TimerInv DEF Next
    <2> QED
        BY <2>1, <2>2
<1> QED
    BY InitInv, <1>1, PTL DEF Spec

(* Sequences of at most two elements are determined by their elements.      *)
LEMMA ShortSequences ==
    ASSUME NEW S, NEW s \in Seq(S)
    PROVE  /\ Len(s) = 0 => s = <<>>
           /\ Len(s) = 1 => s = <<s[1]>>
           /\ Len(s) = 2 => s = <<s[1], s[2]>>
<1>1. ASSUME Len(s) = 1 PROVE s = <<s[1]>>
    <2> DEFINE t == <<s[1]>>
    <2>1. t \in Seq(S) /\ Len(t) = 1 /\ t[1] = s[1]
        BY <1>1
    <2> HIDE DEF t
    <2>2. s = t
        BY <1>1, <2>1, SeqEqual
    <2> QED
        BY <2>2 DEF t
<1>2. ASSUME Len(s) = 2 PROVE s = <<s[1], s[2]>>
    <2> DEFINE t == <<s[1], s[2]>>
    <2>1. t \in Seq(S) /\ Len(t) = 2 /\ t[1] = s[1] /\ t[2] = s[2]
        <3>1. s[1] \in S /\ s[2] \in S
            BY <1>2, LenProperties
        <3> QED
            BY <3>1
    <2> HIDE DEF t
    <2>2. s = t
        BY <1>2, <2>1, SeqEqual
    <2> QED
        BY <2>2 DEF t
<1> QED
    BY <1>1, <1>2, EmptySeq

(* A step that adds no request and no reply keeps the order of those there  *)
(* are.                                                                     *)
LEMMA OrderFrame ==
    ASSUME Ordered, UNCHANGED <<requests, replies>>, PeerGone' \/ Connected'
    PROVE  Ordered'
<1>1. AnswersInOrder'
    BY DEF Ordered, AnswersInOrder
<1> QED
    BY <1>1 DEF Ordered

(* When the peer is gone it stays gone, sends nothing and receives nothing. *)
LEMMA GoneOrdered == ASSUME IInv, Ordered, PeerGone, Next PROVE Ordered'
<1> USE DEF PeerGone, IInv, TypeOK, clientVars, handle_shutdown
<1>1. UNCHANGED <<requests, replies>> /\ PeerGone'
    <2>1. CASE Client
        BY <2>1 DEF Client, ClientAsks, PieceArrives, ClientCloses
    <2>2. CASE Completion
        BY <2>2 DEF Completion, ReadCompletes, ReadFails, WriteCompletes, WriteFails
    <2>3. CASE Strand
        BY <2>3 DEF Strand, HandleReadError, HandleRead, Respond, HandleWriteError, HandleWrite
    <2>4. CASE TimerExpires \/ HandleTimeout \/ Destroy
        BY <2>4 DEF TimerExpires, HandleTimeout, Destroy
    <2> QED
        BY <2>1, <2>2, <2>3, <2>4, SMTT(30) DEF Next
<1> QED
    BY <1>1, OrderFrame

(* The client asks for more when it has its answer, and then nothing of the *)
(* earlier requests is under way; a piece that arrives is of the last one.  *)
LEMMA ClientOrdered == ASSUME IInv, Ordered, ~PeerGone, Client PROVE Ordered'
<1>n. PICK n \in Nat : n = Len(requests)
    BY DEF IInv, TypeOK
<1>0. Connected /\ n = Len(requests) /\ Len(replies) \in Nat
    BY <1>n DEF Ordered, IInv, TypeOK
<1>1. ASSUME NEW r \in Request, ClientAsks(r) PROVE Ordered'
    <2>1. /\ requests' \in Seq(Request) /\ Len(requests') = n + 1
          /\ \A j \in 1 .. n : requests'[j] = requests[j]
          /\ requests'[n + 1] = r
        BY <1>0, <1>1 DEF ClientAsks, IInv, TypeOK
    <2>2. /\ ~Due /\ unsent' = r.text /\ Len(replies) >= n
          /\ UNCHANGED <<inbox, replies, client, socket, op, incoming_data_buffer, request_parser,
                         current_request, current_reply>>
        BY <1>0, <1>1 DEF ClientAsks, parseVars, Due
    <2>3. AnswersInOrder'
        <3> SUFFICES ASSUME NEW k \in DOMAIN replies,
                            \A j \in 1 .. k - 1 : j \in DOMAIN requests'
                                => requests'[j].text = WellFormed
                     PROVE  replies[k].of = k
            BY <2>2 DEF AnswersInOrder
        <3>1. DOMAIN requests = 1 .. n /\ DOMAIN requests' = 1 .. n + 1
            BY <1>0, <2>1 DEF IInv, TypeOK
        <3>2. \A j \in 1 .. k - 1 : j \in DOMAIN requests => requests[j].text = WellFormed
            BY <1>0, <2>1, <3>1
        <3> QED
            BY <3>2 DEF Ordered, AnswersInOrder
    <2>4. Sound(n)' => Sound(n)
        BY <1>0, <2>1 DEF Sound
    <2>5. Sound(n + 1)' => Sound(n) /\ r.text = WellFormed
        BY <1>0, <2>1 DEF Sound
    <2>6. Sound(n) => AwaitsRequest /\ NothingToCome /\ Len(replies) = n
        BY <1>0, <2>2 DEF Connected
    <2>7. Sound(n) => OnlyOf(n + 1)'
        BY <2>2, <2>6 DEF AwaitsRequest, NothingToCome, OnlyOf
    <2>8. Sound(n + 1)' => MetOnce'
        BY <2>2, <2>5, <2>6 DEF AwaitsRequest, NothingToCome, MetOnce, AllToCome
    <2>9. Sound(n + 1)' => Due'
        BY <1>0, <2>1, <2>2, <2>5, <2>6 DEF Due
    <2>10. Connected'
        <3>1. op' \notin {"readError", "writeError", "none"}
            BY <1>0, <2>2 DEF Connected
        <3>2. Due' /\ Sound(n)' => OnlyOf(n + 1)'
            BY <2>4, <2>7
        <3> QED
            BY <1>0, <2>1, <2>8, <2>9, <3>1, <3>2 DEF Connected
    <2> QED
        BY <1>0, <2>1, <2>2, <2>3, <2>10 DEF Ordered
<1>2. CASE PieceArrives
    <2> DEFINE p == [kind |-> Head(unsent), of |-> n]
    <2>1. /\ unsent # <<>> /\ inbox' = Append(inbox, p) /\ unsent' = Tail(unsent)
          /\ UNCHANGED <<requests, replies, client, socket, op, incoming_data_buffer,
                         request_parser, current_request, current_reply>>
        BY <1>0, <1>2 DEF PieceArrives, parseVars
    <2>2. Due = Due' /\ \A k : Sound(k)' = Sound(k)
        BY <2>1 DEF Due, Sound
    <2>3. OnlyOf(n) => OnlyOf(n)'
        <3>1. /\ DOMAIN inbox = 1 .. Len(inbox) /\ DOMAIN inbox' = 1 .. Len(inbox) + 1
              /\ Len(inbox) \in Nat /\ inbox'[Len(inbox) + 1] = p
              /\ \A i \in 1 .. Len(inbox) : inbox'[i] = inbox[i]
            BY <2>1 DEF IInv, TypeOK
        <3>2. OnlyOf(n) => \A i \in DOMAIN inbox' : inbox'[i].of = n
            BY <3>1 DEF OnlyOf
        <3> QED
            BY <2>1, <3>2 DEF OnlyOf
    <2>4. MetOnce => MetOnce'
        <3>1. TailToCome => TailToCome'
            <4>1. CASE inbox = <<>> /\ unsent = <<"tail">>
                <5>1. inbox' = <<TailPiece>> /\ unsent' = <<>>
                    BY <1>0, <2>1, <4>1 DEF TailPiece
                <5> QED
                    BY <2>1, <5>1, ZenonT(30) DEF TailToCome, TailPiece
            <4> QED
                BY <2>1, <4>1 DEF TailToCome
        <3>2. AllToCome => AllToCome'
            <4>1. CASE inbox = <<>> /\ unsent = WellFormed
                <5>1. inbox' = <<HeadPiece>> /\ unsent' = <<"tail">>
                    BY <1>0, <2>1, <4>1 DEF HeadPiece, WellFormed
                <5> QED
                    BY <2>1, <5>1, ZenonT(30) DEF AllToCome, HeadPiece
            <4>2. CASE inbox = <<HeadPiece>> /\ unsent = <<"tail">>
                <5>1. p = TailPiece /\ unsent' = <<>>
                    BY <1>0, <2>1, <4>2 DEF TailPiece
                <5> HIDE DEF p
                <5>2. inbox' = <<HeadPiece, TailPiece>>
                    <6>1. inbox' \in Seq({HeadPiece, TailPiece}) /\ Len(inbox') = 2
                          /\ inbox'[1] = HeadPiece /\ inbox'[2] = TailPiece
                        BY <2>1, <4>2, <5>1
                    <6> QED
                        BY <6>1, ShortSequences
                <5> QED
                    BY <2>1, <5>1, <5>2, ZenonT(30) DEF AllToCome, HeadPiece, TailPiece
            <4> QED
                BY <2>1, <4>1, <4>2 DEF AllToCome
        <3>3. HeadPiece' = HeadPiece /\ TailPiece' = TailPiece /\ ~NothingToCome
            BY <2>1 DEF HeadPiece, TailPiece, NothingToCome
        <3> QED
            BY <2>1, <3>1, <3>2, <3>3 DEF MetOnce, AwaitsRequest
    <2>5. Connected'
        BY <1>0, <2>1, <2>2, <2>3, <2>4 DEF Connected, NothingToCome
    <2> QED
        BY <2>1, <2>5, OrderFrame
<1>3. CASE ClientCloses
    BY <1>3, OrderFrame DEF ClientCloses, PeerGone
<1> QED
    BY <1>1, <1>2, <1>3 DEF Client

(* A read takes the pieces that have arrived from the socket to the buffer, *)
(* in their order; a write that completes answers the request that is due.  *)
LEMMA CompletionOrdered == ASSUME IInv, Ordered, ~PeerGone, Completion PROVE Ordered'
<1>n. PICK n \in Nat : n = Len(requests)
    BY DEF IInv, TypeOK
<1>m. PICK m \in Nat : m = Len(replies)
    BY DEF IInv, TypeOK
<1>0. Connected /\ n = Len(requests) /\ m = Len(replies) /\ m >= n - 1
    BY <1>n, <1>m DEF Ordered
<1>1. CASE ReadCompletes
    <2>1. /\ op = "read" /\ op' = "readDone"
          /\ UNCHANGED <<requests, replies, unsent, client, socket, request_parser,
                         current_request, current_reply>>
        BY <1>1 DEF ReadCompletes, clientVars
    <2>2. PICK k \in 1 .. Len(inbox) :
              /\ incoming_data_buffer' = SubSeq(inbox, 1, k)
              /\ inbox' = SubSeq(inbox, k + 1, Len(inbox))
        BY <1>1 DEF ReadCompletes
    <2>3. inbox \in Seq(Piece) /\ Len(inbox) \in Nat /\ inbox # <<>>
        BY <2>2 DEF IInv, TypeOK
    <2>4. /\ incoming_data_buffer' \in Seq(Piece) /\ inbox' \in Seq(Piece)
          /\ Len(incoming_data_buffer') = k /\ Len(inbox') = Len(inbox) - k
          /\ \A i \in 1 .. k : incoming_data_buffer'[i] = inbox[i]
          /\ \A i \in 1 .. Len(inbox) - k : inbox'[i] = inbox[k + i]
        BY <2>2, <2>3, SubSeqProperties
    <2>5. Due = Due' /\ (\A j : Sound(j)' = Sound(j)) /\ HeadPiece' = HeadPiece
          /\ TailPiece' = TailPiece
        BY <2>1 DEF Due, Sound, HeadPiece, TailPiece
    <2>6. OnlyOf(n) => OnlyOf(n)'
        <3> SUFFICES ASSUME OnlyOf(n) PROVE OnlyOf(n)'
            OBVIOUS
        <3>1. \A i \in DOMAIN incoming_data_buffer' : incoming_data_buffer'[i].of = n
            BY <2>2, <2>3, <2>4 DEF OnlyOf
        <3>2. \A i \in 1 .. Len(inbox) - k : k + i \in DOMAIN inbox
            BY <2>2, <2>3
        <3>3. DOMAIN inbox' = 1 .. Len(inbox) - k
            BY <2>4, LenProperties
        <3>4. \A i \in DOMAIN inbox' : inbox'[i].of = n
            <4> SUFFICES ASSUME NEW i \in 1 .. Len(inbox) - k PROVE inbox'[i].of = n
                BY <3>3
            <4>1. inbox'[i] = inbox[k + i] /\ k + i \in DOMAIN inbox
                BY <2>4, <3>2
            <4> QED
                BY <4>1 DEF OnlyOf
        <3> QED
            BY <2>1, <3>1, <3>4 DEF OnlyOf
    <2>7. MetOnce => MetOnce'
        <3>1. ASSUME NEW a, inbox = <<a>>
              PROVE  incoming_data_buffer' = <<a>> /\ inbox' = <<>>
            <4>1. k = 1 /\ Len(inbox) = 1 /\ inbox[1] = a
                BY <2>2, <3>1
            <4> QED
                BY <2>4, <4>1, ShortSequences
        <3>2. ASSUME NEW a, NEW b, inbox = <<a, b>>
              PROVE  \/ incoming_data_buffer' = <<a>> /\ inbox' = <<b>>
                     \/ incoming_data_buffer' = <<a, b>> /\ inbox' = <<>>
            <4>1. k \in {1, 2} /\ Len(inbox) = 2 /\ inbox[1] = a /\ inbox[2] = b
                BY <2>2, <3>2
            <4>2. CASE k = 1
                BY <2>4, <4>1, <4>2, ShortSequences
            <4>3. CASE k = 2
                BY <2>4, <4>1, <4>3, ShortSequences
            <4> QED
                BY <4>1, <4>2, <4>3
        <3>3. CASE AwaitsRequest /\ AllToCome
            <4>1. request_parser' = "fresh"
                BY <2>1, <3>3 DEF AwaitsRequest
            <4>2. CASE inbox = <<HeadPiece>> /\ unsent = <<"tail">>
                <5>1. incoming_data_buffer' = <<HeadPiece>> /\ inbox' = <<>>
                    BY <3>1, <4>2
                <5> QED
                    BY <2>1, <2>5, <4>1, <4>2, <5>1 DEF MetOnce, TailToCome
            <4>3. CASE inbox = <<HeadPiece, TailPiece>> /\ unsent = <<>>
                <5>1. \/ incoming_data_buffer' = <<HeadPiece>> /\ inbox' = <<TailPiece>>
                      \/ incoming_data_buffer' = <<HeadPiece, TailPiece>> /\ inbox' = <<>>
                    BY <3>2, <4>3
                <5> QED
                    BY <2>1, <2>5, <4>1, <4>3, <5>1 DEF MetOnce, TailToCome, NothingToCome
            <4> QED
                BY <2>3, <3>3, <4>2, <4>3 DEF AllToCome
        <3>4. CASE request_parser = "inside" /\ TailToCome
            <4>1. inbox = <<TailPiece>> /\ unsent = <<>>
                BY <2>3, <3>4 DEF TailToCome
            <4>2. incoming_data_buffer' = <<TailPiece>> /\ inbox' = <<>>
                BY <3>1, <4>1
            <4> QED
                BY <2>1, <2>5, <3>4, <4>1, <4>2 DEF MetOnce, NothingToCome
        <3> QED
            BY <2>1, <3>3, <3>4 DEF MetOnce
    <2>8. Connected'
        BY <1>0, <2>1, <2>3, <2>5, <2>6, <2>7 DEF Connected, NothingToCome
    <2> QED
        BY <2>1, <2>8, OrderFrame
<1>2. CASE ReadFails
    BY <1>2 DEF ReadFails
<1>3. CASE WriteCompletes
    <2> DEFINE reply == [of |-> current_reply.of, connection |-> current_reply.connection]
    <2>1. /\ op = "write" /\ op' = "writeDone"
          /\ replies' = Append(replies, reply)
          /\ UNCHANGED <<requests, unsent, inbox, client, socket, incoming_data_buffer,
                         request_parser, current_request, current_reply>>
        BY <1>3, SMTT(30) DEF WriteCompletes, clientVars, parseVars, PeerGone
    <2>2. /\ Len(replies') = m + 1
          /\ DOMAIN replies = 1 .. m /\ DOMAIN replies' = 1 .. m + 1
          /\ \A k \in 1 .. m : replies'[k] = replies[k]
          /\ replies'[m + 1] = reply
        <3>1. reply \in Received
            BY <2>1 DEF IInv, UnderWay, Reply, Received
        <3> QED
            BY <1>0, <2>1, <3>1, SMTT(30) DEF IInv, TypeOK
    <2>3. DOMAIN requests = 1 .. n
        BY <1>0 DEF IInv, TypeOK
    <2>4. ASSUME Sound(n) PROVE Due /\ NothingToCome /\ incoming_data_buffer = <<>>
        <3>1. Due
            BY <1>0, <2>1, <2>4 DEF Connected, AwaitsRequest
        <3>2. MetOnce
            BY <1>0, <2>4, <3>1 DEF Connected
        <3> QED
            BY <2>1, <3>1, <3>2 DEF MetOnce, AwaitsRequest
    <2>5. AnswersInOrder'
        <3> SUFFICES ASSUME NEW k \in 1 .. m + 1,
                            \A j \in 1 .. k - 1 : j \in DOMAIN requests
                                => requests[j].text = WellFormed
                     PROVE  replies'[k].of = k
            BY <2>1, <2>2 DEF AnswersInOrder
        <3>1. CASE k \in 1 .. m
            BY <2>2, <3>1 DEF Ordered, AnswersInOrder
        <3>2. CASE k = m + 1
            <4>1. (m < n /\ Sound(m)) \/ (m >= n /\ Sound(n))
                BY <1>0, <2>3, <3>2 DEF Sound
            <4>2. Due /\ m = n - 1
                BY <1>0, <2>4, <4>1 DEF Due
            <4>3. Sound(n - 1)
                BY <4>1, <4>2
            <4>4. OnlyOf(n)
                BY <1>0, <4>2, <4>3 DEF Connected
            <4>5. current_reply.of = n
                BY <2>1, <4>4 DEF OnlyOf
            <4> QED
                BY <2>2, <3>2, <4>2, <4>5
        <3> QED
            BY <3>1, <3>2
    <2>6. ~Due'
        BY <1>0, <2>1, <2>2 DEF Due
    <2>7. Sound(n)' => Len(replies') = n /\ AwaitsRequest' /\ NothingToCome'
        BY <1>0, <2>1, <2>2, <2>4 DEF Sound, Due, AwaitsRequest, NothingToCome
    <2>8. Connected'
        BY <1>0, <2>1, <2>6, <2>7 DEF Connected
    <2> QED
        BY <1>0, <2>1, <2>2, <2>5, <2>8 DEF Ordered
<1>4. CASE WriteFails
    BY <1>4 DEF WriteFails
<1> QED
    BY <1>1, <1>2, <1>3, <1>4 DEF Completion

(* handle_read meets the pieces of the request that is due once and in the  *)
(* right state; handle_write makes the parser ready for the next one.       *)
LEMMA StrandOrdered == ASSUME IInv, Ordered, ~PeerGone, Strand PROVE Ordered'
<1>n. PICK n \in Nat : n = Len(requests)
    BY DEF IInv, TypeOK
<1>0. Connected /\ n = Len(requests)
    BY <1>n DEF Ordered
<1>1. CASE HandleReadError \/ HandleWriteError
    BY <1>0, <1>1 DEF HandleReadError, HandleWriteError, Connected
<1>2. CASE HandleRead
    <2>1. /\ op = "readDone" /\ incoming_data_buffer' = <<>>
          /\ UNCHANGED <<requests, replies, unsent, client, inbox>>
        BY <1>2 DEF HandleRead, clientVars
    <2>2. PICK i \in DOMAIN incoming_data_buffer :
              /\ current_request' = incoming_data_buffer[i].of
              /\ socket' = socket
              /\ \/ /\ parse(i, "indeterminate")
                    /\ request_parser' = "inside" /\ op' = "read"
                 \/ /\ parse(i, "invalid")
                    /\ current_reply'.of = current_request' /\ op' = "write"
                    /\ request_parser' = request_parser
                 \/ /\ parse(i, "valid")
                    /\ op' = "handling" /\ request_parser' = request_parser
        BY <1>2 DEF HandleRead, PeerGone
    <2>3. /\ Due' = Due /\ (\A j : Sound(j)' = Sound(j))
          /\ (NothingToCome => NothingToCome') /\ (TailToCome => TailToCome')
        BY <2>1 DEF Due, Sound, NothingToCome, TailToCome, TailPiece
    <2>4. OnlyOf(n) => OnlyOf(n)'
        BY <2>1, <2>2, SMTT(30) DEF OnlyOf
    <2>5. MetOnce => MetOnce'
        <3>1. CASE /\ request_parser = "fresh"
                   /\ incoming_data_buffer = <<HeadPiece>> /\ TailToCome
            <4>1. i = 1 /\ Verdict(1) = "indeterminate" /\ DOMAIN incoming_data_buffer = {1}
                BY <3>1 DEF Verdict, consume, HeadPiece
            <4>2. Deciding = {}
                BY <4>1 DEF Deciding
            <4>3. op' = "read" /\ request_parser' = "inside"
                BY <2>2, <4>2 DEF parse
            <4> QED
                BY <2>1, <2>3, <3>1, <4>3 DEF MetOnce
        <3>2. CASE /\ request_parser = "fresh"
                   /\ incoming_data_buffer = <<HeadPiece, TailPiece>> /\ NothingToCome
            <4>1. /\ Verdict(1) = "indeterminate" /\ Verdict(2) = "valid"
                  /\ DOMAIN incoming_data_buffer = {1, 2} /\ i \in {1, 2}
                BY <3>2 DEF Verdict, consume, HeadPiece, TailPiece
            <4>2. Deciding = {2}
                BY <4>1 DEF Deciding
            <4>3. op' = "handling"
                BY <2>2, <4>1, <4>2 DEF parse
            <4> QED
                BY <2>1, <2>3, <3>2, <4>3 DEF MetOnce
        <3>3. CASE /\ request_parser = "inside"
                   /\ incoming_data_buffer = <<TailPiece>> /\ NothingToCome
            <4>1. i = 1 /\ Verdict(1) = "valid" /\ DOMAIN incoming_data_buffer = {1}
                BY <3>3 DEF Verdict, consume, TailPiece
            <4>2. Deciding = {1}
                BY <4>1 DEF Deciding
            <4>3. op' = "handling"
                BY <2>2, <4>1, <4>2 DEF parse
            <4> QED
                BY <2>1, <2>3, <3>3, <4>3 DEF MetOnce
        <3> QED
            BY <2>1, <3>1, <3>2, <3>3 DEF MetOnce, AwaitsRequest
    <2>6. Sound(n) => Due
        BY <1>0, <2>1, SMTT(30) DEF Connected, AwaitsRequest
    <2>7. Connected'
        BY <1>0, <2>1, <2>2, <2>3, <2>4, <2>5, <2>6 DEF Connected
    <2> QED
        BY <2>1, <2>7, OrderFrame
<1>3. ASSUME NEW status \in Statuses, Respond(status) PROVE Ordered'
    <2>1. /\ op = "handling" /\ op' = "write" /\ current_reply'.of = current_request
          /\ UNCHANGED <<requests, replies, unsent, client, inbox, socket, incoming_data_buffer,
                         request_parser, current_request>>
        BY <1>3 DEF Respond, HandleRequest, clientVars, parseVars
    <2>2. Due' = Due /\ (\A j : Sound(j)' = Sound(j)) /\ (NothingToCome => NothingToCome')
        BY <2>1, SMTT(30) DEF Due, Sound, NothingToCome
    <2>3. (OnlyOf(n) => OnlyOf(n)') /\ (MetOnce => MetOnce')
        BY <2>1, <2>2 DEF OnlyOf, MetOnce, AwaitsRequest
    <2>4. Sound(n) => Due
        BY <1>0, <2>1 DEF Connected, AwaitsRequest
    <2>5. Connected'
        BY <1>0, <2>1, <2>2, <2>3, <2>4 DEF Connected
    <2> QED
        BY <2>1, <2>5, OrderFrame
<1>4. CASE HandleWrite
    <2>1. op = "writeDone" /\ UNCHANGED <<requests, replies, unsent, client, inbox>>
        BY <1>4 DEF HandleWrite, clientVars
    <2>2. CASE ~Keeps
        <3>1. PeerGone'
            BY <1>4, <2>2 DEF HandleWrite, handle_shutdown, PeerGone
        <3> QED
            BY <2>1, <3>1, OrderFrame
    <2>3. CASE Keeps
        <3>1. /\ op' = "read" /\ request_parser' = "fresh" /\ incoming_data_buffer' = <<>>
            BY <1>4, <2>3 DEF HandleWrite, Reset, start
        <3>2. /\ Due' = Due /\ (\A j : Sound(j)' = Sound(j))
              /\ (NothingToCome => NothingToCome') /\ (AllToCome => AllToCome')
            BY <2>1 DEF Due, Sound, NothingToCome, AllToCome, HeadPiece, TailPiece
        <3>3. (OnlyOf(n) => OnlyOf(n)') /\ AwaitsRequest'
            BY <2>1, <3>1 DEF OnlyOf, AwaitsRequest
        <3>4. MetOnce => MetOnce'
            BY <2>1, <3>2, <3>3 DEF MetOnce
        <3>5. Connected'
            BY <1>0, <2>1, <3>1, <3>2, <3>3, <3>4 DEF Connected
        <3> QED
            BY <2>1, <3>5, OrderFrame
    <2> QED
        BY <2>2, <2>3
<1> QED
    BY <1>1, <1>2, <1>3, <1>4 DEF Strand

(* A timeout takes the peer away; the timer itself disturbs nothing.        *)
LEMMA TimerOrdered ==
    ASSUME IInv, Ordered, ~PeerGone, TimerExpires \/ HandleTimeout \/ Destroy
    PROVE  Ordered'
<1>0. Connected
    BY DEF Ordered
<1>1. CASE TimerExpires
    <2>1. UNCHANGED <<requests, replies, unsent, client, inbox, socket, op, incoming_data_buffer,
                      request_parser, current_request, current_reply>>
        BY <1>1, SMTT(30) DEF TimerExpires, clientVars, parseVars
    <2>2. Connected'
        BY <1>0, <2>1 DEF Connected, Due, Sound, OnlyOf, MetOnce, AwaitsRequest, NothingToCome,
                          TailToCome, AllToCome, HeadPiece, TailPiece
    <2> QED
        BY <2>1, <2>2, OrderFrame
<1>2. CASE HandleTimeout
    BY <1>2, OrderFrame DEF HandleTimeout, handle_shutdown, PeerGone, clientVars
<1>3. CASE Destroy
    BY <1>0, <1>3 DEF Destroy, Connected
<1> QED
    BY <1>1, <1>2, <1>3

(* Ordered is inductive relative to IInv. *)
LEMMA OrderInvariance == Spec => []Ordered
<1>1. Init => Ordered
    BY DEF Init, Ordered, AnswersInOrder, Connected, Due, AwaitsRequest, NothingToCome
<1>2. IInv /\ Ordered /\ [Next]_vars => Ordered'
    <2> SUFFICES ASSUME IInv, Ordered, [Next]_vars PROVE Ordered'
        OBVIOUS
    <2>1. CASE UNCHANGED vars
        <3>1. PeerGone \/ Connected => PeerGone' \/ Connected'
            BY <2>1 DEF vars, PeerGone, Connected, Due, Sound, OnlyOf, MetOnce, AwaitsRequest,
                        NothingToCome, TailToCome, AllToCome, HeadPiece, TailPiece
        <3> QED
            BY <2>1, <3>1, OrderFrame, SMTT(30) DEF vars, Ordered
    <2>2. CASE Next /\ PeerGone
        BY <2>2, GoneOrdered
    <2>3. CASE Next /\ ~PeerGone
        BY <2>3, ClientOrdered, CompletionOrdered, StrandOrdered, TimerOrdered DEF Next
    <2> QED
        BY <2>1, <2>2, <2>3
<1> QED
    BY <1>1, <1>2, Invariance, PTL DEF Spec

(* The state of a connection stays well typed: every handler finds the      *)
(* request and the reply it works on.                                       *)
THEOREM ConnectionTyped == Spec => []TypeOK
<1>1. IInv => TypeOK
    BY DEF IInv
<1> QED
    BY Invariance, <1>1, PTL

(* Whatever the client sends and however reads, writes and timeouts         *)
(* interleave, handle_write lets at most one request more through than      *)
(* processed_requests starts with.                                          *)
THEOREM RequestsAreLimited == Spec => []RequestsLimited
<1>1. IInv => RequestsLimited
    BY ProcessedAssumption DEF IInv, TypeOK, Counted, RequestsLimited
<1> QED
    BY Invariance, <1>1, PTL

(* No keep-alive timer runs while a request is read on, handled or          *)
(* answered.                                                                *)
THEOREM TimerIsIdle == Spec => []TimerOnlyBetweenRequests
<1>1. IInv => TimerOnlyBetweenRequests
    BY DEF IInv
<1> QED
    BY Invariance, <1>1, PTL

(* A kept connection that waits for its next request always has a timer, a  *)
(* queued timeout or a socket that is shut to end the wait.                 *)
THEOREM IdleAlwaysWatched == Spec => []IdleIsWatched
<1>1. IInv => IdleIsWatched
    BY DEF IInv
<1> QED
    BY Invariance, <1>1, PTL

(* Up to the first request that does not parse, the client gets its answers *)
(* in the order of its requests, one for each: however requests are cut     *)
(* into pieces and reads return them, whenever handle_timeout interrupts    *)
(* the strand, and for any number of requests on the connection.            *)
THEOREM RepliesInOrder == Spec => []AnswersInOrder
<1>1. Ordered => AnswersInOrder
    BY DEF Ordered
<1> QED
    BY OrderInvariance, <1>1, PTL
=============================================================================
