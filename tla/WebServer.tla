------------------------------ MODULE WebServer ------------------------------
(***************************************************************************)
(* A connection of an HttpServer or a WebSktServer: the handlers of        *)
(* TcpConn, the codec (HttpCodec, WebSktCodec in PackCodec.cpp) that reads *)
(* from its receive buffer, and the callbacks of the server.  The peer     *)
(* sends one of Streams, cut anywhere.                                     *)
(*                                                                         *)
(* GetLine runs on behind the bytes received.  What it finds there, in     *)
(* memory that was never written or written long ago, may be the end of a  *)
(* line: then the read position passes the write position.  The model      *)
(* stops there (lost).                                                     *)
(***************************************************************************)
EXTENDS TcpConn, HttpReq

CONSTANT Streams    \* sequences of items

ASSUME WebServerAssumption == Conn = {1} /\ MaxAge = 0 /\ \A s \in Streams : s \in Seq(STRING)

Frames == {"text", "binary", "ping", "close frame", "more", "long", "unmasked"}

\* The request of a stream ends with item q.
RequestEnds(s, q) == s[q] = "blank" /\ \A i \in 1 .. q - 1 : s[i] # "blank"

\* What the items mean.  A body is what "Length" announced, so that it comes
\* behind a request that announced one.  Behind a request for a web socket bytes
\* are read as frames, whatever they are: those of no frame are "unmasked".
ASSUME StreamsAssumption ==
    \A s \in Streams : \A j \in 1 .. Len(s) :
        /\ s[j] = "body" =>
              j > 1 /\ RequestEnds(s, j - 1) /\ \E i \in 1 .. j - 2 : s[i] = "Length"
        /\ \A q \in 1 .. j - 1 :
              RequestEnds(s, q) /\ (\A h \in {"Upgrade", "Key"} : \E i \in 1 .. q : s[i] = h)
                 => s[j] \in Frames \cup {"body"}

VARIABLES
    kind,           \* "http" or "websocket"
    io,             \* the connection: see TcpConn
    req,            \* its context, the HttpReq
    rcv,            \* its receive buffer
    coming,         \* what the peer sends and was not received yet
    sent,           \* history: what SendBuf accepted, in order
    handled,        \* history: the first parts of the frames that were decoded
    burst,          \* history: a read brought the end of two frames at once
    lost            \* the read position passed the write position

vars == <<kind, io, req, rcv, coming, sent, handled, burst, lost>>

Parts(s) == [k \in 1 .. 2 * Len(s) |->
                [item |-> s[(k + 1) \div 2], index |-> (k + 1) \div 2, part |-> 2 - (k % 2)]]

Closed == [conn |-> [c \in Conn |-> NewConn], idle |-> <<>>, vecFree |-> <<>>]

\* OnConnect of either server gives the connection a new HttpReq.
OnConnect == NewReq

Init ==
    /\ kind \in {"http", "websocket"}
    /\ io = Enabled(OnEnableConnect(Closed, 1), 1) /\ req = OnConnect
    /\ \E s \in Streams : coming = Parts(s)
    /\ rcv = <<>> /\ sent = <<>> /\ handled = <<>> /\ burst = FALSE /\ lost = FALSE

-----------------------------------------------------------------------------
(* What a handler changes is a record w of io, req, rcv, sent and handled.   *)

State == [io |-> io, req |-> req, rcv |-> rcv, sent |-> sent, handled |-> handled]

Becomes(w) ==
    io' = w.io /\ req' = w.req /\ rcv' = w.rcv /\ sent' = w.sent /\ handled' = w.handled

\* Variant: the state of the connection is not looked at.
SendBufAlways(w, what, result) ==
    [w EXCEPT !.io = SendInLoop(@, 1, result), !.sent = Append(@, what)]

\* What fails is gone.
SendBuf(w, what, result) ==
    IF ~ Is(w.io, 1, "csConnected") THEN w
    ELSE [w EXCEPT !.io = SendInLoop(@, 1, result),
                   !.sent = IF result = "fail" /\ ~ w.io.conn[1].unsent THEN @
                            ELSE Append(@, what)]

\* Looks at the state before it encodes the frame.
SendWebSktBuf(w, what, result) == SendBuf(w, what, result)

ShutDown(w) == [w EXCEPT !.io = Shutdown(@, 1)]

Response(w, code, result) == SendBuf(w, code, result)

\* WebSktCodec::Response.
WebSktResponse(w, code, result) == SendBuf(w, code, result)

OnHttpReq(w, result) == Response(w, "200", result)

IsKeepAlive(r) == r.keepAlive

\* HttpCodec::OnRawBuf.  It looks at the request anew with every read, also when
\* that is complete already, and leaves the connection open when it is bad.
HttpOnRawBuf(w, result) ==
    LET p == ParseReq(w.req, w.rcv)
        read == [w EXCEPT !.req = p.req, !.rcv = p.buf]
        answered == OnHttpReq([read EXCEPT !.req = Reset(p.req)], result)
    IN  IF p.ret # "psComplete" THEN read
        ELSE IF IsKeepAlive(p.req) THEN answered
        ELSE ShutDown(answered)

\* WebSktCodec::OnRawBuf before the handshake.  A line of which the end has not
\* come yet is a bad one.
ShakeHands(w, result) ==
    LET p == ParseReq(w.req, w.rcv)
        read == [w EXCEPT !.req = p.req, !.rcv = p.buf]
    IN  CASE p.ret = "psBadLine" -> ShutDown(WebSktResponse(read, "400", result))
          [] p.ret = "psComplete" /\ ~ (p.req.webSocket /\ p.req.key) ->
                ShutDown(WebSktResponse(read, "1002", result))
          [] p.ret = "psComplete" /\ p.req.webSocket /\ p.req.key ->
                [SendBuf(read, "101", result) EXCEPT !.req.handShake = TRUE]
          [] OTHER -> read

\* Variant: everything in the buffer is taken with the frame.
TakenAll(w, size) ==
    [w EXCEPT !.rcv = <<>>, !.handled = Append(@, w.rcv[1])]

Taken(w, size) ==
    [w EXCEPT !.rcv = Drop(@, size), !.handled = Append(@, w.rcv[1])]

\* A text is answered, whether it is JSON or not.
OnJsonHttpReq(w, result) == SendWebSktBuf(w, "json", result)

\* WebSktCodec::OnRawBuf after it: one frame, whatever the buffer holds.
HandleFrame(w, pack, result) ==
    LET read == Taken(w, pack.size) IN
    CASE ~ pack.frame -> w
      [] pack.frame /\ pack.op = "text"        -> OnJsonHttpReq(read, result)
      [] pack.frame /\ pack.op = "ping"        -> SendBuf(read, "pong", result)
      [] pack.frame /\ pack.op = "binary"      -> WebSktResponse(read, "1003", result)
      [] pack.frame /\ pack.op = "close frame" -> ShutDown(read)
      [] OTHER -> read

\* The codec knows where a header begins, until it has handled a long frame.
InStep(w) == \A k \in DOMAIN w.handled : w.handled[k].item # "long"

\* Variant: only a read that ends a frame is looked at when the last one did.
OnRawBufLate(w, result) ==
    IF kind = "http" THEN {HttpOnRawBuf(w, result)}
    ELSE IF ~ w.req.handShake THEN {ShakeHands(w, result)}
    ELSE {HandleFrame(w, pack, result) : pack \in DecodePack(rcv, InStep(w))}

OnRawBuf(w, result) ==
    IF kind = "http" THEN {HttpOnRawBuf(w, result)}
    ELSE IF ~ w.req.handShake THEN {ShakeHands(w, result)}
    ELSE {HandleFrame(w, pack, result) : pack \in DecodePack(w.rcv, InStep(w))}

-----------------------------------------------------------------------------
(* Events of the connection. *)

Handles(event) == io.conn[1].interest = event /\ ~ lost

Received(n) == [State EXCEPT !.io.conn[1].retOut = FALSE, !.rcv = @ \o SubSeq(coming, 1, n)]

\* The ends of frames, and of the request before them, in the next n parts.
Ends(n) ==
    {k \in 1 .. n : coming[k].part = 2 /\ coming[k].item \in Frames \cup {"blank", "body"}}

OnRead(n) ==
    /\ Handles("in")
    /\ \E result \in SendResult : \E w \in OnRawBuf(Received(n), result) : Becomes(w)
    /\ coming' = Drop(coming, n)
    /\ burst' = (burst \/ \E j, k \in Ends(n) : j # k)
    /\ UNCHANGED <<kind, lost>>

\* The line was completed by what the memory holds.
OnReadStale(n) ==
    /\ Handles("in")
    /\ ~ req.handShake /\ ParseReq(req, Received(n).rcv).stale
    /\ lost' = TRUE
    /\ UNCHANGED <<kind, io, req, rcv, coming, sent, handled, burst>>

OnWrite ==
    /\ Handles("out")
    /\ \E result \in SendResult :
          io' = OnWriteEvent([io EXCEPT !.conn[1].retOut = TRUE], 1, result)
    /\ UNCHANGED <<kind, req, rcv, coming, sent, handled, burst, lost>>

\* HandleClose calls OnClose when the state is csDisConnected already: a 404
\* that SendBuf refuses, and the context goes.
HttpOnClose(w) == [Response(w, "404", "all") EXCEPT !.req = NoReq]

WebSktOnClose(w) == [w EXCEPT !.req = NoReq]

OnClose(w) ==
    LET closed == [w EXCEPT !.io = HandleClose(@, 1)]
    IN  IF w.req = NoReq THEN closed
        ELSE IF kind = "http" THEN HttpOnClose(closed) ELSE WebSktOnClose(closed)

HttpOnError(w, result) == [Response(w, "404", result) EXCEPT !.req = NoReq]

WebSktOnError(w) == [ShutDown(w) EXCEPT !.req = NoReq]

PeerCloses ==
    /\ io.conn[1].interest # "none" /\ ~ lost
    /\ Becomes(OnClose(State))
    /\ UNCHANGED <<kind, coming, burst, lost>>

OnError ==
    /\ Handles("in")
    /\ \E result \in SendResult :
          Becomes(OnClose(IF kind = "http" THEN HttpOnError(State, result)
                          ELSE WebSktOnError(State)))
    /\ UNCHANGED <<kind, coming, burst, lost>>

Next ==
    \/ \E n \in 1 .. Len(coming) : OnRead(n) \/ OnReadStale(n)
    \/ OnWrite \/ PeerCloses \/ OnError

Spec == Init /\ [][Next]_vars

-----------------------------------------------------------------------------
(* Properties. *)

\* An answer that ends the connection is the last: though the codec looks at
\* the request again with every read that follows, and calls the server again,
\* nothing more is sent.
LastAnswerIsLast ==
    \A k \in 1 .. Len(sent) - 1 :
        /\ sent[k] \notin {"400", "1002", "404"}
        /\ sent[k] = "200" /\ req # NoReq => req.keepAlive

\* A request is answered when its body has been read, though the end of the
\* headers returns from ParseReq before it and bodies come in pieces.
BodyReadFirst ==
    \A k \in DOMAIN sent, j \in DOMAIN (rcv \o coming) :
        sent[k] \in {"200", "101"} => (rcv \o coming)[j].item # "body"

\* Frames are handled in the order they were sent, each once and none skipped,
\* however the network cuts them, up to the first long one.  Its payload is taken
\* for frames of any kind and length, and the real ones behind it may be lost.
FramesInOrder ==
    \A k \in 1 .. Len(handled) - 1 :
        (\A j \in 1 .. k : handled[j].item # "long")
            => handled[k + 1].index = handled[k].index + 1

\* No frame that was received whole waits for the peer to send something more,
\* unless two ended in one read, or an unmasked or a long one came before.
NothingWaits ==
    req # NoReq /\ ~ burst /\ InStep(State) =>
        (req.handShake /\ Len(rcv) >= 2 => \A pack \in DecodePack(rcv, TRUE) : ~ pack.frame)
=============================================================================
