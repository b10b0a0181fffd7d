------------------------------- MODULE HttpReq -------------------------------
(***************************************************************************)
(* HTTP requests (HttpReq.cpp) and web socket frames (WebSktPack.cpp) as   *)
(* they are read from the receive buffer of a connection.                  *)
(*                                                                         *)
(* A peer sends a sequence of items: the lines of a request, its body,     *)
(* frames.  On the wire each is two parts, for the network may cut it: the *)
(* buffer is a sequence of [item, index, part].  A line is read when both  *)
(* parts are there, and so is a frame.  What tells the items apart:        *)
(*   "GET", "POST"        request lines: only the first is understood      *)
(*   "Keep-Alive", "close", "Upgrade", "Key", "Length", "Other"   headers  *)
(*   "blank"              the line that ends the headers                   *)
(*   "body"               of the size that "Length" announced              *)
(*   "text", "binary", "ping", "close frame", "more"              frames   *)
(*   "long"               a text frame with a length of 64 bits            *)
(*   "unmasked"           a frame without a mask, or of no known opcode    *)
(***************************************************************************)
EXTENDS Naturals, Sequences, SequencesExt

BodySize == 2

NoReq == [state |-> "deleted"]

NewReq ==
    [state |-> "stReqLine", bodyLength |-> 0, handShake |-> FALSE,
     webSocket |-> FALSE, key |-> FALSE, keepAlive |-> FALSE, conn |-> FALSE]

\* HttpCodec calls Reset when the request is complete.  It takes back neither
\* the state nor what the headers said, Upgrade excepted.
Reset(r) == [r EXCEPT !.webSocket = FALSE, !.conn = FALSE]

\* The first header of a name counts.
Header(r, item) ==
    CASE item = "Keep-Alive" /\ ~ r.conn -> [r EXCEPT !.keepAlive = TRUE, !.conn = TRUE]
      [] item = "close" /\ ~ r.conn      -> [r EXCEPT !.conn = TRUE]
      [] item = "Upgrade"                -> [r EXCEPT !.webSocket = TRUE]
      [] item = "Key"                    -> [r EXCEPT !.key = TRUE]
      [] item = "Length"                 -> [r EXCEPT !.bodyLength = BodySize]
      [] OTHER                           -> r

Drop(b, n) == SubSeq(b, n + 1, Len(b))

\* GetLine found the end of a line among the bytes received.
HasLine(b) == Len(b) >= 2

\* Variant: the bytes of a body that are there are taken for all of it.
BodyIsInAny(r, b) == b # <<>>

BodyIsIn(r, b) == Len(b) >= r.bodyLength

\* A turn of the loop of ParseReq, whose state is [req, buf, ret, stale]: ret is
\* "none" until it returns, stale when GetLine looked for the end of a line
\* behind the last byte received.
Turn(p) ==
    LET r == p.req
        Returns(ret) == [p EXCEPT !.ret = ret]
        Goes(req, size) == [p EXCEPT !.req = req, !.buf = Drop(@, size)]
        To(state) == [r EXCEPT !.state = state]
    IN  CASE r.state = "stComplete" -> Returns("psComplete")
          [] r.state = "stBody" ->
                IF BodyIsIn(r, p.buf) THEN Goes(To("stComplete"), r.bodyLength)
                ELSE Returns("psNotFullBody")
          [] r.state \in {"stReqLine", "stHeader"} /\ ~ HasLine(p.buf) ->
                [Returns("psBadLine") EXCEPT !.stale = TRUE]
          [] r.state = "stReqLine" /\ HasLine(p.buf) ->
                IF p.buf[1].item = "GET" THEN Goes(To("stHeader"), 2)
                ELSE Returns("psBadLine")
          [] r.state = "stHeader" /\ HasLine(p.buf) ->
                IF p.buf[1].item # "blank" THEN Goes(Header(r, p.buf[1].item), 2)
                ELSE IF r.bodyLength > 0
                THEN [Goes(To("stBody"), 2) EXCEPT !.ret = "psNextLine"]
                ELSE Goes(To("stComplete"), 2)

\* A turn that does not return takes a line or the body, so that there are fewer
\* of those than parts in the buffer.
ParseReq(r, b) ==
    LET after[n \in Nat] ==
            IF n = 0 THEN [req |-> r, buf |-> b, ret |-> "none", stale |-> FALSE]
            ELSE LET p == after[n - 1] IN IF p.ret = "none" THEN Turn(p) ELSE p
    IN  after[Len(b) + 1]

-----------------------------------------------------------------------------
(* WebSktPack::DecodePack: the set of what it may return, [frame, size, op]; *)
(* no frame when that is not complete or not a frame, which the codec does   *)
(* not tell apart.                                                           *)

NoFrame == [frame |-> FALSE, size |-> 0, op |-> "none"]

Frame(size, op) == [frame |-> TRUE, size |-> size, op |-> op]

\* What bytes that are no header may be taken for: nothing, or a frame of any
\* kind that ends anywhere, also within a part, or far behind where it began.
Anything(b) ==
    {NoFrame} \cup [frame : {TRUE}, size : 0 .. Len(b),
                    op : {"text", "binary", "ping", "close frame", "more"}]

\* The length of 64 bits is converted as one of 16, so that its upper bytes
\* count, which are 0: that frame ends where its payload begins, and the
\* headers are not found again from there (inStep no more).
DecodePack(b, inStep) ==
    CASE b = <<>>                             -> {NoFrame}
      [] b # <<>> /\ ~ inStep                 -> Anything(b)
      [] b # <<>> /\ inStep /\ b[1].item = "long" -> {Frame(1, "text")}
      [] OTHER -> IF Len(b) < 2 \/ b[1].item = "unmasked" THEN {NoFrame}
                  ELSE {Frame(2, b[1].item)}
=============================================================================
