--------------------------- MODULE WebServerProofs ---------------------------
(***************************************************************************)
(* Proofs about WebServer.tla, for all streams that satisfy its            *)
(* assumptions.  What the properties need is where the connection is in    *)
(* the stream: there is a number k of parts that were taken, the buffer    *)
(* holds the next ones and the peer has yet to send those behind them (At);*)
(* what the request says is what the first k parts said (ReqAt), what is   *)
(* left in the buffer cannot go on (WaitAt), and the last frame that was   *)
(* handled ends at k (FrameAt).                                            *)
(*                                                                         *)
(* The proof goes up from the turns of ParseReq to ParseReq (ParseAt), from*)
(* there to the codecs (HttpRead, HandsShaken, FramesRead), what they make *)
(* of the invariant (HttpKeeps, HandshakeKeeps, FrameKeeps), and the events*)
(* of the connection (ReadStep, WriteStep, CloseSteps).                    *)
(***************************************************************************)
EXTENDS WebServer, SequenceTheorems, WellFoundedInduction, TLAPS

Part == [item : STRING, index : Nat, part : {1, 2}]

LEMMA Smallest ==
    ASSUME NEW S, S \subseteq Nat, S # {}
    PROVE  \E n \in S : \A m \in S : n <= m
<1> DEFINE R == OpToRel(<, Nat)
<1>1. IsWellFoundedOn(R, Nat)
  BY NatLessThanWellFounded
<1>2. \A x, y \in Nat : <<y, x>> \in R <=> y < x
  BY DEF OpToRel
<1> HIDE DEF R
<1>3. PICK n \in S : \A m \in S : ~ (<<m, n>> \in R)
  BY <1>1, WFMin
<1>4. ASSUME NEW m \in S PROVE n <= m
  <2>1. ~ (<<m, n>> \in R)
    BY <1>3
  <2>2. ~ (m < n)
    BY <1>2, <2>1, Zenon
  <2> QED BY <2>2
<1> QED BY <1>4

LEMMA PartsAre ==
    ASSUME NEW s \in Seq(STRING)
    PROVE  /\ Parts(s) \in Seq(Part) /\ Len(Parts(s)) = 2 * Len(s)
           /\ \A m \in 1 .. Len(s) :
                 /\ Parts(s)[2 * m - 1] = [item |-> s[m], index |-> m, part |-> 1]
                 /\ Parts(s)[2 * m] = [item |-> s[m], index |-> m, part |-> 2]
           /\ \A k \in 1 .. 2 * Len(s) : \E m \in 1 .. Len(s) :
                 /\ k \in {2 * m - 1, 2 * m} /\ Parts(s)[k].item = s[m] /\ Parts(s)[k].index = m
                 /\ Parts(s)[k].part = 1 <=> k = 2 * m - 1
<1>1. \A k \in 1 .. 2 * Len(s) :
         /\ (k + 1) \div 2 \in 1 .. Len(s) /\ k % 2 \in {0, 1}
         /\ k = 2 * ((k + 1) \div 2) - (k % 2)
  OBVIOUS
<1>2. Parts(s) = [k \in 1 .. 2 * Len(s) |->
         [item |-> s[(k + 1) \div 2], index |-> (k + 1) \div 2, part |-> 2 - (k % 2)]]
  BY DEF Parts
<1>3. \A m \in 1 .. Len(s) : s[m] \in STRING
  OBVIOUS
<1>4. \A k \in 1 .. 2 * Len(s) : Parts(s)[k] \in Part
  BY <1>1, <1>2, <1>3 DEF Part
<1>5. Parts(s) \in Seq(Part) /\ Len(Parts(s)) = 2 * Len(s)
  BY <1>2, <1>4
<1>6. ASSUME NEW k \in 1 .. 2 * Len(s)
      PROVE  \E m \in 1 .. Len(s) :
                 /\ k \in {2 * m - 1, 2 * m} /\ Parts(s)[k].item = s[m] /\ Parts(s)[k].index = m
                 /\ Parts(s)[k].part = 1 <=> k = 2 * m - 1
  BY <1>1, <1>2
<1>7. ASSUME NEW m \in 1 .. Len(s)
      PROVE  /\ Parts(s)[2 * m - 1] = [item |-> s[m], index |-> m, part |-> 1]
             /\ Parts(s)[2 * m] = [item |-> s[m], index |-> m, part |-> 2]
  <2>1. (2 * m - 1) % 2 = 1 /\ (2 * m) % 2 = 0 /\ (2 * m) \div 2 = m /\ (2 * m + 1) \div 2 = m
    OBVIOUS
  <2> QED BY <1>2, <2>1
<1> QED BY <1>5, <1>6, <1>7

-----------------------------------------------------------------------------
(* The loop of ParseReq, turn by turn. *)

Iteration(g, S, step, x) ==
    g \in [Nat -> S] /\ g[0] = x /\ \A n \in Nat : g[n + 1] = step[g[n]]

\* What goes on from step to step can be written down as a function of their number.
LEMMA IterationExists ==
    ASSUME NEW S, NEW step, NEW x, step \in [S -> S], x \in S
    PROVE  \E g : Iteration(g, S, step, x)
<1> DEFINE Run(n) == {h \in [0 .. n -> S] : h[0] = x /\ \A i \in 0 .. n - 1 : h[i + 1] = step[h[i]]}
           None == {n \in Nat : Run(n) = {}}
<1>1. ASSUME NEW n \in Nat PROVE Run(n) # {}
  <2>1. SUFFICES ASSUME None # {} PROVE FALSE
    OBVIOUS
  <2>2. PICK m \in None : \A l \in None : m <= l
    <3>1. None \subseteq Nat
      OBVIOUS
    <3> HIDE DEF None
    <3> QED BY <2>1, <3>1, Smallest
  <2>3. m \in Nat /\ Run(m) = {}
    OBVIOUS
  <2>4. CASE m = 0
    <3>1. [i \in 0 .. 0 |-> x] \in Run(0)
      OBVIOUS
    <3> QED BY <2>3, <2>4, <3>1
  <2>5. CASE m # 0
    <3>1. m - 1 \in Nat /\ ~ (m <= m - 1)
      BY <2>3, <2>5
    <3>2. Run(m - 1) # {}
      BY <2>2, <3>1
    <3>3. PICK h \in Run(m - 1) : TRUE
      BY <3>2
    <3>4. h \in [0 .. m - 1 -> S] /\ h[0] = x /\ \A i \in 0 .. (m - 1) - 1 : h[i + 1] = step[h[i]]
      OBVIOUS
    <3> DEFINE k == [i \in 0 .. m |-> IF i = m THEN step[h[m - 1]] ELSE h[i]]
    <3>5. k \in [0 .. m -> S]
      BY <2>3, <3>1, <3>4
    <3>6. k[0] = x
      BY <2>5, <2>3, <3>4
    <3>7. ASSUME NEW i \in 0 .. m - 1 PROVE k[i + 1] = step[k[i]]
      BY <2>3, <3>1, <3>4
    <3>8. k \in Run(m)
      BY <3>5, <3>6, <3>7
    <3> QED BY <2>3, <3>8
  <2> QED BY <2>4, <2>5
<1>2. ASSUME NEW n \in Nat, NEW m \in Nat, NEW h \in Run(n), NEW k \in Run(m),
             NEW i \in Nat, i <= n, i <= m
      PROVE  h[i] = k[i]
  <2> DEFINE Off == {j \in Nat : j <= n /\ j <= m /\ h[j] # k[j]}
  <2>1. SUFFICES ASSUME Off # {} PROVE FALSE
    BY <1>2
  <2>2. PICK j \in Off : \A l \in Off : j <= l
    <3>1. Off \subseteq Nat
      OBVIOUS
    <3> HIDE DEF Off
    <3> QED BY <2>1, <3>1, Smallest
  <2>3. j # 0
    OBVIOUS
  <2>4. j - 1 \in Nat /\ j - 1 \in 0 .. n - 1 /\ j - 1 \in 0 .. m - 1 /\ ~ (j <= j - 1)
    BY <2>3
  <2>5. h[j - 1] = k[j - 1]
    BY <2>2, <2>4
  <2>6. h[(j - 1) + 1] = step[h[j - 1]] /\ k[(j - 1) + 1] = step[k[j - 1]]
    BY <2>4
  <2> QED BY <2>5, <2>6
<1> DEFINE pick(n) == CHOOSE h : h \in Run(n)
           g == [n \in Nat |-> pick(n)[n]]
<1>3. \A n \in Nat : pick(n) \in Run(n)
  <2> HIDE DEF Run
  <2> QED BY <1>1
<1> HIDE DEF pick
<1>4. ASSUME NEW n \in Nat PROVE g[n] \in S
  <2>1. pick(n) \in [0 .. n -> S] /\ n \in 0 .. n
    BY <1>3
  <2>2. g[n] = pick(n)[n]
    OBVIOUS
  <2> HIDE DEF g
  <2> QED BY <2>1, <2>2
<1>5. g[0] = x
  BY <1>3
<1>6. ASSUME NEW n \in Nat PROVE g[n + 1] = step[g[n]]
  <2>1. n + 1 \in Nat /\ n <= n /\ n <= n + 1 /\ n \in 0 .. (n + 1) - 1
    OBVIOUS
  <2>2. pick(n) \in Run(n) /\ pick(n + 1) \in Run(n + 1)
    BY <1>3, <2>1
  <2>3. pick(n)[n] = pick(n + 1)[n]
    <3> HIDE DEF Run
    <3> QED BY <1>2, <2>1, <2>2
  <2>4. pick(n + 1)[n + 1] = step[pick(n + 1)[n]]
    BY <2>1, <2>2
  <2>5. g[n] = pick(n)[n] /\ g[n + 1] = pick(n + 1)[n + 1]
    BY <2>1
  <2> HIDE DEF g, Run
  <2> QED BY <2>3, <2>4, <2>5
<1>7. g \in [Nat -> S]
  BY <1>4
<1> HIDE DEF g, Run
<1>8. Iteration(g, S, step, x)
  BY <1>5, <1>6, <1>7 DEF Iteration
<1> QED BY <1>8

Req ==
    [state : {"stReqLine", "stHeader", "stBody", "stComplete"}, bodyLength : {0, BodySize},
     handShake : BOOLEAN, webSocket : BOOLEAN, key : BOOLEAN, keepAlive : BOOLEAN, conn : BOOLEAN]

Parsing ==
    [req : Req, buf : Seq(Part), stale : BOOLEAN,
     ret : {"none", "psComplete", "psBadLine", "psNotFullBody", "psNextLine"}]

\* What a turn of the loop makes of p.
Turned(p, t) ==
    \/ /\ t.req = p.req /\ t.buf = p.buf
       /\ \/ p.req.state = "stComplete" /\ t.ret = "psComplete"
          \/ p.req.state = "stBody" /\ Len(p.buf) < p.req.bodyLength /\ t.ret = "psNotFullBody"
          \/ p.req.state = "stReqLine" /\ t.ret = "psBadLine"
                /\ (Len(p.buf) < 2 \/ p.buf[1].item # "GET")
          \/ p.req.state = "stHeader" /\ t.ret = "psBadLine" /\ Len(p.buf) < 2
    \/ /\ p.req.state = "stBody" /\ Len(p.buf) >= p.req.bodyLength
       /\ t.req = [p.req EXCEPT !.state = "stComplete"] /\ t.ret = "none"
       /\ t.buf = Drop(p.buf, p.req.bodyLength)
    \/ /\ Len(p.buf) >= 2 /\ t.buf = Drop(p.buf, 2)
       /\ \/ /\ p.req.state = "stReqLine" /\ p.buf[1].item = "GET"
             /\ t.req = [p.req EXCEPT !.state = "stHeader"] /\ t.ret = "none"
          \/ /\ p.req.state = "stHeader" /\ p.buf[1].item # "blank"
             /\ t.req = Header(p.req, p.buf[1].item) /\ t.ret = "none"
          \/ /\ p.req.state = "stHeader" /\ p.buf[1].item = "blank" /\ p.req.bodyLength = BodySize
             /\ t.req = [p.req EXCEPT !.state = "stBody"] /\ t.ret = "psNextLine"
          \/ /\ p.req.state = "stHeader" /\ p.buf[1].item = "blank" /\ p.req.bodyLength = 0
             /\ t.req = [p.req EXCEPT !.state = "stComplete"] /\ t.ret = "none"

LEMMA DropIs ==
    ASSUME NEW S, NEW b \in Seq(S), NEW n \in 0 .. Len(b)
    PROVE  /\ Drop(b, n) \in Seq(S) /\ Len(Drop(b, n)) = Len(b) - n
           /\ \A i \in 1 .. Len(b) - n : Drop(b, n)[i] = b[n + i]
<1>1. Len(b) \in Nat /\ n \in Nat /\ n <= Len(b)
  OBVIOUS
<1>2. CASE n = Len(b)
  <2>1. SubSeq(b, n + 1, Len(b)) = <<>>
    BY <1>1, <1>2
  <2> QED BY <1>1, <1>2, <2>1 DEF Drop
<1>3. CASE n < Len(b)
  <2>1. n + 1 \in 1 .. Len(b) /\ Len(b) \in 1 .. Len(b)
    BY <1>1, <1>3
  <2> QED BY <1>1, <2>1 DEF Drop
<1> QED BY <1>1, <1>2, <1>3

LEMMA HeaderIs ==
    ASSUME NEW r \in Req, NEW item
    PROVE  LET h == Header(r, item) IN
           /\ h \in Req /\ h.state = r.state /\ h.handShake = r.handShake
           /\ h.webSocket => r.webSocket \/ item = "Upgrade"
           /\ h.key => r.key \/ item = "Key"
           /\ h.bodyLength = 0 => r.bodyLength = 0 /\ item # "Length"
<1>1. CASE item = "Keep-Alive"
  BY <1>1 DEF Header, Req
<1>2. CASE item = "close"
  BY <1>2 DEF Header, Req
<1>3. CASE item = "Upgrade"
  BY <1>3 DEF Header, Req
<1>4. CASE item = "Key"
  BY <1>4 DEF Header, Req
<1>5. CASE item = "Length"
  BY <1>5 DEF Header, Req, BodySize
<1>6. CASE item \notin {"Keep-Alive", "close", "Upgrade", "Key", "Length"}
  BY <1>6 DEF Header
<1> QED BY <1>1, <1>2, <1>3, <1>4, <1>5, <1>6

LEMMA TurnIs ==
    ASSUME NEW p \in Parsing, p.ret = "none"
    PROVE  Turn(p) \in Parsing /\ Turned(p, Turn(p))
<1>1. p.req \in Req /\ p.buf \in Seq(Part) /\ Len(p.buf) \in Nat
  BY DEF Parsing
<1>2. p.req.state \in {"stReqLine", "stHeader", "stBody", "stComplete"}
      /\ p.req.bodyLength \in {0, BodySize}
  BY <1>1 DEF Req
<1>3. \A state \in {"stReqLine", "stHeader", "stBody", "stComplete"} :
         [p.req EXCEPT !.state = state] \in Req
  BY <1>1 DEF Req
<1>4. HasLine(p.buf) => Drop(p.buf, 2) \in Seq(Part)
  BY <1>1, DropIs DEF HasLine
<1>5. BodyIsIn(p.req, p.buf) => Drop(p.buf, p.req.bodyLength) \in Seq(Part)
  BY <1>1, <1>2, DropIs DEF BodyIsIn, BodySize
<1>6. CASE p.req.state = "stComplete"
  <2>1. Turn(p) = [p EXCEPT !.ret = "psComplete"]
    BY <1>6 DEF Turn
  <2> QED BY <1>6, <2>1 DEF Parsing, Turned
<1>7. CASE p.req.state = "stBody" /\ BodyIsIn(p.req, p.buf)
  <2>1. Turn(p) = [p EXCEPT !.req = [p.req EXCEPT !.state = "stComplete"],
                            !.buf = Drop(p.buf, p.req.bodyLength)]
    BY <1>7 DEF Turn
  <2> QED BY <1>3, <1>5, <1>7, <2>1 DEF Parsing, Turned, BodyIsIn
<1>8. CASE p.req.state = "stBody" /\ ~ BodyIsIn(p.req, p.buf)
  <2>1. Turn(p) = [p EXCEPT !.ret = "psNotFullBody"]
    BY <1>8 DEF Turn
  <2>2. Len(p.buf) < p.req.bodyLength
    BY <1>1, <1>2, <1>8 DEF BodyIsIn, BodySize
  <2> QED BY <1>8, <2>1, <2>2 DEF Parsing, Turned
<1>9. CASE p.req.state \in {"stReqLine", "stHeader"} /\ ~ HasLine(p.buf)
  <2>1. Turn(p) = [[p EXCEPT !.ret = "psBadLine"] EXCEPT !.stale = TRUE]
    BY <1>9 DEF Turn
  <2>2. Len(p.buf) < 2
    BY <1>1, <1>9 DEF HasLine
  <2> QED BY <1>9, <2>1, <2>2 DEF Parsing, Turned
<1>10. CASE p.req.state = "stReqLine" /\ HasLine(p.buf) /\ p.buf[1].item = "GET"
  <2>1. Turn(p) = [p EXCEPT !.req = [p.req EXCEPT !.state = "stHeader"], !.buf = Drop(p.buf, 2)]
    BY <1>10 DEF Turn
  <2> QED BY <1>3, <1>4, <1>10, <2>1 DEF Parsing, Turned, HasLine
<1>11. CASE p.req.state = "stReqLine" /\ HasLine(p.buf) /\ p.buf[1].item # "GET"
  <2>1. Turn(p) = [p EXCEPT !.ret = "psBadLine"]
    BY <1>11 DEF Turn
  <2> QED BY <1>11, <2>1 DEF Parsing, Turned
<1>12. CASE p.req.state = "stHeader" /\ HasLine(p.buf) /\ p.buf[1].item # "blank"
  <2>1. Turn(p) = [p EXCEPT !.req = Header(p.req, p.buf[1].item), !.buf = Drop(p.buf, 2)]
    BY <1>12 DEF Turn
  <2>2. Header(p.req, p.buf[1].item) \in Req
    BY <1>1, HeaderIs
  <2> QED BY <1>4, <1>12, <2>1, <2>2 DEF Parsing, Turned, HasLine
<1>13. CASE p.req.state = "stHeader" /\ HasLine(p.buf) /\ p.buf[1].item = "blank"
            /\ p.req.bodyLength = BodySize
  <2>1. Turn(p) = [[p EXCEPT !.req = [p.req EXCEPT !.state = "stBody"], !.buf = Drop(p.buf, 2)]
                      EXCEPT !.ret = "psNextLine"]
    BY <1>13 DEF Turn, BodySize
  <2> QED BY <1>3, <1>4, <1>13, <2>1 DEF Parsing, Turned, HasLine
<1>14. CASE p.req.state = "stHeader" /\ HasLine(p.buf) /\ p.buf[1].item = "blank"
            /\ p.req.bodyLength = 0
  <2>1. Turn(p) = [p EXCEPT !.req = [p.req EXCEPT !.state = "stComplete"], !.buf = Drop(p.buf, 2)]
    BY <1>14 DEF Turn
  <2> QED BY <1>3, <1>4, <1>14, <2>1 DEF Parsing, Turned, HasLine
<1> QED BY <1>2, <1>6, <1>7, <1>8, <1>9, <1>10, <1>11, <1>12, <1>13, <1>14

\* ParseReq is the end of a sequence of turns.
LEMMA ParseTurns ==
    ASSUME NEW r \in Req, NEW b \in Seq(Part)
    PROVE  \E f \in [Nat -> Parsing] :
              /\ f[0] = [req |-> r, buf |-> b, ret |-> "none", stale |-> FALSE]
              /\ \A n \in Nat : IF f[n].ret = "none" THEN Turned(f[n], f[n + 1])
                                ELSE f[n + 1] = f[n]
              /\ ParseReq(r, b) = f[Len(b) + 1]
<1> DEFINE x == [req |-> r, buf |-> b, ret |-> "none", stale |-> FALSE]
           Goes(p) == IF p.ret = "none" THEN Turn(p) ELSE p
           Body(f) == [n \in Nat |-> IF n = 0 THEN x ELSE Goes(f[n - 1])]
           f == CHOOSE h : h = Body(h)
           step == [p \in Parsing |-> Goes(p)]
<1>1. x \in Parsing
  BY DEF Parsing
<1>2. step \in [Parsing -> Parsing]
  BY TurnIs
<1>3. ParseReq(r, b) = f[Len(b) + 1]
  BY DEF ParseReq
<1>4. PICK g : Iteration(g, Parsing, step, x)
  <2> HIDE DEF x, step
  <2> QED BY <1>1, <1>2, IterationExists
<1>5. g = Body(g)
  <2>1. ASSUME NEW n \in Nat PROVE g[n] = IF n = 0 THEN x ELSE Goes(g[n - 1])
    <3>1. CASE n = 0
      BY <1>4, <3>1 DEF Iteration
    <3>2. CASE n # 0
      <4>1. n - 1 \in Nat /\ (n - 1) + 1 = n
        BY <3>2
      <4>2. g[n] = step[g[n - 1]] /\ g[n - 1] \in Parsing
        BY <1>4, <4>1 DEF Iteration
      <4>3. step[g[n - 1]] = Goes(g[n - 1])
        BY <4>2
      <4> HIDE DEF step, Goes, x
      <4> QED BY <3>2, <4>2, <4>3
    <3> QED BY <3>1, <3>2
  <2> HIDE DEF Goes, x
  <2> QED BY <1>4, <2>1 DEF Iteration
<1>6. f = Body(f)
  <2> HIDE DEF Body
  <2> QED BY <1>5
<1> HIDE DEF f
<1>7. f[0] = x /\ \A n \in Nat : f[n + 1] = Goes(f[n])
  <2>1. \A n \in Nat : n + 1 \in Nat /\ n + 1 # 0 /\ (n + 1) - 1 = n
    OBVIOUS
  <2> HIDE DEF Goes, x
  <2> QED BY <1>6, <2>1
<1>8. ASSUME NEW n \in Nat PROVE f[n] \in Parsing
  <2> DEFINE Bad == {m \in Nat : f[m] \notin Parsing}
  <2>1. SUFFICES ASSUME Bad # {} PROVE FALSE
    OBVIOUS
  <2>2. PICK m \in Bad : \A l \in Bad : m <= l
    <3>1. Bad \subseteq Nat
      OBVIOUS
    <3> HIDE DEF Bad
    <3> QED BY <2>1, <3>1, Smallest
  <2>3. m # 0
    BY <1>1, <1>7
  <2>4. m - 1 \in Nat /\ ~ (m <= m - 1) /\ (m - 1) + 1 = m
    BY <2>3
  <2>5. f[m - 1] \in Parsing
    BY <2>2, <2>4
  <2>6. f[m] = Goes(f[m - 1])
    BY <1>7, <2>4
  <2> QED BY <2>5, <2>6, TurnIs
<1>9. f = [n \in Nat |-> f[n]]
  BY <1>6
<1>10. f \in [Nat -> Parsing]
  BY <1>8, <1>9
<1>11. \A n \in Nat : IF f[n].ret = "none" THEN Turned(f[n], f[n + 1]) ELSE f[n + 1] = f[n]
  BY <1>7, <1>8, TurnIs
<1> QED BY <1>3, <1>7, <1>10, <1>11

-----------------------------------------------------------------------------
(* What the handlers of a connection do to its state and its interest. *)

ConnState == {"csConnecting", "csConnected", "csDisConnecting", "csDisConnected"}

ConnRec ==
    [state : ConnState, interest : {"none", "in", "out", "off"}, retOut : BOOLEAN, unsent : BOOLEAN,
     shut : BOOLEAN, age : Nat, closes : Nat, late : BOOLEAN]

Loop == [conn : [Conn -> ConnRec], idle : Seq(Conn), vecFree : Seq(Conn)]

\* A closed connection is out of epoll.
IoInv(s) ==
    /\ s \in Loop
    /\ s.conn[1].state = "csDisConnected" => s.conn[1].interest = "none"

USE WebServerAssumption

LEMMA StateSet ==
    ASSUME NEW s \in Loop, NEW v \in ConnState
    PROVE  LET t == [s EXCEPT !.conn[1].state = v] IN
           t \in Loop /\ t.conn[1].state = v /\ t.conn[1].interest = s.conn[1].interest
<1> DEFINE q == [s.conn[1] EXCEPT !.state = v]
<1>1. s.conn[1] \in ConnRec /\ 1 \in Conn
  BY DEF Loop
<1>2. q \in ConnRec /\ q.state = v /\ q.interest = s.conn[1].interest
  BY <1>1 DEF ConnRec
<1>3. [s EXCEPT !.conn[1].state = v] = [s EXCEPT !.conn = [@ EXCEPT ![1] = q]]
  BY <1>1 DEF Loop, ConnRec
<1> HIDE DEF q
<1> QED BY <1>1, <1>2, <1>3 DEF Loop

LEMMA InterestSet ==
    ASSUME NEW s \in Loop, NEW v \in {"none", "in", "out", "off"}
    PROVE  LET t == [s EXCEPT !.conn[1].interest = v] IN
           t \in Loop /\ t.conn[1].state = s.conn[1].state /\ t.conn[1].interest = v
<1> DEFINE q == [s.conn[1] EXCEPT !.interest = v]
<1>1. s.conn[1] \in ConnRec /\ 1 \in Conn
  BY DEF Loop
<1>2. q \in ConnRec /\ q.state = s.conn[1].state /\ q.interest = v
  BY <1>1 DEF ConnRec
<1>3. [s EXCEPT !.conn[1].interest = v] = [s EXCEPT !.conn = [@ EXCEPT ![1] = q]]
  BY <1>1 DEF Loop, ConnRec
<1> HIDE DEF q
<1> QED BY <1>1, <1>2, <1>3 DEF Loop

LEMMA ShutSet ==
    ASSUME NEW s \in Loop
    PROVE  LET t == [s EXCEPT !.conn[1].shut = TRUE] IN
           t \in Loop /\ t.conn[1].state = s.conn[1].state /\
               t.conn[1].interest = s.conn[1].interest
<1> DEFINE q == [s.conn[1] EXCEPT !.shut = TRUE]
<1>1. s.conn[1] \in ConnRec /\ 1 \in Conn
  BY DEF Loop
<1>2. q \in ConnRec /\ q.state = s.conn[1].state /\ q.interest = s.conn[1].interest
  BY <1>1 DEF ConnRec
<1>3. [s EXCEPT !.conn[1].shut = TRUE] = [s EXCEPT !.conn = [@ EXCEPT ![1] = q]]
  BY <1>1 DEF Loop, ConnRec
<1> HIDE DEF q
<1> QED BY <1>1, <1>2, <1>3 DEF Loop

LEMMA RetOutSet ==
    ASSUME NEW s \in Loop, NEW v \in BOOLEAN
    PROVE  LET t == [s EXCEPT !.conn[1].retOut = v] IN
           t \in Loop /\ t.conn[1].state = s.conn[1].state /\
               t.conn[1].interest = s.conn[1].interest
<1> DEFINE q == [s.conn[1] EXCEPT !.retOut = v]
<1>1. s.conn[1] \in ConnRec /\ 1 \in Conn
  BY DEF Loop
<1>2. q \in ConnRec /\ q.state = s.conn[1].state /\ q.interest = s.conn[1].interest
  BY <1>1 DEF ConnRec
<1>3. [s EXCEPT !.conn[1].retOut = v] = [s EXCEPT !.conn = [@ EXCEPT ![1] = q]]
  BY <1>1 DEF Loop, ConnRec
<1> HIDE DEF q
<1> QED BY <1>1, <1>2, <1>3 DEF Loop

LEMMA UnsentSet ==
    ASSUME NEW s \in Loop, NEW v \in {"none", "in", "out", "off"}
    PROVE  LET t == [s EXCEPT !.conn[1].unsent = TRUE, !.conn[1].interest = v] IN
           t \in Loop /\ t.conn[1].state = s.conn[1].state /\ t.conn[1].interest = v
<1> DEFINE q == [s.conn[1] EXCEPT !.unsent = TRUE, !.interest = v]
<1>1. s.conn[1] \in ConnRec /\ 1 \in Conn
  BY DEF Loop
<1>2. q \in ConnRec /\ q.state = s.conn[1].state /\ q.interest = v
  BY <1>1 DEF ConnRec
<1>3. [s EXCEPT !.conn[1].unsent = TRUE, !.conn[1].interest = v]
          = [s EXCEPT !.conn = [@ EXCEPT ![1] = q]]
  BY <1>1 DEF Loop, ConnRec
<1> HIDE DEF q
<1> QED BY <1>1, <1>2, <1>3 DEF Loop

LEMMA SentSet ==
    ASSUME NEW s \in Loop, NEW v \in {"none", "in", "out", "off"}
    PROVE  LET t == [s EXCEPT !.conn[1].unsent = FALSE, !.conn[1].interest = v] IN
           t \in Loop /\ t.conn[1].state = s.conn[1].state /\ t.conn[1].interest = v
<1> DEFINE q == [s.conn[1] EXCEPT !.unsent = FALSE, !.interest = v]
<1>1. s.conn[1] \in ConnRec /\ 1 \in Conn
  BY DEF Loop
<1>2. q \in ConnRec /\ q.state = s.conn[1].state /\ q.interest = v
  BY <1>1 DEF ConnRec
<1>3. [s EXCEPT !.conn[1].unsent = FALSE, !.conn[1].interest = v]
          = [s EXCEPT !.conn = [@ EXCEPT ![1] = q]]
  BY <1>1 DEF Loop, ConnRec
<1> HIDE DEF q
<1> QED BY <1>1, <1>2, <1>3 DEF Loop

LEMMA FreedIs ==
    ASSUME NEW s \in Loop
    PROVE  LET t == [s EXCEPT !.conn[1].state = "csDisConnected", !.conn[1].closes = @ + 1,
                              !.vecFree = Append(@, 1)]
           IN  /\ t \in Loop
               /\ t.conn[1].state = "csDisConnected"
               /\ t.conn[1].interest = s.conn[1].interest
<1> DEFINE c == s.conn[1].closes + 1
           q == [s.conn[1] EXCEPT !.state = "csDisConnected", !.closes = c]
           f == Append(s.vecFree, 1)
<1>1. s.conn[1] \in ConnRec /\ 1 \in Conn
  BY DEF Loop
<1>2. c \in Nat
  BY <1>1 DEF ConnRec
<1> HIDE DEF c
<1>3. q \in ConnRec /\ q.state = "csDisConnected" /\ q.interest = s.conn[1].interest
  BY <1>1, <1>2 DEF ConnRec, ConnState
<1>4. f \in Seq(Conn)
  BY <1>1 DEF Loop
<1> HIDE DEF f
<1>5. [s EXCEPT !.conn[1].state = "csDisConnected", !.conn[1].closes = c, !.vecFree = f]
         = [s EXCEPT !.conn = [@ EXCEPT ![1] = q], !.vecFree = f]
  BY <1>1 DEF Loop, ConnRec
<1> HIDE DEF q
<1>6. LET t == [s EXCEPT !.conn = [@ EXCEPT ![1] = q], !.vecFree = f] IN
      t \in Loop /\ t.conn[1] = q
  BY <1>1, <1>3, <1>4 DEF Loop
<1> QED BY <1>3, <1>5, <1>6 DEF c, f

LEMMA SendInLoopKeeps ==
    ASSUME NEW s, IoInv(s), NEW result
    PROVE  IoInv(SendInLoop(s, 1, result))
           /\ SendInLoop(s, 1, result).conn[1].state = s.conn[1].state
<1>1. s \in Loop
  BY DEF IoInv
<1> DEFINE i == Modified(s.conn[1].interest, "out")
<1>2. i \in {"none", "out"} /\ (s.conn[1].interest = "none" => i = "none")
  BY DEF Modified
<1> DEFINE t == [s EXCEPT !.conn[1].unsent = TRUE, !.conn[1].interest = i]
<1>3. Waiting(s, 1) = t
  BY <1>1 DEF Waiting, Loop, ConnRec
<1> HIDE DEF i
<1>4. t \in Loop /\ t.conn[1].state = s.conn[1].state /\ t.conn[1].interest = i
  <2>1. i \in {"none", "in", "out", "off"}
    BY <1>2
  <2> QED BY <1>1, <2>1, UnsentSet, Zenon
<1> HIDE DEF t
<1>6. IoInv(t) /\ t.conn[1].state = s.conn[1].state
  BY <1>2, <1>4 DEF IoInv
<1> QED BY <1>3, <1>6 DEF SendInLoop

LEMMA OnShutdownKeeps ==
    ASSUME NEW s, IoInv(s)
    PROVE  IoInv(OnShutdown(s, 1)) /\ OnShutdown(s, 1).conn[1].state = s.conn[1].state
<1>1. s \in Loop
  BY DEF IoInv
<1> DEFINE t == [s EXCEPT !.conn[1].shut = TRUE]
<1>2. /\ t \in Loop /\ t.conn[1].state = s.conn[1].state
      /\ t.conn[1].interest = s.conn[1].interest
  BY <1>1, ShutSet
<1>4. OnShutdown(s, 1) \in {s, t}
  BY DEF OnShutdown
<1> HIDE DEF t
<1> QED BY <1>2, <1>4 DEF IoInv

LEMMA ShutdownKeeps ==
    ASSUME NEW s, IoInv(s)
    PROVE  /\ IoInv(Shutdown(s, 1)) /\ Shutdown(s, 1).conn[1].state # "csConnected"
           /\ s.conn[1].state # "csConnected" => Shutdown(s, 1) = s
<1>1. s \in Loop
  BY DEF IoInv
<1> DEFINE t == [s EXCEPT !.conn[1].state = "csDisConnecting"]
<1>2. t \in Loop /\ t.conn[1].state = "csDisConnecting"
  BY <1>1, StateSet DEF ConnState
<1>3. IoInv(t)
  BY <1>2 DEF IoInv
<1>4. Shutdown(s, 1) = IF s.conn[1].state = "csConnected" THEN OnShutdown(t, 1) ELSE s
  BY DEF Shutdown, Is
<1> HIDE DEF t
<1> QED BY <1>2, <1>3, <1>4, OnShutdownKeeps

LEMMA HandleCloseKeeps ==
    ASSUME NEW s, IoInv(s)
    PROVE  IoInv(HandleClose(s, 1)) /\ HandleClose(s, 1).conn[1].state = "csDisConnected"
<1>1. s \in Loop
  BY DEF IoInv
<1> DEFINE d == DisableAll(s, 1)
           t == [d EXCEPT !.conn[1].state = "csDisConnected", !.conn[1].closes = @ + 1,
                          !.vecFree = Append(@, 1)]
<1>2. d \in Loop /\ d.conn[1].interest = "none"
  BY <1>1, InterestSet DEF DisableAll
<1> HIDE DEF d
<1>4. t \in Loop /\ t.conn[1].state = "csDisConnected" /\ t.conn[1].interest = "none"
  BY <1>2, FreedIs
<1>6. HandleClose(s, 1) = IF s.conn[1].state = "csDisConnected" THEN s ELSE t
  BY DEF HandleClose, Is, d
<1> HIDE DEF t
<1> QED BY <1>4, <1>6 DEF IoInv

LEMMA OnWriteKeeps ==
    ASSUME NEW s, IoInv(s), NEW result
    PROVE  LET t == OnWriteEvent([s EXCEPT !.conn[1].retOut = TRUE], 1, result) IN
           IoInv(t) /\ t.conn[1].state = s.conn[1].state
<1>1. s \in Loop
  BY DEF IoInv
<1> DEFINE w == [s EXCEPT !.conn[1].retOut = TRUE]
           i == Modified(w.conn[1].interest, "off")
           f == [w EXCEPT !.conn[1].unsent = FALSE, !.conn[1].interest = i]
<1>2. /\ w \in Loop /\ w.conn[1].state = s.conn[1].state
      /\ w.conn[1].interest = s.conn[1].interest
  BY <1>1, RetOutSet
<1>3. IoInv(w)
  BY <1>2 DEF IoInv
<1> HIDE DEF w
<1>4. i \in {"none", "off"} /\ (w.conn[1].interest = "none" => i = "none")
  BY DEF Modified
<1>5. Flushed(w, 1) = f
  BY <1>2 DEF Flushed, Loop, ConnRec
<1> HIDE DEF i
<1>6. f \in Loop /\ f.conn[1].state = w.conn[1].state /\ f.conn[1].interest = i
  <2>1. i \in {"none", "in", "out", "off"}
    BY <1>4
  <2> QED BY <1>2, <2>1, SentSet, Zenon
<1> HIDE DEF f
<1>8. IoInv(f) /\ f.conn[1].state = s.conn[1].state
  BY <1>2, <1>3, <1>4, <1>6 DEF IoInv
<1>9. OnWriteEvent(w, 1, result) \in {w, f, OnShutdown(f, 1)}
  BY <1>5 DEF OnWriteEvent
<1> QED BY <1>2, <1>3, <1>8, <1>9, OnShutdownKeeps DEF w

-----------------------------------------------------------------------------
(* Where the buffer is in the stream: its first part is the one behind the   *)
(* k parts that were taken, and the parts to come follow its last.           *)

At(s, k, b, rest) ==
    /\ k + Len(b) + Len(rest) = 2 * Len(s)
    /\ \A i \in 1 .. Len(b) : b[i] = Parts(s)[k + i]
    /\ \A i \in 1 .. Len(rest) : rest[i] = Parts(s)[k + Len(b) + i]

LEMMA DropAt ==
    ASSUME NEW s, NEW k \in Nat, NEW b \in Seq(Part), NEW rest \in Seq(Part), At(s, k, b, rest),
           NEW n \in 0 .. Len(b)
    PROVE  At(s, k + n, Drop(b, n), rest)
<1> DEFINE d == Drop(b, n)
<1>1. /\ d \in Seq(Part) /\ Len(d) = Len(b) - n
      /\ \A i \in 1 .. Len(b) - n : d[i] = b[n + i]
  BY DropIs
<1> HIDE DEF d
<1>2. Len(b) \in Nat /\ Len(rest) \in Nat /\ n \in Nat /\ n <= Len(b)
  OBVIOUS
<1>3. ASSUME NEW i \in 1 .. Len(d) PROVE d[i] = Parts(s)[k + n + i]
  <2>1. n + i \in 1 .. Len(b) /\ k + (n + i) = k + n + i
    BY <1>1, <1>2
  <2> QED BY <1>1, <2>1 DEF At
<1>4. k + n + Len(d) = k + Len(b)
  BY <1>1, <1>2
<1> QED BY <1>2, <1>3, <1>4 DEF At, d

LEMMA ReceivedAt ==
    ASSUME NEW s, NEW k \in Nat, NEW b \in Seq(Part), NEW rest \in Seq(Part), At(s, k, b, rest),
           NEW n \in 1 .. Len(rest)
    PROVE  LET c == b \o SubSeq(rest, 1, n) IN
           /\ c \in Seq(Part) /\ Len(c) = Len(b) + n /\ (\A i \in 1 .. Len(b) : c[i] = b[i])
           /\ Drop(rest, n) \in Seq(Part)
           /\ At(s, k, c, Drop(rest, n))
<1> DEFINE t == SubSeq(rest, 1, n)
           c == b \o t
           d == Drop(rest, n)
<1>1. Len(b) \in Nat /\ Len(rest) \in Nat /\ n \in Nat /\ n <= Len(rest)
  OBVIOUS
<1>2. t \in Seq(Part) /\ Len(t) = n /\ \A i \in 1 .. n : t[i] = rest[i]
  <2>1. 1 \in 1 .. Len(rest) /\ n \in 1 .. Len(rest)
    BY <1>1
  <2> QED BY <1>1, <2>1
<1> HIDE DEF t
<1>3. /\ c \in Seq(Part) /\ Len(c) = Len(b) + n
      /\ \A i \in 1 .. Len(b) : c[i] = b[i]
      /\ \A i \in Len(b) + 1 .. Len(b) + n : c[i] = t[i - Len(b)]
  BY <1>1, <1>2
<1> HIDE DEF c
<1>4. /\ d \in Seq(Part) /\ Len(d) = Len(rest) - n
      /\ \A i \in 1 .. Len(rest) - n : d[i] = rest[n + i]
  <2>1. n \in 0 .. Len(rest)
    BY <1>1
  <2> QED BY <2>1, DropIs
<1> HIDE DEF d
<1>5. ASSUME NEW i \in 1 .. Len(c) PROVE c[i] = Parts(s)[k + i]
  <2>1. CASE i <= Len(b)
    BY <1>1, <1>3, <2>1 DEF At
  <2>2. CASE i > Len(b)
    <3>1. i - Len(b) \in 1 .. n /\ k + Len(b) + (i - Len(b)) = k + i
              /\ i \in Len(b) + 1 .. Len(b) + n
      BY <1>1, <1>3, <2>2
    <3>2. i - Len(b) \in 1 .. Len(rest)
      BY <1>1, <3>1
    <3>3. c[i] = rest[i - Len(b)]
      BY <1>2, <1>3, <3>1
    <3> QED BY <3>1, <3>2, <3>3 DEF At
  <2> QED BY <1>1, <1>3, <2>1, <2>2
<1>6. ASSUME NEW i \in 1 .. Len(d) PROVE d[i] = Parts(s)[k + Len(c) + i]
  <2>1. n + i \in 1 .. Len(rest) /\ k + Len(b) + (n + i) = k + Len(c) + i
    BY <1>1, <1>3, <1>4
  <2> QED BY <1>4, <2>1 DEF At
<1>7. k + Len(c) + Len(d) = k + Len(b) + Len(rest)
  BY <1>1, <1>3, <1>4
<1>8. At(s, k, c, d)
  BY <1>5, <1>6, <1>7 DEF At
<1> QED BY <1>3, <1>4, <1>8 DEF c, d, t

\* What the headers said that the request remembers.
Seen(s, m, r) ==
    /\ r.webSocket => \E i \in 1 .. m : s[i] = "Upgrade"
    /\ r.key => \E i \in 1 .. m : s[i] = "Key"
    /\ r.bodyLength = 0 => \A i \in 2 .. m : s[i] # "Length"

\* What the request says when k parts were taken of the stream.
ReqAt(s, k, r) ==
    /\ r.state = "stReqLine" => k = 0 /\ ~ r.webSocket /\ ~ r.key /\ r.bodyLength = 0
    /\ r.state # "stReqLine" => \E m \in 1 .. Len(s) :
          /\ s[1] = "GET" /\ Seen(s, m, r)
          /\ r.state = "stHeader" => k = 2 * m /\ \A i \in 1 .. m : s[i] # "blank"
          /\ r.state = "stBody" => k = 2 * m /\ RequestEnds(s, m) /\ r.bodyLength = BodySize
          /\ r.state = "stComplete" =>
                RequestEnds(s, m) /\ k >= 2 * m /\ (k >= 2 * m + 2 \/ r.bodyLength = 0)

\* What the turns of ParseReq keep: q parts were taken.
TurnAt(s, k, r, b, rest, p, q) ==
    /\ At(s, k + q, p.buf, rest) /\ ReqAt(s, k + q, p.req)
    /\ p.req.handShake = r.handShake
    /\ q = 0 => p.req = r /\ p.buf = b
    /\ r.state = "stBody" =>
          /\ p.req.state \in {"stBody", "stComplete"}
          /\ p.req.webSocket = r.webSocket /\ p.req.key = r.key
    /\ q # 0 =>
          /\ q >= 2 /\ r.state # "stComplete" /\ p.req.state # "stReqLine"
          /\ r.state = "stReqLine" => b[1].item = "GET"
          /\ p.req.state = "stBody" => p.ret = "psNextLine"
          /\ p.req.state \in {"stBody", "stComplete"} =>
                \E m \in 1 .. Len(s) :
                   RequestEnds(s, m) /\ Seen(s, m, p.req) /\ k + q \in {2 * m, 2 * m + 2}
          /\ p.req.state = "stBody" => \E m \in 1 .. Len(s) : k + q = 2 * m /\ RequestEnds(s, m)
    /\ p.ret # "none" =>
          /\ p.req.state = "stReqLine" => Len(p.buf) < 2 \/ p.buf[1].item # "GET"
          /\ p.req.state = "stHeader" => Len(p.buf) < 2
          /\ p.req.state = "stBody" => q # 0 \/ Len(p.buf) < 2
          /\ p.ret = "psBadLine" <=> p.req.state \in {"stReqLine", "stHeader"}
          /\ p.ret = "psComplete" <=> p.req.state = "stComplete"

LEMMA FirstOf ==
    ASSUME NEW s \in Seq(STRING), NEW k \in Nat, NEW b \in Seq(Part), NEW rest \in Seq(Part),
           At(s, k, b, rest), b # <<>>, NEW m \in Nat, k = 2 * m
    PROVE  m + 1 \in 1 .. Len(s) /\ b[1].item = s[m + 1] /\ b[1].index = m + 1 /\ b[1].part = 1
<1>1. Len(b) \in Nat /\ Len(b) # 0 /\ Len(rest) \in Nat /\ Len(s) \in Nat
  OBVIOUS
<1>2. k + 1 <= 2 * Len(s) /\ b[1] = Parts(s)[k + 1]
  BY <1>1 DEF At
<1>3. m + 1 \in 1 .. Len(s) /\ 2 * (m + 1) - 1 = k + 1
  BY <1>1, <1>2
<1>4. Parts(s)[k + 1] = [item |-> s[m + 1], index |-> m + 1, part |-> 1]
  BY <1>3, PartsAre
<1> QED BY <1>2, <1>3, <1>4

LEMMA TurnStays ==
    ASSUME NEW s \in Seq(STRING), NEW k \in Nat, NEW b \in Seq(Part), NEW rest \in Seq(Part),
           NEW r \in Req, NEW p \in Parsing, NEW t \in Parsing,
           NEW q \in 0 .. Len(b), TurnAt(s, k, r, b, rest, p, q), p.ret = "none",
           t.req = p.req, t.buf = p.buf,
           \/ p.req.state = "stComplete" /\ t.ret = "psComplete"
           \/ p.req.state = "stBody" /\ Len(p.buf) < p.req.bodyLength /\ t.ret = "psNotFullBody"
           \/ p.req.state = "stReqLine" /\ t.ret = "psBadLine"
                 /\ (Len(p.buf) < 2 \/ p.buf[1].item # "GET")
           \/ p.req.state = "stHeader" /\ t.ret = "psBadLine" /\ Len(p.buf) < 2
    PROVE  TurnAt(s, k, r, b, rest, t, q) /\ t.ret # "none"
<1>1. p.req.state = "stBody" => Len(p.buf) < 2
  BY DEF TurnAt, ReqAt, BodySize
<1> QED BY <1>1 DEF TurnAt

LEMMA BodyTaken ==
    ASSUME NEW s \in Seq(STRING), NEW k \in Nat, NEW b \in Seq(Part), NEW rest \in Seq(Part),
           NEW r \in Req, NEW t \in Parsing, ReqAt(s, k, r), At(s, k, b, rest),
           r.state = "stBody", Len(b) >= r.bodyLength,
           t.req = [r EXCEPT !.state = "stComplete"], t.ret = "none", t.buf = Drop(b, r.bodyLength)
    PROVE  2 \in 0 .. Len(b) /\ TurnAt(s, k, r, b, rest, t, 2)
<1>1. PICK m \in 1 .. Len(s) : /\ s[1] = "GET" /\ Seen(s, m, r)
                               /\ k = 2 * m /\ RequestEnds(s, m) /\ r.bodyLength = BodySize
  BY DEF ReqAt
<1>2. 2 \in 0 .. Len(b) /\ t.buf = Drop(b, 2) /\ m \in Nat
  BY <1>1 DEF BodySize
<1>3. At(s, k + 2, t.buf, rest)
  BY <1>2, DropAt
<1>4. /\ t.req.state = "stComplete" /\ t.req.handShake = r.handShake
      /\ t.req.webSocket = r.webSocket
      /\ t.req.key = r.key /\ t.req.bodyLength = r.bodyLength
  BY DEF Req
<1>5. Seen(s, m, t.req)
  BY <1>1, <1>4 DEF Seen
<1>6. k + 2 = 2 * m + 2 /\ k + 2 >= 2 * m
  BY <1>1, <1>2
<1>7. ReqAt(s, k + 2, t.req)
  BY <1>1, <1>4, <1>5, <1>6 DEF ReqAt
<1>8. \E l \in 1 .. Len(s) : RequestEnds(s, l) /\ Seen(s, l, t.req) /\ k + 2 \in {2 * l, 2 * l + 2}
  BY <1>1, <1>5, <1>6
<1>9. 2 # 0 /\ 2 >= 2 /\ t.req.state # "stReqLine" /\ t.req.state # "stBody"
          /\ r.state # "stComplete" /\ r.state # "stReqLine"
  BY <1>4
<1>10. TurnAt(s, k, r, b, rest, t, 2)
  BY <1>3, <1>4, <1>7, <1>8, <1>9 DEF TurnAt
<1> QED BY <1>2, <1>10

LEMMA LineTaken ==
    ASSUME NEW s \in Seq(STRING), NEW k \in Nat, NEW b \in Seq(Part), NEW rest \in Seq(Part),
           At(s, k, b, rest), NEW r \in Req, ReqAt(s, k, r),
           r.state \in {"stReqLine", "stHeader"}, Len(b) >= 2,
           r.state = "stReqLine" => b[1].item = "GET"
    PROVE  /\ 2 \in 0 .. Len(b) /\ At(s, k + 2, Drop(b, 2), rest)
           /\ \E m \in 1 .. Len(s) :
                 /\ k + 2 = 2 * m /\ s[1] = "GET" /\ b[1].item = s[m]
                 /\ \A i \in 1 .. m - 1 : s[i] # "blank"
                 /\ r.state = "stReqLine" => m = 1 /\ ~ r.webSocket /\ ~ r.key
                 /\ r.state = "stHeader" => m > 1 /\ Seen(s, m - 1, r)
<1>1. 2 \in 0 .. Len(b) /\ b # <<>>
  OBVIOUS
<1>2. At(s, k + 2, Drop(b, 2), rest)
  BY <1>1, DropAt
<1>3. CASE r.state = "stReqLine"
  <2>1. k = 2 * 0 /\ 0 \in Nat /\ ~ r.webSocket /\ ~ r.key
    BY <1>3 DEF ReqAt
  <2>2. 0 + 1 \in 1 .. Len(s) /\ b[1].item = s[0 + 1]
    BY <1>1, <2>1, FirstOf
  <2>3. 1 \in 1 .. Len(s) /\ s[1] = "GET" /\ k + 2 = 2 * 1 /\ b[1].item = s[1]
    BY <1>3, <2>1, <2>2
  <2> QED BY <1>1, <1>2, <1>3, <2>1, <2>3
<1>4. CASE r.state = "stHeader"
  <2>1. PICK l \in 1 .. Len(s) : /\ s[1] = "GET" /\ Seen(s, l, r)
                                 /\ k = 2 * l /\ \A i \in 1 .. l : s[i] # "blank"
    BY <1>4 DEF ReqAt
  <2>4. l \in Nat /\ b # <<>>
    BY <1>1
  <2>2. l \in Nat /\ l + 1 \in 1 .. Len(s) /\ b[1].item = s[l + 1]
    BY <2>1, <2>4, FirstOf
  <2>5. k = 2 * l /\ l >= 1
    BY <2>1
  <2>3. k + 2 = 2 * (l + 1) /\ (l + 1) - 1 = l /\ l + 1 > 1
    BY <2>4, <2>5
  <2> QED BY <1>1, <1>2, <1>4, <2>1, <2>2, <2>3
<1> QED BY <1>3, <1>4

LEMMA SeenOn ==
    ASSUME NEW s \in Seq(STRING), NEW m \in 2 .. Len(s), NEW r \in Req, Seen(s, m - 1, r),
           NEW h \in Req, h.webSocket => r.webSocket \/ s[m] = "Upgrade",
           h.key => r.key \/ s[m] = "Key", h.bodyLength = 0 => r.bodyLength = 0 /\ s[m] # "Length"
    PROVE  Seen(s, m, h)
<1>1. m \in Nat /\ m \in 1 .. m /\ (\A i \in 1 .. m - 1 : i \in 1 .. m)
      /\ \A i \in 2 .. m : i = m \/ i \in 2 .. m - 1
  OBVIOUS
<1>2. h.webSocket => \E i \in 1 .. m : s[i] = "Upgrade"
  BY <1>1 DEF Seen
<1>3. h.key => \E i \in 1 .. m : s[i] = "Key"
  BY <1>1 DEF Seen
<1>4. h.bodyLength = 0 => \A i \in 2 .. m : s[i] # "Length"
  BY <1>1 DEF Seen
<1> QED BY <1>2, <1>3, <1>4 DEF Seen

LineSays(r, item, h) ==
    \/ r.state = "stReqLine" /\ item = "GET" /\ h = [r EXCEPT !.state = "stHeader"]
    \/ r.state = "stHeader" /\ item # "blank" /\ h = Header(r, item)
    \/ /\ r.state = "stHeader" /\ item = "blank" /\ r.bodyLength = BodySize
       /\ h = [r EXCEPT !.state = "stBody"]
    \/ /\ r.state = "stHeader" /\ item = "blank" /\ r.bodyLength = 0
       /\ h = [r EXCEPT !.state = "stComplete"]

\* The request after a line: what it says agrees with the stream.
LEMMA LineSaid ==
    ASSUME NEW s \in Seq(STRING), NEW k \in Nat, NEW b \in Seq(Part), NEW rest \in Seq(Part),
           At(s, k, b, rest), NEW r \in Req, ReqAt(s, k, r), Len(b) >= 2,
           NEW h \in Req,
           LineSays(r, b[1].item, h)
    PROVE  /\ 2 \in 0 .. Len(b) /\ At(s, k + 2, Drop(b, 2), rest)
           /\ h.handShake = r.handShake /\ h.state # "stReqLine"
           /\ ReqAt(s, k + 2, h)
           /\ h.state \in {"stBody", "stComplete"} =>
                 \E m \in 1 .. Len(s) : RequestEnds(s, m) /\ Seen(s, m, h) /\ k + 2 = 2 * m
<1>1. r.state \in {"stReqLine", "stHeader"} /\ (r.state = "stReqLine" => b[1].item = "GET")
  BY DEF LineSays
<1>2. PICK m \in 1 .. Len(s) :
                 /\ k + 2 = 2 * m /\ s[1] = "GET" /\ b[1].item = s[m]
                 /\ \A i \in 1 .. m - 1 : s[i] # "blank"
                 /\ r.state = "stReqLine" => m = 1 /\ ~ r.webSocket /\ ~ r.key
                 /\ r.state = "stHeader" => m > 1 /\ Seen(s, m - 1, r)
  BY <1>1, LineTaken
<1>3. 2 \in 0 .. Len(b) /\ At(s, k + 2, Drop(b, 2), rest)
  BY <1>1, LineTaken
<1>4. \A i \in 1 .. m : i = m \/ i \in 1 .. m - 1
  OBVIOUS
<1>5. CASE r.state = "stReqLine" /\ b[1].item = "GET" /\ h = [r EXCEPT !.state = "stHeader"]
  <2>1. /\ h.state = "stHeader" /\ h.handShake = r.handShake /\ h.webSocket = r.webSocket
        /\ h.key = r.key
    BY <1>5 DEF Req
  <2>2. m = 1 /\ ~ h.webSocket /\ ~ h.key
    BY <1>2, <1>5, <2>1
  <2>3. Seen(s, m, h)
    BY <2>2 DEF Seen
  <2>4. \A i \in 1 .. m : s[i] # "blank"
    BY <1>2, <2>2
  <2>5. ReqAt(s, k + 2, h)
    BY <1>2, <2>1, <2>3, <2>4 DEF ReqAt
  <2> QED BY <1>3, <2>1, <2>5
<1>6. CASE r.state = "stHeader" /\ b[1].item # "blank" /\ h = Header(r, b[1].item)
  <2>1. /\ h.state = "stHeader" /\ h.handShake = r.handShake
        /\ h.webSocket => r.webSocket \/ s[m] = "Upgrade"
        /\ h.key => r.key \/ s[m] = "Key"
        /\ h.bodyLength = 0 => r.bodyLength = 0 /\ s[m] # "Length"
    BY <1>2, <1>6, HeaderIs
  <2>2. m \in 2 .. Len(s) /\ Seen(s, m - 1, r)
    BY <1>2, <1>6
  <2>3. Seen(s, m, h)
    BY <2>1, <2>2, SeenOn
  <2>4. \A i \in 1 .. m : s[i] # "blank"
    BY <1>2, <1>4, <1>6
  <2>5. ReqAt(s, k + 2, h)
    BY <1>2, <2>1, <2>3, <2>4 DEF ReqAt
  <2> QED BY <1>3, <2>1, <2>5
<1>7. CASE /\ r.state = "stHeader" /\ b[1].item = "blank"
           /\ \/ r.bodyLength = BodySize /\ h = [r EXCEPT !.state = "stBody"]
              \/ r.bodyLength = 0 /\ h = [r EXCEPT !.state = "stComplete"]
  <2>1. /\ h.handShake = r.handShake /\ h.webSocket = r.webSocket /\ h.key = r.key
        /\ h.bodyLength = r.bodyLength
        /\ \/ h.state = "stBody" /\ h.bodyLength = BodySize
           \/ h.state = "stComplete" /\ h.bodyLength = 0
    BY <1>7 DEF Req
  <2>2. m \in 2 .. Len(s) /\ Seen(s, m - 1, r) /\ s[m] = "blank"
    BY <1>2, <1>7
  <2>3. Seen(s, m, h)
    BY <2>1, <2>2, SeenOn
  <2>4. RequestEnds(s, m)
    BY <1>2, <2>2 DEF RequestEnds
  <2>5. k + 2 >= 2 * m
    BY <1>2
  <2>6. ReqAt(s, k + 2, h)
    BY <1>2, <2>1, <2>3, <2>4, <2>5 DEF ReqAt
  <2> QED BY <1>2, <1>3, <2>1, <2>3, <2>4, <2>6
<1> QED BY <1>5, <1>6, <1>7 DEF LineSays

LEMMA TurnKeeps ==
    ASSUME NEW s \in Seq(STRING), NEW k \in Nat, NEW b \in Seq(Part), NEW rest \in Seq(Part),
           At(s, k, b, rest), NEW r \in Req, NEW p \in Parsing, NEW t \in Parsing,
           NEW q \in 0 .. Len(b), TurnAt(s, k, r, b, rest, p, q), p.ret = "none", Turned(p, t)
    PROVE  \E u \in 0 .. Len(b) :
              TurnAt(s, k, r, b, rest, t, u) /\ (t.ret = "none" => Len(t.buf) + 2 = Len(p.buf))
<1>1. /\ Len(b) \in Nat /\ Len(rest) \in Nat /\ q \in Nat /\ q <= Len(b) /\ Len(s) \in Nat
      /\ p.buf \in Seq(Part) /\ p.req \in Req /\ Len(p.buf) \in Nat
      /\ k + q \in Nat /\ t.req \in Req
  BY DEF Parsing
<1>2. /\ At(s, k + q, p.buf, rest) /\ ReqAt(s, k + q, p.req) /\ p.req.handShake = r.handShake
      /\ q = 0 => p.req = r /\ p.buf = b
      /\ q # 0 => q >= 2 /\ r.state # "stComplete" /\ p.req.state # "stReqLine"
      /\ q # 0 /\ r.state = "stReqLine" => b[1].item = "GET"
      /\ p.req.state = "stBody" => q = 0
      /\ r.state = "stBody" => p.req.state \in {"stBody", "stComplete"}
  BY DEF TurnAt
<1>3. Len(p.buf) = Len(b) - q
  <2> DEFINE N == 2 * Len(s)
             x == Len(p.buf)
             y == Len(rest)
             z == Len(b)
  <2>1. k + q + x + y = N /\ k + z + y = N
    BY <1>2 DEF At
  <2>2. x \in Nat /\ y \in Nat /\ z \in Nat /\ N \in Nat /\ k \in Nat /\ q \in Nat
    BY <1>1
  <2> HIDE DEF N, x, y, z
  <2>3. x = z - q
    BY <2>1, <2>2
  <2> QED BY <2>3 DEF x, z
<1>4. CASE /\ t.req = p.req /\ t.buf = p.buf
           /\ \/ p.req.state = "stComplete" /\ t.ret = "psComplete"
              \/ p.req.state = "stBody" /\ Len(p.buf) < p.req.bodyLength /\ t.ret = "psNotFullBody"
              \/ p.req.state = "stReqLine" /\ t.ret = "psBadLine"
                    /\ (Len(p.buf) < 2 \/ p.buf[1].item # "GET")
              \/ p.req.state = "stHeader" /\ t.ret = "psBadLine" /\ Len(p.buf) < 2
  <2>1. TurnAt(s, k, r, b, rest, t, q) /\ t.ret # "none"
    BY <1>4, TurnStays
  <2> QED BY <2>1
<1>5. CASE /\ p.req.state = "stBody" /\ Len(p.buf) >= p.req.bodyLength
           /\ t.req = [p.req EXCEPT !.state = "stComplete"] /\ t.ret = "none"
           /\ t.buf = Drop(p.buf, p.req.bodyLength)
  <2>1. p.req = r /\ p.buf = b /\ ReqAt(s, k, r)
    <3>1. q = 0 /\ k + 0 = k
      BY <1>2, <1>5
    <3> QED BY <1>2, <3>1
  <2>2. 2 \in 0 .. Len(b) /\ TurnAt(s, k, r, b, rest, t, 2)
    BY <1>5, <2>1, BodyTaken
  <2>3. p.req.bodyLength = 2
    BY <1>5, <2>1 DEF ReqAt, BodySize
  <2>4. Len(t.buf) = Len(b) - 2
    <3>1. t.buf = Drop(b, 2)
      BY <1>5, <2>1, <2>3
    <3> QED BY <2>2, <3>1, DropIs
  <2>5. Len(t.buf) + 2 = Len(p.buf)
    BY <1>1, <2>1, <2>4
  <2> QED BY <2>2, <2>5
<1>6. CASE /\ Len(p.buf) >= 2 /\ t.buf = Drop(p.buf, 2)
           /\ \/ /\ p.req.state = "stReqLine" /\ p.buf[1].item = "GET"
                 /\ t.req = [p.req EXCEPT !.state = "stHeader"] /\ t.ret = "none"
              \/ /\ p.req.state = "stHeader" /\ p.buf[1].item # "blank"
                 /\ t.req = Header(p.req, p.buf[1].item) /\ t.ret = "none"
              \/ /\ p.req.state = "stHeader" /\ p.buf[1].item = "blank"
                 /\ p.req.bodyLength = BodySize
                 /\ t.req = [p.req EXCEPT !.state = "stBody"] /\ t.ret = "psNextLine"
              \/ /\ p.req.state = "stHeader" /\ p.buf[1].item = "blank" /\ p.req.bodyLength = 0
                 /\ t.req = [p.req EXCEPT !.state = "stComplete"] /\ t.ret = "none"
  <2> DEFINE u == q + 2
             K == k + q
  <2>1. /\ 2 \in 0 .. Len(p.buf) /\ At(s, K + 2, Drop(p.buf, 2), rest)
        /\ t.req.handShake = p.req.handShake /\ t.req.state # "stReqLine"
        /\ ReqAt(s, K + 2, t.req)
        /\ t.req.state \in {"stBody", "stComplete"} =>
              \E m \in 1 .. Len(s) : RequestEnds(s, m) /\ Seen(s, m, t.req) /\ K + 2 = 2 * m
    <3> HIDE DEF K
    <3>1. K \in Nat /\ At(s, K, p.buf, rest) /\ ReqAt(s, K, p.req)
      BY <1>1, <1>2 DEF K
    <3>2. LineSays(p.req, p.buf[1].item, t.req) /\ Len(p.buf) >= 2
      BY <1>6 DEF LineSays
    <3> QED BY <1>1, <3>1, <3>2, LineSaid
  <2>2. u \in 0 .. Len(b) /\ u # 0 /\ u >= 2 /\ K + 2 = k + u /\ Len(t.buf) + 2 = Len(p.buf)
    <3>1. t.buf = Drop(p.buf, 2) /\ Len(p.buf) >= 2
      BY <1>6
    <3>2. Len(t.buf) = Len(p.buf) - 2
      BY <1>1, <2>1, <3>1, DropIs
    <3> QED BY <1>1, <1>3, <3>1, <3>2
  <2>3. r.state \notin {"stBody", "stComplete"} /\ (r.state = "stReqLine" => b[1].item = "GET")
    <3>1. q = 0 => p.req = r /\ p.buf = b
      BY <1>2
    <3> QED BY <1>2, <1>6, <3>1
  <2>4. /\ t.req.state = "stBody" <=> t.ret = "psNextLine"
        /\ t.ret \in {"none", "psNextLine"}
    BY <1>1, <1>6, HeaderIs DEF Req
  <2> HIDE DEF u
  <2>5. /\ At(s, k + u, t.buf, rest) /\ ReqAt(s, k + u, t.req)
        /\ t.req.state \in {"stBody", "stComplete"} =>
              \E m \in 1 .. Len(s) : RequestEnds(s, m) /\ Seen(s, m, t.req) /\ k + u = 2 * m
    BY <1>6, <2>1, <2>2
  <2>6. TurnAt(s, k, r, b, rest, t, u)
    BY <1>2, <2>1, <2>2, <2>3, <2>4, <2>5 DEF TurnAt
  <2> QED BY <2>2, <2>6
<1> QED BY <1>4, <1>5, <1>6 DEF Turned

\* What ParseReq returns, and where it stops.
LEMMA ParseAt ==
    ASSUME NEW s \in Seq(STRING), NEW k \in Nat, NEW b \in Seq(Part), NEW rest \in Seq(Part),
           At(s, k, b, rest), NEW r \in Req, ReqAt(s, k, r)
    PROVE  LET p == ParseReq(r, b) IN
           /\ p \in Parsing /\ p.ret # "none"
           /\ \E q \in 0 .. Len(b) : TurnAt(s, k, r, b, rest, p, q)
<1>1. PICK f \in [Nat -> Parsing] :
              /\ f[0] = [req |-> r, buf |-> b, ret |-> "none", stale |-> FALSE]
              /\ \A n \in Nat : IF f[n].ret = "none" THEN Turned(f[n], f[n + 1])
                                ELSE f[n + 1] = f[n]
              /\ ParseReq(r, b) = f[Len(b) + 1]
  BY ParseTurns
<1> DEFINE Good(n) == /\ \E q \in 0 .. Len(b) : TurnAt(s, k, r, b, rest, f[n], q)
                      /\ f[n].ret = "none" => Len(f[n].buf) + 2 * n = Len(b)
           Bad == {n \in Nat : ~ Good(n)}
<1>2. Good(0)
  <2>1. TurnAt(s, k, r, b, rest, f[0], 0)
    <3>1. k + 0 = k
      OBVIOUS
    <3> QED BY <1>1, <3>1 DEF TurnAt
  <2>2. 0 \in 0 .. Len(b) /\ Len(f[0].buf) + 2 * 0 = Len(b)
    BY <1>1
  <2> QED BY <2>1, <2>2
<1>3. ASSUME NEW n \in Nat, Good(n) PROVE Good(n + 1)
  <2>1. n + 1 \in Nat /\ f[n] \in Parsing /\ f[n + 1] \in Parsing
    BY <1>1
  <2>2. CASE f[n].ret # "none"
    <3>1. f[n + 1] = f[n]
      BY <1>1, <2>2
    <3> QED BY <1>3, <2>2, <3>1
  <2>3. CASE f[n].ret = "none"
    <3>1. Turned(f[n], f[n + 1])
      BY <1>1, <2>3
    <3>2. PICK q \in 0 .. Len(b) : TurnAt(s, k, r, b, rest, f[n], q)
      BY <1>3
    <3>3. PICK u \in 0 .. Len(b) : TurnAt(s, k, r, b, rest, f[n + 1], u)
                 /\ (f[n + 1].ret = "none" => Len(f[n + 1].buf) + 2 = Len(f[n].buf))
      BY <2>1, <2>3, <3>1, <3>2, TurnKeeps
    <3>4. Len(f[n].buf) + 2 * n = Len(b)
      BY <1>3, <2>3
    <3>6. f[n].buf \in Seq(Part) /\ f[n + 1].buf \in Seq(Part)
      BY <2>1 DEF Parsing
    <3>7. Len(f[n].buf) \in Nat /\ Len(f[n + 1].buf) \in Nat /\ Len(b) \in Nat
      BY <3>6
    <3>5. f[n + 1].ret = "none" => Len(f[n + 1].buf) + 2 * (n + 1) = Len(b)
      <4>1. \A x \in Nat, y \in Nat, z \in Nat : x + 2 = y /\ y + 2 * n = z => x + 2 * (n + 1) = z
        OBVIOUS
      <4> QED BY <3>3, <3>4, <3>7, <4>1
    <3> QED BY <3>3, <3>5
  <2> QED BY <2>2, <2>3
<1> HIDE DEF Good
<1>4. ASSUME NEW n \in Nat PROVE Good(n)
  <2>1. SUFFICES ASSUME Bad # {} PROVE FALSE
    OBVIOUS
  <2>2. PICK m \in Bad : \A l \in Bad : m <= l
    <3>1. Bad \subseteq Nat
      OBVIOUS
    <3> HIDE DEF Bad
    <3> QED BY <2>1, <3>1, Smallest
  <2>3. m # 0 /\ m \in Nat /\ ~ Good(m)
    BY <1>2, <2>2
  <2>4. m - 1 \in Nat /\ ~ (m <= m - 1) /\ (m - 1) + 1 = m
    BY <2>3
  <2>5. Good(m - 1)
    BY <2>2, <2>4
  <2>6. Good((m - 1) + 1)
    BY <1>3, <2>4, <2>5
  <2> QED BY <2>3, <2>4, <2>6
<1> DEFINE N == Len(b) + 1
<1>5. N \in Nat /\ f[N] \in Parsing /\ 2 * N > Len(b)
  BY <1>1
<1> HIDE DEF N
<1>6. Good(N)
  BY <1>4, <1>5
<1>7. f[N].ret # "none"
  <2>1. f[N].buf \in Seq(Part)
    BY <1>5 DEF Parsing
  <2>2. Len(f[N].buf) \in Nat /\ Len(b) \in Nat
    BY <2>1
  <2>3. f[N].ret = "none" => Len(f[N].buf) + 2 * N = Len(b)
    BY <1>6 DEF Good
  <2>4. \A x \in Nat : x + 2 * N # Len(b)
    BY <1>5, <2>2
  <2> QED BY <2>2, <2>3, <2>4
<1>8. ParseReq(r, b) = f[N]
  BY <1>1 DEF N
<1> QED BY <1>5, <1>6, <1>7, <1>8 DEF Good

-----------------------------------------------------------------------------
(* What a read makes of the connection, its context and its buffers. *)

Answer == {"200", "101", "400", "404", "1002", "1003", "json", "pong"}

World ==
    [io : Loop, req : Req \cup {NoReq}, rcv : Seq(Part), sent : Seq(Answer), handled : Seq(Part)]

Open(w) == w.io.conn[1].state = "csConnected"

Sends(w, v, what) == v.sent = w.sent \/ (Open(w) /\ v.sent = Append(w.sent, what))

LEMMA SendBufKeeps ==
    ASSUME NEW w \in World, IoInv(w.io), NEW what \in Answer, NEW result
    PROVE  LET v == SendBuf(w, what, result) IN
           /\ v \in World /\ IoInv(v.io) /\ (Open(v) <=> Open(w))
           /\ v.req = w.req /\ v.rcv = w.rcv /\ v.handled = w.handled /\ Sends(w, v, what)
<1> DEFINE s == SendInLoop(w.io, 1, result)
           a == Append(w.sent, what)
           b == IF result = "fail" /\ ~ w.io.conn[1].unsent THEN w.sent ELSE a
           v == [w EXCEPT !.io = s, !.sent = b]
<1>1. IoInv(s) /\ s.conn[1].state = w.io.conn[1].state /\ s \in Loop
  BY SendInLoopKeeps DEF IoInv
<1>2. w.sent \in Seq(Answer) /\ a \in Seq(Answer)
  BY DEF World
<1>3. SendBuf(w, what, result) = IF Open(w) THEN v ELSE w
  BY DEF SendBuf, Is, Open, World
<1>4. b \in Seq(Answer) /\ b \in {w.sent, a}
  BY <1>2
<1> HIDE DEF s, b
<1>5. /\ v \in World /\ v.io = s /\ v.sent = b /\ v.req = w.req /\ v.rcv = w.rcv
      /\ v.handled = w.handled
  BY <1>1, <1>4 DEF World
<1> HIDE DEF v
<1>6. CASE Open(w)
  <2>1. IoInv(v.io) /\ (Open(v) <=> Open(w))
    BY <1>1, <1>5 DEF Open
  <2>2. Sends(w, v, what)
    BY <1>4, <1>5, <1>6 DEF Sends
  <2> QED BY <1>3, <1>5, <1>6, <2>1, <2>2
<1>7. CASE ~ Open(w)
  BY <1>3, <1>7 DEF Sends
<1> QED BY <1>6, <1>7

LEMMA ShutDownKeeps ==
    ASSUME NEW w \in World, IoInv(w.io)
    PROVE  LET v == ShutDown(w) IN
           /\ v \in World /\ IoInv(v.io) /\ ~ Open(v)
           /\ v.req = w.req /\ v.rcv = w.rcv /\ v.handled = w.handled /\ v.sent = w.sent
<1> DEFINE s == Shutdown(w.io, 1)
           v == [w EXCEPT !.io = s]
<1>1. IoInv(s) /\ s.conn[1].state # "csConnected" /\ s \in Loop
  BY ShutdownKeeps DEF IoInv
<1>2. ShutDown(w) = v
  BY DEF ShutDown
<1> HIDE DEF s
<1>3. /\ v \in World /\ v.io = s /\ v.sent = w.sent /\ v.req = w.req /\ v.rcv = w.rcv
      /\ v.handled = w.handled
  BY <1>1 DEF World
<1> HIDE DEF v
<1> QED BY <1>1, <1>2, <1>3 DEF Open

\* HttpCodec::OnRawBuf.
HttpReads(w, v) ==
    LET p == ParseReq(w.req, w.rcv) IN
    /\ v.rcv = p.buf /\ v.handled = w.handled
    /\ \/ p.ret # "psComplete" /\ v.req = p.req /\ v.sent = w.sent /\ (Open(v) <=> Open(w))
       \/ /\ p.ret = "psComplete" /\ v.req = Reset(p.req) /\ Sends(w, v, "200")
          /\ Open(v) => Open(w) /\ p.req.keepAlive

\* WebSktCodec::OnRawBuf before the handshake.
ShakingHands(w, v) ==
    LET p == ParseReq(w.req, w.rcv) IN
    /\ v.rcv = p.buf /\ v.handled = w.handled
    /\ \/ /\ p.ret \in {"psNotFullBody", "psNextLine"} /\ v.req = p.req
          /\ v.sent = w.sent /\ (Open(v) <=> Open(w))
       \/ /\ v.req = p.req /\ ~ Open(v)
          /\ \/ p.ret = "psBadLine" /\ Sends(w, v, "400")
             \/ p.ret = "psComplete" /\ ~ (p.req.webSocket /\ p.req.key) /\ Sends(w, v, "1002")
       \/ /\ p.ret = "psComplete" /\ p.req.webSocket /\ p.req.key
          /\ v.req = [p.req EXCEPT !.handShake = TRUE]
          /\ Sends(w, v, "101") /\ (Open(v) <=> Open(w))

\* WebSktCodec::OnRawBuf after it.
FrameReads(w, v) ==
    \E pack \in DecodePack(w.rcv, InStep(w)) :
       \/ ~ pack.frame /\ v = w
       \/ /\ pack.frame /\ v.rcv = Drop(w.rcv, pack.size)
          /\ v.handled = Append(w.handled, w.rcv[1]) /\ v.req = w.req
          /\ Open(v) => Open(w)
          /\ \E what \in {"json", "pong", "1003"} : Sends(w, v, what)

LEMMA HttpRead ==
    ASSUME NEW w \in World, IoInv(w.io), NEW result, ParseReq(w.req, w.rcv) \in Parsing
    PROVE  LET v == HttpOnRawBuf(w, result) IN
           v \in World /\ IoInv(v.io) /\ v.req \in Req /\ HttpReads(w, v)
<1> DEFINE p == ParseReq(w.req, w.rcv)
           read == [w EXCEPT !.req = p.req, !.rcv = p.buf]
           fresh == [read EXCEPT !.req = Reset(p.req)]
           answered == SendBuf(fresh, "200", result)
           closed == ShutDown(answered)
<1>1. p.req \in Req /\ p.buf \in Seq(Part)
  BY DEF Parsing
<1>2. Reset(p.req) \in Req /\ Reset(p.req).keepAlive = p.req.keepAlive
  BY <1>1 DEF Reset, Req
<1>3. HttpOnRawBuf(w, result) = IF p.ret # "psComplete" THEN read
                                ELSE IF p.req.keepAlive THEN answered ELSE closed
  BY DEF HttpOnRawBuf, OnHttpReq, Response, IsKeepAlive
<1> HIDE DEF p
<1>4. /\ read \in World /\ read.io = w.io /\ read.req = p.req /\ read.rcv = p.buf
      /\ read.sent = w.sent /\ read.handled = w.handled
  BY <1>1 DEF World
<1> HIDE DEF read
<1>5. /\ fresh \in World /\ fresh.io = w.io /\ fresh.req = Reset(p.req) /\ fresh.rcv = p.buf
      /\ fresh.sent = w.sent /\ fresh.handled = w.handled
  BY <1>2, <1>4 DEF World
<1> HIDE DEF fresh
<1>6. /\ answered \in World /\ IoInv(answered.io) /\ (Open(answered) <=> Open(fresh))
      /\ answered.req = fresh.req /\ answered.rcv = fresh.rcv /\ answered.handled = fresh.handled
      /\ Sends(fresh, answered, "200")
  <2>1. "200" \in Answer /\ IoInv(fresh.io)
    BY <1>5 DEF Answer
  <2> QED BY <1>5, <2>1, SendBufKeeps
<1> HIDE DEF answered
<1>7. /\ closed \in World /\ IoInv(closed.io) /\ ~ Open(closed)
      /\ closed.req = answered.req /\ closed.rcv = answered.rcv
      /\ closed.handled = answered.handled /\ closed.sent = answered.sent
  BY <1>6, ShutDownKeeps
<1> HIDE DEF closed
<1>8. (Open(fresh) <=> Open(w)) /\ (Open(read) <=> Open(w))
  BY <1>4, <1>5 DEF Open
<1>9. Sends(w, answered, "200") /\ Sends(w, closed, "200")
  BY <1>5, <1>6, <1>7, <1>8 DEF Sends
<1>10. CASE p.ret # "psComplete"
  <2>1. HttpReads(w, read)
    BY <1>4, <1>8, <1>10 DEF HttpReads, p
  <2> QED BY <1>1, <1>3, <1>4, <1>10, <2>1
<1>11. CASE p.ret = "psComplete" /\ p.req.keepAlive
  <2>1. HttpReads(w, answered)
    BY <1>5, <1>6, <1>8, <1>9, <1>11 DEF HttpReads, p
  <2> QED BY <1>2, <1>3, <1>5, <1>6, <1>11, <2>1
<1>12. CASE p.ret = "psComplete" /\ ~ p.req.keepAlive
  <2>1. HttpReads(w, closed)
    BY <1>5, <1>6, <1>7, <1>9, <1>12 DEF HttpReads, p
  <2> QED BY <1>2, <1>3, <1>5, <1>6, <1>7, <1>12, <2>1
<1> QED BY <1>10, <1>11, <1>12

LEMMA HandsShaken ==
    ASSUME NEW w \in World, IoInv(w.io), NEW result, ParseReq(w.req, w.rcv) \in Parsing,
           ParseReq(w.req, w.rcv).ret # "none"
    PROVE  LET v == ShakeHands(w, result) IN
           v \in World /\ IoInv(v.io) /\ v.req \in Req /\ ShakingHands(w, v)
<1> DEFINE p == ParseReq(w.req, w.rcv)
           read == [w EXCEPT !.req = p.req, !.rcv = p.buf]
           bad == SendBuf(read, "400", result)
           refused == SendBuf(read, "1002", result)
           agreed == SendBuf(read, "101", result)
           shaken == [agreed EXCEPT !.req.handShake = TRUE]
<1>1. p.req \in Req /\ p.buf \in Seq(Part)
      /\ p.ret \in {"psComplete", "psBadLine", "psNotFullBody", "psNextLine"}
  BY DEF Parsing
<1>2. ShakeHands(w, result) =
         CASE p.ret = "psBadLine" -> ShutDown(bad)
           [] p.ret = "psComplete" /\ ~ (p.req.webSocket /\ p.req.key) -> ShutDown(refused)
           [] p.ret = "psComplete" /\ p.req.webSocket /\ p.req.key -> shaken
           [] OTHER -> read
  BY DEF ShakeHands, WebSktResponse
<1>3. ParseReq(w.req, w.rcv) = p
  OBVIOUS
<1> HIDE DEF p
<1>4. /\ read \in World /\ read.io = w.io /\ read.req = p.req /\ read.rcv = p.buf
      /\ read.sent = w.sent /\ read.handled = w.handled
  BY <1>1 DEF World
<1> HIDE DEF read
<1>5. IoInv(read.io) /\ (Open(read) <=> Open(w)) /\ {"400", "1002", "101"} \subseteq Answer
  BY <1>4 DEF Open, Answer
<1>6. ASSUME NEW what \in Answer
      PROVE  LET v == SendBuf(read, what, result) IN
             /\ v \in World /\ IoInv(v.io) /\ (Open(v) <=> Open(w))
             /\ v.req = p.req /\ v.rcv = p.buf /\ v.handled = w.handled /\ Sends(w, v, what)
  <2> DEFINE v == SendBuf(read, what, result)
  <2>1. /\ v \in World /\ IoInv(v.io) /\ (Open(v) <=> Open(read))
        /\ v.req = read.req /\ v.rcv = read.rcv /\ v.handled = read.handled /\ Sends(read, v, what)
    BY <1>4, <1>5, SendBufKeeps
  <2> HIDE DEF v
  <2>2. Sends(w, v, what)
    BY <1>4, <1>5, <2>1 DEF Sends
  <2>3. /\ v \in World /\ IoInv(v.io) /\ (Open(v) <=> Open(w))
        /\ v.req = p.req /\ v.rcv = p.buf /\ v.handled = w.handled /\ Sends(w, v, what)
    BY <1>4, <1>5, <2>1, <2>2
  <2> QED BY <2>3 DEF v
<1>7. ASSUME NEW what \in Answer
      PROVE  LET v == ShutDown(SendBuf(read, what, result)) IN
             /\ v \in World /\ IoInv(v.io) /\ ~ Open(v)
             /\ v.req = p.req /\ v.rcv = p.buf /\ v.handled = w.handled /\ Sends(w, v, what)
  <2> DEFINE u == SendBuf(read, what, result)
             v == ShutDown(u)
  <2>1. /\ u \in World /\ IoInv(u.io)
        /\ u.req = p.req /\ u.rcv = p.buf /\ u.handled = w.handled /\ Sends(w, u, what)
    BY <1>6
  <2> HIDE DEF u
  <2>2. /\ v \in World /\ IoInv(v.io) /\ ~ Open(v)
        /\ v.req = u.req /\ v.rcv = u.rcv /\ v.handled = u.handled /\ v.sent = u.sent
    BY <2>1, ShutDownKeeps
  <2> HIDE DEF v
  <2>3. /\ v \in World /\ IoInv(v.io) /\ ~ Open(v)
        /\ v.req = p.req /\ v.rcv = p.buf /\ v.handled = w.handled /\ Sends(w, v, what)
    BY <2>1, <2>2 DEF Sends
  <2> QED BY <2>3 DEF u, v
<1>8. CASE p.ret = "psBadLine"
  <2> DEFINE v == ShutDown(bad)
  <2>1. ShakeHands(w, result) = v
    BY <1>2, <1>8
  <2>2. /\ v \in World /\ IoInv(v.io) /\ ~ Open(v)
        /\ v.req = p.req /\ v.rcv = p.buf /\ v.handled = w.handled /\ Sends(w, v, "400")
    BY <1>5, <1>7
  <2> HIDE DEF v
  <2>3. ShakingHands(w, v)
    BY <1>3, <1>8, <2>2 DEF ShakingHands
  <2> QED BY <1>1, <2>1, <2>2, <2>3
<1>9. CASE p.ret = "psComplete" /\ ~ (p.req.webSocket /\ p.req.key)
  <2> DEFINE v == ShutDown(refused)
  <2>1. ShakeHands(w, result) = v
    BY <1>2, <1>9
  <2>2. /\ v \in World /\ IoInv(v.io) /\ ~ Open(v)
        /\ v.req = p.req /\ v.rcv = p.buf /\ v.handled = w.handled /\ Sends(w, v, "1002")
    BY <1>5, <1>7
  <2> HIDE DEF v
  <2>3. ShakingHands(w, v)
    BY <1>3, <1>9, <2>2 DEF ShakingHands
  <2> QED BY <1>1, <2>1, <2>2, <2>3
<1>10. CASE p.ret = "psComplete" /\ p.req.webSocket /\ p.req.key
  <2>1. ShakeHands(w, result) = shaken
    BY <1>2, <1>10
  <2>2. /\ agreed \in World /\ IoInv(agreed.io) /\ (Open(agreed) <=> Open(w))
        /\ agreed.req = p.req /\ agreed.rcv = p.buf /\ agreed.handled = w.handled
        /\ Sends(w, agreed, "101")
    BY <1>5, <1>6
  <2> HIDE DEF agreed
  <2> DEFINE h == [p.req EXCEPT !.handShake = TRUE]
  <2>3. shaken = [agreed EXCEPT !.req = h]
    BY <2>2 DEF World
  <2>4. h \in Req
    BY <1>1 DEF Req
  <2>5. /\ [agreed EXCEPT !.req = h] \in World
        /\ LET v == [agreed EXCEPT !.req = h] IN
           /\ v.io = agreed.io /\ v.sent = agreed.sent /\ v.req = h /\ v.rcv = agreed.rcv
           /\ v.handled = agreed.handled
    <3> HIDE DEF h
    <3> QED BY <2>2, <2>4 DEF World
  <2> HIDE DEF h, shaken
  <2>6. /\ shaken \in World /\ shaken.io = agreed.io /\ shaken.sent = agreed.sent
        /\ shaken.req = h /\ shaken.rcv = agreed.rcv /\ shaken.handled = agreed.handled
    BY <2>3, <2>5
  <2>7. Sends(w, shaken, "101") /\ (Open(shaken) <=> Open(w)) /\ IoInv(shaken.io)
    BY <2>2, <2>6 DEF Sends, Open
  <2>8. ShakingHands(w, shaken)
    BY <1>3, <1>10, <2>2, <2>6, <2>7 DEF ShakingHands, h
  <2> QED BY <2>1, <2>4, <2>6, <2>7, <2>8
<1>11. CASE p.ret \in {"psNotFullBody", "psNextLine"}
  <2>1. ShakeHands(w, result) = read
    BY <1>2, <1>11
  <2>2. ShakingHands(w, read)
    BY <1>3, <1>4, <1>5, <1>11 DEF ShakingHands
  <2> QED BY <1>1, <1>4, <1>5, <2>1, <2>2
<1> QED BY <1>1, <1>8, <1>9, <1>10, <1>11

LEMMA PackIs ==
    ASSUME NEW b \in Seq(Part), NEW on \in BOOLEAN, NEW pack \in DecodePack(b, on)
    PROVE  /\ pack.size \in 0 .. Len(b) /\ pack.frame \in BOOLEAN
           /\ pack.frame => b # <<>>
           /\ on /\ b # <<>> /\ ~ pack.frame =>
                 b[1].item # "long" /\ (Len(b) < 2 \/ b[1].item = "unmasked")
           /\ on /\ pack.frame =>
                 \/ b[1].item = "long" /\ pack.size = 1
                 \/ b[1].item \notin {"long", "unmasked"} /\ pack.size = 2 /\ Len(b) >= 2
<1>1. CASE b = <<>>
  <2>1. DecodePack(b, on) = {NoFrame}
    BY <1>1 DEF DecodePack
  <2>2. pack.size = 0 /\ pack.frame = FALSE
    BY <2>1 DEF NoFrame
  <2>3. Len(b) = 0
    BY <1>1
  <2>4. pack.size \in 0 .. Len(b)
    BY <2>2, <2>3
  <2> QED BY <1>1, <2>2, <2>4, Zenon
<1>2. CASE b # <<>>
  <2>1. Len(b) \in Nat /\ Len(b) >= 1
    BY <1>2
  <2>2. CASE ~ on
    <3>1. pack \in Anything(b)
      BY <1>2, <2>2 DEF DecodePack
    <3>2. CASE pack = NoFrame
      BY <2>1, <2>2, <3>2 DEF NoFrame
    <3>3. CASE pack # NoFrame
      <4>1. pack.size \in 0 .. Len(b) /\ pack.frame = TRUE
        BY <3>1, <3>3 DEF Anything
      <4> QED BY <1>2, <2>2, <4>1
    <3> QED BY <3>2, <3>3
  <2>3. CASE on /\ b[1].item = "long"
    <3>1. pack = Frame(1, "text")
      BY <1>2, <2>3 DEF DecodePack
    <3> QED BY <1>2, <2>1, <2>3, <3>1 DEF Frame
  <2>4. CASE on /\ b[1].item # "long" /\ (Len(b) < 2 \/ b[1].item = "unmasked")
    <3>1. pack = NoFrame
      BY <1>2, <2>4 DEF DecodePack
    <3> QED BY <2>1, <2>4, <3>1 DEF NoFrame
  <2>5. CASE on /\ b[1].item # "long" /\ ~ (Len(b) < 2 \/ b[1].item = "unmasked")
    <3>1. pack = Frame(2, b[1].item)
      BY <1>2, <2>5 DEF DecodePack
    <3> QED BY <1>2, <2>1, <2>5, <3>1 DEF Frame
  <2> QED BY <2>2, <2>3, <2>4, <2>5
<1> QED BY <1>1, <1>2

LEMMA FramesRead ==
    ASSUME NEW w \in World, IoInv(w.io), NEW result,
           NEW pack \in DecodePack(w.rcv, InStep(w))
    PROVE  LET v == HandleFrame(w, pack, result) IN
           v \in World /\ IoInv(v.io) /\ v.req = w.req /\ FrameReads(w, v)
<1> DEFINE d == Drop(w.rcv, pack.size)
           h == Append(w.handled, w.rcv[1])
           read == [w EXCEPT !.rcv = d, !.handled = h]
<1>1. w.rcv \in Seq(Part) /\ w.handled \in Seq(Part) /\ w.sent \in Seq(Answer)
  BY DEF World
<1>2. pack.size \in 0 .. Len(w.rcv) /\ pack.frame \in BOOLEAN /\ (pack.frame => w.rcv # <<>>)
  <2>1. InStep(w) \in BOOLEAN
    BY DEF InStep
  <2> QED BY <1>1, <2>1, PackIs
<1>3. CASE ~ pack.frame
  <2>1. HandleFrame(w, pack, result) = w
    BY <1>3 DEF HandleFrame
  <2> QED BY <1>3, <2>1 DEF FrameReads
<1>4. CASE pack.frame
  <2>1. w.rcv # <<>>
    BY <1>2, <1>4
  <2>2. d \in Seq(Part)
    BY <1>1, <1>2, DropIs
  <2>3. h \in Seq(Part)
    BY <1>1, <2>1
  <2>4. Taken(w, pack.size) = read
    BY DEF Taken
  <2>5. HandleFrame(w, pack, result) \in
           {SendBuf(read, "json", result), SendBuf(read, "pong", result),
            SendBuf(read, "1003", result), ShutDown(read), read}
    <3> HIDE DEF read
    <3>1. CASE pack.op = "text"
      BY <1>4, <2>1, <2>4, <3>1 DEF HandleFrame, OnJsonHttpReq, SendWebSktBuf
    <3>2. CASE pack.op = "ping"
      BY <1>4, <2>1, <2>4, <3>2 DEF HandleFrame
    <3>3. CASE pack.op = "binary"
      BY <1>4, <2>1, <2>4, <3>3 DEF HandleFrame, WebSktResponse
    <3>4. CASE pack.op = "close frame"
      BY <1>4, <2>1, <2>4, <3>4 DEF HandleFrame
    <3>5. CASE pack.op \notin {"text", "ping", "binary", "close frame"}
      BY <1>4, <2>1, <2>4, <3>5 DEF HandleFrame
    <3> QED BY <3>1, <3>2, <3>3, <3>4, <3>5
  <2> HIDE DEF d, h
  <2>6. /\ read \in World /\ read.io = w.io /\ read.req = w.req /\ read.rcv = d
        /\ read.sent = w.sent /\ read.handled = h
    BY <2>2, <2>3 DEF World
  <2> HIDE DEF read
  <2>7. IoInv(read.io) /\ (Open(read) <=> Open(w)) /\ {"json", "pong", "1003"} \subseteq Answer
    BY <2>6 DEF Open, Answer
  <2>8. ASSUME NEW v \in World, Open(v) => Open(w), v.rcv = d, v.handled = h, v.req = w.req,
               \E what \in {"json", "pong", "1003"} : Sends(read, v, what)
        PROVE  FrameReads(w, v)
    <3>1. \E what \in {"json", "pong", "1003"} : Sends(w, v, what)
      BY <2>6, <2>7, <2>8 DEF Sends
    <3> QED BY <1>4, <2>8, <3>1 DEF FrameReads, d, h
  <2>9. ASSUME NEW what \in {"json", "pong", "1003"}
        PROVE  LET v == SendBuf(read, what, result) IN
               v \in World /\ IoInv(v.io) /\ v.req = w.req /\ FrameReads(w, v)
    <3> DEFINE v == SendBuf(read, what, result)
    <3>1. what \in Answer
      BY <2>7
    <3>2. /\ v \in World /\ IoInv(v.io) /\ (Open(v) <=> Open(read))
          /\ v.req = read.req /\ v.rcv = read.rcv /\ v.handled = read.handled
          /\ Sends(read, v, what)
      BY <2>6, <2>7, <3>1, SendBufKeeps
    <3> HIDE DEF v
    <3>3. FrameReads(w, v)
      BY <2>6, <2>7, <2>8, <3>2
    <3>4. v.req = w.req
      BY <2>6, <3>2
    <3> QED BY <3>2, <3>3, <3>4 DEF v
  <2>10. LET v == ShutDown(read) IN
         v \in World /\ IoInv(v.io) /\ v.req = w.req /\ FrameReads(w, v)
    <3> DEFINE v == ShutDown(read)
    <3>1. /\ v \in World /\ IoInv(v.io) /\ ~ Open(v)
          /\ v.req = read.req /\ v.rcv = read.rcv /\ v.handled = read.handled /\ v.sent = read.sent
      BY <2>6, <2>7, ShutDownKeeps
    <3> HIDE DEF v
    <3>2. Sends(read, v, "json")
      BY <3>1 DEF Sends
    <3>3. FrameReads(w, v)
      BY <2>6, <2>8, <3>1, <3>2
    <3>4. v.req = w.req
      BY <2>6, <3>1
    <3> QED BY <3>1, <3>3, <3>4 DEF v
  <2>11. FrameReads(w, read)
    <3>1. Sends(read, read, "json")
      BY DEF Sends
    <3> QED BY <2>6, <2>7, <2>8, <3>1
  <2> QED BY <2>5, <2>6, <2>7, <2>9, <2>10, <2>11
<1> QED BY <1>3, <1>4

-----------------------------------------------------------------------------
(* The inductive invariant, of a connection w that took k parts of stream s  *)
(* and has rest to receive; kd is its kind, bu its burst.                    *)

AnswersEnd(w) ==
    \A i \in 1 .. Len(w.sent) :
        /\ w.sent[i] \in {"400", "1002", "404"} => i = Len(w.sent) /\ ~ Open(w)
        /\ w.sent[i] = "200" =>
              \/ w.req = NoReq
              \/ w.req.state = "stComplete" /\ (w.req.keepAlive \/ (i = Len(w.sent) /\ ~ Open(w)))

NoBody(s, k) == \A j \in k + 1 .. 2 * Len(s) : Parts(s)[j].item # "body"

AnsweredAt(w, s, k) ==
    (\E i \in 1 .. Len(w.sent) : w.sent[i] \in {"200", "101"}) => NoBody(s, k)

FramesGoOn(w) ==
    \A i \in 1 .. Len(w.handled) - 1 :
        (\A j \in 1 .. i : w.handled[j].item # "long")
            => w.handled[i + 1].index = w.handled[i].index + 1

NoLong(w) == \A i \in 1 .. Len(w.handled) : w.handled[i].item # "long"

\* The last frame that was handled is the one before, if none was a long one.
FrameAt(w, k, kd) ==
    w.handled # <<>> =>
        /\ kd = "websocket" /\ (w.req = NoReq \/ w.req.handShake)
        /\ NoLong(w) => k = 2 * w.handled[Len(w.handled)].index

\* What is left in the buffer cannot go on, or two ends came at once.
WaitAt(w, k, kd, bu) ==
    /\ w.req.handShake =>
          kd = "websocket" /\ w.req.state = "stComplete" /\ w.req.webSocket /\ w.req.key
    /\ kd = "websocket" /\ w.req.state = "stComplete" /\ w.req.webSocket /\ w.req.key =>
          w.req.handShake
    /\ w.req.state = "stReqLine" => Len(w.rcv) < 2 \/ w.rcv[1].item # "GET"
    /\ w.req.state = "stHeader" => Len(w.rcv) < 2
    /\ ~ bu /\ w.req.state = "stBody" /\ w.req.webSocket /\ w.req.key => Len(w.rcv) < 2
    /\ w.req.handShake /\ NoLong(w) =>
          /\ \E m \in Nat : k = 2 * m
          /\ ~ bu => Len(w.rcv) < 2 \/ w.rcv[1].item = "unmasked"

TypeOK(w) ==
    w \in World /\ IoInv(w.io) /\ (w.req = NoReq => w.io.conn[1].state = "csDisConnected")

WorldAt(w, s, k, rest, kd, bu) ==
    /\ k \in Nat /\ rest \in Seq(Part) /\ TypeOK(w) /\ At(s, k, w.rcv, rest)
    /\ AnswersEnd(w) /\ AnsweredAt(w, s, k) /\ FramesGoOn(w) /\ FrameAt(w, k, kd)
    /\ w.req # NoReq => ReqAt(s, k, w.req) /\ WaitAt(w, k, kd, bu)

Twice(rest, n) ==
    \E j, l \in {i \in 1 .. n : rest[i].part = 2
        /\ rest[i].item \in Frames \cup {"blank", "body"}} :
       j # l

\* The request goes on being complete, and says the same of the connection.
Remembers(w, v) ==
    \/ v.req = NoReq
    \/ /\ w.req # NoReq
       /\ w.req.state = "stComplete" =>
             v.req.state = "stComplete" /\ v.req.keepAlive = w.req.keepAlive

LEMMA AnswersKept ==
    ASSUME NEW w \in World, NEW v \in World, NEW what \in Answer, AnswersEnd(w), Sends(w, v, what),
           Open(v) => Open(w), Remembers(w, v),
           what \in {"400", "1002", "404"} => ~ Open(v),
           what = "200" =>
              v.req = NoReq \/ (v.req.state = "stComplete" /\ (v.req.keepAlive \/ ~ Open(v)))
    PROVE  AnswersEnd(v)
<1>1. w.sent \in Seq(Answer) /\ v.sent \in Seq(Answer) /\ Len(w.sent) \in Nat
  BY DEF World
<1>2. CASE v.sent = w.sent
  BY <1>1, <1>2 DEF AnswersEnd, Remembers
<1>3. CASE Open(w) /\ v.sent = Append(w.sent, what)
  <2>1. SUFFICES ASSUME NEW i \in 1 .. Len(v.sent)
                 PROVE  /\ v.sent[i] \in {"400", "1002", "404"} => i = Len(v.sent) /\ ~ Open(v)
                        /\ v.sent[i] = "200" =>
                              \/ v.req = NoReq
                              \/ v.req.state = "stComplete"
                                    /\ (v.req.keepAlive \/ (i = Len(v.sent) /\ ~ Open(v)))
    BY DEF AnswersEnd
  <2>2. Len(v.sent) = Len(w.sent) + 1
    BY <1>1, <1>3
  <2>3. CASE i = Len(v.sent)
    <3>1. v.sent[i] = what
      BY <1>1, <1>3, <2>2, <2>3
    <3> QED BY <2>3, <3>1
  <2>4. CASE i # Len(v.sent)
    <3>1. i \in 1 .. Len(w.sent) /\ v.sent[i] = w.sent[i]
      BY <1>1, <1>3, <2>2, <2>4
    <3> QED BY <1>3, <3>1 DEF AnswersEnd, Remembers
  <2> QED BY <2>3, <2>4
<1> QED BY <1>2, <1>3 DEF Sends

LEMMA AnsweredKept ==
    ASSUME NEW w \in World, NEW v \in World, NEW what \in Answer,
           NEW s, NEW k \in Nat, NEW l \in Nat,
           AnsweredAt(w, s, k), l >= k, Sends(w, v, what), what \in {"200", "101"} => NoBody(s, l)
    PROVE  AnsweredAt(v, s, l)
<1>1. w.sent \in Seq(Answer) /\ v.sent \in Seq(Answer) /\ Len(w.sent) \in Nat
  BY DEF World
<1>2. NoBody(s, k) => NoBody(s, l)
  <2>1. \A j \in l + 1 .. 2 * Len(s) : j \in k + 1 .. 2 * Len(s)
    OBVIOUS
  <2> QED BY <2>1 DEF NoBody
<1>3. ASSUME NEW i \in 1 .. Len(v.sent), v.sent[i] \in {"200", "101"} PROVE NoBody(s, l)
  <2>1. CASE v.sent = w.sent
    BY <1>2, <1>3, <2>1 DEF AnsweredAt
  <2>2. CASE v.sent = Append(w.sent, what)
    <3>1. CASE i = Len(w.sent) + 1
      <4>1. v.sent[i] = what
        BY <1>1, <2>2, <3>1
      <4> QED BY <1>3, <4>1
    <3>2. CASE i # Len(w.sent) + 1
      <4>1. i \in 1 .. Len(w.sent) /\ v.sent[i] = w.sent[i]
        BY <1>1, <2>2, <3>2
      <4> QED BY <1>2, <1>3, <4>1 DEF AnsweredAt
    <3> QED BY <3>1, <3>2
  <2> QED BY <2>1, <2>2 DEF Sends
<1> QED BY <1>3 DEF AnsweredAt

LEMMA StreamIs ==
    ASSUME NEW s \in Streams
    PROVE  s \in Seq(STRING) /\ Len(s) \in Nat
OBVIOUS

\* Behind a complete request no body is left.
LEMMA NoBodyLeft ==
    ASSUME NEW s \in Streams, NEW k \in Nat, NEW r \in Req, ReqAt(s, k, r), r.state = "stComplete"
    PROVE  NoBody(s, k)
<1>1. PICK m \in 1 .. Len(s) : /\ s[1] = "GET" /\ Seen(s, m, r) /\ RequestEnds(s, m) /\ k >= 2 * m
                               /\ k >= 2 * m + 2 \/ r.bodyLength = 0
  BY DEF ReqAt
<1>2. s \in Seq(STRING) /\ Len(s) \in Nat
  BY StreamIs
<1>3. SUFFICES ASSUME NEW j \in k + 1 .. 2 * Len(s), Parts(s)[j].item = "body" PROVE FALSE
  BY DEF NoBody
<1>4. j \in 1 .. 2 * Len(s)
  BY <1>2
<1>5. PICK l \in 1 .. Len(s) : j \in {2 * l - 1, 2 * l} /\ Parts(s)[j].item = s[l]
  BY <1>2, <1>4, PartsAre
<1>6. l > 1 /\ RequestEnds(s, l - 1) /\ \E i \in 1 .. l - 2 : s[i] = "Length"
  BY <1>3, <1>5, StreamsAssumption
<1>7. m = l - 1
  <2>1. m \in Nat /\ l - 1 \in 1 .. Len(s) /\ l - 1 \in Nat /\ m >= 1
    BY <1>6
  <2>2. s[m] = "blank" /\ s[l - 1] = "blank"
    BY <1>1, <1>6 DEF RequestEnds
  <2>3. ~ (m < l - 1)
    <3>1. m < l - 1 => m \in 1 .. (l - 1) - 1
      BY <2>1
    <3> QED BY <1>6, <2>2, <3>1 DEF RequestEnds
  <2>4. ~ (l - 1 < m)
    <3>1. l - 1 < m => l - 1 \in 1 .. m - 1
      BY <2>1
    <3> QED BY <1>1, <2>2, <3>1 DEF RequestEnds
  <2> QED BY <2>1, <2>3, <2>4
<1>8. PICK i \in 1 .. l - 2 : s[i] = "Length"
  BY <1>6
<1>9. i # 1 /\ i \in 2 .. m
  <2>1. i # 1
    BY <1>1, <1>8
  <2> QED BY <1>7, <1>8, <2>1
<1>10. r.bodyLength # 0
  BY <1>1, <1>8, <1>9 DEF Seen
<1>11. k >= 2 * m + 2 /\ k >= 2 * l
  BY <1>1, <1>7, <1>10
<1> QED BY <1>5, <1>11

\* Behind a request for a web socket come frames.
LEMMA FramesBehind ==
    ASSUME NEW s \in Streams, NEW m \in 1 .. Len(s), NEW r \in Req,
           RequestEnds(s, m), Seen(s, m, r),
           r.webSocket, r.key, NEW j \in m + 1 .. Len(s)
    PROVE  s[j] \in Frames \cup {"body"}
<1>1. Len(s) \in Nat
  BY StreamIs
<1>2. j \in 1 .. Len(s) /\ m \in 1 .. j - 1
  BY <1>1
<1>3. \A h \in {"Upgrade", "Key"} : \E i \in 1 .. m : s[i] = h
  BY DEF Seen
<1> QED BY <1>2, <1>3, StreamsAssumption

\* Two lines, frames or bodies in a row that end in what was received are two ends.
LEMMA TwoEnds ==
    ASSUME NEW s \in Seq(STRING), NEW k \in Nat, NEW b \in Seq(Part), NEW rest \in Seq(Part),
           At(s, k, b, rest), NEW n \in 1 .. Len(rest), NEW m \in Nat,
           m + 1 \in 1 .. Len(s), m >= 1,
           k + Len(b) < 2 * m, 2 * m + 2 <= k + Len(b) + n,
           s[m] \in Frames \cup {"blank", "body"}, s[m + 1] \in Frames \cup {"blank", "body"}
    PROVE  Twice(rest, n)
<1> DEFINE E == {i \in 1 .. n : rest[i].part = 2 /\ rest[i].item \in Frames \cup {"blank", "body"}}
           o == k + Len(b)
<1>1. Len(b) \in Nat /\ Len(rest) \in Nat /\ n \in Nat /\ n <= Len(rest) /\ Len(s) \in Nat
  OBVIOUS
<1>2. o \in Nat
  BY <1>1
<1>3. ASSUME NEW l \in {m, m + 1} PROVE 2 * l - o \in E
  <2>1. l \in Nat /\ l \in 1 .. Len(s) /\ 2 * l - o \in 1 .. n /\ o + (2 * l - o) = 2 * l
    BY <1>1, <1>2
  <2>2. 2 * l - o \in 1 .. Len(rest)
    BY <1>1, <2>1
  <2>3. rest[2 * l - o] = Parts(s)[2 * l]
    BY <2>1, <2>2 DEF At
  <2>4. Parts(s)[2 * l] = [item |-> s[l], index |-> l, part |-> 2]
    BY <2>1, PartsAre
  <2> QED BY <1>3, <2>1, <2>3, <2>4
<1>4. 2 * m - o \in E /\ 2 * (m + 1) - o \in E
  BY <1>3
<1>5. 2 * m - o # 2 * (m + 1) - o
  BY <1>2
<1> HIDE DEF E, o
<1>6. \E j, l \in E : j # l
  BY <1>4, <1>5
<1> QED BY <1>6 DEF Twice, E

LEMMA ReqIsNot ==
    \A r \in Req : r # NoReq /\ r.state \in {"stReqLine", "stHeader", "stBody", "stComplete"}
<1>1. ASSUME NEW r \in Req PROVE r.state \in {"stReqLine", "stHeader", "stBody", "stComplete"}
  BY DEF Req
<1>2. NoReq.state = "deleted"
  BY DEF NoReq
<1> QED BY <1>1, <1>2

ParseStops(u, s, k, rest, n, kd, bu, p, l) ==
    /\ l >= k /\ At(s, l, p.buf, Drop(rest, n)) /\ ReqAt(s, l, p.req)
    /\ p.req.handShake = u.req.handShake
    /\ u.req.state = "stComplete" => p.req = u.req
    /\ p.ret = "psBadLine" <=> p.req.state \in {"stReqLine", "stHeader"}
    /\ p.ret = "psComplete" <=> p.req.state = "stComplete"
    /\ p.req.state = "stReqLine" => Len(p.buf) < 2 \/ p.buf[1].item # "GET"
    /\ p.req.state = "stHeader" => Len(p.buf) < 2
    /\ p.req.webSocket /\ p.req.key /\ kd = "websocket" /\ ~ u.req.handShake
          /\ p.req.state = "stComplete" => \E m \in Nat : l = 2 * m
    /\ ~ bu /\ ~ Twice(rest, n) /\ p.req.webSocket /\ p.req.key =>
          /\ p.req.state = "stBody" => Len(p.buf) < 2
          /\ kd = "websocket" /\ ~ u.req.handShake /\ p.req.state = "stComplete" =>
                Len(p.buf) < 2

\* What ParseReq makes of the request when n parts of rest have come.
LEMMA ParsedOn ==
    ASSUME NEW s \in Streams, NEW k \in Nat, NEW rest \in Seq(Part), NEW n \in 1 .. Len(rest),
           NEW u \in World, u.req \in Req, At(s, k, u.rcv, rest), ReqAt(s, k, u.req),
           NEW kd, NEW bu, WaitAt(u, k, kd, bu), NEW c, c = u.rcv \o SubSeq(rest, 1, n)
    PROVE  LET p == ParseReq(u.req, c) IN
           /\ p \in Parsing /\ p.ret # "none"
           /\ \E l \in Nat : ParseStops(u, s, k, rest, n, kd, bu, p, l)
<1> DEFINE b == u.rcv
           r == u.req
           d == Drop(rest, n)
           p == ParseReq(r, c)
<1>1. b \in Seq(Part) /\ s \in Seq(STRING) /\ Len(s) \in Nat /\ Len(b) \in Nat /\ n \in Nat
  BY StreamIs DEF World
<1>2. /\ c \in Seq(Part) /\ Len(c) = Len(b) + n /\ (\A i \in 1 .. Len(b) : c[i] = b[i])
      /\ d \in Seq(Part) /\ At(s, k, c, d)
  <2> HIDE DEF b
  <2>1. b \in Seq(Part) /\ At(s, k, b, rest) /\ c = b \o SubSeq(rest, 1, n)
    BY <1>1 DEF b
  <2>2. LET e == b \o SubSeq(rest, 1, n) IN
        /\ e \in Seq(Part) /\ Len(e) = Len(b) + n /\ (\A i \in 1 .. Len(b) : e[i] = b[i])
        /\ Drop(rest, n) \in Seq(Part) /\ At(s, k, e, Drop(rest, n))
    BY <1>1, <2>1, ReceivedAt
  <2> QED BY <2>1, <2>2
<1>3. p \in Parsing /\ p.ret # "none" /\ \E q \in 0 .. Len(c) : TurnAt(s, k, r, c, d, p, q)
  <2> HIDE DEF d
  <2> QED BY <1>1, <1>2, ParseAt
<1>4. PICK q \in 0 .. Len(c) : TurnAt(s, k, r, c, d, p, q)
  BY <1>3
<1>5. p.buf \in Seq(Part) /\ p.req \in Req /\ Len(p.buf) \in Nat
  BY <1>3 DEF Parsing
<1> HIDE DEF p, d
<1> DEFINE l == k + q
<1>6. /\ At(s, l, p.buf, d) /\ ReqAt(s, l, p.req) /\ p.req.handShake = r.handShake
      /\ q = 0 => p.req = r /\ p.buf = c
      /\ r.state = "stBody" =>
          /\ p.req.state \in {"stBody", "stComplete"}
          /\ p.req.webSocket = r.webSocket /\ p.req.key = r.key
      /\ q # 0 =>
          /\ q >= 2 /\ r.state # "stComplete" /\ p.req.state # "stReqLine"
          /\ r.state = "stReqLine" => c[1].item = "GET"
          /\ p.req.state \in {"stBody", "stComplete"} =>
                \E m \in 1 .. Len(s) :
                   RequestEnds(s, m) /\ Seen(s, m, p.req) /\ l \in {2 * m, 2 * m + 2}
      /\ p.req.state = "stReqLine" => Len(p.buf) < 2 \/ p.buf[1].item # "GET"
      /\ p.req.state = "stHeader" => Len(p.buf) < 2
      /\ p.req.state = "stBody" => q # 0 \/ Len(p.buf) < 2
      /\ p.ret = "psBadLine" <=> p.req.state \in {"stReqLine", "stHeader"}
      /\ p.ret = "psComplete" <=> p.req.state = "stComplete"
  BY <1>3, <1>4 DEF TurnAt
<1>7. l \in Nat /\ l >= k /\ q \in Nat
  BY <1>2
<1>8. l + Len(p.buf) = k + Len(b) + n
  <2> DEFINE x == Len(p.buf)
             y == Len(d)
             z == Len(b)
             N == 2 * Len(s)
             e == Len(c)
  <2>1. l + x + y = N /\ k + e + y = N
    BY <1>2, <1>6 DEF At
  <2>2. x \in Nat /\ y \in Nat /\ z \in Nat /\ N \in Nat /\ e \in Nat /\ e = z + n
    BY <1>1, <1>2, <1>5
  <2> HIDE DEF x, y, z, N, e, l
  <2>3. l + x = k + z + n
    BY <1>1, <1>7, <2>1, <2>2
  <2> QED BY <2>3 DEF x, z
<1> HIDE DEF l
<1>9. u.req.state = "stComplete" => p.req = u.req
  BY <1>6
<1>10. ASSUME q # 0, ~ bu, p.req.webSocket, p.req.key, p.req.state \in {"stBody", "stComplete"}
       PROVE  Len(b) < q
  <2>1. r.state \in {"stReqLine", "stHeader", "stBody"} /\ q >= 2
    BY <1>6, <1>10, ReqIsNot
  <2>2. CASE r.state = "stReqLine"
    <3>1. Len(b) < 2 \/ b[1].item # "GET"
      BY <2>2 DEF WaitAt
    <3>2. Len(b) >= 2 => c[1] = b[1]
      BY <1>1, <1>2
    <3>3. Len(b) < 2
      BY <1>1, <1>6, <1>10, <2>2, <3>1, <3>2
    <3> QED BY <1>1, <1>7, <2>1, <3>3
  <2>3. CASE r.state = "stHeader"
    <3>1. Len(b) < 2
      BY <2>3 DEF WaitAt
    <3> QED BY <1>1, <1>7, <2>1, <3>1
  <2>4. CASE r.state = "stBody"
    <3>1. r.webSocket /\ r.key
      BY <1>6, <1>10, <2>4
    <3>2. Len(b) < 2
      BY <1>10, <2>4, <3>1 DEF WaitAt
    <3> QED BY <1>1, <1>7, <2>1, <3>2
  <2> QED BY <2>1, <2>2, <2>3, <2>4
<1>11. ASSUME q # 0, ~ bu, ~ Twice(rest, n), p.req.webSocket, p.req.key,
              p.req.state \in {"stBody", "stComplete"}
       PROVE  (\E m \in Nat : l = 2 * m) /\ Len(p.buf) < 2
  <2>1. PICK m \in 1 .. Len(s) :
           RequestEnds(s, m) /\ Seen(s, m, p.req) /\ l \in {2 * m, 2 * m + 2}
    BY <1>6, <1>11
  <2>2. PICK e \in {m, m + 1} : l = 2 * e
    BY <1>1, <2>1
  <2>3. m \in Nat /\ e \in Nat /\ e >= 1 /\ e >= m
    BY <1>1, <2>1, <2>2
  <2>13. \E j \in Nat : l = 2 * j
    BY <2>2, <2>3
  <2>4. SUFFICES ASSUME ~ (Len(p.buf) < 2) PROVE FALSE
    BY <2>13
  <2> DEFINE x == Len(p.buf)
             y == Len(d)
             z == Len(s)
  <2>5. l + x + y = 2 * z
    BY <1>6 DEF At
  <2>12. x \in Nat /\ y \in Nat /\ z \in Nat /\ x >= 2 /\ l \in Nat /\ l = 2 * e
    BY <1>1, <1>2, <1>5, <1>7, <2>2, <2>4
  <2>6. e + 1 \in 1 .. Len(s)
    <3> HIDE DEF x, y, z
    <3>1. e + 1 \in 1 .. z
      BY <2>3, <2>5, <2>12
    <3> QED BY <3>1 DEF z
  <2>7. \A j \in m + 1 .. Len(s) : s[j] \in Frames \cup {"body"}
    BY <1>5, <1>11, <2>1, FramesBehind
  <2>8. s[e + 1] \in Frames \cup {"blank", "body"}
    BY <1>1, <2>3, <2>6, <2>7
  <2>9. s[e] \in Frames \cup {"blank", "body"}
    <3>1. CASE e = m
      BY <2>1, <3>1 DEF RequestEnds
    <3>2. CASE e = m + 1
      BY <1>1, <2>3, <2>6, <2>7, <3>2
    <3> QED BY <2>2, <3>1, <3>2
  <2>10. k + Len(b) < 2 * e /\ 2 * e + 2 <= k + Len(b) + n
    <3>1. Len(b) < q
      BY <1>10, <1>11
    <3> DEFINE w == Len(b)
    <3>2. w \in Nat /\ w < q /\ l = k + q /\ l + x = k + w + n
      BY <1>1, <1>8, <3>1 DEF l
    <3>3. k \in Nat /\ q \in Nat /\ n \in Nat
      BY <1>1, <1>7
    <3> HIDE DEF x, y, z, w
    <3>4. k + w < 2 * e /\ 2 * e + 2 <= k + w + n
      BY <2>3, <2>12, <3>2, <3>3
    <3> QED BY <3>4 DEF w
  <2> HIDE DEF b
  <2>11. At(s, k, b, rest) /\ b \in Seq(Part)
    BY <1>1 DEF b
  <2> QED BY <1>1, <1>11, <2>3, <2>6, <2>8, <2>9, <2>10, <2>11, TwoEnds
<1>12. ASSUME ~ bu, ~ Twice(rest, n), p.req.webSocket, p.req.key, p.req.state = "stBody"
       PROVE  Len(p.buf) < 2
  BY <1>6, <1>11, <1>12
<1>15. ASSUME p.req.webSocket, p.req.key, p.req.state = "stComplete", kd = "websocket",
              ~ u.req.handShake
       PROVE  \E m \in Nat : l = 2 * m
  <2>1. q # 0
    BY <1>6, <1>15 DEF WaitAt
  <2>2. PICK m \in 1 .. Len(s) : l \in {2 * m, 2 * m + 2}
    BY <1>6, <1>15, <2>1
  <2>3. m \in Nat /\ m + 1 \in Nat /\ (l = 2 * m \/ l = 2 * (m + 1))
    BY <1>1, <2>2
  <2> QED BY <2>3
<1>13. ASSUME ~ bu, ~ Twice(rest, n), p.req.webSocket, p.req.key, p.req.state = "stComplete",
              kd = "websocket", ~ u.req.handShake
       PROVE  Len(p.buf) < 2
  <2>1. q # 0
    BY <1>6, <1>13 DEF WaitAt
  <2> QED BY <1>11, <1>13, <2>1
<1>14. ParseStops(u, s, k, rest, n, kd, bu, p, l)
  BY <1>6, <1>7, <1>9, <1>12, <1>13, <1>15 DEF ParseStops, d
<1> QED BY <1>3, <1>7, <1>14 DEF p

-----------------------------------------------------------------------------
(* A read keeps the invariant. *)

\* w is u with n parts of rest in its buffer.
Got(u, w, rest, n) ==
    /\ w \in World /\ IoInv(w.io) /\ w.rcv = u.rcv \o SubSeq(rest, 1, n)
    /\ w.req = u.req /\ w.sent = u.sent /\ w.handled = u.handled /\ (Open(w) <=> Open(u))

LEMMA GotIs ==
    ASSUME NEW s \in Streams, NEW k \in Nat, NEW rest \in Seq(Part), NEW n \in 1 .. Len(rest),
           NEW kd, NEW bu, NEW u, WorldAt(u, s, k, rest, kd, bu), u.req # NoReq,
           NEW w, Got(u, w, rest, n)
    PROVE  /\ u \in World /\ w \in World /\ u.req \in Req /\ u.rcv \in Seq(Part)
           /\ w.req = u.req /\ w.handled = u.handled /\ u.handled \in Seq(Part)
           /\ AnswersEnd(w) /\ AnsweredAt(w, s, k) /\ FramesGoOn(w) /\ FrameAt(w, k, kd)
           /\ At(s, k, u.rcv, rest) /\ ReqAt(s, k, u.req) /\ WaitAt(u, k, kd, bu)
           /\ Drop(rest, n) \in Seq(Part) /\ w.rcv \in Seq(Part) /\ At(s, k, w.rcv, Drop(rest, n))
           /\ Len(w.rcv) = Len(u.rcv) + n /\ \A i \in 1 .. Len(u.rcv) : w.rcv[i] = u.rcv[i]
<1>1. u \in World /\ w \in World /\ At(s, k, u.rcv, rest)
          /\ ReqAt(s, k, u.req) /\ WaitAt(u, k, kd, bu)
  BY DEF WorldAt, TypeOK, Got
<1>2. u.req \in Req /\ u.rcv \in Seq(Part) /\ u.handled \in Seq(Part)
  BY <1>1 DEF World
<1>3. /\ w.rcv = u.rcv \o SubSeq(rest, 1, n) /\ w.req = u.req /\ w.sent = u.sent
      /\ w.handled = u.handled /\ (Open(w) <=> Open(u))
  BY DEF Got
<1>4. AnswersEnd(w) /\ AnsweredAt(w, s, k) /\ FramesGoOn(w) /\ FrameAt(w, k, kd)
  <2>1. AnswersEnd(u) /\ AnsweredAt(u, s, k) /\ FramesGoOn(u) /\ FrameAt(u, k, kd)
    BY DEF WorldAt
  <2>2. AnswersEnd(w)
    BY <1>3, <2>1 DEF AnswersEnd
  <2>3. AnsweredAt(w, s, k)
    BY <1>3, <2>1 DEF AnsweredAt
  <2>4. FramesGoOn(w)
    BY <1>3, <2>1 DEF FramesGoOn
  <2>5. FrameAt(w, k, kd)
    BY <1>3, <2>1 DEF FrameAt, NoLong
  <2> QED BY <2>2, <2>3, <2>4, <2>5
<1>5. /\ Drop(rest, n) \in Seq(Part) /\ w.rcv \in Seq(Part) /\ At(s, k, w.rcv, Drop(rest, n))
      /\ Len(w.rcv) = Len(u.rcv) + n /\ \A i \in 1 .. Len(u.rcv) : w.rcv[i] = u.rcv[i]
  <2> DEFINE b == u.rcv
  <2> HIDE DEF b
  <2>1. b \in Seq(Part) /\ At(s, k, b, rest) /\ w.rcv = b \o SubSeq(rest, 1, n)
    BY <1>1, <1>2, <1>3 DEF b
  <2>2. LET c == b \o SubSeq(rest, 1, n) IN
        /\ c \in Seq(Part) /\ Len(c) = Len(b) + n /\ (\A i \in 1 .. Len(b) : c[i] = b[i])
        /\ Drop(rest, n) \in Seq(Part) /\ At(s, k, c, Drop(rest, n))
    BY <2>1, ReceivedAt
  <2> QED BY <2>1, <2>2 DEF b
<1> QED BY <1>1, <1>2, <1>3, <1>4, <1>5

\* Another request that says no more, in the same state, is where this one is.
LEMMA SaysNoMore ==
    ASSUME NEW s \in Streams, NEW k \in Nat, NEW r \in Req, ReqAt(s, k, r), NEW h \in Req,
           h.state = r.state, h.bodyLength = r.bodyLength,
           h.webSocket => r.webSocket, h.key => r.key
    PROVE  ReqAt(s, k, h)
<1>1. CASE r.state = "stReqLine"
  BY <1>1 DEF ReqAt
<1>2. CASE r.state # "stReqLine"
  <2>1. PICK m \in 1 .. Len(s) :
          /\ s[1] = "GET" /\ Seen(s, m, r)
          /\ r.state = "stHeader" => k = 2 * m /\ \A i \in 1 .. m : s[i] # "blank"
          /\ r.state = "stBody" => k = 2 * m /\ RequestEnds(s, m) /\ r.bodyLength = BodySize
          /\ r.state = "stComplete" =>
                RequestEnds(s, m) /\ k >= 2 * m /\ (k >= 2 * m + 2 \/ r.bodyLength = 0)
    BY <1>2 DEF ReqAt
  <2>2. Seen(s, m, h)
    BY <2>1 DEF Seen
  <2> QED BY <1>2, <2>1, <2>2 DEF ReqAt
<1> QED BY <1>1, <1>2

LEMMA HttpKeeps ==
    ASSUME NEW s \in Streams, NEW k \in Nat, NEW rest \in Seq(Part), NEW n \in 1 .. Len(rest),
           NEW bu, NEW bv, bv <=> (bu \/ Twice(rest, n)),
           NEW u, WorldAt(u, s, k, rest, "http", bu), u.req # NoReq,
           NEW w, Got(u, w, rest, n),
           NEW v \in World, IoInv(v.io), v.req \in Req, HttpReads(w, v)
    PROVE  \E l \in Nat : WorldAt(v, s, l, Drop(rest, n), "http", bv)
<1> DEFINE p == ParseReq(u.req, w.rcv)
           d == Drop(rest, n)
<1>1. /\ u \in World /\ w \in World /\ u.req \in Req /\ u.rcv \in Seq(Part)
      /\ w.req = u.req /\ w.handled = u.handled /\ u.handled \in Seq(Part)
      /\ AnswersEnd(w) /\ AnsweredAt(w, s, k) /\ FrameAt(w, k, "http")
      /\ At(s, k, u.rcv, rest) /\ ReqAt(s, k, u.req) /\ WaitAt(u, k, "http", bu)
      /\ d \in Seq(Part)
  BY GotIs
<1>2. w.rcv = u.rcv \o SubSeq(rest, 1, n)
  BY DEF Got
<1>3. p \in Parsing /\ \E l \in Nat : ParseStops(u, s, k, rest, n, "http", bu, p, l)
  BY <1>1, <1>2, ParsedOn
<1> HIDE DEF d
<1>4. /\ v.rcv = p.buf /\ v.handled = w.handled
      /\ \/ p.ret # "psComplete" /\ v.req = p.req /\ v.sent = w.sent /\ (Open(v) <=> Open(w))
         \/ /\ p.ret = "psComplete" /\ v.req = Reset(p.req) /\ Sends(w, v, "200")
            /\ Open(v) => Open(w) /\ p.req.keepAlive
  BY <1>1 DEF HttpReads
<1> HIDE DEF p
<1>16. PICK l \in Nat : ParseStops(u, s, k, rest, n, "http", bu, p, l)
  BY <1>3
<1>5. /\ l >= k /\ At(s, l, p.buf, d) /\ ReqAt(s, l, p.req)
      /\ p.req.handShake = u.req.handShake
      /\ u.req.state = "stComplete" => p.req = u.req
      /\ p.ret = "psComplete" <=> p.req.state = "stComplete"
      /\ p.req.state = "stReqLine" => Len(p.buf) < 2 \/ p.buf[1].item # "GET"
      /\ p.req.state = "stHeader" => Len(p.buf) < 2
      /\ ~ bu /\ ~ Twice(rest, n) /\ p.req.webSocket /\ p.req.key =>
            (p.req.state = "stBody" => Len(p.buf) < 2)
  BY <1>16 DEF ParseStops, d
<1>6. p.req \in Req /\ v.req # NoReq
  BY <1>3, ReqIsNot DEF Parsing
<1>7. /\ v.req.state = p.req.state /\ v.req.keepAlive = p.req.keepAlive
      /\ v.req.handShake = p.req.handShake /\ v.req.bodyLength = p.req.bodyLength
      /\ v.req.key = p.req.key /\ (v.req.webSocket => p.req.webSocket)
  BY <1>4, <1>6 DEF Reset, Req
<1>8. ~ u.req.handShake /\ ~ v.req.handShake /\ v.handled = <<>>
  <2>1. ~ u.req.handShake
    BY <1>1 DEF WaitAt
  <2>2. w.handled = <<>>
    BY <1>1 DEF FrameAt
  <2> QED BY <1>4, <1>5, <1>7, <2>1, <2>2
<1>9. Remembers(w, v)
  <2>1. u.req.state = "stComplete" => v.req.state = "stComplete"
            /\ v.req.keepAlive = u.req.keepAlive
    BY <1>5, <1>7
  <2> QED BY <1>1, <2>1 DEF Remembers
<1>10. AnswersEnd(v) /\ AnsweredAt(v, s, l)
  <2>1. CASE p.ret # "psComplete"
    <3>1. Sends(w, v, "json") /\ "json" \in Answer /\ (Open(v) => Open(w))
      BY <1>4, <2>1 DEF Sends, Answer
    <3> QED BY <1>1, <1>5, <1>9, <3>1, AnswersKept, AnsweredKept
  <2>2. CASE p.ret = "psComplete"
    <3>1. Sends(w, v, "200") /\ "200" \in Answer /\ (Open(v) => Open(w))
      BY <1>4, <2>2 DEF Answer
    <3>2. v.req.state = "stComplete" /\ (v.req.keepAlive \/ ~ Open(v))
      BY <1>4, <1>5, <1>7, <2>2
    <3>3. NoBody(s, l)
      BY <1>5, <1>6, <2>2, NoBodyLeft
    <3>4. AnswersEnd(v)
      BY <1>1, <1>9, <3>1, <3>2, AnswersKept
    <3>5. AnsweredAt(v, s, l)
      BY <1>1, <1>5, <3>1, <3>3, AnsweredKept
    <3> QED BY <3>4, <3>5
  <2> QED BY <2>1, <2>2
<1>11. ReqAt(s, l, v.req)
  BY <1>5, <1>6, <1>7, SaysNoMore
<1>12. WaitAt(v, l, "http", bv)
  BY <1>4, <1>5, <1>7, <1>8 DEF WaitAt
<1>13. FramesGoOn(v) /\ FrameAt(v, l, "http")
  BY <1>8 DEF FramesGoOn, FrameAt
<1>14. TypeOK(v)
  BY <1>6 DEF TypeOK
<1>15. At(s, l, v.rcv, d)
  BY <1>4, <1>5
<1>17. WorldAt(v, s, l, d, "http", bv)
  BY <1>1, <1>10, <1>11, <1>12, <1>13, <1>14, <1>15 DEF WorldAt
<1> QED BY <1>17 DEF d

LEMMA HandshakeKeeps ==
    ASSUME NEW s \in Streams, NEW k \in Nat, NEW rest \in Seq(Part), NEW n \in 1 .. Len(rest),
           NEW bu, NEW bv, bv <=> (bu \/ Twice(rest, n)),
           NEW u, WorldAt(u, s, k, rest, "websocket", bu), u.req # NoReq, ~ u.req.handShake,
           NEW w, Got(u, w, rest, n),
           NEW v \in World, IoInv(v.io), v.req \in Req, ShakingHands(w, v)
    PROVE  \E l \in Nat : WorldAt(v, s, l, Drop(rest, n), "websocket", bv)
<1> DEFINE p == ParseReq(u.req, w.rcv)
           d == Drop(rest, n)
<1>1. /\ u \in World /\ w \in World /\ u.req \in Req /\ u.rcv \in Seq(Part)
      /\ w.req = u.req /\ w.handled = u.handled /\ u.handled \in Seq(Part)
      /\ AnswersEnd(w) /\ AnsweredAt(w, s, k) /\ FrameAt(w, k, "websocket")
      /\ At(s, k, u.rcv, rest) /\ ReqAt(s, k, u.req) /\ WaitAt(u, k, "websocket", bu)
      /\ d \in Seq(Part)
  BY GotIs
<1>2. w.rcv = u.rcv \o SubSeq(rest, 1, n)
  BY DEF Got
<1>3. p \in Parsing /\ \E l \in Nat : ParseStops(u, s, k, rest, n, "websocket", bu, p, l)
  BY <1>1, <1>2, ParsedOn
<1> HIDE DEF d
<1>4. /\ v.rcv = p.buf /\ v.handled = w.handled
      /\ \/ /\ p.ret \in {"psNotFullBody", "psNextLine"} /\ v.req = p.req
            /\ v.sent = w.sent /\ (Open(v) <=> Open(w))
         \/ /\ v.req = p.req /\ ~ Open(v)
            /\ \/ p.ret = "psBadLine" /\ Sends(w, v, "400")
               \/ p.ret = "psComplete" /\ ~ (p.req.webSocket /\ p.req.key) /\ Sends(w, v, "1002")
         \/ /\ p.ret = "psComplete" /\ p.req.webSocket /\ p.req.key
            /\ v.req = [p.req EXCEPT !.handShake = TRUE]
            /\ Sends(w, v, "101") /\ (Open(v) <=> Open(w))
  BY <1>1 DEF ShakingHands
<1> HIDE DEF p
<1>5. PICK l \in Nat : ParseStops(u, s, k, rest, n, "websocket", bu, p, l)
  BY <1>3
<1>6. /\ l >= k /\ At(s, l, p.buf, d) /\ ReqAt(s, l, p.req)
      /\ ~ p.req.handShake
      /\ u.req.state = "stComplete" => p.req = u.req
      /\ p.ret = "psComplete" <=> p.req.state = "stComplete"
      /\ p.req.state = "stReqLine" => Len(p.buf) < 2 \/ p.buf[1].item # "GET"
      /\ p.req.state = "stHeader" => Len(p.buf) < 2
      /\ p.req.webSocket /\ p.req.key /\ p.req.state = "stComplete" => \E m \in Nat : l = 2 * m
      /\ ~ bu /\ ~ Twice(rest, n) /\ p.req.webSocket /\ p.req.key =>
            /\ p.req.state = "stBody" => Len(p.buf) < 2
            /\ p.req.state = "stComplete" => Len(p.buf) < 2
  BY <1>5 DEF ParseStops, d
<1>7. p.req \in Req /\ v.req # NoReq
  BY <1>3, ReqIsNot DEF Parsing
<1>8. /\ v.req.state = p.req.state /\ v.req.keepAlive = p.req.keepAlive
      /\ v.req.bodyLength = p.req.bodyLength
      /\ v.req.key = p.req.key /\ v.req.webSocket = p.req.webSocket
      /\ v.req.handShake <=> p.ret = "psComplete" /\ p.req.webSocket /\ p.req.key
  BY <1>4, <1>6, <1>7 DEF Req
<1>9. v.handled = <<>>
  BY <1>1, <1>4, ReqIsNot DEF FrameAt
<1>10. Remembers(w, v)
  <2>1. u.req.state = "stComplete" => v.req.state = "stComplete"
            /\ v.req.keepAlive = u.req.keepAlive
    BY <1>6, <1>8
  <2> QED BY <1>1, <2>1 DEF Remembers
<1>11. PICK what \in {"json", "400", "1002", "101"} :
          /\ Sends(w, v, what) /\ (Open(v) => Open(w))
          /\ what \in {"400", "1002"} => ~ Open(v)
          /\ what = "101" => p.ret = "psComplete"
  <2>1. v.sent = w.sent => Sends(w, v, "json")
    BY DEF Sends
  <2> QED BY <1>4, <2>1
<1>12. what \in Answer /\ what # "200" /\ (what \in {"400", "1002", "404"} => ~ Open(v))
  BY <1>11 DEF Answer
<1>13. AnswersEnd(v)
  BY <1>1, <1>10, <1>11, <1>12, AnswersKept
<1>14. AnsweredAt(v, s, l)
  <2>1. what \in {"200", "101"} => NoBody(s, l)
    BY <1>6, <1>7, <1>11, <1>12, NoBodyLeft
  <2> QED BY <1>1, <1>6, <1>11, <1>12, <2>1, AnsweredKept
<1>15. ReqAt(s, l, v.req)
  BY <1>6, <1>7, <1>8, SaysNoMore
<1>16. WaitAt(v, l, "websocket", bv)
  BY <1>4, <1>6, <1>8 DEF WaitAt
<1>17. FramesGoOn(v) /\ FrameAt(v, l, "websocket")
  BY <1>9 DEF FramesGoOn, FrameAt
<1>18. TypeOK(v)
  BY <1>7 DEF TypeOK
<1>19. At(s, l, v.rcv, d)
  BY <1>4, <1>6
<1>20. WorldAt(v, s, l, d, "websocket", bv)
  BY <1>1, <1>13, <1>14, <1>15, <1>16, <1>17, <1>18, <1>19 DEF WorldAt
<1> QED BY <1>20 DEF d

\* Which item of the stream the first part of the buffer is of.
LEMMA PartOf ==
    ASSUME NEW s \in Seq(STRING), NEW k \in Nat, NEW b \in Seq(Part), NEW rest \in Seq(Part),
           At(s, k, b, rest), b # <<>>
    PROVE  \E m \in 1 .. Len(s) :
              /\ b[1].item = s[m] /\ b[1].index = m
              /\ b[1].part = 1 => k + 1 = 2 * m - 1
              /\ b[1].part = 2 => k = 2 * m - 1
<1>1. Len(b) \in Nat /\ Len(b) # 0 /\ Len(rest) \in Nat /\ Len(s) \in Nat
  OBVIOUS
<1>2. k + 1 \in 1 .. 2 * Len(s) /\ b[1] = Parts(s)[k + 1]
  BY <1>1 DEF At
<1>3. PICK m \in 1 .. Len(s) :
         /\ k + 1 \in {2 * m - 1, 2 * m} /\ Parts(s)[k + 1].item = s[m] /\ Parts(s)[k + 1].index = m
         /\ Parts(s)[k + 1].part = 1 <=> k + 1 = 2 * m - 1
  BY <1>2, PartsAre
<1>4. b[1].item = s[m] /\ b[1].index = m /\ (b[1].part = 1 => k + 1 = 2 * m - 1)
  BY <1>2, <1>3
<1>5. b[1].part = 2 => k + 1 = 2 * m
  BY <1>2, <1>3
<1>6. b[1].part = 2 => k = 2 * m - 1
  BY <1>5
<1> QED BY <1>4, <1>6

LEMMA FramesGone ==
    ASSUME NEW w \in World, NEW v \in World, NEW k \in Nat, FramesGoOn(w),
           FrameAt(w, k, "websocket"), NEW h \in Part, v.handled = Append(w.handled, h),
           NoLong(w) => k + 2 = 2 * h.index
    PROVE  FramesGoOn(v)
<1>1. w.handled \in Seq(Part) /\ Len(w.handled) \in Nat
  BY DEF World
<1> DEFINE N == Len(w.handled)
<1>2. /\ Len(v.handled) = N + 1 /\ v.handled[N + 1] = h
      /\ \A i \in 1 .. N : v.handled[i] = w.handled[i] /\ w.handled[i] \in Part
  BY <1>1
<1>3. SUFFICES ASSUME NEW i \in 1 .. Len(v.handled) - 1,
                      \A j \in 1 .. i : v.handled[j].item # "long"
               PROVE  v.handled[i + 1].index = v.handled[i].index + 1
  BY DEF FramesGoOn
<1>4. i \in Nat /\ i >= 1 /\ i <= N /\ v.handled[i] = w.handled[i]
  BY <1>1, <1>2
<1>7. \A j \in 1 .. i : w.handled[j].item # "long"
  BY <1>1, <1>2, <1>3, <1>4
<1>5. CASE i # N
  <2>1. i \in 1 .. N - 1 /\ i + 1 \in 1 .. N
    BY <1>1, <1>4, <1>5
  <2>2. v.handled[i + 1] = w.handled[i + 1]
    BY <1>2, <2>1
  <2> QED BY <1>4, <1>7, <2>1, <2>2 DEF FramesGoOn
<1>6. CASE i = N
  <2>1. w.handled # <<>> /\ NoLong(w)
    BY <1>1, <1>4, <1>6, <1>7 DEF NoLong
  <2>2. k = 2 * w.handled[N].index /\ k + 2 = 2 * h.index
    BY <2>1 DEF FrameAt
  <2>3. w.handled[N].index \in Nat /\ h.index \in Nat
    <3>1. w.handled[N] \in Part
      BY <1>2, <1>4, <1>6
    <3> QED BY <3>1 DEF Part
  <2> DEFINE x == w.handled[N].index
             y == h.index
  <2>5. x \in Nat /\ y \in Nat /\ k = 2 * x /\ k + 2 = 2 * y
    BY <2>2, <2>3
  <2> HIDE DEF x, y
  <2>6. y = x + 1
    BY <2>5
  <2>4. h.index = w.handled[N].index + 1
    BY <2>6 DEF x, y
  <2> QED BY <1>2, <1>4, <1>6, <2>4
<1> QED BY <1>5, <1>6

LEMMA FrameKeeps ==
    ASSUME NEW s \in Streams, NEW k \in Nat, NEW rest \in Seq(Part), NEW n \in 1 .. Len(rest),
           NEW bu, NEW bv, bv <=> (bu \/ Twice(rest, n)),
           NEW u, WorldAt(u, s, k, rest, "websocket", bu), u.req # NoReq, u.req.handShake,
           NEW w, Got(u, w, rest, n),
           NEW v \in World, IoInv(v.io), v.req = w.req, FrameReads(w, v)
    PROVE  \E l \in Nat : WorldAt(v, s, l, Drop(rest, n), "websocket", bv)
<1> DEFINE d == Drop(rest, n)
<1>1. /\ u \in World /\ w \in World /\ u.req \in Req /\ u.rcv \in Seq(Part)
      /\ w.req = u.req /\ w.handled = u.handled /\ u.handled \in Seq(Part)
      /\ AnswersEnd(w) /\ AnsweredAt(w, s, k) /\ FramesGoOn(w) /\ FrameAt(w, k, "websocket")
      /\ At(s, k, u.rcv, rest) /\ ReqAt(s, k, u.req) /\ WaitAt(u, k, "websocket", bu)
      /\ d \in Seq(Part) /\ w.rcv \in Seq(Part) /\ At(s, k, w.rcv, d)
      /\ Len(w.rcv) = Len(u.rcv) + n /\ \A i \in 1 .. Len(u.rcv) : w.rcv[i] = u.rcv[i]
  BY GotIs
<1>2. s \in Seq(STRING) /\ Len(s) \in Nat /\ Len(w.rcv) \in Nat /\ Len(u.rcv) \in Nat /\ n \in Nat
  BY <1>1, StreamIs
<1> HIDE DEF d
<1>3. v.req = u.req /\ v.req # NoReq /\ v.req.handShake /\ v.req.state = "stComplete"
      /\ v.req.webSocket /\ v.req.key
  BY <1>1 DEF WaitAt
<1>4. TypeOK(v)
  BY <1>3 DEF TypeOK
<1>5. NoLong(u) =>
          /\ \E m \in Nat : k = 2 * m
          /\ ~ bu => Len(u.rcv) < 2 \/ u.rcv[1].item = "unmasked"
  BY <1>1, <1>3 DEF WaitAt
<1>6. Remembers(w, v)
  BY <1>1, <1>3 DEF Remembers
<1>7. PICK pack \in DecodePack(w.rcv, InStep(w)) :
       \/ ~ pack.frame /\ v = w
       \/ /\ pack.frame /\ v.rcv = Drop(w.rcv, pack.size)
          /\ v.handled = Append(w.handled, w.rcv[1]) /\ v.req = w.req
          /\ Open(v) => Open(w)
          /\ \E what \in {"json", "pong", "1003"} : Sends(w, v, what)
  BY DEF FrameReads
<1>8. /\ pack.size \in 0 .. Len(w.rcv) /\ (pack.frame => w.rcv # <<>>)
      /\ NoLong(u) /\ w.rcv # <<>> /\ ~ pack.frame =>
            w.rcv[1].item # "long" /\ (Len(w.rcv) < 2 \/ w.rcv[1].item = "unmasked")
      /\ NoLong(u) /\ pack.frame =>
            \/ w.rcv[1].item = "long" /\ pack.size = 1
            \/ w.rcv[1].item \notin {"long", "unmasked"} /\ pack.size = 2 /\ Len(w.rcv) >= 2
  <2>1. InStep(w) = NoLong(u)
    BY <1>1 DEF InStep, NoLong
  <2>2. InStep(w) \in BOOLEAN
    BY DEF InStep
  <2> QED BY <1>1, <2>1, <2>2, PackIs
<1>9. CASE ~ pack.frame
  <2>1. v = w
    BY <1>7, <1>9
  <2>2. ASSUME NoLong(v)
        PROVE  /\ \E m \in Nat : k = 2 * m
               /\ ~ bv => Len(v.rcv) < 2 \/ v.rcv[1].item = "unmasked"
    <3>1. NoLong(u)
      BY <1>1, <2>1, <2>2 DEF NoLong
    <3>2. PICK m \in Nat : k = 2 * m
      BY <1>5, <3>1
    <3>3. Len(v.rcv) < 2 \/ v.rcv[1].item = "unmasked"
      BY <1>1, <1>8, <1>9, <2>1, <3>1
    <3> QED BY <3>2, <3>3
  <2>3. WaitAt(v, k, "websocket", bv)
    BY <1>3, <2>2 DEF WaitAt
  <2>4. WorldAt(v, s, k, d, "websocket", bv)
    BY <1>1, <1>3, <1>4, <2>1, <2>3 DEF WorldAt
  <2> QED BY <2>4 DEF d
<1>10. CASE pack.frame
  <2> DEFINE l == k + pack.size
             h == w.rcv[1]
  <2>1. /\ v.rcv = Drop(w.rcv, pack.size) /\ v.handled = Append(u.handled, h)
        /\ Open(v) => Open(w)
        /\ \E what \in {"json", "pong", "1003"} : Sends(w, v, what)
    BY <1>1, <1>7, <1>10
  <2>2. w.rcv # <<>> /\ pack.size \in Nat /\ l \in Nat /\ l >= k /\ h \in Part
    BY <1>1, <1>8, <1>10
  <2>3. At(s, l, v.rcv, d)
    BY <1>1, <1>8, <2>1, DropAt
  <2>4. NoLong(u) => k + 2 = 2 * h.index
    <3>1. PICK m \in 1 .. Len(s) :
              /\ h.item = s[m] /\ h.index = m
              /\ h.part = 1 => k + 1 = 2 * m - 1
              /\ h.part = 2 => k = 2 * m - 1
      <4> HIDE DEF l
      <4>1. w.rcv # <<>> /\ w.rcv \in Seq(Part) /\ At(s, k, w.rcv, d)
        BY <1>1, <2>2
      <4> QED BY <1>1, <1>2, <4>1, PartOf
    <3>2. h.part \in {1, 2} /\ m \in Nat
      BY <1>2, <2>2 DEF Part
    <3>3. k + 2 = 2 * m \/ k + 1 = 2 * m
      BY <3>1, <3>2
    <3> HIDE DEF h
    <3>4. ASSUME NoLong(u) PROVE k + 2 = 2 * m
      <4>1. PICK e \in Nat : k = 2 * e
        BY <1>5, <3>4
      <4> QED BY <3>2, <3>3, <4>1
    <3> QED BY <3>1, <3>4
  <2> HIDE DEF l, h
  <2>6. /\ Len(v.handled) = Len(u.handled) + 1 /\ v.handled[Len(v.handled)] = h
        /\ v.handled # <<>> /\ \A i \in 1 .. Len(u.handled) : v.handled[i] = u.handled[i]
    <3> DEFINE e == u.handled
               N == Len(e)
    <3>1. e \in Seq(Part) /\ v.handled = Append(e, h)
      BY <1>1, <2>1
    <3> HIDE DEF e
    <3>2. Len(v.handled) = N + 1 /\ v.handled[N + 1] = h /\ N \in Nat
      BY <2>2, <3>1
    <3>3. \A i \in 1 .. N : v.handled[i] = e[i]
      BY <2>2, <3>1
    <3>4. v.handled # <<>>
      BY <3>2
    <3> QED BY <3>2, <3>3, <3>4 DEF e
  <2>5. NoLong(v) => NoLong(u) /\ h.item \notin {"long", "unmasked"} /\ l = k + 2
                     /\ Len(w.rcv) >= 2
    <3>1. Len(u.handled) \in Nat /\ (\A i \in 1 .. Len(u.handled) : i \in 1 .. Len(v.handled))
          /\ Len(v.handled) \in 1 .. Len(v.handled)
      BY <1>1, <2>6
    <3>2. NoLong(v) => NoLong(u) /\ h.item # "long"
      BY <2>6, <3>1 DEF NoLong
    <3>3. NoLong(u) /\ h.item # "long" =>
             h.item # "unmasked" /\ l = k + 2 /\ Len(w.rcv) >= 2
      BY <1>8, <1>10 DEF h, l
    <3> QED BY <3>2, <3>3
  <2>7. FrameAt(v, l, "websocket")
    BY <1>3, <2>4, <2>5, <2>6 DEF FrameAt
  <2>8. FramesGoOn(v)
    <3>1. v.handled = Append(w.handled, h)
      BY <1>1, <2>1
    <3> QED BY <1>1, <2>2, <2>4, <3>1, FramesGone DEF NoLong
  <2>9. AnswersEnd(v) /\ AnsweredAt(v, s, l)
    <3>1. PICK what \in {"json", "pong", "1003"} : Sends(w, v, what)
      BY <2>1
    <3>2. what \in Answer /\ what \notin {"400", "1002", "404", "200", "101"}
      BY DEF Answer
    <3>3. AnswersEnd(v)
      BY <1>1, <1>6, <2>1, <3>1, <3>2, AnswersKept
    <3>4. AnsweredAt(v, s, l)
      BY <1>1, <2>2, <3>1, <3>2, AnsweredKept
    <3> QED BY <3>3, <3>4
  <2>10. PICK q \in 1 .. Len(s) :
            /\ s[1] = "GET" /\ Seen(s, q, u.req) /\ RequestEnds(s, q) /\ k >= 2 * q
            /\ k >= 2 * q + 2 \/ u.req.bodyLength = 0
    BY <1>1, <1>3 DEF ReqAt
  <2>11. ReqAt(s, l, v.req)
    <3>1. l >= 2 * q /\ (l >= 2 * q + 2 \/ u.req.bodyLength = 0)
      BY <2>2, <2>10
    <3> QED BY <1>3, <2>10, <3>1 DEF ReqAt
  <2>15. NoLong(v) => \E j \in Nat : l = 2 * j
    <3>1. h.index \in Nat
      BY <2>2 DEF Part
    <3> QED BY <2>4, <2>5, <3>1
  <2>12. ASSUME ~ bv, NoLong(v)
         PROVE  Len(v.rcv) < 2
    <3>1. NoLong(u) /\ ~ bu /\ ~ Twice(rest, n)
      BY <2>5, <2>12
    <3>3. PICK j \in Nat : k = 2 * j
      BY <1>5, <3>1
    <3>4. h.part = 1 /\ h.item = s[j + 1] /\ j + 1 \in 1 .. Len(s)
      BY <1>1, <1>2, <2>2, <3>3, FirstOf DEF h
    <3>5. pack.size = 2 /\ h.item # "unmasked" /\ l = 2 * (j + 1)
      <4>1. pack.size = 2
        BY <1>8, <1>10, <2>5, <2>12 DEF h
      <4> QED BY <2>5, <2>12, <3>3, <4>1
    <3>6. Len(u.rcv) < 2
      <4>1. Len(u.rcv) >= 2 => h = u.rcv[1]
        BY <1>1, <1>2 DEF h
      <4> QED BY <1>2, <1>5, <3>1, <3>5, <4>1
    <3>7. SUFFICES ASSUME ~ (Len(v.rcv) < 2) PROVE FALSE
      OBVIOUS
    <3> DEFINE x == Len(w.rcv)
               y == Len(d)
               z == Len(s)
    <3>8. k + x + y = 2 * z
      BY <1>1 DEF At
    <3>9. x >= 4
      <4>2. v.rcv = Drop(w.rcv, 2) /\ 2 \in 0 .. Len(w.rcv)
        BY <1>8, <2>1, <3>5
      <4>3. w.rcv \in Seq(Part)
        BY <1>1
      <4>4. Len(Drop(w.rcv, 2)) = Len(w.rcv) - 2
        BY <4>2, <4>3, DropIs
      <4>1. Len(v.rcv) = x - 2
        BY <4>2, <4>4
      <4> QED BY <1>2, <3>7, <4>1
    <3>10. x \in Nat /\ y \in Nat /\ z \in Nat /\ x = Len(u.rcv) + n
      BY <1>1, <1>2
    <3>11. j + 2 \in 1 .. Len(s)
      <4> HIDE DEF x, y, z
      <4>3. \A a, e, g \in Nat : 2 * j + a + e = 2 * g /\ a >= 4 => j + 2 <= g
        OBVIOUS
      <4>4. 2 * j + x + y = 2 * z /\ x \in Nat /\ y \in Nat /\ z \in Nat
        BY <3>3, <3>8, <3>10
      <4>2. j + 2 <= z
        BY <3>9, <4>3, <4>4
      <4>1. j + 2 \in 1 .. z
        BY <3>3, <3>10, <4>2
      <4> QED BY <4>1 DEF z
    <3>12. j >= q
      BY <2>10, <3>3
    <3>13. s[j + 1] \in Frames \cup {"body"} /\ s[(j + 1) + 1] \in Frames \cup {"body"}
      <4>1. j + 1 \in q + 1 .. Len(s) /\ (j + 1) + 1 \in q + 1 .. Len(s)
        BY <1>2, <3>4, <3>11, <3>12
      <4> QED BY <1>1, <1>3, <2>10, <4>1, FramesBehind
    <3>14. k + Len(u.rcv) < 2 * (j + 1) /\ 2 * (j + 1) + 2 <= k + Len(u.rcv) + n
      <4> DEFINE e == Len(u.rcv)
      <4>1. e \in Nat /\ e < 2 /\ x = e + n
        BY <1>2, <3>6, <3>10
      <4> HIDE DEF x, y, z, e
      <4>2. k + e < 2 * (j + 1) /\ 2 * (j + 1) + 2 <= k + e + n
        BY <1>2, <3>3, <3>9, <4>1
      <4> QED BY <4>2 DEF e
    <3>15. j + 1 \in Nat /\ (j + 1) + 1 \in 1 .. Len(s) /\ j + 1 >= 1
      BY <3>11
    <3>16. Twice(rest, n)
      <4> DEFINE b == u.rcv
      <4> HIDE DEF b
      <4>1. b \in Seq(Part) /\ At(s, k, b, rest)
            /\ k + Len(b) < 2 * (j + 1) /\ 2 * (j + 1) + 2 <= k + Len(b) + n
        BY <1>1, <3>14 DEF b
      <4> QED BY <1>2, <3>13, <3>15, <4>1, TwoEnds
    <3> QED BY <3>1, <3>16
  <2>13. WaitAt(v, l, "websocket", bv)
    BY <1>3, <2>12, <2>15 DEF WaitAt
  <2>14. WorldAt(v, s, l, d, "websocket", bv)
    BY <1>1, <1>4, <2>2, <2>3, <2>7, <2>8, <2>9, <2>11, <2>13 DEF WorldAt
  <2> QED BY <2>2, <2>14 DEF d
<1> QED BY <1>9, <1>10

-----------------------------------------------------------------------------
(* The events of the connection. *)

Inv ==
    /\ kind \in {"http", "websocket"}
    /\ \E s \in Streams, k \in Nat : WorldAt(State, s, k, coming, kind, burst)

LEMMA OpensInLoop ==
    LET t == Enabled(OnEnableConnect(Closed, 1), 1) IN
    IoInv(t) /\ t.conn[1].state = "csConnected"
<1> DEFINE d == EnableRead(Closed, 1)
           e == [d EXCEPT !.conn[1].state = "csConnected"]
<1>1. Closed \in Loop /\ Closed.idle = <<>>
  <2>1. NewConn \in ConnRec
    BY DEF NewConn, ConnRec, ConnState
  <2> HIDE DEF NewConn
  <2> QED BY <2>1 DEF Closed, Loop
<1>2. d \in Loop /\ d.idle = <<>>
  <2>1. d \in Loop
    BY <1>1, InterestSet DEF EnableRead
  <2> QED BY <1>1, <2>1 DEF EnableRead, Loop
<1> HIDE DEF d
<1>3. e \in Loop /\ e.idle = <<>> /\ e.conn[1].state = "csConnected"
  <2>1. e \in Loop /\ e.conn[1].state = "csConnected"
    BY <1>2, StateSet DEF ConnState
  <2> QED BY <1>2, <2>1 DEF Loop
<1> HIDE DEF e
<1> DEFINE l == e.conn[1].late \/ e.conn[1].closes > 0
           q == [e.conn[1] EXCEPT !.late = l]
           f == [e EXCEPT !.conn = [@ EXCEPT ![1] = q]]
           r == [q EXCEPT !.age = 0]
           g == [f EXCEPT !.conn = [@ EXCEPT ![1] = r], !.idle = <<1>>]
<1>4. e.conn[1] \in ConnRec /\ 1 \in Conn
  BY <1>3 DEF Loop
<1>5. l \in BOOLEAN
  OBVIOUS
<1>6. Called(e, 1) = f
  BY <1>3, <1>4 DEF Called, Loop, ConnRec
<1> HIDE DEF l
<1>7. q \in ConnRec /\ q.state = "csConnected"
  BY <1>3, <1>4, <1>5 DEF ConnRec
<1> HIDE DEF q
<1>8. f \in Loop /\ f.conn[1] = q /\ f.idle = <<>>
  BY <1>3, <1>4, <1>7 DEF Loop
<1> HIDE DEF f
<1>9. r \in ConnRec /\ r.state = "csConnected"
  BY <1>7 DEF ConnRec
<1>10. Append(RemoveFirst(f.idle, 1), 1) = <<1>>
  BY <1>8 DEF RemoveFirst
<1>11. UpdateTimeTcpConn(f, 1, 0) = g
  BY <1>4, <1>7, <1>8, <1>10 DEF UpdateTimeTcpConn, Loop, ConnRec
<1> HIDE DEF r
<1>12. g \in Loop /\ g.conn[1] = r
  <2>1. <<1>> \in Seq(Conn)
    BY <1>4
  <2> QED BY <1>4, <1>8, <1>9, <2>1 DEF Loop
<1> HIDE DEF g
<1>13. Enabled(OnEnableConnect(Closed, 1), 1) = g
  <2>1. Enabled(OnEnableConnect(Closed, 1), 1) = UpdateTimeTcpConn(Called(e, 1), 1, 0)
    BY DEF Enabled, OnEnableConnect, d, e
  <2> QED BY <1>6, <1>11, <2>1
<1> QED BY <1>9, <1>12, <1>13 DEF IoInv

LEMMA Begins == Init => Inv
<1> SUFFICES ASSUME Init PROVE Inv
  OBVIOUS
<1>1. PICK s \in Streams : coming = Parts(s)
  BY DEF Init
<1>2. /\ kind \in {"http", "websocket"} /\ io = Enabled(OnEnableConnect(Closed, 1), 1) /\ req = NewReq
      /\ rcv = <<>> /\ sent = <<>> /\ handled = <<>>
  BY DEF Init, OnConnect
<1>3. s \in Seq(STRING) /\ Len(s) \in Nat
  BY StreamIs
<1>4. NewReq \in Req /\ NewReq.state = "stReqLine" /\ ~ NewReq.handShake /\ ~ NewReq.webSocket
      /\ ~ NewReq.key /\ NewReq.bodyLength = 0
  BY DEF NewReq, Req
<1>5. IoInv(io) /\ io.conn[1].state = "csConnected" /\ io \in Loop
  BY <1>2, OpensInLoop DEF IoInv
<1> DEFINE w == State
<1>6. /\ w.io = io /\ w.req = req /\ w.rcv = <<>> /\ w.sent = <<>> /\ w.handled = <<>>
      /\ w \in World
  BY <1>2, <1>4, <1>5 DEF State, World
<1> HIDE DEF w
<1>7. TypeOK(w)
  BY <1>2, <1>4, <1>5, <1>6, ReqIsNot DEF TypeOK
<1>8. At(s, 0, w.rcv, coming) /\ coming \in Seq(Part)
  <2>1. coming \in Seq(Part) /\ Len(coming) = 2 * Len(s)
    BY <1>1, <1>3, PartsAre
  <2>2. 0 + 0 + Len(coming) = 2 * Len(s) /\ \A i \in 1 .. Len(coming) : 0 + 0 + i = i
    BY <1>3, <2>1
  <2> QED BY <1>1, <1>6, <2>1, <2>2 DEF At
<1>9. AnswersEnd(w) /\ AnsweredAt(w, s, 0) /\ FramesGoOn(w) /\ FrameAt(w, 0, kind)
  BY <1>6 DEF AnswersEnd, AnsweredAt, FramesGoOn, FrameAt
<1>10. ReqAt(s, 0, w.req) /\ WaitAt(w, 0, kind, burst)
  <2>1. w.req = NewReq /\ Len(w.rcv) = 0
    BY <1>2, <1>6
  <2> QED BY <1>4, <2>1 DEF ReqAt, WaitAt
<1>11. WorldAt(w, s, 0, coming, kind, burst)
  BY <1>7, <1>8, <1>9, <1>10 DEF WorldAt
<1> QED BY <1>2, <1>11 DEF Inv, w

LEMMA ReadStep ==
    ASSUME Inv, NEW n \in 1 .. Len(coming), OnRead(n)
    PROVE  Inv'
<1>1. PICK s \in Streams, k \in Nat : WorldAt(State, s, k, coming, kind, burst)
  BY DEF Inv
<1>2. PICK result \in SendResult : \E v \in OnRawBuf(Received(n), result) : Becomes(v)
  BY DEF OnRead
<1>3. PICK v \in OnRawBuf(Received(n), result) : Becomes(v)
  BY <1>2
<1> DEFINE u == State
           w == Received(n)
<1>4. u \in World /\ u.io = io /\ u.req = req /\ u.rcv = rcv /\ u.sent = sent /\ u.handled = handled
      /\ IoInv(io) /\ coming \in Seq(Part) /\ (req = NoReq => io.conn[1].state = "csDisConnected")
  BY <1>1 DEF WorldAt, TypeOK, State
<1>5. req # NoReq
  BY <1>4 DEF OnRead, Handles, IoInv
<1>6. Got(u, w, coming, n)
  <2> DEFINE t == [io EXCEPT !.conn[1].retOut = FALSE]
             c == rcv \o SubSeq(coming, 1, n)
             x == [u EXCEPT !.io = t, !.rcv = c]
  <2>1. w = x
    BY <1>4 DEF Received, State
  <2>2. t \in Loop /\ t.conn[1].state = io.conn[1].state /\ t.conn[1].interest = io.conn[1].interest
    BY <1>4, RetOutSet DEF IoInv
  <2>3. c \in Seq(Part)
    <3>1. rcv \in Seq(Part) /\ At(s, k, rcv, coming)
      BY <1>1, <1>4 DEF World, WorldAt
    <3> QED BY <1>4, <3>1, ReceivedAt
  <2> HIDE DEF t, c, u
  <2>4. x \in World /\ x.io = t /\ x.req = req /\ x.rcv = c /\ x.sent = sent /\ x.handled = handled
    BY <1>4, <2>2, <2>3 DEF World
  <2> HIDE DEF w, x
  <2>5. Got(u, x, coming, n)
    BY <1>4, <2>2, <2>4 DEF Got, Open, IoInv, c
  <2> QED BY <2>1, <2>5
<1> HIDE DEF u, w
<1>7. w \in World /\ IoInv(w.io) /\ w.req = req /\ w.req \in Req /\ w.rcv \in Seq(Part)
  BY <1>4, <1>5, <1>6 DEF Got, World
<1>8. burst' <=> (burst \/ Twice(coming, n))
  BY DEF OnRead, Ends, Twice
<1>9. coming' = Drop(coming, n) /\ kind' = kind
  BY DEF OnRead
<1>10. ParseReq(w.req, w.rcv) \in Parsing /\ ParseReq(w.req, w.rcv).ret # "none"
  <2>1. At(s, k, w.rcv, Drop(coming, n)) /\ ReqAt(s, k, w.req) /\ Drop(coming, n) \in Seq(Part)
    BY <1>1, <1>4, <1>5, <1>6, <1>7, GotIs DEF u
  <2> QED BY <1>7, <2>1, ParseAt, StreamIs
<1>11. ASSUME NEW l \in Nat, v \in World, WorldAt(v, s, l, coming', kind', burst')
       PROVE  Inv'
  <2>1. State' = v
    BY <1>3, <1>11 DEF Becomes, State, World
  <2>2. kind' \in {"http", "websocket"}
    BY <1>9 DEF Inv
  <2> QED BY <1>11, <2>1, <2>2 DEF Inv
<1>12. CASE kind = "http"
  <2>1. v = HttpOnRawBuf(w, result)
    BY <1>3, <1>12 DEF OnRawBuf, w
  <2>2. v \in World /\ IoInv(v.io) /\ v.req \in Req /\ HttpReads(w, v)
    BY <1>7, <1>10, <2>1, HttpRead
  <2>3. \E l \in Nat : WorldAt(v, s, l, Drop(coming, n), "http", burst')
    BY <1>1, <1>4, <1>5, <1>6, <1>8, <1>12, <2>2, HttpKeeps DEF u
  <2> QED BY <1>9, <1>11, <1>12, <2>2, <2>3
<1>13. CASE kind = "websocket" /\ ~ req.handShake
  <2>1. v = ShakeHands(w, result)
    BY <1>3, <1>7, <1>13 DEF OnRawBuf, w
  <2>2. v \in World /\ IoInv(v.io) /\ v.req \in Req /\ ShakingHands(w, v)
    BY <1>7, <1>10, <2>1, HandsShaken
  <2>3. \E l \in Nat : WorldAt(v, s, l, Drop(coming, n), "websocket", burst')
    BY <1>1, <1>4, <1>5, <1>6, <1>8, <1>13, <2>2, HandshakeKeeps DEF u
  <2> QED BY <1>9, <1>11, <1>13, <2>2, <2>3
<1>14. CASE kind = "websocket" /\ req.handShake
  <2>1. PICK pack \in DecodePack(w.rcv, InStep(w)) : v = HandleFrame(w, pack, result)
    BY <1>3, <1>7, <1>14 DEF OnRawBuf, w
  <2>2. v \in World /\ IoInv(v.io) /\ v.req = w.req /\ FrameReads(w, v)
    BY <1>7, <2>1, FramesRead
  <2>3. \E l \in Nat : WorldAt(v, s, l, Drop(coming, n), "websocket", burst')
    BY <1>1, <1>4, <1>5, <1>6, <1>8, <1>14, <2>2, FrameKeeps DEF u
  <2> QED BY <1>9, <1>11, <1>14, <2>2, <2>3
<1> QED BY <1>12, <1>13, <1>14 DEF Inv

\* Where the connection is in the stream does not depend on io.
LEMMA IoChanges ==
    ASSUME NEW s, NEW k, NEW rest, NEW kd, NEW bu, NEW u, WorldAt(u, s, k, rest, kd, bu),
           NEW v \in World, IoInv(v.io), v.io.conn[1].state = u.io.conn[1].state,
           v.req = u.req, v.rcv = u.rcv, v.sent = u.sent, v.handled = u.handled
    PROVE  WorldAt(v, s, k, rest, kd, bu)
<1>1. Open(v) <=> Open(u)
  BY DEF Open
<1>2. TypeOK(v)
  BY DEF WorldAt, TypeOK
<1>3. AnswersEnd(v)
  BY <1>1 DEF WorldAt, AnswersEnd
<1>4. AnsweredAt(v, s, k)
  BY DEF WorldAt, AnsweredAt
<1>5. FramesGoOn(v)
  BY DEF WorldAt, FramesGoOn
<1>6. FrameAt(v, k, kd)
  BY DEF WorldAt, FrameAt, NoLong
<1>7. u.req # NoReq => WaitAt(v, k, kd, bu)
  BY DEF WorldAt, WaitAt, NoLong
<1> QED BY <1>2, <1>3, <1>4, <1>5, <1>6, <1>7 DEF WorldAt

LEMMA WriteStep == Inv /\ OnWrite => Inv'
<1> SUFFICES ASSUME Inv, OnWrite PROVE Inv'
  OBVIOUS
<1>1. PICK s \in Streams, k \in Nat : WorldAt(State, s, k, coming, kind, burst)
  BY DEF Inv
<1>2. PICK result \in SendResult :
         io' = OnWriteEvent([io EXCEPT !.conn[1].retOut = TRUE], 1, result)
  BY DEF OnWrite
<1>3. State \in World /\ IoInv(io) /\ State.io = io
  BY <1>1 DEF WorldAt, TypeOK, State
<1>4. IoInv(io') /\ io'.conn[1].state = io.conn[1].state
  BY <1>2, <1>3, OnWriteKeeps
<1>5. /\ kind' = kind /\ coming' = coming /\ burst' = burst
      /\ req' = req /\ rcv' = rcv /\ sent' = sent /\ handled' = handled
  BY DEF OnWrite
<1> DEFINE v == State'
<1>6. /\ v.io = io' /\ v.req = State.req /\ v.rcv = State.rcv /\ v.sent = State.sent
      /\ v.handled = State.handled /\ v \in World
  BY <1>3, <1>4, <1>5 DEF State, World, IoInv
<1> HIDE DEF v
<1>7. WorldAt(v, s, k, coming, kind, burst)
  BY <1>1, <1>3, <1>4, <1>6, IoChanges
<1> QED BY <1>1, <1>5, <1>7 DEF Inv, v

\* A connection that is closed, with its context gone.
LEMMA Closes ==
    ASSUME NEW s, NEW k \in Nat, NEW rest, NEW kd, NEW bu, NEW u, WorldAt(u, s, k, rest, kd, bu),
           NEW v \in World, IoInv(v.io), v.io.conn[1].state = "csDisConnected",
           v.req = NoReq, v.rcv = u.rcv, v.handled = u.handled, Sends(u, v, "404")
    PROVE  WorldAt(v, s, k, rest, kd, bu)
<1>1. u \in World /\ AnswersEnd(u) /\ AnsweredAt(u, s, k) /\ FramesGoOn(u) /\ FrameAt(u, k, kd)
  BY DEF WorldAt, TypeOK
<1>2. ~ Open(v) /\ Remembers(u, v) /\ "404" \in Answer
  BY DEF Open, Remembers, Answer
<1>3. AnswersEnd(v)
  BY <1>1, <1>2, AnswersKept
<1>4. AnsweredAt(v, s, k)
  BY <1>1, <1>2, AnsweredKept
<1>5. FramesGoOn(v) /\ FrameAt(v, k, kd)
  BY <1>1 DEF FramesGoOn, FrameAt, NoLong
<1>6. TypeOK(v)
  BY DEF TypeOK
<1> QED BY <1>3, <1>4, <1>5, <1>6 DEF WorldAt

LEMMA OnCloseIs ==
    ASSUME NEW w \in World, IoInv(w.io)
    PROVE  LET v == OnClose(w) IN
           /\ v \in World /\ IoInv(v.io) /\ v.io.conn[1].state = "csDisConnected" /\ v.req = NoReq
           /\ v.rcv = w.rcv /\ v.handled = w.handled /\ v.sent = w.sent
<1> DEFINE t == HandleClose(w.io, 1)
           c == [w EXCEPT !.io = t]
           v == [c EXCEPT !.req = NoReq]
<1>1. IoInv(t) /\ t.conn[1].state = "csDisConnected" /\ t \in Loop
  BY HandleCloseKeeps DEF IoInv
<1> HIDE DEF t
<1>2. /\ c \in World /\ c.io = t /\ c.req = w.req /\ c.rcv = w.rcv /\ c.handled = w.handled
      /\ c.sent = w.sent
  BY <1>1 DEF World
<1>3. [w EXCEPT !.io = HandleClose(@, 1)] = c
  BY DEF t
<1> HIDE DEF c
<1>4. /\ v \in World /\ v.io = t /\ v.req = NoReq /\ v.rcv = w.rcv /\ v.handled = w.handled
      /\ v.sent = w.sent
  BY <1>2 DEF World
<1>5. Response(c, "404", "all") = c
  BY <1>1, <1>2 DEF Response, SendBuf, Is
<1>6. HttpOnClose(c) = v /\ WebSktOnClose(c) = v
  BY <1>5 DEF HttpOnClose, WebSktOnClose
<1> HIDE DEF v
<1>7. OnClose(w) = IF w.req = NoReq THEN c ELSE v
  BY <1>3, <1>6 DEF OnClose
<1> QED BY <1>1, <1>2, <1>4, <1>7

LEMMA CloseSteps == Inv /\ (PeerCloses \/ OnError) => Inv'
<1> SUFFICES ASSUME Inv, PeerCloses \/ OnError PROVE Inv'
  OBVIOUS
<1>1. PICK s \in Streams, k \in Nat : WorldAt(State, s, k, coming, kind, burst)
  BY DEF Inv
<1> DEFINE u == State
<1>2. u \in World /\ IoInv(u.io)
  BY <1>1 DEF WorldAt, TypeOK
<1>3. kind' = kind /\ coming' = coming /\ burst' = burst
  BY DEF PeerCloses, OnError
<1>4. ASSUME NEW w \in World, IoInv(w.io), w.rcv = u.rcv, w.handled = u.handled,
             Sends(u, w, "404"), Becomes(OnClose(w))
      PROVE  Inv'
  <2> DEFINE v == OnClose(w)
  <2>1. /\ v \in World /\ IoInv(v.io) /\ v.io.conn[1].state = "csDisConnected" /\ v.req = NoReq
        /\ v.rcv = w.rcv /\ v.handled = w.handled /\ v.sent = w.sent
    BY <1>4, OnCloseIs
  <2>2. Becomes(v)
    BY <1>4
  <2> HIDE DEF v
  <2>3. State' = v
    BY <2>1, <2>2 DEF Becomes, State, World
  <2>4. Sends(u, v, "404")
    BY <1>4, <2>1 DEF Sends
  <2> HIDE DEF u
  <2>5. WorldAt(u, s, k, coming, kind, burst)
    BY <1>1 DEF u
  <2>6. WorldAt(v, s, k, coming, kind, burst)
    BY <1>4, <2>1, <2>4, <2>5, Closes
  <2> QED BY <1>3, <2>3, <2>6 DEF Inv
<1> HIDE DEF u
<1>5. CASE PeerCloses
  <2>1. Becomes(OnClose(u)) /\ Sends(u, u, "404")
    BY <1>5 DEF PeerCloses, Sends, u
  <2> QED BY <1>2, <1>4, <2>1
<1>6. CASE OnError
  <2>1. PICK result \in SendResult :
           Becomes(OnClose(IF kind = "http" THEN HttpOnError(u, result) ELSE WebSktOnError(u)))
    BY <1>6 DEF OnError, u
  <2>2. CASE kind = "http"
    <3> DEFINE b == SendBuf(u, "404", result)
               w == [b EXCEPT !.req = NoReq]
    <3>1. HttpOnError(u, result) = w
      BY DEF HttpOnError, Response
    <3>2. /\ b \in World /\ IoInv(b.io)
          /\ b.rcv = u.rcv /\ b.handled = u.handled /\ Sends(u, b, "404")
      <4>1. "404" \in Answer
        BY DEF Answer
      <4> QED BY <1>2, <4>1, SendBufKeeps
    <3> HIDE DEF b
    <3>3. /\ w \in World /\ w.io = b.io /\ w.rcv = b.rcv /\ w.handled = b.handled
          /\ w.sent = b.sent
      BY <3>2 DEF World
    <3> HIDE DEF w
    <3>4. Sends(u, w, "404") /\ IoInv(w.io)
      BY <3>2, <3>3 DEF Sends
    <3>5. Becomes(OnClose(w))
      BY <2>1, <2>2, <3>1
    <3> QED BY <1>4, <3>2, <3>3, <3>4, <3>5
  <2>3. CASE kind # "http"
    <3> DEFINE b == ShutDown(u)
               w == [b EXCEPT !.req = NoReq]
    <3>1. WebSktOnError(u) = w
      BY DEF WebSktOnError
    <3>2. /\ b \in World /\ IoInv(b.io)
          /\ b.rcv = u.rcv /\ b.handled = u.handled /\ b.sent = u.sent
      BY <1>2, ShutDownKeeps
    <3> HIDE DEF b
    <3>3. /\ w \in World /\ w.io = b.io /\ w.rcv = b.rcv /\ w.handled = b.handled
          /\ w.sent = b.sent
      BY <3>2 DEF World
    <3> HIDE DEF w
    <3>4. Sends(u, w, "404") /\ IoInv(w.io)
      BY <3>2, <3>3 DEF Sends
    <3>5. Becomes(OnClose(w))
      BY <2>1, <2>3, <3>1
    <3> QED BY <1>4, <3>2, <3>3, <3>4, <3>5
  <2> QED BY <2>2, <2>3
<1> QED BY <1>5, <1>6

LEMMA StepKeeps == Inv /\ [Next]_vars => Inv'
<1> SUFFICES ASSUME Inv, [Next]_vars PROVE Inv'
  OBVIOUS
<1>1. ASSUME NEW n \in 1 .. Len(coming), OnRead(n) PROVE Inv'
  BY <1>1, ReadStep
<1>2. ASSUME NEW n \in 1 .. Len(coming), OnReadStale(n) PROVE Inv'
  BY <1>2 DEF OnReadStale, Inv, State
<1>3. CASE OnWrite
  BY <1>3, WriteStep
<1>4. CASE PeerCloses
  BY <1>4, CloseSteps
<1>5. CASE OnError
  BY <1>5, CloseSteps
<1>6. CASE UNCHANGED vars
  BY <1>6 DEF vars, Inv, State
<1> QED BY <1>1, <1>2, <1>3, <1>4, <1>5, <1>6 DEF Next

LEMMA InvHolds == Spec => []Inv
  BY Begins, StepKeeps, PTL DEF Spec

-----------------------------------------------------------------------------
(* The properties. *)

LEMMA InvIs ==
    ASSUME Inv
    PROVE  \E s \in Streams, k \in Nat :
              /\ s \in Seq(STRING) /\ rcv \in Seq(Part) /\ coming \in Seq(Part)
              /\ sent \in Seq(Answer) /\ handled \in Seq(Part)
              /\ At(s, k, rcv, coming) /\ AnswersEnd(State) /\ AnsweredAt(State, s, k)
              /\ FramesGoOn(State) /\ (req # NoReq => WaitAt(State, k, kind, burst))
<1>1. PICK s \in Streams, k \in Nat : WorldAt(State, s, k, coming, kind, burst)
  BY DEF Inv
<1>2. State \in World /\ State.rcv = rcv /\ State.sent = sent /\ State.handled = handled
      /\ State.req = req
  BY <1>1 DEF WorldAt, TypeOK, State
<1> QED BY <1>1, <1>2, StreamIs DEF WorldAt, World

\* An answer that ends the connection is the last one, though the codec looks at
\* the request again with every read (HttpCodec::OnRawBuf, WebSktCodec::OnRawBuf).
THEOREM LastAnswerIsLastHolds == Spec => []LastAnswerIsLast
<1>1. Inv => LastAnswerIsLast
  <2> SUFFICES ASSUME Inv, NEW k \in 1 .. Len(sent) - 1
               PROVE  /\ sent[k] \notin {"400", "1002", "404"}
                      /\ sent[k] = "200" /\ req # NoReq => req.keepAlive
    BY DEF LastAnswerIsLast
  <2>1. sent \in Seq(Answer) /\ AnswersEnd(State)
    BY InvIs
  <2>2. State.sent = sent /\ State.req = req
    BY DEF State
  <2>3. k \in 1 .. Len(sent) /\ k # Len(sent)
    BY <2>1
  <2> QED BY <2>1, <2>2, <2>3 DEF AnswersEnd
<1> QED BY <1>1, InvHolds, PTL

\* No request is answered with part of its body still to be read (HttpReq::ParseReq).
THEOREM BodyReadFirstHolds == Spec => []BodyReadFirst
<1>1. Inv => BodyReadFirst
  <2> SUFFICES ASSUME Inv, NEW i \in DOMAIN sent, NEW j \in DOMAIN (rcv \o coming),
                      sent[i] \in {"200", "101"}
               PROVE  (rcv \o coming)[j].item # "body"
    BY DEF BodyReadFirst
  <2>1. PICK s \in Streams, k \in Nat :
              /\ s \in Seq(STRING) /\ rcv \in Seq(Part) /\ coming \in Seq(Part)
              /\ sent \in Seq(Answer) /\ At(s, k, rcv, coming) /\ AnsweredAt(State, s, k)
    BY InvIs
  <2>2. NoBody(s, k)
    <3>1. State.sent = sent /\ i \in 1 .. Len(sent)
      BY <2>1 DEF State
    <3> QED BY <2>1, <3>1 DEF AnsweredAt
  <2> DEFINE x == Len(rcv)
             y == Len(coming)
             N == 2 * Len(s)
  <2>3. x \in Nat /\ y \in Nat /\ N \in Nat
    BY <2>1
  <2>4. j \in 1 .. x + y
    BY <2>1
  <2>5. k + x + y = N
    BY <2>1 DEF At
  <2>6. (rcv \o coming)[j] = Parts(s)[k + j]
    <3>1. CASE j <= x
      BY <2>1, <2>3, <2>4, <3>1 DEF At
    <3>2. CASE j > x
      <4>1. j - x \in 1 .. y /\ k + x + (j - x) = k + j
        BY <2>3, <2>4, <3>2
      <4>2. (rcv \o coming)[j] = coming[j - x]
        BY <2>1, <2>4, <3>2
      <4> QED BY <2>1, <4>1, <4>2 DEF At
    <3> QED BY <2>3, <2>4, <3>1, <3>2
  <2>7. k + j \in k + 1 .. N
    BY <2>3, <2>4, <2>5
  <2> QED BY <2>2, <2>6, <2>7 DEF NoBody
<1> QED BY <1>1, InvHolds, PTL

\* Frames are handled in the order the peer sent them, each once and none
\* skipped, however the network cuts them, up to the first with a length of 64
\* bits (WebSktCodec::OnRawBuf, DecodePack).
THEOREM FramesInOrderHolds == Spec => []FramesInOrder
<1>1. Inv => FramesInOrder
  <2> SUFFICES ASSUME Inv PROVE FramesInOrder
    OBVIOUS
  <2>1. FramesGoOn(State) /\ State.handled = handled
    BY InvIs DEF State
  <2> QED BY <2>1 DEF FramesGoOn, FramesInOrder
<1> QED BY <1>1, InvHolds, PTL

\* A frame that was received whole does not wait for the peer to send more, when
\* no two ended in one read (WebSktCodec::OnRawBuf takes one).
THEOREM NothingWaitsHolds == Spec => []NothingWaits
<1>1. Inv => NothingWaits
  <2> SUFFICES ASSUME Inv, req # NoReq, ~ burst, InStep(State), req.handShake, Len(rcv) >= 2,
                      NEW pack \in DecodePack(rcv, TRUE)
               PROVE  ~ pack.frame
    BY DEF NothingWaits
  <2>1. PICK s \in Streams, k \in Nat :
              /\ s \in Seq(STRING) /\ rcv \in Seq(Part) /\ coming \in Seq(Part)
              /\ handled \in Seq(Part) /\ At(s, k, rcv, coming) /\ WaitAt(State, k, kind, burst)
    BY InvIs
  <2>2. State.req = req /\ State.handled = handled /\ State.rcv = rcv
    BY DEF State
  <2>3. NoLong(State)
    BY <2>1, <2>2 DEF NoLong, InStep
  <2>4. (\E m \in Nat : k = 2 * m) /\ (Len(rcv) < 2 \/ rcv[1].item = "unmasked")
    BY <2>1, <2>2, <2>3 DEF WaitAt
  <2>5. rcv # <<>> /\ rcv[1].item = "unmasked"
    BY <2>1, <2>4
  <2> QED BY <2>1, <2>5, PackIs
<1> QED BY <1>1, InvHolds, PTL
=============================================================================
