--------------------------- MODULE RpcClientProofs ---------------------------
(***************************************************************************)
(* RpcClient: the connector's state follows its connection, and an ended   *)
(* connector makes no attempt, for any number of channels and of functors  *)
(* that the owner queues.                                                  *)
(***************************************************************************)
EXTENDS RpcClient, SequenceTheorems, TLAPS

Conns ==
    [state : {"none", "csConnecting", "csConnected", "csDisConnecting", "csDisConnected"},
     interest : {"none", "in", "out", "off"}, retOut : BOOLEAN, shut : BOOLEAN]

Connectors ==
    [state : {"cltDisConnect", "cltConnecting", "cltConnected"},
     attempt : {"none", "pending", "ready", "failed", "closed"}, watched : BOOLEAN, conn : Conns,
     timers : SUBSET {"check", "heart"}, ready : BOOLEAN, exit : BOOLEAN,
     at : {"idle", "connect", "socket", "assign", "enable", "error"}, ended : BOOLEAN]

FunctorName == {"OnEnableCheckConnect", "OnEnableTickHeart", "DisConnect", "SendInLoop", "stale"}

\* _state follows _pConnPtr.
Settled(c) ==
    /\ c.state = "cltConnected" <=> ~ Closed(c)
    /\ c.attempt # "none" => c.state = "cltConnecting"

\* What the connection and the attempt are at each place of the loop's thread:
\* inside of a handler _state runs ahead of _pConnPtr, or behind it.
Placed(c) ==
    /\ c.at = "idle" => Settled(c)
    /\ c.at \in {"connect", "socket"} =>
           c.state = "cltConnecting" /\ Closed(c) /\ c.attempt = "none"
    /\ c.at = "assign" => c.state = "cltConnected" /\ Closed(c)
    /\ c.at = "enable" => Settled(c) /\ ~ Closed(c)
    /\ c.at = "error" => c.state = "cltDisConnect" /\ ~ Closed(c) /\ c.attempt = "none"

\* Only a socket that tries is watched, only an open connection is in epoll, and
\* a connector that was ended has no check timer.
Watching(c) ==
    /\ c.watched => c.attempt # "none" /\ c.at = "idle"
    /\ c.conn.interest # "none" => ~ Closed(c)
    /\ c.ended => "check" \notin c.timers

Good(c) == c \in Connectors /\ Placed(c) /\ Watching(c)

ClientInv == Good(cn) /\ functors \in Seq(FunctorName)

\* A connector between two handlers, or with its callback.
Steady(c) == c \in Connectors /\ Settled(c) /\ Watching(c)

\* No attempt starts.
Calm(c, d) == d.state = "cltConnecting" => c.state = "cltConnecting"

-----------------------------------------------------------------------------
(* The functions of the connector. *)

LEMMA IdleIsSteady ==
    ASSUME NEW c, c.at = "idle"
    PROVE  Good(c) <=> Steady(c)
BY DEF Good, Steady, Placed

\* A change of the connection that neither opens nor closes it.
LEMMA ConnChanged ==
    ASSUME NEW c, Steady(c), NEW k \in Conns,
           k.state \in {"none", "csDisConnected"} <=> Closed(c),
           k.interest # "none" => c.conn.interest # "none"
    PROVE  LET d == [c EXCEPT !.conn = k]
           IN  /\ Steady(d) /\ Calm(c, d)
               /\ d.at = c.at /\ d.state = c.state /\ (Closed(d) <=> Closed(c))
<1> DEFINE d == [c EXCEPT !.conn = k]
<1>1. c \in Connectors
  BY DEF Steady
<1>2. d \in Connectors
  BY <1>1 DEF Connectors
<1>3. /\ d.state = c.state /\ d.attempt = c.attempt /\ d.timers = c.timers /\ d.at = c.at
      /\ d.watched = c.watched /\ d.ended = c.ended /\ d.conn = k
  BY <1>1 DEF Connectors
<1> HIDE DEF d
<1>4. Closed(d) <=> Closed(c)
  BY <1>3 DEF Closed
<1>5. Settled(d) /\ Calm(c, d)
  BY <1>3, <1>4 DEF Steady, Settled, Calm
<1>6. Watching(d)
  BY <1>3, <1>4 DEF Steady, Watching
<1> QED BY <1>2, <1>3, <1>4, <1>5, <1>6 DEF d, Steady

\* A connection that is closed leaves a connector that is not connected.
LEMMA HandleCloseSettles ==
    ASSUME NEW c \in Connectors, Watching(c),
           Closed(c) => Settled(c), ~ Closed(c) => c.attempt = "none"
    PROVE  /\ Steady(HandleClose(c)) /\ Calm(c, HandleClose(c))
           /\ HandleClose(c).at = c.at
<1> DEFINE d == HandleClose(c)
<1>1. CASE Closed(c)
  <2>1. d = c
    BY <1>1 DEF HandleClose
  <2> QED BY <1>1, <2>1 DEF Steady, Calm
<1>2. CASE ~ Closed(c)
  <2> DEFINE k == [c.conn EXCEPT !.state = "csDisConnected", !.interest = "none"]
  <2>1. k \in Conns /\ k.state = "csDisConnected" /\ k.interest = "none"
    BY DEF Connectors, Conns
  <2>2. d = [c EXCEPT !.state = "cltDisConnect", !.exit = TRUE, !.conn = k]
    BY <1>2 DEF HandleClose, Connectors
  <2> HIDE DEF d, k
  <2>3. d \in Connectors
    BY <2>1, <2>2 DEF Connectors
  <2>4. /\ d.state = "cltDisConnect" /\ d.attempt = c.attempt /\ d.timers = c.timers
        /\ d.at = c.at /\ d.watched = c.watched /\ d.ended = c.ended /\ d.conn = k
    BY <2>2 DEF Connectors
  <2>5. Closed(d)
    BY <2>1, <2>4 DEF Closed
  <2>6. Settled(d) /\ Calm(c, d)
    BY <1>2, <2>4, <2>5 DEF Settled, Calm
  <2>7. Watching(d)
    BY <2>1, <2>4, <2>5 DEF Watching
  <2> QED BY <2>3, <2>4, <2>6, <2>7 DEF d, Steady
<1> QED BY <1>1, <1>2

LEMMA SteadyCloses ==
    ASSUME NEW c, Steady(c)
    PROVE  /\ Steady(HandleClose(c)) /\ Calm(c, HandleClose(c))
           /\ HandleClose(c).at = c.at
<1>1. c \in Connectors /\ Watching(c) /\ Settled(c)
  BY DEF Steady
<1>2. ~ Closed(c) => c.attempt = "none"
  BY <1>1 DEF Settled
<1> QED BY <1>1, <1>2, HandleCloseSettles

LEMMA ShutdownSteady ==
    ASSUME NEW c, Steady(c)
    PROVE  Steady(Shutdown(c)) /\ Calm(c, Shutdown(c)) /\ Shutdown(c).at = c.at
<1>1. CASE c.conn.state # "csConnected"
  BY <1>1 DEF Shutdown, Calm
<1>2. CASE c.conn.state = "csConnected"
  <2> DEFINE k == [c.conn EXCEPT !.state = "csDisConnecting", !.shut = ~ c.conn.retOut]
  <2>1. c \in Connectors /\ c.conn \in Conns
    BY DEF Steady, Connectors
  <2>2. k \in Conns /\ k.state = "csDisConnecting" /\ k.interest = c.conn.interest
    BY <2>1 DEF Conns
  <2>3. Shutdown(c) = [c EXCEPT !.conn = k]
    BY <1>2, <2>1 DEF Shutdown, Connectors
  <2>4. k.state \in {"none", "csDisConnected"} <=> Closed(c)
    BY <1>2, <2>2 DEF Closed
  <2> HIDE DEF k
  <2> QED BY <2>2, <2>3, <2>4, ConnChanged
<1> QED BY <1>1, <1>2

LEMMA SentSteady ==
    ASSUME NEW c, Steady(c), NEW d \in Sent(c)
    PROVE  Steady(d) /\ Calm(c, d) /\ d.at = c.at
<1> DEFINE i == IF c.conn.interest = "none" THEN "none" ELSE "out"
           k == [c.conn EXCEPT !.interest = i]
<1>1. CASE d = c
  BY <1>1 DEF Calm
<1>2. CASE d # c
  <2>1. c \in Connectors /\ c.conn \in Conns
    BY DEF Steady, Connectors
  <2>2. k \in Conns /\ k.state = c.conn.state /\ k.interest = i
    BY <2>1 DEF Conns
  <2>3. d = [c EXCEPT !.conn = k]
    BY <1>2, <2>1 DEF Sent, Connectors
  <2>4. k.state \in {"none", "csDisConnected"} <=> Closed(c)
    BY <2>2 DEF Closed
  <2>5. k.interest # "none" => c.conn.interest # "none"
    BY <2>2
  <2> HIDE DEF k
  <2> QED BY <2>2, <2>3, <2>4, <2>5, ConnChanged
<1> QED BY <1>1, <1>2

LEMMA CalledSteady ==
    ASSUME NEW c, Steady(c), NEW d \in Called(c)
    PROVE  Steady(d) /\ Calm(c, d) /\ d.at = c.at
<1>1. PICK e \in Sent(c) :
           d \in {e, Shutdown(e), HandleClose(e), HandleClose(Shutdown(e))}
  BY DEF Called
<1>2. Steady(e) /\ Calm(c, e) /\ e.at = c.at
  BY SentSteady
<1>3. Steady(Shutdown(e)) /\ Calm(e, Shutdown(e)) /\ Shutdown(e).at = e.at
  BY <1>2, ShutdownSteady
<1>4. Steady(HandleClose(e)) /\ Calm(e, HandleClose(e)) /\ HandleClose(e).at = e.at
  BY <1>2, SteadyCloses
<1>5. /\ Steady(HandleClose(Shutdown(e))) /\ Calm(Shutdown(e), HandleClose(Shutdown(e)))
      /\ HandleClose(Shutdown(e)).at = Shutdown(e).at
  BY <1>3, SteadyCloses
<1> QED BY <1>1, <1>2, <1>3, <1>4, <1>5 DEF Calm

-----------------------------------------------------------------------------
(* The handlers of the loop.  NoStart(c, d): an ended connector starts no     *)
(* attempt in the step from c to d.                                           *)

NoStart(c, d) == c.ended => Calm(c, d)

Step(c, d) == Good(d) /\ NoStart(c, d)

\* A handler that begins and ends outside of the connector's own places.
LEMMA SteadyStep ==
    ASSUME NEW c, NEW d, Steady(d), Calm(c, d), d.at = "idle"
    PROVE  Step(c, d)
BY IdleIsSteady DEF Step, NoStart

LEMMA CheckConnGood ==
    ASSUME Good(cn), OnCheckConn
    PROVE  Step(cn, cn')
<1>1. /\ cn.at = "idle" /\ "check" \in cn.timers /\ CanConnect(cn)
      /\ cn' = [cn EXCEPT !.state = "cltConnecting", !.at = "connect"]
  BY DEF OnCheckConn, LoopStep, TryConnect
<1>2. cn \in Connectors /\ Settled(cn) /\ Watching(cn)
  BY <1>1 DEF Good, Placed
<1>3. cn.state = "cltDisConnect" /\ cn.attempt = "none" /\ Closed(cn)
  BY <1>1, <1>2 DEF CanConnect, Connectors, Settled
<1>4. cn' \in Connectors
  BY <1>1, <1>2 DEF Connectors
<1>5. /\ cn'.state = "cltConnecting" /\ cn'.at = "connect" /\ cn'.attempt = cn.attempt
      /\ cn'.conn = cn.conn /\ cn'.timers = cn.timers
      /\ cn'.watched = cn.watched /\ cn'.ended = cn.ended
  BY <1>1, <1>2 DEF Connectors
<1>6. Closed(cn')
  BY <1>3, <1>5 DEF Closed
<1>7. Placed(cn')
  BY <1>3, <1>5, <1>6 DEF Placed
<1>8. Watching(cn')
  BY <1>2, <1>3, <1>5, <1>6 DEF Watching, Closed
<1>9. ~ cn.ended
  BY <1>1, <1>2 DEF Watching
<1> QED BY <1>4, <1>7, <1>8, <1>9 DEF Step, Good, NoStart

LEMMA DoConnectGood ==
    ASSUME Good(cn), CreateSocket \/ DoConnect
    PROVE  Step(cn, cn')
<1> USE DEF SocketMade
<1>1. /\ cn.at \in {"connect", "socket"}
      /\ cn' \in {SocketFailed(cn), SocketMade(cn), ConnectFailed(cn), Connecting(cn)}
  BY DEF CreateSocket, DoConnect, LoopStep
<1>2. /\ cn \in Connectors /\ Watching(cn)
      /\ cn.state = "cltConnecting" /\ Closed(cn) /\ cn.attempt = "none"
  BY <1>1 DEF Good, Placed
<1>3. cn' \in Connectors
  <2>1. SocketFailed(cn) \in Connectors /\ SocketMade(cn) \in Connectors
    BY <1>2 DEF SocketFailed, Connectors
  <2>2. ConnectFailed(cn) \in Connectors /\ Connecting(cn) \in Connectors
    BY <1>2 DEF ConnectFailed, Connecting, Connectors
  <2> QED BY <1>1, <2>1, <2>2
<1>4. /\ cn'.conn = cn.conn /\ cn'.timers = cn.timers
      /\ cn'.at = IF cn' = SocketMade(cn) THEN "socket" ELSE "idle"
  BY <1>1, <1>2 DEF SocketFailed, ConnectFailed, Connecting, Connectors
<1>5. cn'.ended = cn.ended
  BY <1>1, <1>2 DEF SocketFailed, ConnectFailed, Connecting, Connectors
<1>6. /\ cn'.state # "cltConnected"
      /\ cn'.attempt # "none" => cn'.state = "cltConnecting"
      /\ cn'.watched => cn'.attempt # "none" /\ cn'.at = "idle"
  <2>1. ~ cn.watched
    BY <1>1, <1>2 DEF Watching
  <2> QED BY <1>1, <1>2, <2>1 DEF SocketFailed, ConnectFailed, Connecting, Connectors
<1>7. Closed(cn')
  BY <1>2, <1>4 DEF Closed
<1>8. Settled(cn')
  BY <1>6, <1>7 DEF Settled
<1>9. Watching(cn')
  BY <1>2, <1>4, <1>5, <1>6, <1>7 DEF Watching
<1>10. Placed(cn')
  <2>1. cn' = SocketMade(cn) => cn'.state = "cltConnecting" /\ cn'.attempt = "none"
    BY <1>2 DEF Connectors
  <2> QED BY <1>4, <1>7, <1>8, <2>1 DEF Placed
<1> QED BY <1>2, <1>3, <1>9, <1>10 DEF Step, Good, NoStart, Calm

LEMMA WriteEventGood ==
    ASSUME Good(cn), OnWriteEvent
    PROVE  Step(cn, cn')
<1>1. cn.at = "idle" /\ ConnectEvents(cn) # {} /\ cn' \in ConnectHandled(cn)
  BY DEF OnWriteEvent, LoopStep
<1>2. cn \in Connectors /\ Settled(cn) /\ Watching(cn)
  BY <1>1 DEF Good, Placed
<1>3. CASE cn' = cn
  BY <1>1, <1>2, <1>3, SteadyStep DEF Steady, Calm
<1>4. CASE cn' # cn
  <2>1. cn.watched
    BY <1>1, <1>2 DEF ConnectEvents, Connectors
  <2>2. cn.state = "cltConnecting" /\ Closed(cn)
    BY <1>2, <2>1 DEF Watching, Settled
  <2>3. cn' \in WriteEventResults(cn)
    BY <1>1, <1>4 DEF ConnectHandled
  <2>4. cn' \in Connectors
    BY <1>2, <2>3 DEF WriteEventResults, Connectors
  <2>5. cn'.conn = cn.conn /\ cn'.timers = cn.timers /\ cn'.ended = cn.ended
    BY <1>2, <2>3 DEF WriteEventResults, Connectors
  <2>6. cn'.watched = FALSE
    BY <1>2, <2>3 DEF WriteEventResults, Connectors
  <2>7. \/ cn'.at = "idle" /\ cn'.state = "cltDisConnect" /\ cn'.attempt = "none"
        \/ cn'.at = "assign" /\ cn'.state = "cltConnected"
    BY <1>1, <1>2, <2>3 DEF WriteEventResults, Connectors
  <2>8. Closed(cn')
    BY <2>2, <2>5 DEF Closed
  <2>9. Placed(cn')
    BY <2>7, <2>8 DEF Placed, Settled
  <2>10. Watching(cn')
    BY <1>2, <2>2, <2>5, <2>6, <2>8 DEF Watching
  <2> QED BY <2>2, <2>4, <2>9, <2>10 DEF Step, Good, NoStart, Calm
<1> QED BY <1>3, <1>4

LEMMA NewTcpConnGood ==
    ASSUME Good(cn), OnNewTcpConn
    PROVE  Step(cn, cn')
<1>0. PICK garbage \in BOOLEAN : cn' = NewTcpConn(cn, garbage)
  BY DEF OnNewTcpConn
<1> DEFINE k == [NoConn EXCEPT !.state = "csConnecting", !.retOut = garbage]
<1>1. cn.at = "assign" /\ cn' = [cn EXCEPT !.conn = k, !.attempt = "none", !.at = "enable"]
  BY <1>0 DEF OnNewTcpConn, NewTcpConn
<1>2. cn \in Connectors /\ Watching(cn) /\ cn.state = "cltConnected"
  BY <1>1 DEF Good, Placed
<1>3. k \in Conns /\ k.state = "csConnecting" /\ k.interest = "none"
  BY DEF NoConn, Conns
<1> HIDE DEF k
<1>4. cn' \in Connectors
  BY <1>1, <1>2, <1>3 DEF Connectors
<1>5. /\ cn'.conn = k /\ cn'.attempt = "none" /\ cn'.at = "enable" /\ cn'.timers = cn.timers
      /\ cn'.state = cn.state /\ cn'.watched = cn.watched /\ cn'.ended = cn.ended
  BY <1>1, <1>2 DEF Connectors
<1>6. ~ Closed(cn')
  BY <1>3, <1>5 DEF Closed
<1>7. Placed(cn')
  BY <1>2, <1>5, <1>6 DEF Placed, Settled
<1>8. Watching(cn')
  <2>1. ~ cn.watched
    BY <1>1, <1>2 DEF Watching
  <2> QED BY <1>2, <1>3, <1>5, <2>1 DEF Watching
<1> QED BY <1>2, <1>4, <1>5, <1>7, <1>8 DEF Step, Good, NoStart, Calm

LEMMA EnableConnectGood ==
    ASSUME Good(cn), OnEnableConnect
    PROVE  Step(cn, cn')
<1> DEFINE k == [cn.conn EXCEPT !.state = "csConnected", !.interest = "in"]
           open == [cn EXCEPT !.conn = k]
<1>1. cn.at = "enable" /\ (cn' = Notified(cn) \/ cn' \in EnableConnectResults(cn))
  BY DEF OnEnableConnect, LoopStep
<1>2. Steady(cn) /\ ~ Closed(cn) /\ cn.attempt = "none" /\ cn.state = "cltConnected"
  BY <1>1 DEF Good, Placed, Steady, Settled
<1>3. cn \in Connectors /\ cn.conn \in Conns
  BY <1>2 DEF Steady, Connectors
<1>4. k \in Conns /\ k.state = "csConnected" /\ k.interest = "in"
  BY <1>3 DEF Conns
<1>5. open = [cn EXCEPT !.conn.state = "csConnected", !.conn.interest = "in"]
  BY <1>3 DEF Connectors
<1>6. Steady(open) /\ open.at = "enable"
  <2> HIDE DEF k
  <2>1. open \in Connectors
    BY <1>3, <1>4 DEF Connectors
  <2>2. /\ open.state = cn.state /\ open.attempt = cn.attempt /\ open.timers = cn.timers
        /\ open.at = cn.at /\ open.watched = cn.watched /\ open.ended = cn.ended
        /\ open.conn = k
    BY <1>3 DEF Connectors
  <2> HIDE DEF open
  <2>3. ~ Closed(open)
    BY <1>4, <2>2 DEF Closed
  <2>4. Settled(open)
    BY <1>2, <2>2, <2>3 DEF Settled
  <2>5. Watching(open)
    BY <1>2, <2>2, <2>3 DEF Steady, Watching
  <2> QED BY <1>1, <2>1, <2>2, <2>4, <2>5 DEF Steady
<1> HIDE DEF open
<1>7. PICK r \in {cn} \cup Called(open) : cn' = [r EXCEPT !.ready = TRUE, !.at = "idle"]
  BY <1>1, <1>5 DEF EnableConnectResults, Notified
<1>8. Steady(r)
  BY <1>2, <1>6, CalledSteady
<1>9. r \in Connectors
  BY <1>8 DEF Steady
<1>10. cn' \in Connectors
  BY <1>7, <1>9 DEF Connectors
<1>11. /\ cn'.state = r.state /\ cn'.attempt = r.attempt /\ cn'.timers = r.timers
       /\ cn'.at = "idle" /\ cn'.watched = r.watched /\ cn'.ended = r.ended
       /\ cn'.conn = r.conn
  BY <1>7, <1>9 DEF Connectors
<1>12. Closed(cn') <=> Closed(r)
  BY <1>11 DEF Closed
<1>13. Settled(cn')
  BY <1>8, <1>11, <1>12 DEF Steady, Settled
<1>14. Watching(cn')
  BY <1>8, <1>11, <1>12 DEF Steady, Watching
<1>15. r.state # "cltConnecting"
  <2>1. CASE r = cn
    BY <1>2, <2>1
  <2>2. CASE r \in Called(open)
    <3>1. open.state = "cltConnected"
      BY <1>2, <1>3 DEF open, Connectors
    <3> QED BY <1>6, <2>2, <3>1, CalledSteady DEF Calm
  <2> QED BY <1>7, <2>1, <2>2
<1>16. Calm(cn, cn')
  BY <1>11, <1>15 DEF Calm
<1>17. Steady(cn')
  BY <1>10, <1>13, <1>14 DEF Steady
<1> QED BY <1>11, <1>16, <1>17, SteadyStep

\* A pack, what is sent for it, and the end of the buffered bytes.
LEMMA ConnEventsGood ==
    ASSUME Good(cn), OnReadEvent \/ OnFlushed \/ TickHeart
    PROVE  Step(cn, cn')
<1>1. cn.at = "idle" /\ Steady(cn)
  BY IdleIsSteady DEF OnReadEvent, OnFlushed, TickHeart, LoopStep
<1>2. cn \in Connectors /\ cn.conn \in Conns
  BY <1>1 DEF Steady, Connectors
<1>3. CASE OnReadEvent
  <2> DEFINE k == [cn.conn EXCEPT !.retOut = FALSE]
             read == [cn EXCEPT !.conn = k]
  <2>1. k \in Conns /\ k.state = cn.conn.state /\ k.interest = cn.conn.interest
    BY <1>2 DEF Conns
  <2>2. cn' \in Called(read)
    <3>1. read = [cn EXCEPT !.conn.retOut = FALSE]
      BY <1>2 DEF Connectors
    <3> HIDE DEF read
    <3> QED BY <1>3, <3>1 DEF OnReadEvent, LoopStep
  <2>3. k.state \in {"none", "csDisConnected"} <=> Closed(cn)
    BY <2>1 DEF Closed
  <2> HIDE DEF k
  <2>4. Steady(read) /\ Calm(cn, read) /\ read.at = cn.at
    BY <1>1, <2>1, <2>3, ConnChanged
  <2> HIDE DEF read
  <2>5. Steady(cn') /\ Calm(read, cn') /\ cn'.at = "idle"
    BY <1>1, <2>2, <2>4, CalledSteady
  <2> QED BY <2>4, <2>5, SteadyStep DEF Calm
<1>4. CASE OnFlushed
  <2> DEFINE k == [cn.conn EXCEPT !.interest = "off", !.retOut = TRUE]
  <2>1. k \in Conns /\ k.state = cn.conn.state
    BY <1>2 DEF Conns
  <2>2. cn' = [cn EXCEPT !.conn = k] /\ cn.conn.interest # "none"
    BY <1>2, <1>4 DEF OnFlushed, LoopStep, Flushed, Connectors
  <2>3. k.state \in {"none", "csDisConnected"} <=> Closed(cn)
    BY <2>1 DEF Closed
  <2> HIDE DEF k
  <2>4. Steady(cn') /\ Calm(cn, cn') /\ cn'.at = cn.at
    BY <1>1, <2>1, <2>2, <2>3, ConnChanged
  <2> QED BY <1>1, <2>4, SteadyStep
<1>5. CASE TickHeart
  <2>1. cn' = cn \/ cn' \in Sent(cn)
    BY <1>5 DEF TickHeart, LoopStep, OnTickHeart
  <2> QED BY <1>1, <2>1, SentSteady, SteadyStep DEF Calm
<1> QED BY <1>3, <1>4, <1>5

LEMMA ClosesGood ==
    ASSUME Good(cn), OnError \/ OnErrorReturns \/ OnClose \/ CheckConn
    PROVE  Step(cn, cn')
<1>1. CASE OnError
  <2>1. /\ cn.at = "idle" /\ cn.conn.interest = "in"
        /\ cn' = [cn EXCEPT !.state = "cltDisConnect", !.at = "error"]
    BY <1>1 DEF OnError, LoopStep
  <2>2. cn \in Connectors /\ Settled(cn) /\ Watching(cn)
    BY <2>1 DEF Good, Placed
  <2>3. ~ Closed(cn) /\ cn.attempt = "none"
    BY <2>1, <2>2 DEF Watching, Settled
  <2>4. cn' \in Connectors
    BY <2>1, <2>2 DEF Connectors
  <2>5. /\ cn'.state = "cltDisConnect" /\ cn'.at = "error" /\ cn'.attempt = cn.attempt
        /\ cn'.conn = cn.conn /\ cn'.timers = cn.timers
        /\ cn'.watched = cn.watched /\ cn'.ended = cn.ended
    BY <2>1, <2>2 DEF Connectors
  <2>6. ~ Closed(cn')
    BY <2>3, <2>5 DEF Closed
  <2>7. Placed(cn')
    BY <2>3, <2>5, <2>6 DEF Placed
  <2>8. Watching(cn')
    BY <2>2, <2>3, <2>5, <2>6 DEF Watching
  <2> QED BY <2>4, <2>5, <2>7, <2>8 DEF Step, Good, NoStart, Calm
<1>2. CASE OnErrorReturns
  <2> DEFINE r == HandleClose(cn)
  <2>1. cn.at = "error" /\ cn' = [r EXCEPT !.at = "idle"]
    BY <1>2 DEF OnErrorReturns, LoopStep
  <2>2. cn \in Connectors /\ Watching(cn) /\ ~ Closed(cn) /\ cn.attempt = "none"
    BY <2>1 DEF Good, Placed
  <2>3. Steady(r) /\ Calm(cn, r)
    BY <2>2, HandleCloseSettles
  <2> HIDE DEF r
  <2>4. r \in Connectors /\ Settled(r) /\ Watching(r)
    BY <2>3 DEF Steady
  <2>5. cn' \in Connectors
    BY <2>1, <2>4 DEF Connectors
  <2>6. /\ cn'.state = r.state /\ cn'.attempt = r.attempt /\ cn'.timers = r.timers
        /\ cn'.at = "idle" /\ cn'.watched = r.watched /\ cn'.ended = r.ended
        /\ cn'.conn = r.conn
    BY <2>1, <2>4 DEF Connectors
  <2>7. Closed(cn') <=> Closed(r)
    BY <2>6 DEF Closed
  <2>8. Settled(cn') /\ Calm(cn, cn')
    BY <2>3, <2>4, <2>6, <2>7 DEF Settled, Calm
  <2>9. Watching(cn')
    BY <2>4, <2>6, <2>7 DEF Watching
  <2> QED BY <2>5, <2>6, <2>8, <2>9, SteadyStep DEF Steady
<1>3. CASE OnClose \/ CheckConn
  <2>1. cn.at = "idle" /\ (cn' = HandleClose(cn) \/ cn' = cn)
    BY <1>3 DEF OnClose, CheckConn, LoopStep
  <2>2. Steady(cn)
    BY <2>1, IdleIsSteady
  <2> QED BY <2>1, <2>2, SteadyCloses, SteadyStep DEF Calm
<1> QED BY <1>1, <1>2, <1>3

\* A timer that starts, the check timer only in a connector that may try.
LEMMA EnableGood ==
    ASSUME Steady(cn), cn.at = "idle", NEW t \in {"check", "heart"},
           NEW e \in {cn.ended, FALSE}, t = "check" => ~ e,
           cn' = [cn EXCEPT !.timers = @ \cup {t}, !.ended = e]
    PROVE  Step(cn, cn')
<1>1. cn \in Connectors /\ Settled(cn) /\ Watching(cn)
  BY DEF Steady
<1>2. cn' \in Connectors
  <2>1. e \in BOOLEAN
    BY <1>1 DEF Connectors
  <2>2. cn.timers \cup {t} \in SUBSET {"check", "heart"}
    BY <1>1 DEF Connectors
  <2> QED BY <1>1, <2>1, <2>2 DEF Connectors
<1>3. /\ cn'.state = cn.state /\ cn'.attempt = cn.attempt /\ cn'.at = cn.at
      /\ cn'.conn = cn.conn /\ cn'.watched = cn.watched
  BY <1>1 DEF Connectors
<1>4. cn'.timers = cn.timers \cup {t} /\ cn'.ended = e
  BY <1>1 DEF Connectors
<1>5. Closed(cn') <=> Closed(cn)
  BY <1>3 DEF Closed
<1>6. Settled(cn') /\ Calm(cn, cn')
  BY <1>1, <1>3, <1>5 DEF Settled, Calm
<1>7. Watching(cn')
  <2>1. cn'.ended => "check" \notin cn'.timers
    BY <1>1, <1>4 DEF Watching
  <2> QED BY <1>1, <1>3, <1>5, <2>1 DEF Watching
<1> QED BY <1>2, <1>3, <1>6, <1>7, SteadyStep DEF Steady

LEMMA DisConnectGood ==
    ASSUME Steady(cn), cn.at = "idle", cn' = DisConnect(cn)
    PROVE  Step(cn, cn')
<1> DEFINE r == Shutdown(cn)
<1>1. Steady(r) /\ Calm(cn, r) /\ r.at = "idle"
  BY ShutdownSteady
<1>2. cn' = [r EXCEPT !.timers = {}, !.watched = FALSE, !.ended = TRUE]
  BY DEF DisConnect, TimersDisabled
<1> HIDE DEF r
<1>3. r \in Connectors /\ Settled(r) /\ Watching(r)
  BY <1>1 DEF Steady
<1>4. cn' \in Connectors
  BY <1>2, <1>3 DEF Connectors
<1>5. /\ cn'.state = r.state /\ cn'.attempt = r.attempt /\ cn'.at = r.at
      /\ cn'.conn = r.conn /\ cn'.timers = {} /\ cn'.watched = FALSE
  BY <1>2, <1>3 DEF Connectors
<1>6. Closed(cn') <=> Closed(r)
  BY <1>5 DEF Closed
<1>7. Settled(cn') /\ Calm(cn, cn')
  BY <1>1, <1>3, <1>5, <1>6 DEF Settled, Calm
<1>8. Watching(cn')
  BY <1>3, <1>5, <1>6 DEF Watching
<1> QED BY <1>1, <1>4, <1>5, <1>7, <1>8, SteadyStep DEF Steady

LEMMA FunctorGood ==
    ASSUME ClientInv, RunFunctor
    PROVE  Step(cn, cn') /\ functors' \in Seq(FunctorName)
<1> DEFINE f == Head(functors)
<1>1. /\ cn.at = "idle" /\ functors # <<>> /\ cn' \in Ran(f) /\ functors' = Tail(functors)
      /\ functors \in Seq(FunctorName)
  BY DEF ClientInv, RunFunctor
<1>2. f \in FunctorName /\ functors' \in Seq(FunctorName)
  BY <1>1
<1>3. Steady(cn)
  BY <1>1, IdleIsSteady DEF ClientInv
<1>4. cn \in Connectors
  BY <1>3 DEF Steady
<1> HIDE DEF f
<1>5. CASE f = "OnEnableCheckConnect"
  <2>1. cn' = [cn EXCEPT !.timers = @ \cup {"check"}, !.ended = FALSE]
    BY <1>1, <1>4, <1>5 DEF Ran, Enable, Connectors
  <2> QED BY <1>1, <1>2, <1>3, <2>1, EnableGood
<1>6. CASE f = "OnEnableTickHeart"
  <2>1. cn' = [cn EXCEPT !.timers = @ \cup {"heart"}]
    BY <1>1, <1>6 DEF Ran, Enable
  <2>2. cn' = [cn EXCEPT !.timers = @ \cup {"heart"}, !.ended = cn.ended]
    BY <1>4, <2>1 DEF Connectors
  <2> QED BY <1>1, <1>2, <1>3, <2>2, EnableGood
<1>7. CASE f = "DisConnect"
  BY <1>1, <1>2, <1>3, <1>7, DisConnectGood DEF Ran
<1>8. CASE f \in {"SendInLoop", "stale"}
  <2>1. cn' = cn \/ cn' \in Sent(cn)
    BY <1>1, <1>8 DEF Ran
  <2> QED BY <1>1, <1>2, <1>3, <2>1, SentSteady, SteadyStep DEF Calm
<1> QED BY <1>2, <1>5, <1>6, <1>7, <1>8 DEF FunctorName

\* The network's answer.
LEMMA AnswerGood ==
    ASSUME Good(cn), Answer
    PROVE  Step(cn, cn')
<1>1. PICK a \in {"ready", "failed"} : cn' = [cn EXCEPT !.attempt = a]
  BY DEF Answer
<1>2. cn \in Connectors /\ Placed(cn) /\ Watching(cn) /\ cn.attempt = "pending"
  BY DEF Answer, Good
<1>3. cn' \in Connectors
  BY <1>1, <1>2 DEF Connectors
<1>4. /\ cn'.state = cn.state /\ cn'.attempt = a /\ cn'.timers = cn.timers
      /\ cn'.at = cn.at /\ cn'.conn = cn.conn /\ cn'.watched = cn.watched
      /\ cn'.ended = cn.ended
  BY <1>1, <1>2 DEF Connectors
<1>5. Closed(cn') <=> Closed(cn)
  BY <1>4 DEF Closed
<1>6. Placed(cn')
  BY <1>2, <1>4, <1>5 DEF Placed, Settled
<1>7. Watching(cn')
  BY <1>2, <1>4, <1>5 DEF Watching
<1> QED BY <1>3, <1>4, <1>6, <1>7 DEF Step, Good, NoStart, Calm

-----------------------------------------------------------------------------
(* The steps of all. *)

\* The owner closes a descriptor of the loop: no place of the loop's thread minds.
LEMMA CloseSockFdGood ==
    ASSUME Good(cn), CloseSockFd
    PROVE  Step(cn, cn')
<1>1. cn \in Connectors /\ cn.conn \in Conns /\ Placed(cn) /\ Watching(cn)
  BY DEF Good, Connectors
<1>2. CASE cn' = cn
  BY <1>2 DEF Step, NoStart, Calm
<1>3. CASE cn' = [cn EXCEPT !.attempt = "closed"] /\ cn.attempt # "none"
  <2>1. cn' \in Connectors
    BY <1>1, <1>3 DEF Connectors
  <2>2. /\ cn'.state = cn.state /\ cn'.attempt = "closed" /\ cn'.timers = cn.timers
        /\ cn'.at = cn.at /\ cn'.conn = cn.conn /\ cn'.watched = cn.watched
        /\ cn'.ended = cn.ended
    BY <1>1, <1>3 DEF Connectors
  <2>3. Closed(cn') <=> Closed(cn)
    BY <2>2 DEF Closed
  <2>4. Placed(cn')
    BY <1>1, <1>3, <2>2, <2>3 DEF Placed, Settled
  <2>5. Watching(cn')
    BY <1>1, <2>2, <2>3 DEF Watching
  <2> QED BY <2>1, <2>2, <2>4, <2>5 DEF Step, Good, NoStart, Calm
<1>4. CASE cn' = [cn EXCEPT !.conn.interest = "none"]
  <2> DEFINE k == [cn.conn EXCEPT !.interest = "none"]
  <2>1. k \in Conns /\ k.state = cn.conn.state /\ k.interest = "none"
    BY <1>1 DEF Conns
  <2>2. cn' = [cn EXCEPT !.conn = k]
    BY <1>1, <1>4 DEF Connectors
  <2> HIDE DEF k
  <2>3. cn' \in Connectors
    BY <1>1, <2>1, <2>2 DEF Connectors
  <2>4. /\ cn'.state = cn.state /\ cn'.attempt = cn.attempt /\ cn'.timers = cn.timers
        /\ cn'.at = cn.at /\ cn'.conn = k /\ cn'.watched = cn.watched
        /\ cn'.ended = cn.ended
    BY <1>1, <2>2 DEF Connectors
  <2>5. Closed(cn') <=> Closed(cn)
    BY <2>1, <2>4 DEF Closed
  <2>6. Placed(cn')
    BY <1>1, <2>4, <2>5 DEF Placed, Settled
  <2>7. Watching(cn')
    BY <1>1, <2>1, <2>4, <2>5 DEF Watching
  <2> QED BY <2>3, <2>4, <2>6, <2>7 DEF Step, Good, NoStart, Calm
<1>5. \/ cn' = cn
      \/ cn' = [cn EXCEPT !.attempt = "closed"] /\ cn.attempt # "none"
      \/ cn' = [cn EXCEPT !.conn.interest = "none"]
  BY DEF CloseSockFd, CloseFd, ForgetFd
<1> QED BY <1>2, <1>3, <1>4, <1>5

\* What the owner does else, and the peer, leaves the connector alone.
LEMMA OthersGood ==
    ASSUME ClientInv, Owner \/ PeerCloses
    PROVE  (cn' = cn \/ CloseSockFd) /\ functors' \in Seq(FunctorName)
<1>1. functors \in Seq(FunctorName)
  BY DEF ClientInv
<1>2. ASSUME NEW f \in FunctorName, Push(f) PROVE functors' \in Seq(FunctorName)
  BY <1>1, <1>2 DEF Push
<1>3. CASE Connect \/ Waited
  BY <1>2, <1>3 DEF Connect, Waited, FunctorName
<1>4. CASE \/ Invoke \/ OtherInvoke \/ UseIndex \/ SendPack \/ LookAtState \/ LookAtConn
           \/ Stop \/ WaitExit
  BY <1>1, <1>4
     DEF Invoke, OtherInvoke, UseIndex, SendPack, LookAtState, LookAtConn, Stop, WaitExit
<1>5. CASE PushSend
  BY <1>2, <1>5 DEF PushSend, FunctorName
<1>6. CASE CloseByUser \/ Destroy
  BY <1>1, <1>2, <1>6 DEF CloseByUser, Destroy, Close, FunctorName
<1>7. CASE CloseSockFd
  BY <1>1, <1>7 DEF CloseSockFd, CloseFd, ForgetFd
<1>8. CASE PeerCloses
  BY <1>1, <1>8 DEF PeerCloses
<1> QED BY <1>3, <1>4, <1>5, <1>6, <1>7, <1>8 DEF Owner

LEMMA NewTcpConnFunctors ==
    ASSUME ClientInv, OnNewTcpConn
    PROVE  functors' \in Seq(FunctorName)
<1>1. functors \in Seq(FunctorName)
      /\ functors' = [i \in DOMAIN functors |-> Outdated(functors[i])]
  BY DEF ClientInv, OnNewTcpConn
<1>2. \A i \in DOMAIN functors : Outdated(functors[i]) \in FunctorName
  BY <1>1 DEF Outdated, FunctorName
<1>3. Len(functors) \in Nat /\ DOMAIN functors = 1 .. Len(functors)
  BY <1>1
<1>4. functors' = [i \in 1 .. Len(functors) |-> Outdated(functors[i])]
  BY <1>1, <1>3
<1> QED BY <1>2, <1>3, <1>4

LEMMA StepGood ==
    ASSUME ClientInv, [Next]_vars
    PROVE  ClientInv' /\ NoStart(cn, cn')
<1>1. Good(cn) /\ functors \in Seq(FunctorName)
  BY DEF ClientInv
<1>2. ASSUME Step(cn, cn'), functors' \in Seq(FunctorName)
      PROVE  ClientInv' /\ NoStart(cn, cn')
  BY <1>2 DEF Step, ClientInv, Good, Placed, Watching, Settled, Closed
<1>3. CASE \/ OnCheckConn \/ CreateSocket \/ DoConnect \/ OnWriteEvent \/ OnEnableConnect
           \/ OnReadEvent \/ OnFlushed \/ OnError \/ OnErrorReturns \/ OnClose \/ CheckConn
           \/ TickHeart
  <2>1. Step(cn, cn')
    BY <1>1, <1>3, CheckConnGood, DoConnectGood, WriteEventGood, EnableConnectGood,
       ConnEventsGood, ClosesGood
  <2>2. functors' = functors
    BY <1>3 DEF OnCheckConn, CreateSocket, DoConnect, OnWriteEvent, OnEnableConnect,
       OnReadEvent, OnFlushed, OnError, OnErrorReturns, OnClose, CheckConn, TickHeart, LoopStep
  <2> QED BY <1>1, <1>2, <2>1, <2>2
<1>4. CASE OnNewTcpConn
  BY <1>1, <1>2, <1>4, NewTcpConnGood, NewTcpConnFunctors
<1>5. CASE RunFunctor
  BY <1>2, <1>5, FunctorGood
<1>6. CASE Answer
  <2>1. functors' = functors
    BY <1>6 DEF Answer
  <2> QED BY <1>1, <1>2, <1>6, <2>1, AnswerGood
<1>7. CASE Owner \/ PeerCloses \/ UNCHANGED vars
  <2>1. (cn' = cn \/ CloseSockFd) /\ functors' \in Seq(FunctorName)
    BY <1>1, <1>7, OthersGood DEF vars
  <2>2. Step(cn, cn')
    BY <1>1, <2>1, CloseSockFdGood DEF Step, NoStart, Calm
  <2> QED BY <1>2, <2>1, <2>2
<1> QED BY <1>3, <1>4, <1>5, <1>6, <1>7 DEF Next, Loop

LEMMA ClientInvariant == Spec => []ClientInv
<1>1. Init => ClientInv
  <2> SUFFICES ASSUME Init PROVE ClientInv
    OBVIOUS
  <2>1. cn = NewConnector /\ functors = <<>>
    BY DEF Init
  <2>2. NoConn \in Conns /\ NoConn.state = "none" /\ NoConn.interest = "none"
    BY DEF NoConn, Conns
  <2>3. cn \in Connectors
    BY <2>1, <2>2 DEF NewConnector, Connectors
  <2>4. /\ cn.state = "cltDisConnect" /\ cn.attempt = "none" /\ cn.watched = FALSE
        /\ cn.ended = FALSE /\ cn.at = "idle" /\ cn.conn = NoConn
    BY <2>1 DEF NewConnector
  <2>5. Placed(cn) /\ Watching(cn)
    BY <2>2, <2>4 DEF Placed, Settled, Watching, Closed
  <2> QED BY <2>1, <2>3, <2>5 DEF ClientInv, Good
<1> QED BY <1>1, StepGood, PTL DEF Spec

\* Outside of its handlers a connector is connected exactly while its connection
\* is open, and has a socket that tries only while it is connecting, also if the
\* owner closes the descriptor meanwhile (Connector.cpp), as long as no step met
\* the node that a reconnect leaves in _douList or a descriptor closed twice.
THEOREM StateFollowsConnCorrect == Spec => []StateFollowsConn
<1>1. ClientInv => StateFollowsConn
  BY DEF ClientInv, Good, Placed, Settled, StateFollowsConn
<1> QED BY <1>1, ClientInvariant, PTL

\* After DisConnect no attempt is made until Connect is called again
\* (Connector::DisConnect deletes the check timer).
THEOREM EndedMakesNoAttemptCorrect == Spec => EndedMakesNoAttempt
<1>1. ClientInv /\ [Next]_vars
         => [cn.ended => ~ (cn'.state = "cltConnecting" /\ cn.state # "cltConnecting")]_vars
  BY StepGood DEF NoStart, Calm
<1> QED BY <1>1, ClientInvariant, PTL DEF Spec, EndedMakesNoAttempt
=============================================================================
