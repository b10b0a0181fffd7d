------------------------------ MODULE Connector ------------------------------
(***************************************************************************)
(* A client's connection (Connector.cpp), as functions of its state: a     *)
(* record                                                                  *)
(*   state     _state                                                      *)
(*   attempt   the socket that connects in the background: "none",         *)
(*             "pending", "ready", "failed", "closed" (by the owner)       *)
(*   watched   _pEventObjConn waits for EPOLLOUT                           *)
(*   conn      _pConnPtr, in the words of TcpConn.tla                      *)
(*   timers    the timers that run, "check" and "heart"; Timer.tla shows   *)
(*             that they go off, and not after they were deleted           *)
(*   ready     NotifyWait::_bReady                                         *)
(*   exit      _bExit                                                      *)
(*   at        place of the loop's thread in this code                     *)
(*   ended     history: DisConnect ran, and OnEnableCheckConnect did not since   *)
(* RpcClient.tla turns the functions into steps; the descriptors and the   *)
(* loop's idle list are there.                                             *)
(***************************************************************************)
EXTENDS Naturals, Sequences

NoConn == [state |-> "none", interest |-> "none", retOut |-> FALSE, shut |-> FALSE]

NewConnector ==
    [state |-> "cltDisConnect", attempt |-> "none", watched |-> FALSE, conn |-> NoConn,
     timers |-> {}, ready |-> FALSE, exit |-> FALSE, at |-> "idle", ended |-> FALSE]

Closed(c) == c.conn.state \in {"none", "csDisConnected"}

-----------------------------------------------------------------------------
(* The connection. *)


\* TcpConn::HandleClose, OnClose and NotifyExit.  _bExit is never taken back.
HandleClose(c) ==
    IF Closed(c) THEN c
    ELSE [c EXCEPT !.state = "cltDisConnect", !.exit = TRUE,
                   !.conn.state = "csDisConnected", !.conn.interest = "none"]

Shutdown(c) ==
    IF c.conn.state # "csConnected" THEN c
    ELSE [c EXCEPT !.conn.state = "csDisConnecting", !.conn.shut = ~ c.conn.retOut]

\* What ::send leaves for later puts EPOLLOUT in the place of EPOLLIN.
Sent(c) ==
    IF c.conn.state # "csConnected" THEN {c}
    ELSE {c, [c EXCEPT !.conn.interest = IF @ = "none" THEN "none" ELSE "out"]}

\* What callbacks of the user leave behind: they may send, shut down and close.
Called(c) ==
    UNION {{d, Shutdown(d), HandleClose(d), HandleClose(Shutdown(d))} : d \in Sent(c)}

\* The last byte was sent, and EPOLLIN does not come back.
Flushed(c) == [c EXCEPT !.conn.interest = "off", !.conn.retOut = TRUE]

OnTickHeart(c) == IF c.state = "cltConnected" THEN Sent(c) ELSE {c}

-----------------------------------------------------------------------------
(* Connecting. *)

\* Variant: who was connected before is not connected again.
CanConnectOnce(c) == c.state = "cltDisConnect" /\ c.conn.state = "none"

\* OnCheckConn, up to the change of _state in DoConnect.
CanConnect(c) == c.state \notin {"cltConnected", "cltConnecting"}

TryConnect(c) == [c EXCEPT !.state = "cltConnecting", !.at = "connect"]

SocketMade(c) == [c EXCEPT !.at = "socket"]

\* socket() failed: DoConnect returns, and _state stays.
SocketFailed(c) == [c EXCEPT !.attempt = "none", !.at = "idle"]

\* connect() failed at once.
ConnectFailed(c) == [c EXCEPT !.attempt = "none", !.state = "cltDisConnect", !.at = "idle"]

\* Connecting: a new EventObj waits for the socket to become writable.
Connecting(c) == [c EXCEPT !.attempt = "pending", !.watched = TRUE, !.at = "idle"]

\* Variant: an error is taken for a connection that is there.
WriteEventResultsUnchecked(c) ==
    {[c EXCEPT !.watched = FALSE, !.state = "cltConnected", !.attempt = "none"],
     [c EXCEPT !.watched = FALSE, !.state = "cltConnected", !.at = "assign"]}

\* OnWriteEvent, up to the change of _state: the socket has an error, and stays
\* open until the owner closes it, or it has none.
WriteEventResults(c) ==
    {[c EXCEPT !.watched = FALSE, !.state = "cltDisConnect", !.attempt = "none"],
     [c EXCEPT !.watched = FALSE, !.state = "cltConnected", !.at = "assign"]}

\* What epoll reports of a socket that waits for EPOLLOUT.
ConnectEvents(c) ==
    CASE c.watched /\ c.attempt = "ready"  -> {"EPOLLOUT"}
      [] c.watched /\ c.attempt = "failed" -> {"EPOLLOUT", "EPOLLERR", "EPOLLHUP"}
      [] OTHER                             -> {}

\* EventObj::HandleEvent: a hang-up without EPOLLIN and an error go to handlers
\* that _pEventObjConn has not.
ConnectHandled(c) ==
    IF ConnectEvents(c) \cap {"EPOLLHUP", "EPOLLERR"} # {} THEN {c} ELSE WriteEventResults(c)

\* OnNewTcpConn: _pConnPtr, and with it the connection before, is replaced.
\* Nobody gave _iRetEvents a first value.
NewTcpConn(c, garbage) ==
    [c EXCEPT !.conn = [NoConn EXCEPT !.state = "csConnecting", !.retOut = garbage],
              !.attempt = "none", !.at = "enable"]

\* OnWriteEvent ends with Notify, also if EnableRead failed.
Notified(c) == [c EXCEPT !.ready = TRUE, !.at = "idle"]

\* OnEnableConnect with the user's callback.
EnableConnectResults(c) ==
    {Notified(r) :
        r \in Called([c EXCEPT !.conn.state = "csConnected", !.conn.interest = "in"])}

-----------------------------------------------------------------------------
(* Functors of the owner. *)

\* Variant: the check timer goes on.
TimersDisabledHalf == {"check"}

TimersDisabled == {}

\* A connector that is still connecting stays so: nothing watches its socket.
DisConnect(c) ==
    [Shutdown(c) EXCEPT !.timers = TimersDisabled, !.watched = FALSE, !.ended = TRUE]

Enable(c, timer) == [c EXCEPT !.timers = @ \cup {timer}]
=============================================================================
