------------------------------- MODULE TcpConn -------------------------------
(***************************************************************************)
(* The handlers of one connection (TcpConn.cpp, with the EventObj it       *)
(* registers in epoll, Epoll.cpp), as functions of the state its event     *)
(* loop keeps: handlers call each other and call back into the user, who   *)
(* calls connections again, all on the loop's thread, so one event is a    *)
(* chain of these functions.  TcpServer.tla makes a step of each.          *)
(*                                                                         *)
(* A loop is a record                                                      *)
(*   conn      the connections, see NewConn                                *)
(*   idle      _douList, from the head: least recently read first          *)
(*   vecFree   closed connections to be destroyed at the end of the lap    *)
(***************************************************************************)
EXTENDS Naturals, Sequences, SequencesExt

CONSTANTS
    Conn,           \* connections, numbered in the order they are accepted
    MaxAge          \* bound: larger ages are not told apart

\* interest is what epoll was last told: "none" when the socket is not in it,
\* "off" when it is, for errors and hang-ups only.
NewConn ==
    [state |-> "csConnecting",
     interest |-> "none",
     retOut |-> FALSE,          \* _iRetEvents & EPOLLOUT
     unsent |-> FALSE,          \* _oSndBuffer holds bytes
     shut |-> FALSE,            \* ::shutdown(SHUT_WR) was called
     age |-> 0,                 \* time since _lastAcTimestamp
     closes |-> 0,              \* calls of the user's OnClose
     late |-> FALSE]            \* a handler called back after OnClose

NoConn == [NewConn EXCEPT !.state = "none"]

Is(s, c, state) == s.conn[c].state = state

\* A handler calls back into the user, for another reason than OnClose.
Called(s, c) == [s EXCEPT !.conn[c].late = @ \/ s.conn[c].closes > 0]

-----------------------------------------------------------------------------
(* EventLoop::UpdateTimeTcpConn and the list of connections (DouList.tla). *)

\* Variant: the time stamp is new and the place in the list is the old one.
UpdateTimeOnly(s, c, age) == [s EXCEPT !.conn[c].age = age]

UpdateTimeTcpConn(s, c, age) ==
    [s EXCEPT !.conn[c].age = age, !.idle = Append(RemoveFirst(@, c), c)]

-----------------------------------------------------------------------------
(* Closing. *)

\* Out of epoll.
DisableAll(s, c) == [s EXCEPT !.conn[c].interest = "none"]

\* Variant: the state is not looked at.
HandleCloseAgain(s, c) ==
    [DisableAll(s, c) EXCEPT !.conn[c].state = "csDisConnected",
                             !.conn[c].closes = @ + 1,
                             !.vecFree = Append(@, c)]

\* DisableAll, then OnClose of the loop: vecFree, and the user's callback.  What
\* the user closes in it enters vecFree first in the code.
HandleClose(s, c) ==
    IF Is(s, c, "csDisConnected") THEN s
    ELSE [DisableAll(s, c) EXCEPT !.conn[c].state = "csDisConnected",
                                  !.conn[c].closes = @ + 1,
                                  !.vecFree = Append(@, c)]

\* IsWriteState asks what the last event was, not whether bytes are waiting.
OnShutdown(s, c) ==
    IF s.conn[c].retOut THEN s ELSE [s EXCEPT !.conn[c].shut = TRUE]

\* On the loop's thread RunInLoop calls OnShutdown at once.
Shutdown(s, c) ==
    IF Is(s, c, "csConnected")
    THEN OnShutdown([s EXCEPT !.conn[c].state = "csDisConnecting"], c)
    ELSE s

-----------------------------------------------------------------------------
(* Sending.  A send takes "all", a "part" (or nothing yet) or fails; and     *)
(* EnableWrite puts EPOLLOUT in the place of EPOLLIN.  A socket that was     *)
(* taken out of epoll is not put in again: EPOLL_CTL_MOD fails.              *)

SendResult == {"all", "part", "fail"}

Modified(interest, new) == IF interest = "none" THEN "none" ELSE new

Waiting(s, c) ==
    [s EXCEPT !.conn[c].unsent = TRUE, !.conn[c].interest = Modified(@, "out")]

SendInLoop(s, c, result) ==
    IF Is(s, c, "csConnected") /\ (s.conn[c].unsent \/ result = "part")
    THEN Waiting(s, c)
    ELSE s

\* DisableWrite takes EPOLLOUT away, and EPOLLIN does not come back.
Flushed(s, c) ==
    [s EXCEPT !.conn[c].unsent = FALSE, !.conn[c].interest = Modified(@, "off")]

OnWriteEvent(s, c, result) ==
    IF Is(s, c, "csDisConnected") \/ ~ s.conn[c].unsent \/ s.conn[c].shut \/ result # "all"
    THEN s
    ELSE IF Is(s, c, "csDisConnecting") THEN OnShutdown(Flushed(s, c), c)
    ELSE Flushed(s, c)

-----------------------------------------------------------------------------
(* What the user may call in a callback, of connection on. *)

UserCall == {"ForceClose", "Shutdown"} \cup SendResult

UserCalls(s, call, on) ==
    CASE call = "ForceClose"  -> HandleClose(s, on)
      [] call = "Shutdown"    -> Shutdown(s, on)
      [] call \in SendResult  -> SendInLoop(s, on, call)

-----------------------------------------------------------------------------
(* Events, up to the first callback; what the handler does after the last one. *)

\* Into epoll, when that succeeds; TcpServer.tla has the case that it fails.
EnableRead(s, c) == [s EXCEPT !.conn[c].interest = "in"]

OnEnableConnect(s, c) == Called([EnableRead(s, c) EXCEPT !.conn[c].state = "csConnected"], c)

\* Variant: the list learns of the connection with its first read only.
EnabledUnlinked(s, c) == UpdateTimeOnly(s, c, 0)

\* The stamp is taken from the clock, when the callback has returned.
Enabled(s, c) == UpdateTimeTcpConn(s, c, 0)

\* Bytes or an error from readv: either way the connection counts as active at
\* the time the batch began, and the codec looks at the buffer.
OnReadEvent(s, c, lag) == Called(UpdateTimeTcpConn(s, c, lag), c)

\* Variant: the connection is closed first.
OnErrorAfterClose(s, c) == Called(HandleClose(s, c), c)

OnErrorEvent(s, c) == Called(s, c)
=============================================================================
