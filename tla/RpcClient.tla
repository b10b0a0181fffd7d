------------------------------ MODULE RpcClient ------------------------------
(***************************************************************************)
(* A connector and its owner: the thread that connects, sends, closes and  *)
(* destroys it, as an RpcClient does with each of its channels             *)
(* (RpcClient.cpp) or a user with a single one (Connector.cpp), and the    *)
(* event loop.  _state and _pConnPtr are read by the owner while the loop  *)
(* writes them, and both close and assign _sockFd, in steps of their own.  *)
(* Of the other channels of an RpcClient only the number counts: their     *)
(* connections stand beside this one's in the loop's _douList.             *)
(***************************************************************************)
EXTENDS Connector

CONSTANTS
    ChannelNum,     \* _iChannelNum; this connector is channel 0
    MaxQueue        \* bound: functors queued by the owner

ASSUME RpcClientAssumption == ChannelNum \in Nat \ {0} /\ MaxQueue \in Nat \ {0}

VARIABLES
    cn,             \* the connector
    link,           \* what came from its peer: "up", "fin", "rst"
    functors,       \* queued on the loop by the owner
    running,        \* the loop was not stopped
    owner,          \* place of the owner's thread
    index,          \* _iChannelIndex
    fd,             \* what _sockFd names: "unset" (nothing yet), "attempt" (a socket
                    \* DoConnect made), "conn" (that of _pConnPtr), "stale" (a number
                    \* that was closed), "none" (-1)
    sock,           \* descriptor of _pConnPtr: "open", "closed" by the owner, "none"
    list,           \* connections of this connector in _douList: "conn" (_pConnPtr),
                    \* "freed" (one that is gone)
    fault           \* the process did something undefined

descriptors == <<fd, sock>>
vars == <<cn, link, functors, running, owner, index, descriptors, list, fault>>

Init ==
    /\ cn = NewConnector /\ link = "up" /\ functors = <<>> /\ running = TRUE
    /\ owner = "new" /\ index = 0
    /\ fd = "unset" /\ sock = "none" /\ list = {} /\ fault = FALSE

\* Undefined if it is so: the build may go on, or not.
MayFault(so) == fault' \in {FALSE, so}

\* AddNode and DelNode write into the neighbours in _douList.  Without another
\* channel the neighbour is the node that is gone.
Touched == LET gone == "freed" \in list IN fault' \in {gone, gone /\ ChannelNum = 1}

-----------------------------------------------------------------------------
(* The loop's thread. *)

LoopStep(pc, guard, results) ==
    /\ cn.at = pc /\ guard
    /\ cn' \in results
    /\ UNCHANGED <<link, functors, running, owner, index>>

Untouched == UNCHANGED <<descriptors, list, fault>>

OnCheckConn ==
    /\ LoopStep("idle", "check" \in cn.timers /\ CanConnect(cn), {TryConnect(cn)})
    /\ Untouched

\* _sockFd is overwritten, whatever it named.
CreateSocket ==
    /\ \/ LoopStep("connect", TRUE, {SocketFailed(cn)}) /\ fd' = "none"
       \/ LoopStep("connect", TRUE, {SocketMade(cn)}) /\ fd' = "attempt"
    /\ UNCHANGED <<sock, list, fault>>

\* connect() also fails if the owner closed _sockFd or took it back since; then
\* it is closed once more.
DoConnect ==
    /\ \/ LoopStep("socket", fd = "attempt", {Connecting(cn)}) /\ UNCHANGED <<fd, fault>>
       \/ /\ LoopStep("socket", TRUE, {ConnectFailed(cn)})
          /\ fd' = IF fd = "none" THEN "none" ELSE "stale"
          /\ MayFault(fd = "stale")
    /\ UNCHANGED <<sock, list>>

\* Of a descriptor that was taken back getsockopt() knows no success.
OnWriteEvent ==
    /\ LoopStep("idle", ConnectEvents(cn) # {}, ConnectHandled(cn))
    /\ fd = "none" => cn'.at # "assign"
    /\ Untouched

\* A functor SendInLoop holds the connection with a bare pointer.
Outdated(f) == IF f = "SendInLoop" THEN "stale" ELSE f

SockOf(f) == CASE f = "attempt" -> "open" [] f = "stale" -> "closed" [] f = "none" -> "none"

\* The destructor of the connection before closes its descriptor, which the owner
\* may have done already, and leaves its node where it is.
OnNewTcpConn ==
    /\ cn.at = "assign"
    /\ \E garbage \in BOOLEAN : cn' = NewTcpConn(cn, garbage)
    /\ link' = "up"
    /\ functors' = [i \in DOMAIN functors |-> Outdated(functors[i])]
    /\ owner' = IF owner = "push" THEN "pushStale" ELSE owner
    /\ sock' = SockOf(fd) /\ fd' = IF fd = "attempt" THEN "conn" ELSE fd
    /\ list' = IF list = {} THEN {} ELSE {"freed"}
    /\ MayFault(sock = "closed" \/ fd = "stale")
    /\ UNCHANGED <<running, index>>

\* UpdateTimeTcpConn links the connection, also one the callback has closed.
OnEnableConnect ==
    \/ LoopStep("enable", TRUE, {Notified(cn)}) /\ Untouched
    \/ /\ LoopStep("enable", sock = "open", EnableConnectResults(cn))
       /\ list' = list \cup {"conn"}
       /\ Touched /\ UNCHANGED descriptors

\* Packs, and what the user does with them; a bad one.
OnReadEvent ==
    LET read == [cn EXCEPT !.conn.retOut = FALSE]
    IN  /\ LoopStep("idle", cn.conn.interest = "in", Called(read))
        /\ Touched /\ UNCHANGED <<descriptors, list>>

OnFlushed ==
    /\ LoopStep("idle", cn.conn.interest = "out" /\ link # "rst", {Flushed(cn)})
    /\ Untouched

\* OnError writes _state before the user is called and HandleClose follows.
OnError ==
    /\ LoopStep("idle", link = "rst" /\ cn.conn.interest = "in",
                {[cn EXCEPT !.state = "cltDisConnect", !.at = "error"]})
    /\ Untouched

OnErrorReturns ==
    LoopStep("error", TRUE, {[HandleClose(cn) EXCEPT !.at = "idle"]}) /\ Untouched

\* Hang-ups are reported of a socket without EPOLLIN.  Nobody takes the closed
\* connection out of _douList.
OnClose ==
    /\ LoopStep("idle", cn.conn.interest # "none", {HandleClose(cn)})
    /\ Untouched
    /\ \/ link = "fin" /\ cn.conn.interest = "in"
       \/ link = "fin" /\ cn.conn.shut
       \/ link = "rst" /\ cn.conn.interest # "in"

\* CheckNodeList: nothing was read for DEF_CONN_TIME_OUT.  It comes to a node that
\* is gone before it comes to _pConnPtr, which was linked after it.
CheckConn ==
    /\ LoopStep("idle", list # {}, {IF "freed" \in list THEN cn ELSE HandleClose(cn)})
    /\ list' = list \cap {"freed"} /\ fault' = ("freed" \in list)
    /\ UNCHANGED descriptors

TickHeart == LoopStep("idle", "heart" \in cn.timers, OnTickHeart(cn)) /\ Untouched

Ran(f) ==
    CASE f = "OnEnableCheckConnect" -> {[Enable(cn, "check") EXCEPT !.ended = FALSE]}
      [] f = "OnEnableTickHeart"    -> {Enable(cn, "heart")}
      [] f = "DisConnect"           -> {DisConnect(cn)}
      [] f = "SendInLoop"           -> Sent(cn)
      [] f = "stale"                -> {cn}

RunFunctor ==
    /\ cn.at = "idle" /\ functors # <<>>
    /\ cn' \in Ran(Head(functors)) /\ functors' = Tail(functors)
    /\ fault' = (Head(functors) = "stale")
    /\ UNCHANGED <<link, running, owner, index, descriptors, list>>

\* A stopped loop runs nothing; a destroyed connector and a dead process end
\* the model.
Alive == ~ fault /\ owner # "gone"

Loop ==
    /\ running
    /\ \/ OnCheckConn \/ CreateSocket \/ DoConnect \/ OnWriteEvent \/ OnNewTcpConn
       \/ OnEnableConnect \/ OnReadEvent \/ OnFlushed \/ OnError \/ OnErrorReturns \/ OnClose
       \/ CheckConn \/ TickHeart \/ RunFunctor

-----------------------------------------------------------------------------
(* The owner's thread. *)

OwnerStep(pc, guard, next) ==
    /\ owner = pc /\ guard
    /\ owner' = next
    /\ UNCHANGED link /\ Untouched

Push(f) == Len(functors) < MaxQueue /\ functors' = Append(functors, f)

Connect ==
    /\ OwnerStep("new", TRUE, "wait")
    /\ Push("OnEnableCheckConnect")
    /\ UNCHANGED <<cn, running, index>>

\* Wait returns when _bReady is set, or after 500 ms.
Waited ==
    /\ OwnerStep("wait", TRUE, "use")
    /\ Push("OnEnableTickHeart")
    /\ UNCHANGED <<cn, running, index>>

\* Invoke compares the index before it raises it: it may be one too high.
PickIndex(i) == IF i >= ChannelNum THEN 0 ELSE i + 1

Invoke ==
    /\ OwnerStep("use", TRUE, "picked")
    /\ index' = PickIndex(index)
    /\ UNCHANGED <<cn, functors, running>>

\* Another caller raises it before this one reads it, outside of the lock.
OtherInvoke ==
    /\ OwnerStep("picked", TRUE, "picked")
    /\ index' = PickIndex(index)
    /\ UNCHANGED <<cn, functors, running>>

UseIndex ==
    /\ owner = "picked"
    /\ owner' = IF index = 0 THEN "send" ELSE "use"
    /\ fault' = (index = ChannelNum)
    /\ UNCHANGED <<cn, link, functors, running, index, descriptors, list>>

\* SendPack: it looks at _state, then at the connection's state, then queues.
SendPack == OwnerStep("use", TRUE, "send") /\ UNCHANGED <<cn, functors, running, index>>

LookAtState ==
    /\ OwnerStep("send", TRUE, IF cn.state = "cltConnected" THEN "look" ELSE "use")
    /\ UNCHANGED <<cn, functors, running, index>>

LookAtConn ==
    /\ OwnerStep("look", TRUE, IF cn.conn.state = "csConnected" THEN "push" ELSE "use")
    /\ UNCHANGED <<cn, functors, running, index>>

PushSend ==
    /\ owner \in {"push", "pushStale"} /\ owner' = "use"
    /\ Push(IF owner = "push" THEN "SendInLoop" ELSE "stale")
    /\ UNCHANGED <<cn, link, running, index>> /\ Untouched

\* The destructor of RpcClient ends the loop first, and closes the descriptor.
Stop ==
    /\ OwnerStep("use", cn.at = "idle", "stopped")
    /\ running' = FALSE
    /\ UNCHANGED <<cn, functors, index>>

\* Close looks at _state.  A connector between two attempts is not told to end:
\* its descriptor is closed, and its timers run on.
Close(pc, next, closing) ==
    /\ OwnerStep(pc, TRUE, IF cn.state = "cltDisConnect" THEN closing ELSE next)
    /\ IF cn.state = "cltDisConnect" THEN UNCHANGED functors ELSE Push("DisConnect")
    /\ UNCHANGED <<cn, running, index>>

\* The owner may connect again.
CloseByUser == Close("use", "new", "closing")

Destroy == Close("use", "waitExit", "destroying") \/ Close("destroy", "waitExit", "destroying")

\* close(_sockFd): of whatever it names by then, an attempt or a connection of the
\* loop too, and epoll forgets it.
CloseFd(pc, closed, next) ==
    /\ owner = pc
    /\ IF fd = "none" THEN owner' = next /\ fd' = fd ELSE owner' = closed /\ fd' = "stale"
    /\ sock' = IF fd = "conn" THEN "closed" ELSE sock
    /\ cn' = CASE (fd = "attempt" /\ cn.attempt # "none") -> [cn EXCEPT !.attempt = "closed"]
               [] fd = "conn" -> [cn EXCEPT !.conn.interest = "none"]
               [] OTHER -> cn
    /\ MayFault(fd \in {"unset", "stale"} \/ (fd = "conn" /\ ~ Closed(cn)))
    /\ UNCHANGED <<link, functors, running, index, list>>

\* _sockFd = -1, whatever the loop wrote there since.
ForgetFd(pc, next) ==
    /\ owner = pc /\ owner' = next
    /\ fd' = "none"
    /\ UNCHANGED <<cn, link, functors, running, index, sock, list, fault>>

CloseSockFd ==
    \/ CloseFd("closing", "closed", "new") \/ ForgetFd("closed", "new")
    \/ CloseFd("destroying", "destroyed", "waitExit") \/ ForgetFd("destroyed", "waitExit")
    \/ CloseFd("stopped", "stoppedClosed", "destroy") \/ ForgetFd("stoppedClosed", "destroy")

WaitExit ==
    /\ OwnerStep("waitExit", cn.exit, "gone")
    /\ UNCHANGED <<cn, functors, running, index>>

Owner ==
    \/ Connect \/ Waited \/ Invoke \/ OtherInvoke \/ UseIndex \/ SendPack \/ LookAtState \/ LookAtConn
    \/ PushSend \/ Stop \/ CloseByUser \/ Destroy \/ CloseSockFd \/ WaitExit

-----------------------------------------------------------------------------
(* The network. *)

Answer ==
    /\ cn.attempt = "pending"
    /\ \E answer \in {"ready", "failed"} : cn' = [cn EXCEPT !.attempt = answer]
    /\ UNCHANGED <<link, functors, running, owner, index>> /\ Untouched

PeerCloses ==
    /\ link = "up" /\ ~ Closed(cn)
    /\ link' \in {"fin", "rst"}
    /\ UNCHANGED <<cn, functors, running, owner, index>> /\ Untouched

Next == Alive /\ (Loop \/ Owner \/ Answer \/ PeerCloses)

Spec == Init /\ [][Next]_vars

\* The loop handles its functors, the events that epoll goes on reporting, and
\* its timers in the end, and time passes for a connection of which nothing can be
\* read; the network answers, a peer closes after us, and who waits for _bExit
\* wakes.
FairSpec ==
    /\ Spec
    /\ WF_vars(Alive /\ running /\ RunFunctor) /\ WF_vars(Alive /\ running /\ (CreateSocket \/ DoConnect))
    /\ WF_vars(Alive /\ running /\ (OnNewTcpConn \/ OnEnableConnect \/ OnErrorReturns))
    /\ SF_vars(Alive /\ running /\ OnCheckConn) /\ SF_vars(Alive /\ running /\ OnWriteEvent)
    /\ SF_vars(Alive /\ running /\ (OnClose \/ OnError))
    /\ SF_vars(Alive /\ running /\ cn.conn.interest = "none" /\ CheckConn)
    /\ WF_vars(Alive /\ Answer) /\ WF_vars(Alive /\ cn.conn.shut /\ PeerCloses)
    /\ WF_vars(Alive /\ WaitExit)

-----------------------------------------------------------------------------
(* Properties. *)

\* The connector's state is that of its connection, whatever the owner closes
\* meanwhile: outside of its handlers it calls itself connected exactly while a
\* connection is open, and tries only when none is.
StateFollowsConn ==
    cn.at = "idle" =>
        /\ cn.state = "cltConnected" <=> ~ Closed(cn)
        /\ cn.attempt # "none" => cn.state = "cltConnecting"

\* DisConnect is the end: no attempt is made after it until Connect is called.
EndedMakesNoAttempt ==
    [][cn.ended => ~ (cn'.state = "cltConnecting" /\ cn.state # "cltConnecting")]_vars

\* A connector that lost its connection or was refused tries again, while its
\* timer runs.
Retries ==
    cn.state = "cltDisConnect" /\ "check" \in cn.timers /\ cn.at = "idle"
        ~> \/ cn.state # "cltDisConnect" \/ "check" \notin cn.timers
           \/ ~ running \/ fault \/ owner = "gone"


\* "err %d, try conn": an attempt that failed is followed by another.
FailedIsRetried ==
    cn.attempt = "failed" /\ "check" \in cn.timers
        ~> \/ cn.attempt # "failed" \/ "check" \notin cn.timers
           \/ ~ running \/ fault \/ owner = "gone"
=============================================================================
