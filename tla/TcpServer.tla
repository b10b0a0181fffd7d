------------------------------ MODULE TcpServer ------------------------------
(***************************************************************************)
(* The life of the connections of a TcpServer: the thread that accepts     *)
(* them (TcpServer::OnRead, EventLoop::EnableConnect), the event loop that *)
(* serves them until they are closed, found idle and destroyed             *)
(* (EventLoop::Run, OnClose, FreeVecConn, DestoryConn), their peers, and,  *)
(* if asked for, a thread of the user that calls them.  Loops share nothing  *)
(* but the connection count, so one loop is modelled.                      *)
(*                                                                         *)
(* RunInLoop is the queue that TaskQueue.tla specifies and EventLoop.tla   *)
(* implements.  Time is discrete; ages are kept instead of time stamps.    *)
(* A handler that calls back is a step up to the callback, a step for each *)
(* call the user makes in it, and a step that returns.                     *)
(*                                                                         *)
(* std::map is used by both threads without a lock.  A run that erases     *)
(* from it while the other thread inserts is undefined: it sets raced, and *)
(* the model stops there.                                                  *)
(***************************************************************************)
EXTENDS TcpConn, FiniteSets

CONSTANTS
    Settings,           \* servers and users of them to model, see below
    MaxCount,           \* largest value of _iCurConnCount (uint64_t)
    DEF_CONN_TIME_OUT,  \* idle time before a connection is closed (90 s)
    MaxQueue            \* bound: functors queued when another thread calls

ASSUME TcpServerAssumption ==
    /\ IsFiniteSet(Conn) /\ Conn = 1 .. Cardinality(Conn)
    /\ MaxCount \in Nat /\ DEF_CONN_TIME_OUT \in Nat /\ MaxQueue \in Nat
    /\ \A g \in Settings :
          /\ g.limit \in Nat /\ g.limit < MaxCount
          /\ g.maxLag \in Nat /\ MaxAge > DEF_CONN_TIME_OUT + g.maxLag
          /\ g.reach \in {"own", "any"} /\ g.foreign \in BOOLEAN

VARIABLES
    given,          \* limit: DEF_MAX_CONN_NUM, connections accepted at a time
                    \* maxLag: bound, time that one lap of the loop may take
                    \* reach: callbacks call their "own" connection, or "any"
                    \* foreign: another thread calls connections
    io,             \* the loop: see TcpConn
    pc,             \* "wait", "events", "functors", "check", "free"
    batch,          \* events of this lap not handled yet: connection -> event
    inside,         \* handler whose callback runs: [conn, event]
    lag,            \* time since liNowTime of this lap
    functors,       \* _vecFunctor: [kind, conn]
    running,        \* functors swapped out of it and not run yet
    mapConn,        \* _mapConn
    acceptPc,       \* "wait", "check", "insert", "queue"
    created,        \* _iConnId
    curCount,       \* _iCurConnCount
    raced,          \* _mapConn was changed by two threads at once
    sock,           \* what the peer has done: "quiet", "data", "fin", "rst", "dead"
    held,           \* connections the foreign thread keeps a TcpConnPtr of
    foreign         \* the call it is in: [kind, conn]

loopVars == <<io, pc, batch, inside, lag, running>>
acceptVars == <<acceptPc, created>>
sharedVars == <<functors, mapConn, curCount, raced>>
vars == <<given, loopVars, acceptVars, sharedVars, sock, held, foreign>>

NoCall == [kind |-> "none", conn |-> 0]
NoHandler == [conn |-> 0, event |-> "none"]

Init ==
    /\ given \in Settings
    /\ io = [conn |-> [c \in Conn |-> NoConn], idle |-> <<>>, vecFree |-> <<>>]
    /\ pc = "wait" /\ batch = <<>> /\ inside = NoHandler /\ lag = 0
    /\ functors = <<>> /\ running = <<>>
    /\ mapConn = {}
    /\ acceptPc = "wait" /\ created = 0 /\ curCount = 0 /\ raced = FALSE
    /\ sock = [c \in Conn |-> "quiet"]
    /\ held = {} /\ foreign = NoCall

-----------------------------------------------------------------------------
(* TcpServer::OnRead, on the accept thread. *)

\* accept() and the increment; the bound is on connections ever created.
Accept ==
    /\ acceptPc = "wait" /\ created < Cardinality(Conn)
    /\ curCount' = (curCount + 1) % (MaxCount + 1)
    /\ acceptPc' = "check"
    /\ UNCHANGED <<loopVars, created, functors, mapConn, raced, sock, held, foreign>>

\* Variant: the increment is kept when the connection is refused.
RefuseKeepsCount ==
    /\ acceptPc = "check" /\ curCount > given.limit
    /\ acceptPc' = "wait"
    /\ UNCHANGED <<loopVars, created, sharedVars, sock, held, foreign>>

Refuse ==
    /\ acceptPc = "check" /\ curCount > given.limit
    /\ curCount' = curCount - 1
    /\ acceptPc' = "wait"
    /\ UNCHANGED <<loopVars, created, functors, mapConn, raced, sock, held, foreign>>

\* The connection is made; EnableConnect begins to insert it.
Create ==
    /\ acceptPc = "check" /\ curCount <= given.limit
    /\ created' = created + 1
    /\ io' = [io EXCEPT !.conn[created + 1] = NewConn]
    /\ acceptPc' = "insert"
    /\ UNCHANGED <<pc, batch, inside, lag, running, sharedVars, sock, held, foreign>>

Insert ==
    /\ acceptPc = "insert"
    /\ mapConn' = mapConn \cup {created}
    /\ acceptPc' = "queue"
    /\ UNCHANGED <<loopVars, created, functors, curCount, raced, sock, held, foreign>>

\* RunInLoop of OnEnableConnect with the bare pointer; OnRead returns and its
\* TcpConnPtr is gone.
Queue ==
    /\ acceptPc = "queue"
    /\ functors' = Append(functors, [kind |-> "OnEnableConnect", conn |-> created])
    /\ acceptPc' = "wait"
    /\ UNCHANGED <<loopVars, created, mapConn, curCount, raced, sock, held, foreign>>

AcceptThread == Accept \/ Refuse \/ Create \/ Insert \/ Queue

-----------------------------------------------------------------------------
(* Peers and the kernel.  What a peer does before its connection is in       *)
(* _mapConn is seen only later.                                              *)

PeerSends(c) == sock[c] = "quiet" /\ sock' = [sock EXCEPT ![c] = "data"]

PeerCloses(c) == sock[c] = "quiet" /\ sock' = [sock EXCEPT ![c] = "fin"]

PeerResets(c) == sock[c] \in {"quiet", "data", "fin"} /\ sock' = [sock EXCEPT ![c] = "rst"]

Peer ==
    /\ \E c \in mapConn : PeerSends(c) \/ PeerCloses(c) \/ PeerResets(c)
    /\ UNCHANGED <<loopVars, acceptVars, sharedVars, held, foreign>>

\* What HandleEvent makes of the events epoll reports of a connection: a hang-up
\* or an error counts as such only in the order the code looks at them.
HungUp(c) == sock[c] = "dead" \/ (sock[c] = "fin" /\ io.conn[c].shut)

Events(c) ==
    LET interest == io.conn[c].interest IN
    CASE interest = "none" -> {}
      [] interest # "none" /\ sock[c] = "rst" -> {IF interest = "in" THEN "error" ELSE "close"}
      [] interest # "none" /\ HungUp(c) -> {IF interest = "in" THEN "read" ELSE "close"}
      [] interest = "in" /\ sock[c] \in {"data", "fin"} /\ ~ HungUp(c) -> {"read"}
      [] interest = "out" /\ sock[c] \notin {"rst", "dead"} /\ ~ HungUp(c) -> {"write"}
      [] OTHER -> {}

-----------------------------------------------------------------------------
(* EventLoop::Run. *)

\* epoll_wait returns: with what is ready, or with the timeout or the eventfd.
Wait ==
    /\ pc = "wait"
    /\ batch' = [c \in {d \in Conn : Events(d) # {}} |-> CHOOSE e \in Events(c) : TRUE]
    /\ lag' = 0
    /\ pc' = "events"
    /\ UNCHANGED <<io, inside, running, acceptVars, sharedVars, sock, held, foreign>>

\* SetRetEvents and HandleEvent of one event.
Handling(c, event) ==
    /\ pc = "events" /\ inside = NoHandler
    /\ c \in DOMAIN batch /\ batch[c] = event
    /\ batch' = [d \in DOMAIN batch \ {c} |-> batch[d]]
    /\ UNCHANGED <<pc, lag, running, acceptVars, sharedVars, held, foreign>>

Returned(c, event) == [io EXCEPT !.conn[c].retOut = (event = "write")]

CallsBack(c, event) == inside' = [conn |-> c, event |-> event]

\* HandleClose, with s for io: OnClose is the callback, if it comes.
Closes(s, c) ==
    /\ io' = HandleClose(s, c)
    /\ IF Is(s, c, "csDisConnected") THEN inside' = NoHandler ELSE CallsBack(c, "close")

\* readv has something to say: bytes, or the error of a reset that came after
\* epoll_wait, which leaves a dead socket.
HandleRead(c) ==
    /\ Handling(c, "read")
    /\ sock[c] \in {"data", "rst"}
    /\ sock' = [sock EXCEPT ![c] = IF @ = "data" THEN "quiet" ELSE "dead"]
    /\ io' = OnReadEvent(Returned(c, "read"), c, lag) /\ CallsBack(c, "read")

HandleReadEnd(c) ==
    /\ Handling(c, "read")
    /\ sock[c] \in {"fin", "dead"}
    /\ Closes(Returned(c, "read"), c)
    /\ UNCHANGED sock

HandleWrite(c) ==
    /\ Handling(c, "write")
    /\ \E result \in SendResult : io' = OnWriteEvent(Returned(c, "write"), c, result)
    /\ UNCHANGED <<inside, sock>>

HandleHangUp(c) ==
    /\ Handling(c, "close")
    /\ Closes(Returned(c, "close"), c)
    /\ UNCHANGED sock

HandleError(c) ==
    /\ Handling(c, "error")
    /\ io' = OnErrorEvent(Returned(c, "error"), c) /\ CallsBack(c, "error")
    /\ UNCHANGED sock

\* Connections the user was given a TcpConnPtr of.
Known ==
    {c \in mapConn \cup held : io.conn[c].state \notin {"none", "csConnecting"}}

\* Those the callbacks of c may call.
Reach(c) == IF given.reach = "own" THEN Known \cap {c} ELSE Known

\* The user calls connections in a callback: in one for each pack of a read, also
\* after one of them has closed the connection; in OnClose, also of a connection
\* that is closed here.
CallInside ==
    /\ inside # NoHandler
    /\ \E call \in UserCall, on \in Reach(inside.conn) : io' = UserCalls(io, call, on)
    /\ UNCHANGED <<pc, batch, inside, lag, running, acceptVars, sharedVars, sock, held, foreign>>

\* The codec may report a bad flag after the packs before it; OnErrorEvent closes
\* the connection when OnError has returned.
ReturnClosing ==
    /\ inside.event \in {"read", "error"}
    /\ Closes(io, inside.conn)
    /\ UNCHANGED <<pc, batch, lag, running, acceptVars, sharedVars, sock, held, foreign>>

Return ==
    /\ inside.event \in {"read", "close", "connect"}
    /\ io' = IF inside.event = "connect" THEN Enabled(io, inside.conn) ELSE io
    /\ inside' = NoHandler
    /\ UNCHANGED <<pc, batch, lag, running, acceptVars, sharedVars, sock, held, foreign>>

\* DoPendingFunctor swaps the queue.
SwapFunctors ==
    /\ pc = "events" /\ inside = NoHandler /\ DOMAIN batch = {}
    /\ pc' = "functors"
    /\ running' = functors /\ functors' = <<>>
    /\ UNCHANGED <<io, batch, inside, lag, acceptVars, mapConn, curCount, raced, sock, held, foreign>>

RunningKind(kind) ==
    /\ pc = "functors" /\ inside = NoHandler
    /\ running # <<>> /\ Head(running).kind = kind

\* EnableRead may fail: the connection stays as it was created.
RunEnableFails ==
    /\ RunningKind("OnEnableConnect")
    /\ running' = Tail(running)
    /\ UNCHANGED <<io, pc, batch, inside, lag, acceptVars, sharedVars, sock, held, foreign>>

\* The user may keep the TcpConnPtr that OnConnect gets.
RunEnable ==
    /\ RunningKind("OnEnableConnect")
    /\ LET c == Head(running).conn IN
          /\ io' = OnEnableConnect(io, c) /\ CallsBack(c, "connect")
          /\ held' \in {held} \cup (IF given.foreign THEN {held \cup {c}} ELSE {})
    /\ running' = Tail(running)
    /\ UNCHANGED <<pc, batch, lag, acceptVars, sharedVars, sock, foreign>>

RunShutdown ==
    /\ RunningKind("OnShutdown")
    /\ io' = OnShutdown(io, Head(running).conn)
    /\ running' = Tail(running)
    /\ UNCHANGED <<pc, batch, inside, lag, acceptVars, sharedVars, sock, held, foreign>>

RunSend ==
    /\ RunningKind("SendInLoop")
    /\ \E result \in SendResult : io' = SendInLoop(io, Head(running).conn, result)
    /\ running' = Tail(running)
    /\ UNCHANGED <<pc, batch, inside, lag, acceptVars, sharedVars, sock, held, foreign>>

FunctorsDone ==
    /\ pc = "functors" /\ inside = NoHandler /\ running = <<>>
    /\ pc' = "check"
    /\ UNCHANGED <<io, batch, inside, lag, running, acceptVars, sharedVars, sock, held, foreign>>

\* FilterDisTcpConn: liNowTime > last time stamp + DEF_CONN_TIME_OUT.
HeadExpired ==
    io.idle # <<>> /\ io.conn[Head(io.idle)].age > DEF_CONN_TIME_OUT + lag

\* CheckNodeList: from the head of the list, as long as the head is expired.
CheckTimeout ==
    /\ pc = "check" /\ inside = NoHandler /\ HeadExpired
    /\ Closes([io EXCEPT !.idle = Tail(@)], Head(io.idle))
    /\ UNCHANGED <<pc, batch, lag, running, acceptVars, sharedVars, sock, held, foreign>>

CheckDone ==
    /\ pc = "check" /\ inside = NoHandler /\ ~ HeadExpired
    /\ pc' = "free"
    /\ UNCHANGED <<io, batch, inside, lag, running, acceptVars, sharedVars, sock, held, foreign>>

\* Variant: the connection is left in the list of idle connections.
DestoryKeepsNode ==
    /\ pc = "free" /\ io.vecFree # <<>>
    /\ io' = [io EXCEPT !.vecFree = Tail(@)]
    /\ mapConn' = mapConn \ {Head(io.vecFree)}
    /\ curCount' = (curCount + MaxCount) % (MaxCount + 1)
    /\ raced' = (acceptPc = "insert")
    /\ UNCHANGED <<pc, batch, inside, lag, running, functors, acceptVars, sock, held, foreign>>

\* FreeVecConn destroys the connections one by one.
DestoryConn ==
    /\ pc = "free" /\ io.vecFree # <<>>
    /\ io' = [io EXCEPT !.vecFree = Tail(@), !.idle = RemoveFirst(@, Head(io.vecFree))]
    /\ mapConn' = mapConn \ {Head(io.vecFree)}
    /\ curCount' = (curCount + MaxCount) % (MaxCount + 1)
    /\ raced' = (acceptPc = "insert")
    /\ UNCHANGED <<pc, batch, inside, lag, running, functors, acceptVars, sock, held, foreign>>

\* Variant: a closed connection is never handed to DestoryConn.
FreeForgets ==
    /\ pc = "free"
    /\ pc' = "wait"
    /\ io' = [io EXCEPT !.vecFree = <<>>]
    /\ UNCHANGED <<batch, inside, lag, running, acceptVars, sharedVars, sock, held, foreign>>

FreeDone ==
    /\ pc = "free" /\ io.vecFree = <<>>
    /\ pc' = "wait"
    /\ UNCHANGED <<io, batch, inside, lag, running, acceptVars, sharedVars, sock, held, foreign>>

LoopThread ==
    \/ Wait
    \/ \E c \in Conn : HandleRead(c) \/ HandleReadEnd(c) \/ HandleWrite(c)
                       \/ HandleHangUp(c) \/ HandleError(c)
    \/ CallInside \/ ReturnClosing \/ Return
    \/ SwapFunctors \/ RunEnable \/ RunEnableFails \/ RunShutdown \/ RunSend
    \/ FunctorsDone \/ CheckTimeout \/ CheckDone \/ DestoryConn \/ FreeDone

-----------------------------------------------------------------------------
(* A thread of the user: the state is looked at here and changed a step later. *)

ForeignCalls(kind, c) ==
    /\ foreign = NoCall /\ Len(functors) < MaxQueue
    /\ c \in held /\ io.conn[c].state = "csConnected"
    /\ foreign' = [kind |-> kind, conn |-> c]
    /\ UNCHANGED <<loopVars, acceptVars, sharedVars, sock, held>>

ForeignShutdown ==
    /\ foreign.kind = "OnShutdown"
    /\ io' = [io EXCEPT !.conn[foreign.conn].state = "csDisConnecting"]
    /\ functors' = Append(functors, foreign)
    /\ foreign' = NoCall
    /\ UNCHANGED <<pc, batch, inside, lag, running, acceptVars, mapConn, curCount, raced, sock, held>>

ForeignSend ==
    /\ foreign.kind = "SendInLoop"
    /\ functors' = Append(functors, foreign)
    /\ foreign' = NoCall
    /\ UNCHANGED <<loopVars, acceptVars, mapConn, curCount, raced, sock, held>>

\* SendInLoop is queued with the bare pointer, so the caller has to keep its
\* TcpConnPtr until the functor has run: Connector does, others may not know.
ForeignDrops(c) ==
    /\ c \in held /\ foreign = NoCall
    /\ \A i \in 1 .. Len(functors) : functors[i] # [kind |-> "SendInLoop", conn |-> c]
    /\ \A i \in 1 .. Len(running) : running[i] # [kind |-> "SendInLoop", conn |-> c]
    /\ held' = held \ {c}
    /\ UNCHANGED <<loopVars, acceptVars, sharedVars, sock, foreign>>

ForeignThread ==
    \/ \E kind \in {"OnShutdown", "SendInLoop"}, c \in Conn : ForeignCalls(kind, c)
    \/ ForeignShutdown
    \/ ForeignSend
    \/ \E c \in Conn : ForeignDrops(c)

-----------------------------------------------------------------------------
\* The clock.  A lap takes at most maxLag.  The age of a connection matters as
\* long as it is open or in the list of idle ones.
Ages(c) == io.conn[c].interest # "none" \/ c \in ToSet(io.idle)

Aged(c) ==
    LET age == io.conn[c].age IN
    IF Ages(c) /\ age <= DEF_CONN_TIME_OUT + given.maxLag THEN age + 1 ELSE age

Tick ==
    /\ pc # "wait" => lag < given.maxLag
    /\ lag' = IF pc = "wait" THEN 0 ELSE lag + 1
    /\ io' = [io EXCEPT !.conn = [c \in Conn |-> [@[c] EXCEPT !.age = Aged(c)]]]
    /\ UNCHANGED <<pc, batch, inside, running, acceptVars, sharedVars, sock, held, foreign>>

Next ==
    /\ ~ raced
    /\ AcceptThread \/ LoopThread \/ ForeignThread \/ Peer \/ Tick
    /\ UNCHANGED given

Spec == Init /\ [][Next]_vars

\* The threads run, and time passes however busy the loop is.
FairSpec ==
    /\ Spec
    /\ WF_vars(~ raced /\ LoopThread /\ UNCHANGED given)
    /\ WF_vars(~ raced /\ AcceptThread /\ UNCHANGED given)
    /\ SF_vars(~ raced /\ Tick /\ UNCHANGED given)

-----------------------------------------------------------------------------
\* The user is told once that a connection is closed, whoever closes it: the
\* peer, a callback, the idle check, several of them in one lap
\* (TcpConn::HandleClose).  A thread of the user that calls Shutdown at that
\* moment undoes this (see the README).
ClosedOnce == ~ given.foreign => \A c \in Conn : io.conn[c].closes <= 1

\* A connection that was closed calls back no more: no event of the same batch, of
\* a later one or of a queued functor is handled after its OnClose, up to the
\* callbacks of the handler that OnClose came in, which may go on with the packs
\* of its read (TcpConn::OnReadEvent, OnErrorEvent, OnEnableConnect).
QuietAfterClose == \A c \in Conn : ~ io.conn[c].late

\* _iCurConnCount counts the connections the server has, one more while OnRead
\* decides on a new one; so it neither refuses connections it has room for nor
\* keeps more than DEF_MAX_CONN_NUM (TcpServer::OnRead, OnDecConnNum).
CountMatches ==
    /\ curCount = Cardinality(mapConn) + (IF acceptPc \in {"check", "insert"} THEN 1 ELSE 0)
    /\ Cardinality(mapConn) <= given.limit

\* Somebody holds a TcpConnPtr of the connection.
Alive(c) ==
    \/ c \in mapConn \cup held \cup ToSet(io.vecFree)
    \/ c = created /\ acceptPc \in {"insert", "queue"}
    \/ [kind |-> "OnShutdown", conn |-> c] \in ToSet(functors) \cup ToSet(running)

\* The bare pointers (in the list of idle connections, in the events of the
\* batch, in the handler that called back, in the functors of OnEnableConnect and
\* SendInLoop) are of connections that still exist.
NoDanglingPointer ==
    \A c \in ToSet(io.idle) \cup DOMAIN batch \cup ({inside.conn} \ {0})
             \cup {f.conn : f \in ToSet(functors) \cup ToSet(running)} : Alive(c)

\* The list of idle connections is in the order of their time stamps, so that
\* CheckNodeList may stop at the first that has not expired; and it holds every
\* connection that has not been closed, but for one whose OnConnect runs.
IdleListInOrder ==
    /\ \A i, j \in 1 .. Len(io.idle) :
          i < j => /\ io.idle[i] # io.idle[j]
                   /\ io.conn[io.idle[i]].age >= io.conn[io.idle[j]].age
    /\ \A c \in Conn :
          io.conn[c].state \in {"csConnected", "csDisConnecting"} /\ io.conn[c].closes = 0
             => c \in ToSet(io.idle) \/ inside = [conn |-> c, event |-> "connect"]

\* A connection that is closed is destroyed: its socket is closed, its place in
\* the count is given back.
ClosedIsDestroyed ==
    \A c \in Conn : Is(io, c, "csDisConnected") ~> (raced \/ c \notin mapConn)

\* A connection on which nothing more is read is closed in the end, even one
\* that epoll is no longer asked to read from, and one that is shutting down.
IdleIsClosed ==
    \A c \in Conn :
        io.conn[c].interest # "none" /\ io.conn[c].age > lag
            ~> (raced \/ io.conn[c].interest = "none" \/ io.conn[c].age <= lag)
=============================================================================
