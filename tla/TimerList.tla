------------------------------ MODULE TimerList ------------------------------
(***************************************************************************)
(* The timers of an event loop (Timer.cpp), as functions of a record       *)
(*   timer     the Timer objects made so far: id -> [stamp, interval]      *)
(*   que       _queTimer: pairs <<time stamp, id>>                         *)
(*   map       _mapFindTimer: the ids DelTimer can find                    *)
(*   left      time until the timerfd goes off, 0 when it is not armed     *)
(*   ready     it went off and was not read                                *)
(* Time stamps come from gettimeofday, the timerfd counts by a clock of    *)
(* its own that nobody can set.                                            *)
(***************************************************************************)
EXTENDS Integers, FiniteSets, FiniteSetsExt, SequencesExt

CONSTANTS
    TimerId,        \* ids of timers, in the order they are made
    Word,           \* keys of _mapFindTimer and delays are uint32_t: 2^32
    PerMs           \* units of a time stamp in a millisecond: 1000

NoTimers == [timer |-> <<>>, que |-> {}, map |-> {}, left |-> 0, ready |-> FALSE]

\* _after * 1000 and _interval * 1000 are products of uint32_t: a delay of more
\* than 71 minutes wraps.
Micros(ms) == (ms * PerMs) % Word

Stamp(tl, id) == tl.timer[id].stamp

Before(p, q) == p[1] < q[1] \/ (p[1] = q[1] /\ p[2] <= q[2])

\* _queTimer.begin()->second
First(tl) == (CHOOSE p \in tl.que : \A q \in tl.que : Before(p, q))[2]

\* timerfd_settime forgets an expiry that was not read.  MicTimeValue never
\* waits less than 100 microseconds.
ResetTimeFd(tl, stamp, now) ==
    [tl EXCEPT !.left = IF stamp - now < 1 THEN 1 ELSE stamp - now, !.ready = FALSE]

ReadTimerfd(tl) == [tl EXCEPT !.ready = FALSE]

DoInsertTimer(tl, id) ==
    [tl EXCEPT !.que = @ \cup {<<Stamp(tl, id), id>>}, !.map = @ \cup {id}]

\* Variant: a timer earlier than the first does not arm the timerfd.
InsertArmedLate(tl, id, now) ==
    IF tl.que = {} THEN ResetTimeFd(DoInsertTimer(tl, id), Stamp(tl, id), now)
    ELSE DoInsertTimer(tl, id)

InsertTimer(tl, id, now) ==
    IF tl.que = {} \/ Stamp(tl, id) < Stamp(tl, First(tl))
    THEN ResetTimeFd(DoInsertTimer(tl, id), Stamp(tl, id), now)
    ELSE DoInsertTimer(tl, id)

\* RunAt is RunEvery without an interval.
RunEvery(tl, after, interval, now) ==
    LET id == Len(tl.timer) + 1
        new == [stamp |-> now + Micros(after), interval |-> interval]
    IN  InsertTimer([tl EXCEPT !.timer = Append(@, new)], id, now)

\* Variant: the timer stays in the queue.
DelFromMap(tl, id) == [tl EXCEPT !.map = @ \ {id}]

\* The timerfd stays armed, and the object is never deleted.
DelTimer(tl, id) ==
    IF id \in tl.map
    THEN [tl EXCEPT !.que = @ \ {<<Stamp(tl, id), id>>}, !.map = @ \ {id}]
    ELSE tl

Expired(tl, now) == {p \in tl.que : p[1] <= now}

\* Keys that GetExpired erases from _mapFindTimer: the time stamps.
ErasedKeys(tl, now) == {p[1] % Word : p \in Expired(tl, now)}

GetExpired(tl, now) ==
    [tl EXCEPT !.que = @ \ Expired(tl, now), !.map = @ \ ErasedKeys(tl, now)]

\* The order of the timers GetExpired returns: that of the pairs.  The second
\* of a pair is an address, so timers of one time stamp come in any order.
ExpiredInAnyOrder(tl, now) == SetToSeqs(Expired(tl, now))

ExpiredInOrder(tl, now) ==
    {s \in SetToSeqs(Expired(tl, now)) : \A i, j \in DOMAIN s : i < j => s[i][1] <= s[j][1]}

\* Variant: the timer is back in the queue before it has its new time stamp.
RestartedStale(tl, id, now) ==
    IF tl.timer[id].interval > 0
    THEN [DoInsertTimer(tl, id) EXCEPT !.timer[id].stamp = now + Micros(tl.timer[id].interval)]
    ELSE tl

\* A timer with an interval starts again after its callback, deleted or not.
Restarted(tl, id, now) ==
    IF tl.timer[id].interval > 0
    THEN DoInsertTimer([tl EXCEPT !.timer[id].stamp = now + Micros(tl.timer[id].interval)], id)
    ELSE tl

\* Variant: the timerfd is left to InsertTimer.
RearmForgotten(tl, now) == tl

\* The end of OnTime.
Rearmed(tl, now) ==
    IF tl.que = {} THEN tl ELSE ResetTimeFd(tl, Stamp(tl, First(tl)), now)

\* One unit of time for the timerfd.
Elapsed(tl) ==
    [tl EXCEPT !.left = IF @ = 0 THEN 0 ELSE @ - 1, !.ready = @ \/ tl.left = 1]
=============================================================================
