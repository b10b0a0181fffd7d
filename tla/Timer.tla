-------------------------------- MODULE Timer --------------------------------
(***************************************************************************)
(* TimerList (Timer.cpp) on the thread of its event loop: laps of the loop *)
(* in which handlers start and delete timers, OnTime with a callback for   *)
(* each expired timer, callbacks that start and delete timers themselves.  *)
(* The time of day may be set back while timers wait.                      *)
(***************************************************************************)
EXTENDS TimerList

CONSTANTS
    MaxTime,        \* bound: the time of day stays there in the end
    Afters,         \* delays asked of RunAt and RunEvery, in milliseconds
    Intervals       \* intervals of RunEvery, and 0 for RunAt

ASSUME TimerAssumption ==
    /\ TimerId \subseteq Nat \ {0} /\ Word \in Nat \ {0} /\ PerMs \in Nat \ {0}
    /\ MaxTime \in Nat /\ Afters \subseteq Nat /\ Intervals \subseteq Nat

VARIABLES
    tl,             \* the TimerList
    now,            \* the time of day
    at,             \* liNowTime of the lap: the time OnTime is given
    pc,             \* "wait", "lap", "callback"
    event,          \* the timerfd is among the events of the lap
    batch,          \* timers GetExpired returned and not called yet
    stepped,        \* the time of day was set back
    last,           \* history: time stamp of the timer called last
    deleted,        \* history: timers deleted where DelTimer reaches them
    lost            \* history: waiting timers whose key was erased

vars == <<tl, now, at, pc, event, batch, stepped, last, deleted, lost>>

Init ==
    /\ tl = NoTimers /\ now = 0 /\ at = 0 /\ pc = "wait" /\ event = FALSE
    /\ batch = <<>> /\ stepped = FALSE /\ last = 0 /\ deleted = {} /\ lost = {}

\* The timer whose callback runs is the first of the batch.
Called == IF pc = "callback" THEN batch[1][2] ELSE 0

InBatch == {batch[i][2] : i \in DOMAIN batch}

-----------------------------------------------------------------------------
(* Laps of the loop.  epoll_wait may return for other descriptors too. *)

Wake ==
    /\ pc = "wait"
    /\ pc' = "lap" /\ at' = now /\ event' = tl.ready
    /\ UNCHANGED <<tl, now, batch, stepped, last, deleted, lost>>

Sleep ==
    /\ pc = "lap" /\ ~ event
    /\ pc' = "wait" /\ at' = 0
    /\ UNCHANGED <<tl, now, event, batch, stepped, last, deleted, lost>>

\* Handlers of other descriptors, functors, and callbacks of timers.
Start(after, interval) ==
    /\ pc # "wait" /\ Len(tl.timer) + 1 \in TimerId
    /\ tl' = RunEvery(tl, after, interval, now)
    /\ UNCHANGED <<now, at, pc, event, batch, stepped, last, deleted, lost>>

\* DelTimer takes effect unless the timer is in the batch: OnTime calls it all
\* the same and starts it again, or unless its key was erased for another.
Delete(id) ==
    /\ pc # "wait" /\ id <= Len(tl.timer)
    /\ tl' = DelTimer(tl, id)
    /\ deleted' = IF id \in InBatch \cup lost THEN deleted ELSE deleted \cup {id}
    /\ UNCHANGED <<now, at, pc, event, batch, stepped, last, lost>>

-----------------------------------------------------------------------------
(* OnTime. *)

\* Calls the first timer of b, or ends.
Continue(b, t) ==
    /\ batch' = b
    /\ IF b = <<>> THEN pc' = "lap" /\ tl' = Rearmed(t, now) /\ last' = last
                   ELSE pc' = "callback" /\ tl' = t /\ last' = b[1][1]

OnTime ==
    /\ pc = "lap" /\ event
    /\ event' = FALSE
    /\ \E b \in ExpiredInOrder(tl, at) : Continue(b, GetExpired(ReadTimerfd(tl), at))
    /\ lost' = lost \cup (ErasedKeys(tl, at) \cap {p[2] : p \in tl.que \ Expired(tl, at)})
    /\ UNCHANGED <<now, at, stepped, deleted>>

Return ==
    /\ pc = "callback"
    /\ Continue(Tail(batch), Restarted(tl, Called, now))
    /\ UNCHANGED <<now, at, event, stepped, deleted, lost>>

-----------------------------------------------------------------------------
(* The clocks. *)

Tick ==
    /\ now' = IF now < MaxTime THEN now + 1 ELSE now
    /\ tl' = Elapsed(tl)
    /\ UNCHANGED <<at, pc, event, batch, stepped, last, deleted, lost>>

StepBack ==
    /\ ~ stepped /\ now > 0
    /\ now' \in 0 .. now - 1
    /\ stepped' = TRUE
    /\ UNCHANGED <<tl, at, pc, event, batch, last, deleted, lost>>

Loop == Wake \/ Sleep \/ OnTime \/ Return

Next ==
    \/ Loop \/ Tick \/ StepBack
    \/ \E after \in Afters, interval \in Intervals : Start(after, interval)
    \/ \E id \in TimerId : Delete(id)

Spec == Init /\ [][Next]_vars

\* The loop goes on, and time passes.  Nothing is assumed of other events.
FairSpec ==
    /\ Spec /\ WF_vars(Tick) /\ WF_vars(Wake /\ tl.ready) /\ WF_vars(Sleep \/ OnTime \/ Return)

-----------------------------------------------------------------------------
(* Properties. *)

\* Types, and that every pair in _queTimer carries the time stamp its Timer has
\* now: DelTimer looks for the pair by it.
TypeOK ==
    /\ now \in 0 .. MaxTime /\ at \in 0 .. MaxTime /\ last \in Nat
    /\ pc \in {"wait", "lap", "callback"}
    /\ event \in BOOLEAN /\ stepped \in BOOLEAN
    /\ DOMAIN tl.timer \subseteq TimerId /\ deleted \cup lost \subseteq DOMAIN tl.timer
    /\ tl.map \subseteq DOMAIN tl.timer
    /\ tl.left \in Nat /\ tl.ready \in BOOLEAN /\ (tl.left > 0 => ~ tl.ready)
    /\ \A p \in tl.que : p[2] \in DOMAIN tl.timer /\ p[1] = Stamp(tl, p[2])
    /\ pc = "callback" <=> batch # <<>>

\* No timer is forgotten: outside of OnTime, while timers wait, the timerfd is
\* armed, gone off, or about to be handled; and it goes off no later than the
\* first of them is due, unless the time of day was set.
StaysArmed ==
    pc # "callback" /\ tl.que # {} =>
        \/ tl.ready \/ event
        \/ tl.left > 0 /\ (stepped \/ now + tl.left <= Max({now + 1, Stamp(tl, First(tl))}))

\* A timer that was deleted outside of its batch, and whose key no time stamp
\* had erased, is not waiting and not about to be called.
DeletedIsGone ==
    \A id \in deleted : id \notin InBatch /\ \A p \in tl.que : p[2] # id

\* Timers are called in the order of their time stamps, over all batches, and
\* none before its time.
FiresInOrder ==
    [][batch' # batch /\ batch' # <<>> =>
        /\ last' <= at
        /\ stepped \/ last' >= last]_vars

\* A waiting timer whose time comes is called or deleted, even when the time
\* of day is set back and the timerfd goes off too early.
DueFires ==
    \A s \in 0 .. MaxTime, id \in TimerId : <<s, id>> \in tl.que ~> <<s, id>> \notin tl.que
=============================================================================
