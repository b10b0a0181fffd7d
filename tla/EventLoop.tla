------------------------------ MODULE EventLoop ------------------------------
(***************************************************************************)
(* EventLoop::RunInLoop, WakeUp, Run and Stop (EventLoop.cpp): any thread  *)
(* hands functors to the loop's thread through a vector under a mutex, and *)
(* wakes the loop out of epoll_wait through an eventfd.  The wake-up is    *)
(* skipped while _bDoEvent says the loop is busy, and before the eventfd   *)
(* exists.  Every shared flag is read and written in a step of its own:    *)
(* _bDoEvent is atomic, _bStop, _bAllowWakuUp and _threadId are plain      *)
(* words whose accesses are taken to be single and in program order.       *)
(*                                                                         *)
(* A functor is <<t, k>>, the k-th one caller t handed over.               *)
(***************************************************************************)
EXTENDS Naturals, Sequences, SequencesExt

CONSTANTS
    Threads,        \* threads other than the loop's own that call RunInLoop
    Creator,        \* the one that ran EventLoop::EventLoop
    Loop,           \* the thread that runs EventLoop::Run
    MaxCalls        \* bound: functors each caller hands over

ASSUME EventLoopAssumption ==
    /\ Creator \in Threads
    /\ Loop \notin Threads
    /\ MaxCalls \in [Threads \cup {Loop} -> Nat]

Callers == Threads \cup {Loop}

VARIABLES
    pc,             \* where each of Threads is inside RunInLoop
    loop,           \* where the loop's thread is inside Run
    stop,           \* where the thread that calls Stop is
    bStop, threadId, bDoEvent, bAllowWakuUp, vecFunctor,
    wakeupFd,       \* the eventfd: "closed", or whether its counter is 0
    loVecFunctor,   \* the batch DoPendingFunctor copied and has not yet run
    wakeEvent,      \* the eventfd is among the events epoll_wait returned
    calls,          \* history: functors handed over, per caller
    done,           \* history: functors run, in the order of their start
    lapped          \* history: the loop has cleared _bDoEvent once

callerVars == <<pc, calls>>
stopVars == <<stop, bStop>>
flagVars == <<threadId, bDoEvent, bAllowWakuUp>>
queueVars == <<vecFunctor, loVecFunctor, done>>
vars == <<callerVars, stopVars, flagVars, queueVars,
          loop, wakeupFd, wakeEvent, lapped>>

-----------------------------------------------------------------------------
\* The constructor runs on Creator and leaves _bDoEvent uninitialised.
Init ==
    /\ pc = [t \in Threads |-> "idle"]
    /\ loop = "start"
    /\ stop = "running"
    /\ bStop = FALSE
    /\ threadId = Creator
    /\ bDoEvent \in BOOLEAN
    /\ bAllowWakuUp = FALSE
    /\ vecFunctor = <<>>
    /\ wakeupFd = "closed"
    /\ loVecFunctor = <<>>
    /\ wakeEvent = FALSE
    /\ calls = [t \in Callers |-> 0]
    /\ done = <<>>
    /\ lapped = FALSE

IsSelfThread(t) == threadId = t

NextFunctor(t) == <<t, calls[t] + 1>>

-----------------------------------------------------------------------------
(***************************************************************************)
(* RunInLoop on a thread that is not the loop's.                           *)
(***************************************************************************)

\* The creator still counts as the loop's thread until Run takes over: it has
\* decided to call the functor itself.
TakeShortcut(t) ==
    /\ pc[t] = "idle" /\ calls[t] < MaxCalls[t]
    /\ IsSelfThread(t)
    /\ pc' = [pc EXCEPT ![t] = "inline"]
    /\ UNCHANGED <<calls, stopVars, flagVars, queueVars, loop, wakeupFd, wakeEvent, lapped>>

RunInline(t) ==
    /\ pc[t] = "inline"
    /\ pc' = [pc EXCEPT ![t] = "idle"]
    /\ calls' = [calls EXCEPT ![t] = @ + 1]
    /\ done' = Append(done, NextFunctor(t))
    /\ UNCHANGED <<stopVars, flagVars, vecFunctor, loVecFunctor, loop, wakeupFd, wakeEvent, lapped>>

Push(t) ==
    /\ pc[t] = "idle" /\ calls[t] < MaxCalls[t]
    /\ ~ IsSelfThread(t)
    /\ vecFunctor' = Append(vecFunctor, NextFunctor(t))
    /\ calls' = [calls EXCEPT ![t] = @ + 1]
    /\ pc' = [pc EXCEPT ![t] = "pushed"]
    /\ UNCHANGED <<stopVars, flagVars, loVecFunctor, done, loop, wakeupFd, wakeEvent, lapped>>

\* Variant: the test of _bDoEvent is the wrong way round.
ReadDoEventInverted(t) ==
    /\ pc[t] = "pushed"
    /\ pc' = [pc EXCEPT ![t] = IF bDoEvent THEN "wake" ELSE "idle"]
    /\ UNCHANGED <<calls, stopVars, flagVars, queueVars, loop, wakeupFd, wakeEvent, lapped>>

ReadDoEvent(t) ==
    /\ pc[t] = "pushed"
    /\ pc' = [pc EXCEPT ![t] = IF bDoEvent THEN "idle" ELSE "wake"]
    /\ UNCHANGED <<calls, stopVars, flagVars, queueVars, loop, wakeupFd, wakeEvent, lapped>>

\* Variant: WakeUp writes without looking at _bAllowWakuUp.
SignalFdUnchecked == wakeupFd' = "set"

SignalFd == wakeupFd' = IF bAllowWakuUp THEN "set" ELSE wakeupFd

WakeUp(t) ==
    /\ pc[t] = "wake"
    /\ SignalFd
    /\ pc' = [pc EXCEPT ![t] = "idle"]
    /\ UNCHANGED <<calls, stopVars, flagVars, queueVars, loop, wakeEvent, lapped>>

-----------------------------------------------------------------------------
(***************************************************************************)
(* Run: the loop's thread.                                                 *)
(***************************************************************************)

SetThreadId ==
    /\ loop = "start"
    /\ threadId' = Loop
    /\ loop' = "enable"
    /\ UNCHANGED <<callerVars, stopVars, bDoEvent, bAllowWakuUp, queueVars, wakeupFd, wakeEvent, lapped>>

\* eventfd() or the epoll_ctl of EnableRead may fail: the loop then runs with
\* wake-ups disabled.
EnableWakeUp ==
    /\ loop = "enable"
    /\ loop' = "test"
    /\ \/ wakeupFd' = "clear" /\ bAllowWakuUp' = TRUE
       \/ wakeupFd' = "closed" /\ bAllowWakuUp' = FALSE
    /\ UNCHANGED <<callerVars, stopVars, threadId, bDoEvent, queueVars, wakeEvent, lapped>>

TestStop ==
    /\ loop = "test"
    /\ loop' = IF bStop THEN "end" ELSE "wait"
    /\ UNCHANGED <<callerVars, stopVars, flagVars, queueVars, wakeupFd, wakeEvent, lapped>>

LeaveWait ==
    /\ loop = "wait"
    /\ loop' = "woken"
    /\ wakeEvent' = (wakeupFd = "set")
    /\ UNCHANGED <<callerVars, stopVars, flagVars, queueVars, wakeupFd, lapped>>

\* epoll_wait returns because the eventfd is readable, ...
WaitWakeUp == wakeupFd = "set" /\ LeaveWait

\* ... or because of another descriptor or its timeout of 10 s.
WaitOther == LeaveWait

SetDoEvent ==
    /\ loop = "woken"
    /\ bDoEvent' = TRUE
    /\ loop' = "handle"
    /\ UNCHANGED <<callerVars, stopVars, threadId, bAllowWakuUp, queueVars, wakeupFd, wakeEvent, lapped>>

ReadWakeUp ==
    /\ loop = "handle" /\ wakeEvent
    /\ wakeupFd' = "clear"
    /\ wakeEvent' = FALSE
    /\ UNCHANGED <<callerVars, stopVars, flagVars, queueVars, loop, lapped>>

\* Variant: _bDoEvent stays set while the loop goes on to the functors.
ClearDoEventForgotten ==
    /\ loop = "handle" /\ ~ wakeEvent
    /\ lapped' = TRUE
    /\ loop' = "swap"
    /\ UNCHANGED <<callerVars, stopVars, flagVars, queueVars, wakeupFd, wakeEvent>>

ClearDoEvent ==
    /\ loop = "handle" /\ ~ wakeEvent
    /\ bDoEvent' = FALSE
    /\ lapped' = TRUE
    /\ loop' = "swap"
    /\ UNCHANGED <<callerVars, stopVars, threadId, bAllowWakuUp, queueVars, wakeupFd, wakeEvent>>

\* Variant: DoPendingFunctor copies the vector and does not clear it.
SwapFunctorsUncleared ==
    /\ loop = "swap"
    /\ loVecFunctor' = vecFunctor
    /\ loop' = "run"
    /\ UNCHANGED <<callerVars, stopVars, flagVars, vecFunctor, done, wakeupFd, wakeEvent, lapped>>

SwapFunctors ==
    /\ loop = "swap"
    /\ loVecFunctor' = vecFunctor
    /\ vecFunctor' = <<>>
    /\ loop' = "run"
    /\ UNCHANGED <<callerVars, stopVars, flagVars, done, wakeupFd, wakeEvent, lapped>>

\* Variant: the batch runs from its end.
RunFunctorBackwards ==
    /\ loop = "run" /\ loVecFunctor # <<>>
    /\ done' = Append(done, Last(loVecFunctor))
    /\ loVecFunctor' = Front(loVecFunctor)
    /\ UNCHANGED <<callerVars, stopVars, flagVars, vecFunctor, loop, wakeupFd, wakeEvent, lapped>>

RunFunctor ==
    /\ loop = "run" /\ loVecFunctor # <<>>
    /\ done' = Append(done, Head(loVecFunctor))
    /\ loVecFunctor' = Tail(loVecFunctor)
    /\ UNCHANGED <<callerVars, stopVars, flagVars, vecFunctor, loop, wakeupFd, wakeEvent, lapped>>

\* CheckConn and FreeVecConn follow here: they do not touch this state.
EndLap ==
    /\ loop = "run" /\ loVecFunctor = <<>>
    /\ loop' = "test"
    /\ UNCHANGED <<callerVars, stopVars, flagVars, queueVars, wakeupFd, wakeEvent, lapped>>

\* A callback or a functor that runs on the loop calls RunInLoop: the nested
\* functor runs at once, before the rest of the batch.
RunNested ==
    /\ loop \in {"handle", "run"} /\ calls[Loop] < MaxCalls[Loop]
    /\ IsSelfThread(Loop)
    /\ done' = Append(done, NextFunctor(Loop))
    /\ calls' = [calls EXCEPT ![Loop] = @ + 1]
    /\ UNCHANGED <<pc, stopVars, flagVars, vecFunctor, loVecFunctor, loop, wakeupFd, wakeEvent, lapped>>

-----------------------------------------------------------------------------
(***************************************************************************)
(* Stop, from a thread that is not the loop's, after StartThread.          *)
(***************************************************************************)

SetStop ==
    /\ stop = "running"
    /\ bStop' = TRUE
    /\ stop' = "wake"
    /\ UNCHANGED <<callerVars, flagVars, queueVars, loop, wakeupFd, wakeEvent, lapped>>

\* Variant: Stop sets the flag and goes straight to the join.
StopWakeUpSkipped ==
    /\ stop = "wake"
    /\ stop' = "join"
    /\ UNCHANGED <<callerVars, bStop, flagVars, queueVars, loop, wakeupFd, wakeEvent, lapped>>

StopWakeUp ==
    /\ stop = "wake"
    /\ SignalFd
    /\ stop' = "join"
    /\ UNCHANGED <<callerVars, bStop, flagVars, queueVars, loop, wakeEvent, lapped>>

Join ==
    /\ stop = "join" /\ loop = "end"
    /\ stop' = "joined"
    /\ UNCHANGED <<callerVars, bStop, flagVars, queueVars, loop, wakeupFd, wakeEvent, lapped>>

-----------------------------------------------------------------------------
InRunInLoop(t) == RunInline(t) \/ ReadDoEvent(t) \/ WakeUp(t)

LoopStep ==
    \/ SetThreadId \/ EnableWakeUp \/ TestStop \/ WaitWakeUp
    \/ SetDoEvent \/ ReadWakeUp \/ ClearDoEvent
    \/ SwapFunctors \/ RunFunctor \/ EndLap

StopStep == StopWakeUp \/ Join

Next ==
    \/ \E t \in Threads : TakeShortcut(t) \/ Push(t) \/ InRunInLoop(t)
    \/ LoopStep \/ WaitOther \/ RunNested
    \/ SetStop \/ StopStep

\* The scheduler lets every thread that can move go on.  Nobody is obliged to
\* call RunInLoop or Stop, and neither the 10 s timeout of epoll_wait nor any
\* other descriptor is counted on to end a wait.
Fairness ==
    /\ WF_vars(LoopStep)
    /\ WF_vars(StopStep)
    /\ \A t \in Threads : WF_vars(InRunInLoop(t))

Spec == Init /\ [][Next]_vars
FairSpec == Spec /\ Fairness
-----------------------------------------------------------------------------
(***************************************************************************)
(* Properties.                                                             *)
(***************************************************************************)

FunctorSeq == Seq(Callers \X (Nat \ {0}))

\* The eventfd is open once wake-ups are allowed, and never before Run made it.
TypeOK ==
    /\ pc \in [Threads -> {"idle", "inline", "pushed", "wake"}]
    /\ loop \in {"start", "enable", "test", "wait", "woken", "handle", "swap", "run", "end"}
    /\ stop \in {"running", "wake", "join", "joined"}
    /\ bStop \in BOOLEAN /\ (bStop <=> stop # "running")
    /\ threadId = IF loop = "start" THEN Creator ELSE Loop
    /\ bDoEvent \in BOOLEAN /\ bAllowWakuUp \in BOOLEAN
    /\ wakeEvent \in BOOLEAN /\ lapped \in BOOLEAN
    /\ wakeupFd \in {"closed", "clear", "set"}
    /\ bAllowWakuUp <=> wakeupFd # "closed"
    /\ wakeEvent => bAllowWakuUp /\ loop \in {"woken", "handle"}
    /\ vecFunctor \in FunctorSeq
    /\ loVecFunctor \in FunctorSeq
    /\ done \in FunctorSeq
    /\ calls \in [Callers -> Nat]

WakeUpComing ==
    \/ wakeupFd = "set"
    \/ \E t \in Threads : pc[t] \in {"pushed", "wake"}

\* The loop never sleeps in epoll_wait on top of a queued functor unless the
\* eventfd is readable or a caller is still on its way to write it.  The first
\* wait is excluded: a caller may have skipped the wake-up of a loop that had
\* not made its eventfd, or read an uninitialised _bDoEvent.  (The order in
\* RunInLoop: push, then test; and in Run: clear the flag, then swap.)
NoLostWakeup ==
    loop = "wait" /\ lapped /\ bAllowWakuUp /\ vecFunctor # <<>> => WakeUpComing

\* RunInLoop and DoPendingFunctor keep the promise of TaskQueue: the batch and
\* the vector together are its queue.
BatchAndVector == loVecFunctor \o vecFunctor
Queue == INSTANCE TaskQueue WITH count <- calls, queue <- BatchAndVector
ImplementsTaskQueue == Queue!Spec

\* Every functor handed over is run or queued, once, in its caller's order.
RunsInOrder == Queue!OnceInOrder

Functors == UNION {{t} \X (1 .. MaxCalls[t]) : t \in Threads}

\* A functor that is queued on a loop past its first lap is run by a wake-up
\* alone, without the 10 s timeout, unless the loop has been stopped.
QueuedRuns ==
    \A f \in Functors :
        lapped /\ bAllowWakuUp /\ f \in ToSet(vecFunctor)
            ~> f \in ToSet(done) \/ loop = "end"

WakeUpsWork == loop \in {"start", "enable"} \/ bAllowWakuUp

\* Stop always gets its join, even when it races with the start of the loop:
\* it raises _bStop before it looks at _bAllowWakuUp, and Run allows wake-ups
\* before it looks at _bStop.  Only a loop without an eventfd is left to its
\* timeout.
StopEnds == stop = "join" /\ WakeUpsWork ~> stop = "joined"
=============================================================================
