--------------------------- MODULE EventLoopProofs ---------------------------
(***************************************************************************)
(* EventLoop keeps its promises for every number of threads and of calls.  *)
(***************************************************************************)
EXTENDS EventLoop, SequenceTheorems, TLAPS

\* _bDoEvent is down from the moment the loop has decided to swap the vector
\* until it has come back from epoll_wait.
FlagDown ==
    /\ lapped => loop \notin {"start", "enable"}
    /\ lapped /\ loop # "handle" => ~ bDoEvent

\* NoLostWakeup, carried from the swap of the vector to the wait.
WakeUpOwed ==
    loop \in {"run", "test", "wait"} /\ lapped /\ bAllowWakuUp /\ vecFunctor # <<>>
        => WakeUpComing

\* A batch is run to its end before the next one is taken.
BatchEmpty == loop # "run" => loVecFunctor = <<>>

\* Only the creator ever takes the shortcut, and it then has nothing queued;
\* the loop's own thread never queues.
NothingOvertaken ==
    /\ \A t \in Threads : pc[t] = "inline" => t = Creator
    /\ \A s \in {vecFunctor, loVecFunctor} : \A i \in DOMAIN s :
          /\ s[i][1] # Loop
          /\ threadId = Creator \/ pc[Creator] = "inline" => s[i][1] # Creator

USE EventLoopAssumption

-----------------------------------------------------------------------------
\* The state of the loop, its callers and the thread that stops it is always
\* what the code can make of it.
THEOREM TypeCorrect == Spec => []TypeOK
<1> USE DEF Callers, FunctorSeq
<1>1. Init => TypeOK
  <2> SUFFICES ASSUME Init PROVE TypeOK
    OBVIOUS
  <2>1. /\ pc \in [Threads -> {"idle", "inline", "pushed", "wake"}]
        /\ calls \in [Callers -> Nat]
        /\ <<>> \in FunctorSeq
    BY DEF Init
  <2>2. bDoEvent \in BOOLEAN
    BY Zenon DEF Init
  <2> QED BY <2>1, <2>2 DEF Init, TypeOK
<1>2. TypeOK /\ [Next]_vars => TypeOK'
  <2> SUFFICES ASSUME TypeOK, [Next]_vars PROVE TypeOK'
    OBVIOUS
  <2> USE DEF TypeOK, callerVars, stopVars, flagVars, queueVars, NextFunctor, IsSelfThread
  <2>1. ASSUME NEW t \in Threads, TakeShortcut(t) PROVE TypeOK'
    BY <2>1 DEF TakeShortcut
  <2>2. ASSUME NEW t \in Threads, RunInline(t) PROVE TypeOK'
    BY <2>2 DEF RunInline
  <2>3. ASSUME NEW t \in Threads, Push(t) PROVE TypeOK'
    BY <2>3 DEF Push
  <2>4. ASSUME NEW t \in Threads, ReadDoEvent(t) PROVE TypeOK'
    BY <2>4 DEF ReadDoEvent
  <2>5. ASSUME NEW t \in Threads, WakeUp(t) PROVE TypeOK'
    BY <2>5 DEF WakeUp, SignalFd
  <2>6. CASE SetThreadId
    BY <2>6 DEF SetThreadId
  <2>7. CASE EnableWakeUp
    BY <2>7 DEF EnableWakeUp
  <2>8. CASE TestStop
    BY <2>8 DEF TestStop
  <2>9. CASE WaitWakeUp \/ WaitOther
    <3>1. LeaveWait
      BY <2>9 DEF WaitWakeUp, WaitOther
    <3>2. wakeEvent' = (wakeupFd = "set")
      BY <3>1 DEF LeaveWait
    <3>3. wakeEvent' \in BOOLEAN
      BY ONLY <3>2
    <3>4. wakeEvent' => wakeupFd = "set"
      BY ONLY <3>2
    <3> QED BY <3>1, <3>3, <3>4 DEF LeaveWait
  <2>10. CASE SetDoEvent
    BY <2>10 DEF SetDoEvent
  <2>11. CASE ReadWakeUp
    BY <2>11 DEF ReadWakeUp
  <2>12. CASE ClearDoEvent
    BY <2>12 DEF ClearDoEvent
  <2>13. CASE SwapFunctors
    BY <2>13 DEF SwapFunctors
  <2>14. CASE RunFunctor
    BY <2>14 DEF RunFunctor
  <2>15. CASE EndLap
    BY <2>15 DEF EndLap
  <2>16. CASE RunNested
    BY <2>16 DEF RunNested
  <2>17. CASE SetStop
    BY <2>17 DEF SetStop
  <2>18. CASE StopWakeUp
    BY <2>18 DEF StopWakeUp, SignalFd
  <2>19. CASE Join
    BY <2>19 DEF Join
  <2>20. CASE UNCHANGED vars
    BY <2>20 DEF vars
  <2> QED
    BY <2>1, <2>2, <2>3, <2>4, <2>5, <2>6, <2>7, <2>8, <2>9, <2>10, <2>11, <2>12,
       <2>13, <2>14, <2>15, <2>16, <2>17, <2>18, <2>19, <2>20
       DEF Next, LoopStep, StopStep, InRunInLoop
<1> QED BY <1>1, <1>2, PTL DEF Spec

-----------------------------------------------------------------------------
(***************************************************************************)
(* No lost wake-up.  A push finds the flag down once the loop has cleared  *)
(* it, so from the swap to the wait every queued functor still owes, or    *)
(* has left, a signal in the eventfd.                                      *)
(***************************************************************************)

\* _bDoEvent stays down once cleared, until the loop comes back from the wait.
LEMMA FlagDownStep ==
    ASSUME TypeOK, FlagDown, [Next]_vars
    PROVE  FlagDown'
<1> USE DEF FlagDown
<1>1. CASE SetDoEvent
  BY <1>1 DEF SetDoEvent
<1>2. CASE ClearDoEvent
  BY <1>2 DEF ClearDoEvent
<1>3. CASE SetThreadId \/ EnableWakeUp
  BY <1>3 DEF SetThreadId, EnableWakeUp
<1>4. CASE TestStop \/ WaitWakeUp \/ WaitOther \/ SwapFunctors \/ EndLap
  BY <1>4 DEF TestStop, WaitWakeUp, WaitOther, LeaveWait, SwapFunctors, EndLap, flagVars
<1>5. UNCHANGED <<lapped, loop, bDoEvent>> => FlagDown'
  OBVIOUS
<1>6. CASE ReadWakeUp \/ RunFunctor \/ RunNested \/ SetStop \/ StopStep \/ UNCHANGED vars
  BY <1>5, <1>6 DEF ReadWakeUp, RunFunctor, RunNested, SetStop, StopStep, StopWakeUp, Join,
                    vars, flagVars
<1>7. ASSUME NEW t \in Threads, TakeShortcut(t) \/ Push(t) \/ InRunInLoop(t)
      PROVE  FlagDown'
  BY <1>5, <1>7 DEF TakeShortcut, Push, InRunInLoop, RunInline, ReadDoEvent, WakeUp, flagVars
<1> QED BY <1>1, <1>2, <1>3, <1>4, <1>6, <1>7 DEF Next, LoopStep

\* A functor in the vector keeps its wake-up coming, from swap to wait.
LEMMA WakeUpOwedStep ==
    ASSUME TypeOK, FlagDown, WakeUpOwed, [Next]_vars
    PROVE  WakeUpOwed'
<1> USE DEF WakeUpOwed, TypeOK, FlagDown
<1>1. ASSUME NEW t \in Threads, Push(t) PROVE WakeUpOwed'
  <2>1. pc'[t] = "pushed"
    BY <1>1 DEF Push
  <2> QED BY <2>1 DEF WakeUpComing
<1>2. ASSUME NEW t \in Threads, ReadDoEvent(t) PROVE WakeUpOwed'
  <2>1. UNCHANGED <<loop, lapped, bAllowWakuUp, vecFunctor, wakeupFd, bDoEvent>>
    BY <1>2 DEF ReadDoEvent, flagVars, queueVars
  <2>2. ASSUME loop \in {"run", "test", "wait"}, lapped PROVE pc'[t] = "wake"
    BY <1>2, <2>2 DEF ReadDoEvent
  <2> QED BY <2>1, <2>2 DEF WakeUpComing
<1>3. ASSUME NEW t \in Threads, WakeUp(t) PROVE WakeUpOwed'
  BY <1>3 DEF WakeUp, SignalFd, WakeUpComing, flagVars, queueVars
<1>4. ASSUME NEW t \in Threads, TakeShortcut(t) \/ RunInline(t) PROVE WakeUpOwed'
  <2>1. UNCHANGED <<loop, lapped, bAllowWakuUp, vecFunctor, wakeupFd>>
    BY <1>4 DEF TakeShortcut, RunInline, flagVars, queueVars
  <2>2. \A u \in Threads : pc[u] \in {"pushed", "wake"} => pc'[u] = pc[u]
    BY <1>4 DEF TakeShortcut, RunInline
  <2>3. WakeUpComing => WakeUpComing'
    BY <2>1, <2>2 DEF WakeUpComing
  <2> QED BY <2>1, <2>3
<1>5. CASE SetThreadId \/ EnableWakeUp
  BY <1>5 DEF SetThreadId, EnableWakeUp
<1>6. CASE WaitWakeUp \/ WaitOther \/ SetDoEvent \/ ReadWakeUp \/ ClearDoEvent
  BY <1>6 DEF WaitWakeUp, WaitOther, LeaveWait, SetDoEvent, ReadWakeUp, ClearDoEvent
<1>7. CASE SwapFunctors
  BY <1>7 DEF SwapFunctors
<1>8. CASE TestStop \/ EndLap \/ RunFunctor
  <2>1. UNCHANGED <<pc, lapped, bAllowWakuUp, vecFunctor, wakeupFd>>
    BY <1>8 DEF TestStop, EndLap, RunFunctor, flagVars, queueVars, callerVars
  <2>2. loop \in {"run", "test"}
    BY <1>8 DEF TestStop, EndLap, RunFunctor
  <2> QED BY <2>1, <2>2 DEF WakeUpComing
<1>9. CASE StopWakeUp
  BY <1>9 DEF StopWakeUp, SignalFd, WakeUpComing, flagVars, queueVars, callerVars
<1>10. CASE RunNested \/ SetStop \/ Join \/ UNCHANGED vars
  <2>1. UNCHANGED <<pc, loop, lapped, bAllowWakuUp, vecFunctor, wakeupFd>>
    BY <1>10 DEF RunNested, SetStop, Join, vars, flagVars, queueVars, callerVars
  <2> QED BY <2>1 DEF WakeUpComing
<1> QED BY <1>1, <1>2, <1>3, <1>4, <1>5, <1>6, <1>7, <1>8, <1>9, <1>10
        DEF Next, LoopStep, StopStep, InRunInLoop

\* However many callers race with the loop, it never goes to sleep on a queued
\* functor that nobody will wake it for (RunInLoop against Run).
THEOREM NoLostWakeupCorrect == Spec => []NoLostWakeup
<1>1. Init => FlagDown /\ WakeUpOwed
  BY DEF Init, FlagDown, WakeUpOwed
<1>2. TypeOK /\ FlagDown /\ WakeUpOwed /\ [Next]_vars => FlagDown' /\ WakeUpOwed'
  BY FlagDownStep, WakeUpOwedStep
<1>3. WakeUpOwed => NoLostWakeup
  BY DEF WakeUpOwed, NoLostWakeup
<1> QED BY <1>1, <1>2, <1>3, TypeCorrect, PTL DEF Spec

-----------------------------------------------------------------------------
(***************************************************************************)
(* The loop implements TaskQueue.                                          *)
(***************************************************************************)

\* The head and the tail of two sequences put together.
LEMMA HeadOfConcat ==
    ASSUME NEW S, NEW s \in Seq(S), NEW r \in Seq(S), s # <<>>
    PROVE  s \o r # <<>> /\ Head(s \o r) = Head(s) /\ Tail(s \o r) = Tail(s) \o r
<1>1. s = <<Head(s)>> \o Tail(s) /\ Head(s) \in S /\ Tail(s) \in Seq(S)
  OBVIOUS
<1>2. s \o r = <<Head(s)>> \o (Tail(s) \o r)
  BY <1>1, ConcatAssociative
<1>3. Tail(s) \o r \in Seq(S)
  BY <1>1
<1>4. ASSUME NEW q \in Seq(S), NEW e \in S
      PROVE  <<e>> \o q # <<>> /\ Head(<<e>> \o q) = e /\ Tail(<<e>> \o q) = q
  OBVIOUS
<1> QED BY <1>1, <1>2, <1>3, <1>4

\* What is in a sequence after an element was appended.
LEMMA ElementOfAppend ==
    ASSUME NEW S, NEW s \in Seq(S), NEW e \in S, NEW i \in DOMAIN Append(s, e)
    PROVE  Append(s, e)[i] = e \/ (i \in DOMAIN s /\ Append(s, e)[i] = s[i])
<1>1. /\ i \in 1 .. Len(s) + 1 /\ Len(s) \in Nat /\ DOMAIN s = 1 .. Len(s)
  <2>1. Append(s, e) \in Seq(S) /\ Len(Append(s, e)) = Len(s) + 1
    BY AppendProperties
  <2> QED BY <2>1
<1>2. CASE i = Len(s) + 1
  BY <1>2, AppendProperties
<1>3. CASE i \in 1 .. Len(s)
  BY <1>3, AppendProperties
<1> QED BY <1>1, <1>2, <1>3

\* No step queues a functor of the loop, or one of the creator that is still in
\* its shortcut.
LEMMA NothingOvertakenStep ==
    ASSUME TypeOK, NothingOvertaken, [Next]_vars
    PROVE  NothingOvertaken'
<1> USE DEF NothingOvertaken, TypeOK
<1>1. ASSUME NEW t \in Threads, TakeShortcut(t) PROVE NothingOvertaken'
  BY <1>1 DEF TakeShortcut, IsSelfThread, queueVars, flagVars
<1>2. ASSUME NEW t \in Threads, RunInline(t) PROVE NothingOvertaken'
  BY <1>2 DEF RunInline
<1>3. ASSUME NEW t \in Threads, Push(t) PROVE NothingOvertaken'
  <2>1. /\ vecFunctor \in Seq(Callers \X (Nat \ {0}))
        /\ NextFunctor(t) \in Callers \X (Nat \ {0}) /\ NextFunctor(t)[1] = t
    BY DEF FunctorSeq, NextFunctor, Callers
  <2>2. \A i \in DOMAIN vecFunctor' :
           vecFunctor'[i] = NextFunctor(t) \/ (i \in DOMAIN vecFunctor /\ vecFunctor'[i] = vecFunctor[i])
    <3>1. vecFunctor' = Append(vecFunctor, NextFunctor(t))
      BY <1>3 DEF Push
    <3> QED BY ONLY <2>1, <3>1, ElementOfAppend
  <2>3. UNCHANGED <<loVecFunctor, threadId>> /\ pc' = [pc EXCEPT ![t] = "pushed"]
    BY <1>3 DEF Push, flagVars
  <2>4. threadId' = Creator \/ pc'[Creator] = "inline" => t # Creator
    BY <1>3, <2>3 DEF Push, IsSelfThread
  <2>5. t # Loop
    OBVIOUS
  <2> QED BY <2>1, <2>2, <2>3, <2>4, <2>5
<1>4. ASSUME NEW t \in Threads, ReadDoEvent(t) \/ WakeUp(t) PROVE NothingOvertaken'
  <2>1. UNCHANGED <<vecFunctor, loVecFunctor, threadId>>
    BY <1>4 DEF ReadDoEvent, WakeUp, queueVars, flagVars
  <2>2. \A u \in Threads : pc'[u] = "inline" => pc[u] = "inline"
    BY <1>4 DEF ReadDoEvent, WakeUp
  <2> QED BY <2>1, <2>2
<1>5. CASE SetThreadId
  <2>1. UNCHANGED <<pc, vecFunctor, loVecFunctor>> /\ threadId' # Creator
    BY <1>5 DEF SetThreadId, queueVars, callerVars
  <2> QED BY <2>1
<1>6. CASE SwapFunctors
  <2>1. vecFunctor' = <<>> /\ loVecFunctor' = vecFunctor /\ UNCHANGED <<pc, threadId>>
    BY <1>6 DEF SwapFunctors, callerVars, flagVars
  <2> QED BY <2>1
<1>7. CASE RunFunctor
  <2>1. /\ loVecFunctor \in Seq(Callers \X (Nat \ {0})) /\ loVecFunctor # <<>>
        /\ loVecFunctor' = Tail(loVecFunctor) /\ UNCHANGED <<pc, threadId, vecFunctor>>
    BY <1>7 DEF RunFunctor, callerVars, flagVars, FunctorSeq
  <2>2. \A i \in DOMAIN loVecFunctor' :
           i + 1 \in DOMAIN loVecFunctor /\ loVecFunctor'[i] = loVecFunctor[i + 1]
    BY <2>1
  <2> QED BY <2>1, <2>2
<1>8. UNCHANGED <<pc, threadId, vecFunctor, loVecFunctor>> => NothingOvertaken'
  OBVIOUS
<1>9. CASE \/ EnableWakeUp \/ TestStop \/ WaitWakeUp \/ WaitOther \/ SetDoEvent \/ ReadWakeUp
           \/ ClearDoEvent \/ EndLap \/ RunNested \/ SetStop \/ StopStep \/ UNCHANGED vars
  BY <1>8, <1>9 DEF EnableWakeUp, TestStop, WaitWakeUp, WaitOther, LeaveWait, SetDoEvent,
     ReadWakeUp, ClearDoEvent, EndLap, RunNested, SetStop, StopStep, StopWakeUp, Join,
     vars, callerVars, queueVars, flagVars
<1> QED BY <1>1, <1>2, <1>3, <1>4, <1>5, <1>6, <1>7, <1>9 DEF Next, LoopStep, InRunInLoop

\* A functor that runs on its caller's thread finds none of that caller's
\* functors queued.
LEMMA InlineIsRunNow ==
    ASSUME TypeOK, NothingOvertaken, NEW t \in Callers,
           t = Loop \/ (t = Creator /\ (threadId = Creator \/ pc[Creator] = "inline")),
           UNCHANGED BatchAndVector,
           done' = Append(done, NextFunctor(t)), calls' = [calls EXCEPT ![t] = @ + 1]
    PROVE  Queue!RunNow(t)
<1>1. \A i \in DOMAIN BatchAndVector : BatchAndVector[i][1] # t
  <2>1. vecFunctor \in FunctorSeq /\ loVecFunctor \in FunctorSeq
    BY DEF TypeOK
  <2>2. \A i \in DOMAIN BatchAndVector :
           \/ i \in DOMAIN loVecFunctor /\ BatchAndVector[i] = loVecFunctor[i]
           \/ /\ i - Len(loVecFunctor) \in DOMAIN vecFunctor
              /\ BatchAndVector[i] = vecFunctor[i - Len(loVecFunctor)]
    BY <2>1 DEF FunctorSeq, BatchAndVector
  <2> QED BY <2>2 DEF NothingOvertaken
<1> QED BY <1>1 DEF Queue!RunNow, Queue!NextOf, NextFunctor, BatchAndVector

\* The batch is empty again when the loop leaves it.
LEMMA BatchEmptyStep ==
    ASSUME TypeOK, BatchEmpty, [Next]_vars
    PROVE  BatchEmpty'
<1> USE DEF BatchEmpty
<1>1. UNCHANGED <<loop, loVecFunctor>> => BatchEmpty'
  OBVIOUS
<1>2. ASSUME NEW t \in Threads, TakeShortcut(t) \/ Push(t) \/ InRunInLoop(t)
      PROVE  BatchEmpty'
  BY <1>1, <1>2 DEF TakeShortcut, Push, InRunInLoop, RunInline, ReadDoEvent, WakeUp, queueVars
<1>3. CASE \/ SetThreadId \/ EnableWakeUp \/ TestStop \/ WaitWakeUp \/ WaitOther
           \/ SetDoEvent \/ ReadWakeUp \/ ClearDoEvent
  BY <1>3 DEF SetThreadId, EnableWakeUp, TestStop, WaitWakeUp, WaitOther, LeaveWait,
     SetDoEvent, ReadWakeUp, ClearDoEvent, queueVars
<1>4. CASE SwapFunctors \/ RunFunctor \/ EndLap
  BY <1>4 DEF SwapFunctors, RunFunctor, EndLap, queueVars
<1>5. CASE RunNested \/ SetStop \/ StopStep \/ UNCHANGED vars
  BY <1>1, <1>5 DEF RunNested, SetStop, StopStep, StopWakeUp, Join, vars, queueVars
<1> QED BY <1>2, <1>3, <1>4, <1>5 DEF Next, LoopStep

\* Every step of the threads is one of the task queue, or a stutter.
LEMMA StepsImplement ==
    ASSUME TypeOK, BatchEmpty, NothingOvertaken, [Next]_vars
    PROVE  [Queue!Next]_(Queue!vars)
<1> USE DEF Queue!Next, Queue!vars
<1>1. loVecFunctor \in FunctorSeq /\ vecFunctor \in FunctorSeq
  BY DEF TypeOK
<1>2. ASSUME NEW t \in Threads, Push(t) PROVE Queue!Submit(t)
  <2>1. NextFunctor(t) \in Callers \X (Nat \ {0})
    BY DEF NextFunctor, Callers, TypeOK
  <2>2. loVecFunctor \o Append(vecFunctor, NextFunctor(t))
        = Append(loVecFunctor \o vecFunctor, NextFunctor(t))
    BY <1>1, <2>1 DEF FunctorSeq
  <2> QED BY <1>2, <2>2 DEF Push, Queue!Submit, Queue!NextOf, NextFunctor, BatchAndVector
<1>3. ASSUME NEW t \in Threads, RunInline(t) PROVE Queue!RunNow(t)
  <2>1. t = Creator /\ pc[Creator] = "inline" /\ t \in Callers
    BY <1>3 DEF NothingOvertaken, RunInline, Callers
  <2>2. /\ UNCHANGED BatchAndVector /\ done' = Append(done, NextFunctor(t))
        /\ calls' = [calls EXCEPT ![t] = @ + 1]
    BY <1>3 DEF RunInline, BatchAndVector
  <2> QED BY <2>1, <2>2, InlineIsRunNow
<1>4. CASE RunNested
  <2>1. /\ UNCHANGED BatchAndVector /\ done' = Append(done, NextFunctor(Loop))
        /\ calls' = [calls EXCEPT ![Loop] = @ + 1]
    BY <1>4 DEF RunNested, BatchAndVector
  <2>2. Loop \in Callers
    BY DEF Callers
  <2>3. Queue!RunNow(Loop)
    BY <2>1, <2>2, InlineIsRunNow
  <2> QED BY <2>2, <2>3
<1>5. CASE RunFunctor
  <2>1. /\ loVecFunctor # <<>> /\ UNCHANGED <<vecFunctor, calls>>
        /\ loVecFunctor' = Tail(loVecFunctor)
        /\ done' = Append(done, Head(loVecFunctor))
    BY <1>5 DEF RunFunctor, callerVars
  <2>2. /\ loVecFunctor \o vecFunctor # <<>>
        /\ Head(loVecFunctor \o vecFunctor) = Head(loVecFunctor)
        /\ Tail(loVecFunctor \o vecFunctor) = Tail(loVecFunctor) \o vecFunctor
    BY <1>1, <2>1, HeadOfConcat DEF FunctorSeq
  <2> QED BY <2>1, <2>2 DEF Queue!RunHead, BatchAndVector
<1>6. CASE SwapFunctors
  <2>1. /\ loVecFunctor' \o vecFunctor' = vecFunctor \o <<>>
        /\ UNCHANGED <<calls, done>>
    BY <1>6 DEF SwapFunctors, callerVars
  <2>2. vecFunctor \o <<>> = <<>> \o vecFunctor
    BY <1>1 DEF FunctorSeq
  <2>3. loVecFunctor = <<>>
    BY <1>6 DEF SwapFunctors, BatchEmpty
  <2> QED BY <2>1, <2>2, <2>3 DEF BatchAndVector
<1>7. UNCHANGED <<calls, done, loVecFunctor, vecFunctor>> => UNCHANGED Queue!vars
  BY DEF BatchAndVector
<1>8. ASSUME NEW t \in Threads, TakeShortcut(t) \/ ReadDoEvent(t) \/ WakeUp(t)
      PROVE  UNCHANGED Queue!vars
  BY <1>7, <1>8 DEF TakeShortcut, ReadDoEvent, WakeUp, queueVars
<1>9. CASE \/ SetThreadId \/ EnableWakeUp \/ TestStop \/ WaitWakeUp \/ WaitOther \/ SetDoEvent
           \/ ReadWakeUp \/ ClearDoEvent \/ EndLap \/ SetStop \/ StopStep \/ UNCHANGED vars
  BY <1>7, <1>9 DEF SetThreadId, EnableWakeUp, TestStop, WaitWakeUp, WaitOther, LeaveWait,
     SetDoEvent, ReadWakeUp, ClearDoEvent, EndLap, SetStop, StopStep, StopWakeUp, Join,
     vars, callerVars, queueVars
<1> QED BY <1>2, <1>3, <1>4, <1>5, <1>6, <1>8, <1>9 DEF Next, LoopStep, InRunInLoop, Callers

\* The vector under its mutex, the batch copied out of it and the shortcut of
\* the loop's own thread together behave as the FIFO queue of TaskQueue.
THEOREM Refinement == Spec => ImplementsTaskQueue
<1>1. Init => Queue!Init
  BY DEF Init, Queue!Init, BatchAndVector
<1>2. Init => BatchEmpty /\ NothingOvertaken
  BY DEF Init, BatchEmpty, NothingOvertaken
<1>3. TypeOK /\ BatchEmpty /\ NothingOvertaken /\ [Next]_vars
         => BatchEmpty' /\ NothingOvertaken' /\ [Queue!Next]_(Queue!vars)
  BY BatchEmptyStep, NothingOvertakenStep, StepsImplement
<1> QED BY <1>1, <1>2, <1>3, TypeCorrect, PTL DEF Spec, ImplementsTaskQueue, Queue!Spec

-----------------------------------------------------------------------------
(***************************************************************************)
(* What TaskQueue promises: a functor is run once, in its caller's order.  *)
(***************************************************************************)

HIDE EventLoopAssumption

\* A functor's number never exceeds what its caller has handed over, so a new
\* one sorts behind all the earlier ones.
Bounded == \A i \in DOMAIN Queue!Accepted : Queue!Accepted[i][2] <= calls[Queue!Accepted[i][1]]

QueueInv == Queue!TypeOK /\ Bounded /\ Queue!OnceInOrder

-----------------------------------------------------------------------------
\* Running the head of the queue moves the border between what is done and
\* what is queued, not the functors.
LEMMA RunHeadKeepsAccepted ==
    ASSUME Queue!TypeOK, Queue!RunHead
    PROVE  Queue!Accepted' = Queue!Accepted
<1>1. done \in Seq(Queue!Functor) /\ BatchAndVector \in Seq(Queue!Functor) /\ BatchAndVector # <<>>
  BY DEF Queue!TypeOK, Queue!RunHead
<1>2. Head(BatchAndVector) \in Queue!Functor /\ Tail(BatchAndVector) \in Seq(Queue!Functor)
  BY <1>1
<1>3. Append(done, Head(BatchAndVector)) \o Tail(BatchAndVector) = done \o BatchAndVector
  BY <1>1, <1>2
<1> QED BY <1>3 DEF Queue!Accepted, Queue!RunHead

\* Every step keeps the types.
LEMMA QueueTypeStep ==
    ASSUME Queue!TypeOK, [Queue!Next]_(Queue!vars)
    PROVE  Queue!TypeOK'
<1>1. ASSUME NEW t \in Callers, Queue!Submit(t) PROVE Queue!TypeOK'
  <2>1. Queue!NextOf(t) \in Queue!Functor
    BY DEF Queue!TypeOK, Queue!NextOf, Queue!Functor
  <2> QED BY <1>1, <2>1 DEF Queue!TypeOK, Queue!Submit
<1>2. ASSUME NEW t \in Callers, Queue!RunNow(t) PROVE Queue!TypeOK'
  <2>1. Queue!NextOf(t) \in Queue!Functor
    BY DEF Queue!TypeOK, Queue!NextOf, Queue!Functor
  <2> QED BY <1>2, <2>1 DEF Queue!TypeOK, Queue!RunNow
<1>3. ASSUME Queue!RunHead PROVE Queue!TypeOK'
  BY <1>3 DEF Queue!TypeOK, Queue!RunHead
<1>4. ASSUME UNCHANGED Queue!vars PROVE Queue!TypeOK'
  BY <1>4 DEF Queue!TypeOK, Queue!vars
<1> QED BY <1>1, <1>2, <1>3, <1>4 DEF Queue!Next

-----------------------------------------------------------------------------
\* The three properties a new functor at the end of the accepted ones keeps.
LEMMA SubmitStep ==
    ASSUME QueueInv, NEW t \in Callers, Queue!Submit(t)
    PROVE  Bounded' /\ Queue!OnceInOrder'
<1> DEFINE f == Queue!NextOf(t)
<1>1. f \in Queue!Functor /\ f[1] = t /\ f[2] = calls[t] + 1
  BY DEF QueueInv, Queue!TypeOK, Queue!NextOf, Queue!Functor
<1>2. Queue!Accepted \in Seq(Queue!Functor) /\ BatchAndVector \in Seq(Queue!Functor) /\ done \in Seq(Queue!Functor)
  BY DEF QueueInv, Queue!TypeOK, Queue!Accepted
<1>3. Queue!Accepted' = Append(Queue!Accepted, f)
  BY <1>1, <1>2 DEF Queue!Accepted, Queue!Submit
<1>4. /\ DOMAIN Queue!Accepted' = 1 .. Len(Queue!Accepted) + 1
      /\ DOMAIN Queue!Accepted = 1 .. Len(Queue!Accepted)
      /\ \A i \in DOMAIN Queue!Accepted : Queue!Accepted'[i] = Queue!Accepted[i]
      /\ Queue!Accepted'[Len(Queue!Accepted) + 1] = f
      /\ \A i \in DOMAIN Queue!Accepted : Queue!Accepted[i] \in Queue!Functor
      /\ Len(Queue!Accepted) \in Nat
  BY <1>1, <1>2, <1>3
<1>5. /\ calls \in [Callers -> Nat]
      /\ calls'[t] = calls[t] + 1
      /\ \A u \in Callers \ {t} : calls'[u] = calls[u]
  BY DEF QueueInv, Queue!TypeOK, Queue!Submit
<1> HIDE DEF f
<1>6. Bounded'
  BY <1>1, <1>4, <1>5 DEF QueueInv, Bounded, Queue!Functor
<1>7. \A i, j \in DOMAIN Queue!Accepted' :
         i < j /\ Queue!Accepted'[i][1] = Queue!Accepted'[j][1] => Queue!Accepted'[i][2] < Queue!Accepted'[j][2]
  <2> TAKE i, j \in DOMAIN Queue!Accepted'
  <2>1. CASE j \in DOMAIN Queue!Accepted
    BY <1>4, <2>1 DEF QueueInv, Queue!OnceInOrder
  <2>2. CASE j = Len(Queue!Accepted) + 1
    <3>1. i < j => i \in DOMAIN Queue!Accepted
      BY <1>4, <2>2
    <3>2. i \in DOMAIN Queue!Accepted => Queue!Accepted[i][2] <= calls[Queue!Accepted[i][1]]
      BY DEF QueueInv, Bounded
    <3> QED BY <1>1, <1>4, <1>5, <2>2, <3>1, <3>2 DEF Queue!Functor
  <2> QED BY <1>4, <2>1, <2>2
<1>8. \A u \in Callers : \A k \in 1 .. calls'[u] :
         \E i \in DOMAIN Queue!Accepted' : Queue!Accepted'[i] = <<u, k>>
  <2> SUFFICES ASSUME NEW u \in Callers, NEW k \in 1 .. calls'[u]
               PROVE  \E i \in DOMAIN Queue!Accepted' : Queue!Accepted'[i] = <<u, k>>
    OBVIOUS
  <2>1. CASE k \in 1 .. calls[u]
    <3>1. PICK i \in DOMAIN Queue!Accepted : Queue!Accepted[i] = <<u, k>>
      BY <2>1 DEF QueueInv, Queue!OnceInOrder
    <3> QED BY <1>4, <3>1
  <2>2. CASE k \notin 1 .. calls[u]
    <3>1. u = t /\ k = calls[t] + 1
      BY <1>5, <2>2
    <3>2. Queue!Accepted'[Len(Queue!Accepted) + 1] = <<u, k>>
      BY <1>4, <3>1 DEF f, Queue!NextOf
    <3>3. Len(Queue!Accepted) + 1 \in DOMAIN Queue!Accepted'
      BY <1>4
    <3> QED BY <3>2, <3>3
  <2> QED BY <2>1, <2>2
<1> QED BY <1>6, <1>7, <1>8 DEF Queue!OnceInOrder

\* Where the accepted functors were before caller t put one between what is
\* done and what is queued.
Before(i) == IF i <= Len(done) THEN i ELSE i - 1

\* The shortcut inserts one functor between those done and those queued.
LEMMA RunNowInserts ==
    ASSUME QueueInv, NEW t \in Callers, Queue!RunNow(t)
    PROVE  LET n == Len(done) IN
           /\ n \in Nat
           /\ DOMAIN Queue!Accepted = 1 .. Len(Queue!Accepted)
           /\ DOMAIN Queue!Accepted' = 1 .. Len(Queue!Accepted) + 1
           /\ n <= Len(Queue!Accepted) /\ Len(Queue!Accepted) \in Nat
           /\ Queue!Accepted'[n + 1] = Queue!NextOf(t)
           /\ \A i \in DOMAIN Queue!Accepted' \ {n + 1} :
                 Before(i) \in DOMAIN Queue!Accepted /\ Queue!Accepted'[i] = Queue!Accepted[Before(i)]
           /\ \A i \in DOMAIN Queue!Accepted : i <= n => Queue!Accepted'[i] = Queue!Accepted[i]
           /\ \A i \in DOMAIN Queue!Accepted : i > n => Queue!Accepted'[i + 1] = Queue!Accepted[i]
           /\ \A i \in DOMAIN Queue!Accepted' : i > n + 1 => Queue!Accepted'[i][1] # t
<1> DEFINE f == Queue!NextOf(t)
<1>1. f \in Queue!Functor
  BY DEF QueueInv, Queue!TypeOK, Queue!NextOf, Queue!Functor
<1>2. Queue!Accepted \in Seq(Queue!Functor) /\ BatchAndVector \in Seq(Queue!Functor) /\ done \in Seq(Queue!Functor)
  BY DEF QueueInv, Queue!TypeOK, Queue!Accepted
<1>3. done' = Append(done, f) /\ BatchAndVector' = BatchAndVector
  BY DEF Queue!RunNow
<1>4. /\ Len(Queue!Accepted) = Len(done) + Len(BatchAndVector)
      /\ Len(Queue!Accepted) \in Nat /\ Len(done) \in Nat /\ Len(BatchAndVector) \in Nat
      /\ DOMAIN Queue!Accepted = 1 .. Len(Queue!Accepted)
      /\ \A i \in DOMAIN Queue!Accepted :
            Queue!Accepted[i] = IF i <= Len(done) THEN done[i] ELSE BatchAndVector[i - Len(done)]
  BY <1>2 DEF Queue!Accepted
<1>5. done' \in Seq(Queue!Functor) /\ Len(done') = Len(done) + 1
      /\ done'[Len(done) + 1] = f /\ \A i \in 1 .. Len(done) : done'[i] = done[i]
  BY <1>1, <1>2, <1>3
<1>6. /\ DOMAIN Queue!Accepted' = 1 .. Len(Queue!Accepted) + 1
      /\ \A i \in DOMAIN Queue!Accepted' :
            Queue!Accepted'[i] = IF i <= Len(done) + 1 THEN done'[i] ELSE BatchAndVector[i - Len(done) - 1]
  BY <1>2, <1>3, <1>4, <1>5 DEF Queue!Accepted
<1>7. \A i \in 1 .. Len(BatchAndVector) : BatchAndVector[i][1] # t
  BY <1>2 DEF Queue!RunNow
<1>8. \A i \in DOMAIN Queue!Accepted' \ {Len(done) + 1} :
         Before(i) \in DOMAIN Queue!Accepted /\ Queue!Accepted'[i] = Queue!Accepted[Before(i)]
  <2> SUFFICES ASSUME NEW i \in DOMAIN Queue!Accepted' \ {Len(done) + 1}
               PROVE  Before(i) \in DOMAIN Queue!Accepted /\ Queue!Accepted'[i] = Queue!Accepted[Before(i)]
    OBVIOUS
  <2>1. CASE i <= Len(done)
    BY <1>4, <1>5, <1>6, <2>1 DEF Before
  <2>2. CASE i > Len(done) + 1
    BY <1>4, <1>6, <2>2 DEF Before
  <2> QED BY <1>4, <1>6, <2>1, <2>2
<1>9. \A i \in DOMAIN Queue!Accepted : i <= Len(done) => Queue!Accepted'[i] = Queue!Accepted[i]
  BY <1>4, <1>5, <1>6
<1>10. \A i \in DOMAIN Queue!Accepted : i > Len(done) => Queue!Accepted'[i + 1] = Queue!Accepted[i]
  <2> SUFFICES ASSUME NEW i \in DOMAIN Queue!Accepted, i > Len(done)
               PROVE  Queue!Accepted'[i + 1] = Queue!Accepted[i]
    OBVIOUS
  <2>1. i \in Nat /\ i + 1 \in DOMAIN Queue!Accepted' /\ i + 1 > Len(done) + 1
    BY <1>4, <1>6
  <2>2. Queue!Accepted'[i + 1] = BatchAndVector[i - Len(done)]
    <3>1. (i + 1) - Len(done) - 1 = i - Len(done) /\ ~ (i + 1 <= Len(done) + 1)
      BY <1>4, <2>1
    <3> QED BY <1>6, <2>1, <3>1
  <2> QED BY <1>4, <2>2
<1>11. \A i \in DOMAIN Queue!Accepted' : i > Len(done) + 1 => Queue!Accepted'[i][1] # t
  BY <1>4, <1>6, <1>7
<1>12. Queue!Accepted'[Len(done) + 1] = f
  BY <1>4, <1>5, <1>6
<1>13. /\ Len(done) \in Nat /\ Len(done) <= Len(Queue!Accepted) /\ Len(Queue!Accepted) \in Nat
       /\ DOMAIN Queue!Accepted = 1 .. Len(Queue!Accepted)
       /\ DOMAIN Queue!Accepted' = 1 .. Len(Queue!Accepted) + 1
  BY <1>4, <1>6
<1> HIDE DEF f
<1> QED BY <1>8, <1>9, <1>10, <1>11, <1>12, <1>13 DEF f

\* The shortcut keeps the order of each caller: it has nothing queued.
LEMMA RunNowStep ==
    ASSUME QueueInv, NEW t \in Callers, Queue!RunNow(t)
    PROVE  Bounded' /\ Queue!OnceInOrder'
<1> DEFINE n == Len(done)
<1>1. /\ n \in Nat
      /\ DOMAIN Queue!Accepted = 1 .. Len(Queue!Accepted)
      /\ DOMAIN Queue!Accepted' = 1 .. Len(Queue!Accepted) + 1
      /\ n <= Len(Queue!Accepted) /\ Len(Queue!Accepted) \in Nat
      /\ Queue!Accepted'[n + 1] = Queue!NextOf(t)
      /\ \A i \in DOMAIN Queue!Accepted' \ {n + 1} :
            Before(i) \in DOMAIN Queue!Accepted /\ Queue!Accepted'[i] = Queue!Accepted[Before(i)]
      /\ \A i \in DOMAIN Queue!Accepted : i <= n => Queue!Accepted'[i] = Queue!Accepted[i]
      /\ \A i \in DOMAIN Queue!Accepted : i > n => Queue!Accepted'[i + 1] = Queue!Accepted[i]
      /\ \A i \in DOMAIN Queue!Accepted' : i > n + 1 => Queue!Accepted'[i][1] # t
  BY RunNowInserts
<1>2. \A i \in DOMAIN Queue!Accepted : Queue!Accepted[i] \in Queue!Functor /\ Queue!Accepted[i][2] <= calls[Queue!Accepted[i][1]]
  <2>1. Queue!Accepted \in Seq(Queue!Functor)
    BY DEF QueueInv, Queue!TypeOK, Queue!Accepted
  <2> QED BY <2>1 DEF QueueInv, Bounded
<1>3. /\ calls \in [Callers -> Nat]
      /\ calls'[t] = calls[t] + 1
      /\ \A u \in Callers \ {t} : calls'[u] = calls[u]
  BY DEF QueueInv, Queue!TypeOK, Queue!RunNow
<1>4. Queue!NextOf(t)[1] = t /\ Queue!NextOf(t)[2] = calls[t] + 1 /\ Queue!NextOf(t) = <<t, calls[t] + 1>>
  BY DEF Queue!NextOf
<1> HIDE DEF n
<1>5. Bounded'
  BY <1>1, <1>2, <1>3, <1>4 DEF Bounded, Queue!Functor
<1>6. \A i, j \in DOMAIN Queue!Accepted' :
         i < j /\ Queue!Accepted'[i][1] = Queue!Accepted'[j][1] => Queue!Accepted'[i][2] < Queue!Accepted'[j][2]
  <2> SUFFICES ASSUME NEW i \in DOMAIN Queue!Accepted', NEW j \in DOMAIN Queue!Accepted',
                      i < j, Queue!Accepted'[i][1] = Queue!Accepted'[j][1]
               PROVE  Queue!Accepted'[i][2] < Queue!Accepted'[j][2]
    OBVIOUS
  <2>1. CASE i = n + 1
    BY <1>1, <1>4, <2>1
  <2>2. CASE i # n + 1 /\ j = n + 1
    BY <1>1, <1>2, <1>3, <1>4, <2>2 DEF Queue!Functor
  <2>3. CASE i # n + 1 /\ j # n + 1
    <3>1. Before(i) < Before(j)
      BY <1>1, <2>3 DEF Before, n
    <3> QED BY <1>1, <2>3, <3>1 DEF QueueInv, Queue!OnceInOrder
  <2> QED BY <2>1, <2>2, <2>3
<1>7. \A u \in Callers : \A k \in 1 .. calls'[u] :
         \E i \in DOMAIN Queue!Accepted' : Queue!Accepted'[i] = <<u, k>>
  <2> SUFFICES ASSUME NEW u \in Callers, NEW k \in 1 .. calls'[u]
               PROVE  \E i \in DOMAIN Queue!Accepted' : Queue!Accepted'[i] = <<u, k>>
    OBVIOUS
  <2>1. CASE k \in 1 .. calls[u]
    <3>1. PICK i \in DOMAIN Queue!Accepted : Queue!Accepted[i] = <<u, k>>
      BY <2>1 DEF QueueInv, Queue!OnceInOrder
    <3>2. CASE i <= n
      BY <1>1, <3>1, <3>2
    <3>3. CASE i > n
      BY <1>1, <3>1, <3>3
    <3> QED BY <1>1, <3>2, <3>3
  <2>2. CASE k \notin 1 .. calls[u]
    <3>1. u = t /\ k = calls[t] + 1
      BY <1>3, <2>2
    <3> QED BY <1>1, <1>4, <3>1
  <2> QED BY <2>1, <2>2
<1> QED BY <1>5, <1>6, <1>7 DEF Queue!OnceInOrder

-----------------------------------------------------------------------------
\* Whatever the callers do, a functor is run or queued exactly once, and those
\* of one caller keep the order of its calls (the promise of RunInLoop).
THEOREM OnceInOrderCorrect == Queue!Spec => []Queue!OnceInOrder
<1>1. Queue!Init => QueueInv
  BY DEF Queue!Init, QueueInv, Queue!TypeOK, Bounded, Queue!OnceInOrder, Queue!Accepted
<1>2. QueueInv /\ [Queue!Next]_(Queue!vars) => QueueInv'
  <2> SUFFICES ASSUME QueueInv, [Queue!Next]_(Queue!vars) PROVE QueueInv'
    OBVIOUS
  <2>1. Queue!TypeOK'
    BY QueueTypeStep DEF QueueInv
  <2>2. ASSUME NEW t \in Callers, Queue!Submit(t) PROVE QueueInv'
    BY <2>1, <2>2, SubmitStep DEF QueueInv
  <2>3. ASSUME NEW t \in Callers, Queue!RunNow(t) PROVE QueueInv'
    BY <2>1, <2>3, RunNowStep DEF QueueInv
  <2>4. CASE Queue!RunHead
    <3>1. Queue!Accepted' = Queue!Accepted /\ calls' = calls
      BY <2>4, RunHeadKeepsAccepted DEF QueueInv, Queue!RunHead
    <3> QED BY <2>1, <3>1 DEF QueueInv, Bounded, Queue!OnceInOrder
  <2>5. CASE UNCHANGED Queue!vars
    BY <2>1, <2>5 DEF QueueInv, Bounded, Queue!OnceInOrder, Queue!Accepted, Queue!vars
  <2> QED BY <2>2, <2>3, <2>4, <2>5 DEF Queue!Next
<1>3. QueueInv => Queue!OnceInOrder
  BY DEF QueueInv
<1> QED BY <1>1, <1>2, <1>3, PTL DEF Queue!Spec

\* No functor handed to RunInLoop is lost, run twice or overtaken by a later
\* one of its caller.
THEOREM RunsInOrderCorrect == Spec => []RunsInOrder
BY Refinement, OnceInOrderCorrect, PTL DEF ImplementsTaskQueue, RunsInOrder
=============================================================================
