------------------------------ MODULE TaskQueue ------------------------------
(***************************************************************************)
(* What EventLoop::RunInLoop promises its callers, with the threads, the   *)
(* mutex, the eventfd and the swap of the vector left out: functors go     *)
(* through one FIFO queue, or run at once when the caller is the thread    *)
(* that runs the loop.  A functor is named <<t, k>>: the k-th one that     *)
(* caller t handed over.                                                   *)
(***************************************************************************)
EXTENDS Naturals, Sequences

CONSTANT Callers            \* threads that call RunInLoop

VARIABLES
    count,                  \* functors handed over so far, per caller
    queue,                  \* accepted and not yet run
    done                    \* run, in the order of their start

vars == <<count, queue, done>>

Functor == Callers \X (Nat \ {0})

NextOf(t) == <<t, count[t] + 1>>

Init ==
    /\ count = [t \in Callers |-> 0]
    /\ queue = <<>>
    /\ done = <<>>

Submit(t) ==
    /\ queue' = Append(queue, NextOf(t))
    /\ count' = [count EXCEPT ![t] = @ + 1]
    /\ UNCHANGED done

\* A caller that runs its functor itself has nothing left in the queue: the
\* shortcut never overtakes an earlier functor of the same caller.
RunNow(t) ==
    /\ \A i \in DOMAIN queue : queue[i][1] # t
    /\ done' = Append(done, NextOf(t))
    /\ count' = [count EXCEPT ![t] = @ + 1]
    /\ UNCHANGED queue

RunHead ==
    /\ queue # <<>>
    /\ done' = Append(done, Head(queue))
    /\ queue' = Tail(queue)
    /\ UNCHANGED count

Next ==
    \/ \E t \in Callers : Submit(t) \/ RunNow(t)
    \/ RunHead

Spec == Init /\ [][Next]_vars

-----------------------------------------------------------------------------

TypeOK ==
    /\ count \in [Callers -> Nat]
    /\ queue \in Seq(Functor)
    /\ done \in Seq(Functor)

Accepted == done \o queue

\* Every functor handed over is run or still queued, none is there twice, and
\* those of one caller stay in the order of its calls (EventLoop::RunInLoop and
\* DoPendingFunctor together).
OnceInOrder ==
    /\ \A i, j \in DOMAIN Accepted :
          i < j /\ Accepted[i][1] = Accepted[j][1] => Accepted[i][2] < Accepted[j][2]
    /\ \A t \in Callers : \A k \in 1 .. count[t] :
          \E i \in DOMAIN Accepted : Accepted[i] = <<t, k>>
=============================================================================
