----------------------------- MODULE EventLoopMC -----------------------------
(***************************************************************************)
(* EventLoop for TLC: the thread that constructs the loop and one more     *)
(* caller, against the loop's thread and a thread that stops it.           *)
(***************************************************************************)
EXTENDS EventLoop

CONSTANTS main, worker, loopThread

MCThreads == {main, worker}
MCMaxCalls == [t \in MCThreads \cup {loopThread} |-> IF t = loopThread THEN 1 ELSE 2]
=============================================================================
