------------------------------- MODULE IdleList -------------------------------
(***************************************************************************)
(* What an event loop expects of the list it keeps its connections in to   *)
(* find the idle ones: a sequence without repetition, the connection heard *)
(* from least recently first.  DouList.tla implements it with pointers;    *)
(* TcpConn.tla and TcpServer.tla use it in this form.                      *)
(***************************************************************************)
EXTENDS Sequences, SequencesExt

CONSTANT Node

VARIABLE list

Touched(s, n) == Append(RemoveFirst(s, n), n)

Init == list = <<>>

\* The connection was heard from: it goes to the end, wherever it was.
Touch(n) == list' = Touched(list, n)

\* The connection is gone; it may not be in the list any more.
Drop(n) == list' = RemoveFirst(list, n)

\* The connection at the front has expired.
Expire == list # <<>> /\ list' = Tail(list)

Next == Expire \/ \E n \in Node : Touch(n) \/ Drop(n)

Spec == Init /\ [][Next]_list
=============================================================================
