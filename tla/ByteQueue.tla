------------------------------ MODULE ByteQueue ------------------------------
(***************************************************************************)
(* What a NetBuffer promises the connection that owns it: the bytes put in *)
(* come out once, in order, however the buffer moves or grows underneath.  *)
(***************************************************************************)
EXTENDS Naturals, Sequences, SequencesExt

CONSTANTS
    Byte,
    MaxData         \* bytes put in by one call

VARIABLE queue              \* bytes put in and not yet consumed

Init == queue = <<>>

Put(data) == queue' = queue \o data

Take(n) == queue' = SubSeq(queue, n + 1, Len(queue))

Next ==
    \/ \E data \in BoundedSeq(Byte, MaxData) : Put(data)
    \/ \E n \in 0 .. Len(queue) : Take(n)

Spec == Init /\ [][Next]_queue
=============================================================================
