------------------------------ MODULE NetBuffer ------------------------------
(***************************************************************************)
(* NetBuffer (NetBuffer.cpp): the receive and the send buffer of a         *)
(* connection.  One block of memory, a read and a write position in it.    *)
(* Append makes room by sliding the unread bytes to the front, or by       *)
(* moving them to a larger block; ReadFd lets the kernel fill the free     *)
(* tail and a spill area on the stack, and appends what spilled.           *)
(*                                                                         *)
(* A buffer is a record, so that the modules of the connection and of the  *)
(* codec can use the operators on their own buffers.  Positions and sizes  *)
(* are uint32_t in the code; MaxUnread keeps them far from 2^32.           *)
(***************************************************************************)
EXTENDS Naturals, Sequences, SequencesExt

CONSTANTS
    Byte,           \* what a byte may be
    Junk,           \* a byte of new char[] that nobody wrote
    BUF_LEN,        \* first size, and the slack of every growth (1024)
    ExtraSize,      \* pExtraBuf in ReadFd (65536)
    MaxData,        \* bound: bytes put in by one call
    MaxUnread       \* bound: bytes put in and not yet consumed

ASSUME NetBufferAssumption ==
    /\ Junk \notin Byte
    /\ BUF_LEN \in Nat \ {0}
    /\ ExtraSize \in Nat \ {0}
    /\ MaxData \in Nat
    /\ MaxUnread \in Nat

EmptyBuffer ==
    [readPos |-> 0, writePos |-> 0, size |-> BUF_LEN,
     buf |-> [i \in 0 .. BUF_LEN - 1 |-> Junk]]

WriteableSize(b) == b.size - b.writePos
ReadableSize(b) == b.writePos - b.readPos

\* The bytes from BeginRead() on, as the owner reads them.
Contents(b) == [i \in 1 .. ReadableSize(b) |-> b.buf[b.readPos + i - 1]]

\* memcpy of data to the write position.
Written(b, data) ==
    [b EXCEPT !.writePos = @ + Len(data),
              !.buf = [i \in 0 .. b.size - 1 |->
                          IF i \in b.writePos .. b.writePos + Len(data) - 1
                          THEN data[i - b.writePos + 1]
                          ELSE @[i]]]

\* Variant: the write position is not brought down with the unread bytes.
SlidHalf(b) ==
    [b EXCEPT !.readPos = 0,
              !.buf = [i \in 0 .. b.size - 1 |->
                          IF i < ReadableSize(b) THEN @[b.readPos + i] ELSE @[i]]]

\* memmove of the unread bytes to the front.
Slid(b) ==
    [b EXCEPT !.readPos = 0,
              !.writePos = ReadableSize(b),
              !.buf = [i \in 0 .. b.size - 1 |->
                          IF i < ReadableSize(b) THEN @[b.readPos + i] ELSE @[i]]]

\* Variant: the old block is copied from its start, consumed bytes included.
GrownFromStart(b, n) ==
    [readPos |-> 0, writePos |-> ReadableSize(b), size |-> b.size + n + BUF_LEN,
     buf |-> [i \in 0 .. b.size + n + BUF_LEN - 1 |->
                 IF i < ReadableSize(b) THEN b.buf[i] ELSE Junk]]

\* A larger block, the unread bytes at its front.
Grown(b, n) ==
    [readPos |-> 0, writePos |-> ReadableSize(b), size |-> b.size + n + BUF_LEN,
     buf |-> [i \in 0 .. b.size + n + BUF_LEN - 1 |->
                 IF i < ReadableSize(b) THEN b.buf[b.readPos + i] ELSE Junk]]

\* Variant: the free space in front of the unread bytes is not counted.
RoomAlwaysGrown(b, n) ==
    IF WriteableSize(b) >= n THEN b ELSE Grown(b, n)

\* Room for n more bytes behind the unread ones.
Room(b, n) ==
    IF WriteableSize(b) >= n THEN b
    ELSE IF WriteableSize(b) + b.readPos < n THEN Grown(b, n)
    ELSE Slid(b)

\* Append, of no byte at all too: it then returns without a change.
Appended(b, data) ==
    IF data = <<>> THEN b ELSE Written(Room(b, Len(data)), data)

\* How much one readv of ReadFd may bring: the spill area is offered only when
\* the free tail is smaller than it.
ReadvSize(b) ==
    WriteableSize(b) + (IF WriteableSize(b) < ExtraSize THEN ExtraSize ELSE 0)

\* Variant: what spilled is put in front of what fitted.
FilledSwapped(b, data) ==
    LET w == WriteableSize(b) IN
    IF Len(data) <= w THEN Written(b, data)
    ELSE Appended(Written(b, SubSeq(data, Len(data) - w + 1, Len(data))),
                  SubSeq(data, 1, Len(data) - w))

\* ReadFd after readv brought data.
Filled(b, data) ==
    LET w == WriteableSize(b) IN
    IF Len(data) <= w THEN Written(b, data)
    ELSE Appended(Written(b, SubSeq(data, 1, w)), SubSeq(data, w + 1, Len(data)))

Consumed(b, n) == [b EXCEPT !.readPos = @ + n]

-----------------------------------------------------------------------------
VARIABLE buffer

Data == BoundedSeq(Byte, MaxData)

Fits(data) == ReadableSize(buffer) + Len(data) <= MaxUnread

Init == buffer = EmptyBuffer

AppendData(data) ==
    /\ Fits(data)
    /\ buffer' = Appended(buffer, data)

\* readv may fail or find the end of the stream: nothing changes then.
ReadFd(data) ==
    /\ Len(data) <= ReadvSize(buffer) /\ Fits(data)
    /\ buffer' = Filled(buffer, data)

\* Every owner consumes at most what is readable.
AddReadPos(n) ==
    /\ n <= ReadableSize(buffer)
    /\ buffer' = Consumed(buffer, n)

Next ==
    \/ \E data \in Data : AppendData(data) \/ ReadFd(data)
    \/ \E n \in 0 .. ReadableSize(buffer) : AddReadPos(n)

Spec == Init /\ [][Next]_buffer

-----------------------------------------------------------------------------
\* The positions stay in order inside the block, and between them lie only
\* bytes that were put in.
IsBuffer(b) ==
    /\ DOMAIN b = {"readPos", "writePos", "size", "buf"}
    /\ b.readPos \in Nat /\ b.writePos \in Nat /\ b.size \in Nat
    /\ b.readPos <= b.writePos /\ b.writePos <= b.size
    /\ b.buf \in [0 .. b.size - 1 -> Byte \cup {Junk}]
    /\ \A i \in b.readPos .. b.writePos - 1 : b.buf[i] \in Byte

TypeOK == IsBuffer(buffer)

\* Whatever order of appends, reads and consumption: what the owner reads is a
\* queue of bytes (NetBuffer::Append, ReadFd, AddReadPos).
Bytes == INSTANCE ByteQueue WITH queue <- Contents(buffer)
ImplementsByteQueue == Bytes!Spec

\* And the queue gets exactly what the call was given, in its order, though
\* ReadFd splits it between the block and the spill area (NetBuffer.cpp:49):
\* the abstract queue may be given any bytes, this ties them to the call.
CallsCarryTheirData ==
    [][/\ \A data \in Data : AppendData(data) \/ ReadFd(data) => Bytes!Put(data)
       /\ \A n \in 0 .. ReadableSize(buffer) : AddReadPos(n) => Bytes!Take(n)]_buffer

\* The block is replaced by a larger one only when the unread bytes and the new
\* ones do not fit it together: as long as its owner keeps up, a buffer does
\* not grow, however many bytes pass through it (NetBuffer.cpp:99).
GrowsOnlyWhenFull ==
    [][buffer'.size # buffer.size => ReadableSize(buffer') > buffer.size]_buffer
=============================================================================
