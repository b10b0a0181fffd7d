--------------------------- MODULE NetBufferProofs ---------------------------
(***************************************************************************)
(* NetBuffer is a byte queue, whatever the size of the block, of the spill *)
(* area and of the data.  Each lemma says what one operation does to the   *)
(* well-formedness of a buffer and to the bytes its owner reads.           *)
(***************************************************************************)
EXTENDS NetBuffer, SequenceTheorems, TLAPS

USE NetBufferAssumption

\* What the owner of a buffer reads is a sequence of bytes that were put in.
LEMMA ContentsAreBytes ==
    ASSUME NEW b, IsBuffer(b)
    PROVE  /\ Contents(b) \in Seq(Byte)
           /\ Len(Contents(b)) = ReadableSize(b)
           /\ ReadableSize(b) \in Nat /\ WriteableSize(b) \in Nat
           /\ \A i \in 1 .. ReadableSize(b) : b.readPos + i - 1 \in b.readPos .. b.writePos - 1
<1>1. ReadableSize(b) \in Nat /\ WriteableSize(b) \in Nat
  BY DEF IsBuffer, ReadableSize, WriteableSize
<1>2. \A i \in 1 .. ReadableSize(b) : b.readPos + i - 1 \in b.readPos .. b.writePos - 1
  BY DEF IsBuffer, ReadableSize
<1>3. \A i \in 1 .. ReadableSize(b) : b.buf[b.readPos + i - 1] \in Byte
  BY <1>2 DEF IsBuffer
<1> QED BY <1>1, <1>2, <1>3 DEF Contents

\* Two sequences of one length and with the same elements are equal.
LEMMA SameElements ==
    ASSUME NEW S, NEW s \in Seq(S), NEW t \in Seq(S), Len(s) = Len(t),
           \A i \in 1 .. Len(s) : s[i] = t[i]
    PROVE  s = t
OBVIOUS

\* Bounded data are sequences of bytes.
LEMMA DataIsSeq == \A data \in Data : data \in Seq(Byte)
BY DEF Data, BoundedSeq, SeqOf

\* memcpy to the write position appends to what the owner reads.
LEMMA WrittenAppends ==
    ASSUME NEW b, IsBuffer(b), NEW data \in Seq(Byte), Len(data) <= WriteableSize(b)
    PROVE  /\ IsBuffer(Written(b, data))
           /\ Contents(Written(b, data)) = Contents(b) \o data
           /\ Written(b, data).size = b.size
           /\ WriteableSize(Written(b, data)) = WriteableSize(b) - Len(data)
<1> DEFINE c == Written(b, data)
<1>1. /\ DOMAIN c = {"readPos", "writePos", "size", "buf"}
      /\ c.readPos = b.readPos /\ c.size = b.size /\ c.writePos = b.writePos + Len(data)
      /\ c.buf = [i \in 0 .. b.size - 1 |->
                     IF i \in b.writePos .. b.writePos + Len(data) - 1
                     THEN data[i - b.writePos + 1] ELSE b.buf[i]]
  BY DEF Written, IsBuffer
<1>2. Len(data) \in Nat /\ \A i \in 1 .. Len(data) : data[i] \in Byte
  OBVIOUS
<1> HIDE DEF c
<1>3. IsBuffer(c)
  BY <1>1, <1>2 DEF IsBuffer, WriteableSize
<1>4. Contents(c) = Contents(b) \o data
  <2>1. /\ Contents(b) \in Seq(Byte) /\ Contents(c) \in Seq(Byte)
        /\ Len(Contents(b)) = ReadableSize(b) /\ Len(Contents(c)) = ReadableSize(c)
    BY <1>3, ContentsAreBytes
  <2>2. ReadableSize(c) = ReadableSize(b) + Len(data)
    BY <1>1, <1>2 DEF ReadableSize, IsBuffer
  <2>3. \A i \in 1 .. ReadableSize(c) :
           Contents(c)[i] = IF i <= ReadableSize(b) THEN Contents(b)[i]
                                                    ELSE data[i - ReadableSize(b)]
    <3> SUFFICES ASSUME NEW i \in 1 .. ReadableSize(c)
                 PROVE  Contents(c)[i] = IF i <= ReadableSize(b) THEN Contents(b)[i]
                                                          ELSE data[i - ReadableSize(b)]
      OBVIOUS
    <3>1. Contents(c)[i] = c.buf[b.readPos + i - 1]
      BY <1>1 DEF Contents
    <3>2. b.readPos + i - 1 \in 0 .. b.size - 1
      BY <1>1, <1>2, <2>2 DEF IsBuffer, ReadableSize, WriteableSize
    <3>3. CASE i <= ReadableSize(b)
      <4>1. b.readPos + i - 1 < b.writePos /\ i \in 1 .. ReadableSize(b)
        BY <3>3, ContentsAreBytes DEF IsBuffer, ReadableSize
      <4>2. c.buf[b.readPos + i - 1] = b.buf[b.readPos + i - 1]
        BY <1>1, <1>2, <3>2, <4>1 DEF IsBuffer
      <4> QED BY <3>1, <3>3, <4>1, <4>2 DEF Contents
    <3>4. CASE ~ (i <= ReadableSize(b))
      <4>1. /\ b.readPos + i - 1 \in b.writePos .. b.writePos + Len(data) - 1
            /\ b.readPos + i - 1 - b.writePos + 1 = i - ReadableSize(b)
        BY <1>2, <2>2, <3>4 DEF IsBuffer, ReadableSize
      <4>2. \A k \in 0 .. b.size - 1 :
               k \in b.writePos .. b.writePos + Len(data) - 1 => c.buf[k] = data[k - b.writePos + 1]
        BY <1>1
      <4>3. PICK k \in 0 .. b.size - 1 : k = b.readPos + i - 1
        BY <3>2
      <4>4. c.buf[k] = data[k - b.writePos + 1]
        BY ONLY <4>1, <4>2, <4>3
      <4>5. k - b.writePos + 1 = i - ReadableSize(b)
        BY <1>2, <2>2, <4>3 DEF IsBuffer, ReadableSize
      <4>6. Contents(c)[i] = c.buf[k]
        BY ONLY <3>1, <4>3
      <4> QED BY ONLY <3>4, <4>4, <4>5, <4>6
    <3> QED BY <3>3, <3>4
  <2>4. /\ Contents(b) \o data \in Seq(Byte)
        /\ Len(Contents(b) \o data) = ReadableSize(b) + Len(data)
        /\ \A i \in 1 .. ReadableSize(b) + Len(data) :
              (Contents(b) \o data)[i] = IF i <= ReadableSize(b) THEN Contents(b)[i]
                                                               ELSE data[i - ReadableSize(b)]
    <3>1. /\ Contents(b) \o data \in Seq(Byte)
          /\ Len(Contents(b) \o data) = Len(Contents(b)) + Len(data)
          /\ \A i \in 1 .. Len(Contents(b)) + Len(data) :
                (Contents(b) \o data)[i] = IF i <= Len(Contents(b)) THEN Contents(b)[i]
                                                        ELSE data[i - Len(Contents(b))]
      BY <2>1, ConcatProperties
    <3> QED BY <2>1, <3>1
  <2> QED BY <2>1, <2>2, <2>3, <2>4, SameElements
<1> QED BY <1>1, <1>2, <1>3, <1>4 DEF c, WriteableSize, IsBuffer

\* A block with the unread bytes of b at its front reads like b.
LEMMA MovedToFront ==
    ASSUME NEW b, IsBuffer(b), NEW c,
           DOMAIN c = {"readPos", "writePos", "size", "buf"},
           c.readPos = 0, c.writePos = ReadableSize(b),
           c.size \in Nat, ReadableSize(b) <= c.size,
           c.buf \in [0 .. c.size - 1 -> Byte \cup {Junk}],
           \A i \in 0 .. ReadableSize(b) - 1 : c.buf[i] = b.buf[b.readPos + i]
    PROVE  IsBuffer(c) /\ Contents(c) = Contents(b)
<1>1. ReadableSize(b) \in Nat
  BY ContentsAreBytes
<1>2. \A i \in 0 .. ReadableSize(b) - 1 : b.buf[b.readPos + i] \in Byte
  BY DEF IsBuffer, ReadableSize
<1>3. IsBuffer(c)
  <2>1. \A i \in c.readPos .. c.writePos - 1 : c.buf[i] \in Byte
    BY <1>1, <1>2
  <2>2. c.readPos \in Nat /\ c.writePos \in Nat /\ c.readPos <= c.writePos /\ c.writePos <= c.size
    BY <1>1
  <2> QED BY <2>1, <2>2 DEF IsBuffer
<1>4. ReadableSize(c) = ReadableSize(b)
  <2>1. c.writePos - c.readPos = ReadableSize(b)
    BY <1>1
  <2> QED BY <2>1 DEF ReadableSize
<1>5. \A i \in 1 .. ReadableSize(b) : c.buf[c.readPos + i - 1] = b.buf[b.readPos + i - 1]
  <2> SUFFICES ASSUME NEW i \in 1 .. ReadableSize(b)
               PROVE  c.buf[c.readPos + i - 1] = b.buf[b.readPos + i - 1]
    OBVIOUS
  <2>1. i - 1 \in 0 .. ReadableSize(b) - 1 /\ c.readPos + i - 1 = i - 1
    BY <1>1
  <2>2. b.readPos + (i - 1) = b.readPos + i - 1
    BY DEF IsBuffer
  <2> QED BY <2>1, <2>2
<1> QED BY <1>3, <1>4, <1>5 DEF Contents

\* The last cell of a block of x + y + z bytes, however the sum is grouped: the
\* bound NetBuffer's reallocation uses.
LEMMA LastCell ==
    \A x, y, z \in Nat : x + y + z - 1 = (x + y + z) - 1
OBVIOUS

\* Making room changes where the unread bytes lie, not what they are, and takes
\* a larger block only if the old one is too small for everything.
LEMMA RoomKeeps ==
    ASSUME NEW b, IsBuffer(b), NEW n \in Nat
    PROVE  /\ IsBuffer(Room(b, n))
           /\ Contents(Room(b, n)) = Contents(b)
           /\ n <= WriteableSize(Room(b, n))
           /\ Room(b, n).size # b.size => ReadableSize(b) + n > b.size
<1>1. /\ b.size \in Nat /\ ReadableSize(b) \in Nat /\ ReadableSize(b) <= b.size
      /\ \A i \in 0 .. ReadableSize(b) - 1 : b.buf[b.readPos + i] \in Byte
      /\ b.buf \in [0 .. b.size - 1 -> Byte \cup {Junk}]
  BY DEF IsBuffer, ReadableSize
<1>2. CASE WriteableSize(b) >= n
  BY <1>2 DEF Room
<1>3. CASE ~ (WriteableSize(b) >= n) /\ WriteableSize(b) + b.readPos < n
  <2> DEFINE c == Grown(b, n)
             size == b.size + n + BUF_LEN
  <2>1. Room(b, n) = c
    BY <1>3 DEF Room
  <2>2. /\ DOMAIN c = {"readPos", "writePos", "size", "buf"}
        /\ c.readPos = 0 /\ c.writePos = ReadableSize(b) /\ c.size = size
        /\ c.buf = [i \in 0 .. size - 1 |->
                       IF i < ReadableSize(b) THEN b.buf[b.readPos + i] ELSE Junk]
    <3>1. /\ DOMAIN c = {"readPos", "writePos", "size", "buf"}
          /\ c.readPos = 0 /\ c.writePos = ReadableSize(b) /\ c.size = size
      BY DEF Grown
    <3>2. c.buf = [i \in 0 .. size - 1 |->
                      IF i < ReadableSize(b) THEN b.buf[b.readPos + i] ELSE Junk]
      <4>1. b.size + n + BUF_LEN - 1 = size - 1
        BY ONLY <1>1, NetBufferAssumption, n \in Nat, LastCell
      <4> QED BY ONLY <4>1 DEF Grown, c
    <3> QED BY ONLY <3>1, <3>2
  <2>3. size \in Nat /\ ReadableSize(b) <= size /\ n <= size - ReadableSize(b)
    BY <1>1
  <2> HIDE DEF c, size
  <2>4. c.buf \in [0 .. size - 1 -> Byte \cup {Junk}]
    <3>1. \A i \in 0 .. size - 1 : i < ReadableSize(b) => b.buf[b.readPos + i] \in Byte
      BY <1>1, <2>3
    <3> QED BY <2>2, <3>1
  <2>5. \A i \in 0 .. ReadableSize(b) - 1 : c.buf[i] = b.buf[b.readPos + i]
    <3>1. \A i \in 0 .. ReadableSize(b) - 1 : i \in 0 .. size - 1 /\ i < ReadableSize(b)
      BY <1>1, <2>3
    <3> QED BY <2>2, <3>1
  <2>6. IsBuffer(c) /\ Contents(c) = Contents(b)
    BY <2>2, <2>3, <2>4, <2>5, MovedToFront
  <2>7. n <= WriteableSize(c)
    BY <2>2, <2>3 DEF WriteableSize
  <2>8. ReadableSize(b) + n > b.size
    BY <1>1, <1>3 DEF WriteableSize, ReadableSize, IsBuffer
  <2> QED BY <2>1, <2>6, <2>7, <2>8
<1>4. CASE ~ (WriteableSize(b) >= n) /\ ~ (WriteableSize(b) + b.readPos < n)
  <2> DEFINE c == Slid(b)
  <2>1. Room(b, n) = c
    BY <1>4 DEF Room
  <2>2. /\ DOMAIN c = {"readPos", "writePos", "size", "buf"}
        /\ c.readPos = 0 /\ c.writePos = ReadableSize(b) /\ c.size = b.size
        /\ c.buf = [i \in 0 .. b.size - 1 |->
                       IF i < ReadableSize(b) THEN b.buf[b.readPos + i] ELSE b.buf[i]]
    BY DEF Slid, IsBuffer
  <2> HIDE DEF c
  <2>3. c.buf \in [0 .. c.size - 1 -> Byte \cup {Junk}]
    <3>1. \A i \in 0 .. b.size - 1 : i < ReadableSize(b) => b.buf[b.readPos + i] \in Byte
      BY <1>1
    <3> QED BY <1>1, <2>2, <3>1
  <2>4. \A i \in 0 .. ReadableSize(b) - 1 : c.buf[i] = b.buf[b.readPos + i]
    <3>1. \A i \in 0 .. ReadableSize(b) - 1 : i \in 0 .. b.size - 1 /\ i < ReadableSize(b)
      BY <1>1
    <3> QED BY <2>2, <3>1
  <2>5. IsBuffer(c) /\ Contents(c) = Contents(b)
    BY <1>1, <2>2, <2>3, <2>4, MovedToFront
  <2>6. n <= WriteableSize(c)
    BY <1>4, <2>2 DEF WriteableSize, ReadableSize, IsBuffer
  <2> QED BY <2>1, <2>2, <2>5, <2>6
<1> QED BY <1>2, <1>3, <1>4

\* So does Append, wherever it makes the room.
LEMMA AppendedAppends ==
    ASSUME NEW b, IsBuffer(b), NEW data \in Seq(Byte)
    PROVE  /\ IsBuffer(Appended(b, data))
           /\ Contents(Appended(b, data)) = Contents(b) \o data
           /\ Appended(b, data).size # b.size => ReadableSize(b) + Len(data) > b.size
<1>1. CASE data = <<>>
  BY <1>1, ContentsAreBytes DEF Appended
<1>2. CASE data # <<>>
  <2>1. Appended(b, data) = Written(Room(b, Len(data)), data)
    BY <1>2 DEF Appended
  <2>2. Len(data) \in Nat
    OBVIOUS
  <2>3. /\ IsBuffer(Room(b, Len(data))) /\ Contents(Room(b, Len(data))) = Contents(b)
        /\ Len(data) <= WriteableSize(Room(b, Len(data)))
        /\ Room(b, Len(data)).size # b.size => ReadableSize(b) + Len(data) > b.size
    BY <2>2, RoomKeeps
  <2> QED BY <2>1, <2>3, WrittenAppends
<1> QED BY <1>1, <1>2

\* What fits goes to the tail of the block and the rest behind it.
LEMMA FilledAppends ==
    ASSUME NEW b, IsBuffer(b), NEW data \in Seq(Byte)
    PROVE  /\ IsBuffer(Filled(b, data))
           /\ Contents(Filled(b, data)) = Contents(b) \o data
           /\ Filled(b, data).size # b.size => ReadableSize(b) + Len(data) > b.size
<1> DEFINE w == WriteableSize(b)
<1>1. w \in Nat /\ ReadableSize(b) \in Nat
  BY ContentsAreBytes
<1>2. CASE Len(data) <= w
  BY <1>2, WrittenAppends DEF Filled
<1>3. CASE ~ (Len(data) <= w)
  <2> DEFINE head == SubSeq(data, 1, w)
             tail == SubSeq(data, w + 1, Len(data))
             c == Written(b, head)
  <2>1. /\ head \in Seq(Byte) /\ tail \in Seq(Byte)
        /\ Len(head) = w /\ Len(tail) = Len(data) - w
    BY <1>1, <1>3
  <2>2. head \o tail = data
    <3>1. /\ head \o tail \in Seq(Byte) /\ Len(head \o tail) = Len(data)
          /\ \A i \in 1 .. Len(data) : (head \o tail)[i] = data[i]
      <4>1. \A i \in 1 .. Len(data) :
               data[i] = IF i <= w THEN head[i] ELSE tail[i - w]
        BY <1>1, <1>3
      <4>2. /\ head \o tail \in Seq(Byte) /\ Len(head \o tail) = Len(head) + Len(tail)
            /\ \A i \in 1 .. Len(head) + Len(tail) :
                  (head \o tail)[i] = IF i <= Len(head) THEN head[i] ELSE tail[i - Len(head)]
        BY ONLY <2>1, ConcatProperties
      <4>3. Len(head) + Len(tail) = Len(data)
        BY <1>1, <2>1
      <4> QED BY ONLY <2>1, <4>1, <4>2, <4>3
    <3> QED BY <3>1, SameElements
  <2>3. Filled(b, data) = Appended(c, tail)
    BY <1>3 DEF Filled
  <2> HIDE DEF head, tail, c
  <2>4. /\ IsBuffer(c) /\ Contents(c) = Contents(b) \o head /\ c.size = b.size
    BY <1>1, <2>1, WrittenAppends DEF c
  <2>5. ReadableSize(c) = ReadableSize(b) + Len(head)
    BY <2>1, <2>4, ContentsAreBytes, ConcatProperties
  <2>6. /\ IsBuffer(Appended(c, tail)) /\ Contents(Appended(c, tail)) = Contents(c) \o tail
        /\ Appended(c, tail).size # c.size => ReadableSize(c) + Len(tail) > c.size
    BY <2>1, <2>4, AppendedAppends
  <2>7. (Contents(b) \o head) \o tail = Contents(b) \o (head \o tail)
    <3>1. Contents(b) \in Seq(Byte)
      BY ContentsAreBytes
    <3>2. \A s, t, u \in Seq(Byte) : (s \o t) \o u = s \o (t \o u)
      BY ONLY ConcatAssociative
    <3> QED BY ONLY <2>1, <3>1, <3>2
  <2>8. ReadableSize(c) + Len(tail) = ReadableSize(b) + Len(data)
    BY <1>1, <2>1, <2>5
  <2> QED BY <2>2, <2>3, <2>4, <2>6, <2>7, <2>8
<1> QED BY <1>2, <1>3

\* AddReadPos takes from the front.
LEMMA ConsumedTakes ==
    ASSUME NEW b, IsBuffer(b), NEW n \in 0 .. ReadableSize(b)
    PROVE  /\ IsBuffer(Consumed(b, n))
           /\ Contents(Consumed(b, n)) = SubSeq(Contents(b), n + 1, Len(Contents(b)))
           /\ Consumed(b, n).size = b.size
<1> DEFINE c == Consumed(b, n)
<1>1. /\ DOMAIN c = {"readPos", "writePos", "size", "buf"}
      /\ c.readPos = b.readPos + n /\ c.size = b.size /\ c.writePos = b.writePos
      /\ c.buf = b.buf
  BY DEF Consumed, IsBuffer
<1> HIDE DEF c
<1>2. ReadableSize(b) \in Nat /\ n \in Nat /\ n <= ReadableSize(b)
  BY ContentsAreBytes
<1>3. IsBuffer(c)
  <2>1. c.readPos \in Nat /\ c.readPos <= c.writePos
    BY <1>1, <1>2 DEF IsBuffer, ReadableSize
  <2>2. \A i \in c.readPos .. c.writePos - 1 : i \in b.readPos .. b.writePos - 1
    BY <1>1, <1>2, <2>1 DEF IsBuffer
  <2> QED BY <1>1, <2>1, <2>2 DEF IsBuffer
<1>4. ReadableSize(c) = ReadableSize(b) - n
  BY <1>1, <1>2 DEF IsBuffer, ReadableSize
<1>5. /\ Contents(b) \in Seq(Byte) /\ Contents(c) \in Seq(Byte)
      /\ Len(Contents(b)) = ReadableSize(b) /\ Len(Contents(c)) = ReadableSize(b) - n
  BY <1>3, <1>4, ContentsAreBytes
<1>6. \A i \in 1 .. ReadableSize(b) - n : Contents(c)[i] = Contents(b)[n + i]
  BY <1>1, <1>2, <1>4 DEF Contents, IsBuffer, ReadableSize
<1>7. Contents(c) = SubSeq(Contents(b), n + 1, Len(Contents(b)))
  <2> DEFINE t == SubSeq(Contents(b), n + 1, Len(Contents(b)))
  <2>1. /\ t \in Seq(Byte) /\ Len(t) = ReadableSize(b) - n
        /\ \A i \in 1 .. ReadableSize(b) - n : t[i] = Contents(b)[n + i]
    BY <1>2, <1>5
  <2> HIDE DEF t
  <2>2. Contents(c) = t
    BY <1>5, <1>6, <2>1, SameElements
  <2> QED BY <2>2 DEF t
<1> QED BY <1>1, <1>3, <1>7 DEF c

-----------------------------------------------------------------------------
\* The positions stay in order inside the block, and the owner never reads a
\* byte that nobody wrote (NetBuffer::Append, ReadFd, AddReadPos).
THEOREM TypeCorrect == Spec => []TypeOK
<1>1. Init => TypeOK
  BY DEF Init, TypeOK, IsBuffer, EmptyBuffer
<1>2. TypeOK /\ [Next]_buffer => TypeOK'
  <2> SUFFICES ASSUME TypeOK, [Next]_buffer PROVE TypeOK'
    OBVIOUS
  <2> USE DEF TypeOK
  <2>1. ASSUME NEW data \in Data, AppendData(data) PROVE TypeOK'
    BY <2>1, DataIsSeq, AppendedAppends DEF AppendData
  <2>2. ASSUME NEW data \in Data, ReadFd(data) PROVE TypeOK'
    BY <2>2, DataIsSeq, FilledAppends DEF ReadFd
  <2>3. ASSUME NEW n \in 0 .. ReadableSize(buffer), AddReadPos(n) PROVE TypeOK'
    BY <2>3, ConsumedTakes DEF AddReadPos
  <2> QED BY <2>1, <2>2, <2>3 DEF Next
<1> QED BY <1>1, <1>2, PTL DEF Spec

\* Every step of a buffer is one of the byte queue, or a stutter.
LEMMA StepsImplement ==
    ASSUME TypeOK, [Next]_buffer
    PROVE  [Bytes!Next]_(Contents(buffer))
<1> USE DEF TypeOK
<1>1. ASSUME NEW data \in Data, AppendData(data) PROVE Bytes!Put(data)
  BY <1>1, DataIsSeq, AppendedAppends DEF AppendData, Bytes!Put
<1>2. ASSUME NEW data \in Data, ReadFd(data) PROVE Bytes!Put(data)
  BY <1>2, DataIsSeq, FilledAppends DEF ReadFd, Bytes!Put
<1>3. ASSUME NEW n \in 0 .. ReadableSize(buffer), AddReadPos(n)
      PROVE  n \in 0 .. Len(Contents(buffer)) /\ Bytes!Take(n)
  BY <1>3, ContentsAreBytes, ConsumedTakes DEF AddReadPos, Bytes!Take
<1>4. ASSUME UNCHANGED buffer PROVE UNCHANGED Contents(buffer)
  BY <1>4 DEF Contents, ReadableSize
<1>5. \A data \in Data : Bytes!Put(data) => Bytes!Next
  BY DEF Bytes!Next, Data, BoundedSeq, SeqOf, Bytes!BoundedSeq, Bytes!SeqOf
<1>6. \A n \in 0 .. Len(Contents(buffer)) : Bytes!Take(n) => Bytes!Next
  BY DEF Bytes!Next
<1>7. CASE \E data \in Data : AppendData(data) \/ ReadFd(data)
  BY <1>1, <1>2, <1>5, <1>7
<1>8. CASE \E n \in 0 .. ReadableSize(buffer) : AddReadPos(n)
  BY <1>3, <1>6, <1>8
<1> QED BY <1>4, <1>7, <1>8 DEF Next

\* However Append slides or moves the unread bytes and ReadFd splits what the
\* kernel brought, the owner of a NetBuffer reads the bytes put in, once and in
\* order.
THEOREM Refinement == Spec => ImplementsByteQueue
<1>1. Init => Bytes!Init
  BY DEF Init, Bytes!Init, Contents, ReadableSize, EmptyBuffer
<1>2. TypeOK /\ [Next]_buffer => [Bytes!Next]_(Contents(buffer))
  BY StepsImplement
<1> QED BY <1>1, <1>2, TypeCorrect, PTL DEF Spec, ImplementsByteQueue, Bytes!Spec

\* Each call puts or takes exactly the bytes it was called with: Append and ReadFd
\* all of the data at the end of the unread bytes, AddReadPos the first n.
THEOREM CallsCorrect == Spec => CallsCarryTheirData
<1> DEFINE Carries ==
        /\ \A data \in Data : AppendData(data) \/ ReadFd(data) => Bytes!Put(data)
        /\ \A n \in 0 .. ReadableSize(buffer) : AddReadPos(n) => Bytes!Take(n)
<1>1. TypeOK /\ [Next]_buffer => [Carries]_buffer
  <2> SUFFICES ASSUME TypeOK PROVE Carries
    OBVIOUS
  <2> USE DEF TypeOK
  <2>1. ASSUME NEW data \in Data, AppendData(data) PROVE Bytes!Put(data)
    BY <2>1, DataIsSeq, AppendedAppends DEF AppendData, Bytes!Put
  <2>2. ASSUME NEW data \in Data, ReadFd(data) PROVE Bytes!Put(data)
    BY <2>2, DataIsSeq, FilledAppends DEF ReadFd, Bytes!Put
  <2>3. ASSUME NEW n \in 0 .. ReadableSize(buffer), AddReadPos(n) PROVE Bytes!Take(n)
    BY <2>3, ConsumedTakes DEF AddReadPos, Bytes!Take
  <2> QED BY <2>1, <2>2, <2>3
<1> QED BY <1>1, TypeCorrect, PTL DEF Spec, CallsCarryTheirData

\* A buffer grows only when the unread bytes and the new ones do not fit the
\* block together.
THEOREM GrowthCorrect == Spec => GrowsOnlyWhenFull
<1> DEFINE Growth == buffer'.size # buffer.size => ReadableSize(buffer') > buffer.size
<1>1. TypeOK /\ TypeOK' /\ [Next]_buffer => [Growth]_buffer
  <2> SUFFICES ASSUME TypeOK, TypeOK', [Next]_buffer, buffer'.size # buffer.size
               PROVE  ReadableSize(buffer') > buffer.size
    OBVIOUS
  <2>1. ASSUME NEW data \in Data, Contents(buffer') = Contents(buffer) \o data
        PROVE  ReadableSize(buffer') = ReadableSize(buffer) + Len(data)
    <3>1. /\ Contents(buffer) \in Seq(Byte) /\ Len(Contents(buffer)) = ReadableSize(buffer)
          /\ Len(Contents(buffer')) = ReadableSize(buffer')
      BY ContentsAreBytes DEF TypeOK
    <3> QED BY <2>1, <3>1, DataIsSeq, ConcatProperties
  <2>2. ASSUME NEW data \in Data, AppendData(data) PROVE ReadableSize(buffer') > buffer.size
    BY <2>1, <2>2, DataIsSeq, AppendedAppends DEF AppendData, TypeOK
  <2>3. ASSUME NEW data \in Data, ReadFd(data) PROVE ReadableSize(buffer') > buffer.size
    BY <2>1, <2>3, DataIsSeq, FilledAppends DEF ReadFd, TypeOK
  <2>4. ASSUME NEW n \in 0 .. ReadableSize(buffer), AddReadPos(n) PROVE FALSE
    BY <2>4, ConsumedTakes DEF AddReadPos, TypeOK
  <2> QED BY <2>2, <2>3, <2>4 DEF Next
<1> QED BY <1>1, TypeCorrect, PTL DEF Spec, GrowsOnlyWhenFull
=============================================================================
