--------------------------- MODULE PackCodecProofs ---------------------------
(***************************************************************************)
(* Packs that state their length are cut out of the stream whole and in    *)
(* order, whatever the sizes of the head, the packs, the block and the     *)
(* spill area, and however the stream is cut into reads.  What the buffer  *)
(* does to the bytes is taken from the lemmas of NetBufferProofs.  And     *)
(* the fields in their bodies, which NetBytes writes and reads, arrive.    *)
(***************************************************************************)
EXTENDS PackCodec, NetBytes, SequenceTheorems, TLAPS

NP == INSTANCE NetBufferProofs
    WITH Byte <- 1 .. MaxStream, MaxData <- 0, MaxUnread <- MaxStream

USE PackCodecAssumption

\* The buffer b holds the last bytes of the first r of the stream.
Holds(b, r) ==
    /\ Net!IsBuffer(b)
    /\ r \in Nat /\ Net!ReadableSize(b) \in Nat /\ Net!ReadableSize(b) <= r
    /\ Net!Contents(b) \in Seq(1 .. MaxStream)
    /\ Len(Net!Contents(b)) = Net!ReadableSize(b)
    /\ \A i \in 1 .. Net!ReadableSize(b) :
          Net!Contents(b)[i] = r - Net!ReadableSize(b) + i

-----------------------------------------------------------------------------
(* The buffer. *)

LEMMA BufferAssumption == NP!NetBufferAssumption
BY DEF NP!NetBufferAssumption

\* The operators of the two instances of NetBuffer are the same.
LEMMA SameOperators ==
    ASSUME NEW b, NEW d
    PROVE  /\ Net!ReadableSize(b) = NP!ReadableSize(b)
           /\ Net!Contents(b) = NP!Contents(b)
           /\ Net!IsBuffer(b) = NP!IsBuffer(b)
           /\ Net!Filled(b, d) = NP!Filled(b, d)
           /\ Net!Consumed(b, d) = NP!Consumed(b, d)
<1>1. \A c, n : /\ Net!ReadableSize(c) = NP!ReadableSize(c)
                /\ Net!WriteableSize(c) = NP!WriteableSize(c)
                /\ Net!Consumed(c, n) = NP!Consumed(c, n)
  BY DEF Net!ReadableSize, NP!ReadableSize, Net!WriteableSize, NP!WriteableSize,
         Net!Consumed, NP!Consumed
<1>2. \A c : Net!Contents(c) = NP!Contents(c)
  BY <1>1 DEF Net!Contents, NP!Contents
<1>3. \A c : Net!IsBuffer(c) = NP!IsBuffer(c)
  BY DEF Net!IsBuffer, NP!IsBuffer
<1>4. \A c, s : Net!Written(c, s) = NP!Written(c, s)
  BY DEF Net!Written, NP!Written
<1>5. \A c, n : Net!Grown(c, n) = NP!Grown(c, n) /\ Net!Slid(c) = NP!Slid(c)
  BY DEF Net!Grown, NP!Grown, Net!Slid, NP!Slid, Net!ReadableSize, NP!ReadableSize
<1>6. \A c, n : Net!Room(c, n) = NP!Room(c, n)
  BY <1>1, <1>5 DEF Net!Room, NP!Room
<1>7. \A c, s : Net!Appended(c, s) = NP!Appended(c, s)
  BY <1>4, <1>6 DEF Net!Appended, NP!Appended
<1>8. Net!Filled(b, d) = NP!Filled(b, d)
  BY <1>1, <1>4, <1>7 DEF Net!Filled, NP!Filled
<1> QED BY <1>1, <1>2, <1>3, <1>8

LEMMA EmptyHolds == Holds(Net!EmptyBuffer, 0)
<1>1. Net!IsBuffer(Net!EmptyBuffer) /\ Net!ReadableSize(Net!EmptyBuffer) = 0
  BY DEF Net!IsBuffer, Net!EmptyBuffer, Net!ReadableSize
<1>2. Net!Contents(Net!EmptyBuffer) = <<>>
  BY <1>1 DEF Net!Contents
<1> QED BY <1>1, <1>2 DEF Holds

\* ReadFd puts the next bytes of the stream behind those that are there.
LEMMA FilledHolds ==
    ASSUME NEW b, NEW r, Holds(b, r), NEW n \in Nat, r + n <= MaxStream
    PROVE  /\ Holds(Net!Filled(b, [i \in 1 .. n |-> r + i]), r + n)
           /\ Net!ReadableSize(Net!Filled(b, [i \in 1 .. n |-> r + i]))
                = Net!ReadableSize(b) + n
<1> DEFINE data == [i \in 1 .. n |-> r + i]
           c == Net!Filled(b, data)
           old == Net!Contents(b)
           m == Net!ReadableSize(b)
<1>1. /\ Net!IsBuffer(b) /\ r \in Nat /\ m \in Nat /\ m <= r
      /\ old \in Seq(1 .. MaxStream) /\ Len(old) = m
      /\ \A i \in 1 .. m : old[i] = r - m + i
  BY DEF Holds
<1>2. data \in Seq(1 .. MaxStream) /\ Len(data) = n /\ \A i \in 1 .. n : data[i] = r + i
  BY <1>1
<1> HIDE DEF data, old, m
<1>3. Net!IsBuffer(c) /\ Net!Contents(c) = old \o data
  <2>1. NP!IsBuffer(b)
    BY <1>1, SameOperators
  <2>2. NP!IsBuffer(NP!Filled(b, data)) /\ NP!Contents(NP!Filled(b, data)) = NP!Contents(b) \o data
    BY <1>2, <2>1, BufferAssumption, NP!FilledAppends
  <2> QED BY <2>2, SameOperators DEF old
<1>4. /\ Net!ReadableSize(c) \in Nat /\ Len(Net!Contents(c)) = Net!ReadableSize(c)
      /\ Net!Contents(c) \in Seq(1 .. MaxStream)
  <2>1. NP!IsBuffer(c)
    BY <1>3, SameOperators
  <2>2. /\ NP!ReadableSize(c) \in Nat /\ Len(NP!Contents(c)) = NP!ReadableSize(c)
        /\ NP!Contents(c) \in Seq(1 .. MaxStream)
    BY <2>1, BufferAssumption, NP!ContentsAreBytes
  <2> QED BY <2>2, SameOperators
<1> HIDE DEF c
<1>5. /\ Len(old \o data) = m + n
      /\ \A i \in 1 .. m + n : (old \o data)[i] = r - m + i
  <2>1. /\ Len(old \o data) = Len(old) + Len(data)
        /\ \A i \in 1 .. Len(old) + Len(data) :
              (old \o data)[i] = IF i <= Len(old) THEN old[i] ELSE data[i - Len(old)]
    BY <1>1, <1>2, ConcatProperties
  <2> SUFFICES ASSUME NEW i \in 1 .. m + n PROVE (old \o data)[i] = r - m + i
    BY <1>1, <1>2, <2>1
  <2>2. CASE i <= m
    BY <1>1, <1>2, <2>1, <2>2
  <2>3. CASE ~ (i <= m)
    <3>1. i - m \in 1 .. n
      BY <1>1, <2>3
    <3> QED BY <1>1, <1>2, <2>1, <2>3, <3>1
  <2> QED BY <2>2, <2>3
<1>6. Net!ReadableSize(c) = m + n
  BY <1>3, <1>4, <1>5
<1>7. Holds(c, r + n)
  <2>1. r + n \in Nat /\ m + n <= r + n /\ r + n - (m + n) = r - m
    BY <1>1
  <2>2. \A i \in 1 .. m + n : Net!Contents(c)[i] = r + n - (m + n) + i
    BY <1>3, <1>5, <2>1
  <2> DEFINE s == Net!ReadableSize(c)
             t == r + n
  <2>3. t \in Nat /\ s \in Nat /\ s <= t
    BY <1>1, <1>6, <2>1
  <2>4. \A i \in 1 .. s : Net!Contents(c)[i] = t - s + i
    <3>1. s = m + n /\ t = r + n
      BY <1>6
    <3> HIDE DEF s, t
    <3> SUFFICES ASSUME NEW i \in 1 .. s PROVE Net!Contents(c)[i] = t - s + i
      OBVIOUS
    <3>2. i \in 1 .. m + n
      BY <3>1
    <3>3. Net!Contents(c)[i] = r + n - (m + n) + i
      BY <2>2, <3>2
    <3>4. t - s + i = r + n - (m + n) + i
      BY <1>1, <3>1
    <3> QED BY <3>3, <3>4, Zenon
  <2>5. Net!IsBuffer(c) /\ Net!Contents(c) \in Seq(1 .. MaxStream) /\ Len(Net!Contents(c)) = s
    BY <1>3, <1>4
  <2> HIDE DEF t
  <2>6. Holds(c, t)
    BY <2>3, <2>4, <2>5 DEF Holds
  <2> QED BY <2>6 DEF t
<1> QED BY <1>6, <1>7 DEF c, m, data

\* AddReadPos leaves the bytes behind those it passes.
LEMMA ConsumedHolds ==
    ASSUME NEW b, NEW r, Holds(b, r), NEW n \in 0 .. Net!ReadableSize(b)
    PROVE  /\ Holds(Net!Consumed(b, n), r)
           /\ Net!ReadableSize(Net!Consumed(b, n)) = Net!ReadableSize(b) - n
<1> DEFINE c == Net!Consumed(b, n)
           old == Net!Contents(b)
           m == Net!ReadableSize(b)
<1>1. /\ Net!IsBuffer(b) /\ r \in Nat /\ m \in Nat /\ m <= r /\ n \in 0 .. m
      /\ old \in Seq(1 .. MaxStream) /\ Len(old) = m
      /\ \A i \in 1 .. m : old[i] = r - m + i
  BY DEF Holds
<1>2. Net!IsBuffer(c) /\ Net!Contents(c) = SubSeq(old, n + 1, Len(old))
  <2>1. NP!IsBuffer(b) /\ n \in 0 .. NP!ReadableSize(b)
    BY <1>1, SameOperators
  <2>2. /\ NP!IsBuffer(NP!Consumed(b, n))
        /\ NP!Contents(NP!Consumed(b, n)) = SubSeq(NP!Contents(b), n + 1, Len(NP!Contents(b)))
    BY <2>1, BufferAssumption, NP!ConsumedTakes
  <2> QED BY <2>2, SameOperators
<1> HIDE DEF old, m
<1>3. /\ Net!ReadableSize(c) \in Nat /\ Len(Net!Contents(c)) = Net!ReadableSize(c)
      /\ Net!Contents(c) \in Seq(1 .. MaxStream)
  <2>1. NP!IsBuffer(c)
    BY <1>2, SameOperators
  <2>2. /\ NP!ReadableSize(c) \in Nat /\ Len(NP!Contents(c)) = NP!ReadableSize(c)
        /\ NP!Contents(c) \in Seq(1 .. MaxStream)
    BY <2>1, BufferAssumption, NP!ContentsAreBytes
  <2> QED BY <2>2, SameOperators
<1> HIDE DEF c
<1>4. /\ Len(SubSeq(old, n + 1, Len(old))) = m - n
      /\ \A i \in 1 .. m - n : SubSeq(old, n + 1, Len(old))[i] = old[n + i]
  BY <1>1
<1>5. Net!ReadableSize(c) = m - n
  BY <1>2, <1>3, <1>4
<1>6. \A i \in 1 .. m - n : Net!Contents(c)[i] = r - (m - n) + i
  BY <1>1, <1>2, <1>4
<1>7. Holds(c, r)
  <2>1. m - n <= r
    BY <1>1
  <2> QED BY <1>1, <1>2, <1>3, <1>5, <1>6, <2>1 DEF Holds
<1> QED BY <1>5, <1>7 DEF c, m

\* The byte at the read position.
LEMMA FrontIsNext ==
    ASSUME NEW b, NEW r, Holds(b, r), Net!ReadableSize(b) > 0
    PROVE  b.buf[b.readPos] = r - Net!ReadableSize(b) + 1
<1>1. b.readPos \in Nat /\ Net!ReadableSize(b) \in Nat
  BY DEF Holds, Net!IsBuffer
<1>2. Net!Contents(b)[1] = b.buf[b.readPos + 1 - 1]
  BY <1>1 DEF Net!Contents
<1>3. b.readPos + 1 - 1 = b.readPos
  BY <1>1
<1>4. Net!Contents(b)[1] = r - Net!ReadableSize(b) + 1
  BY <1>1 DEF Holds
<1> QED BY <1>2, <1>3, <1>4

-----------------------------------------------------------------------------
(* The inductive invariant. *)

Packs == [kind : Kinds, first : Nat, size : Nat]

\* The packs lie one behind the other on the stream.
Stream ==
    /\ sent \in Seq(Packs)
    /\ \A k \in 1 .. Len(sent) :
          /\ sent[k].first >= 1 /\ sent[k].size >= HeadSize
          /\ sent[k].first + sent[k].size - 1 <= MaxStream
          /\ k = 1 => sent[k].first = 1
    /\ \A j, k \in 1 .. Len(sent) :
          /\ j < k => sent[j].first + sent[j].size <= sent[k].first
          /\ j + 1 = k => sent[j].first + sent[j].size = sent[k].first

\* The first byte that was not consumed.
FrontPos == received - Net!ReadableSize(buffer) + 1

\* As long as every length is right, what was consumed are the packs of the
\* bodies delivered.
Framed ==
    LET k == Len(delivered) IN
    LengthsRight(k) =>
        /\ k <= Len(sent)
        /\ FrontPos = IF k = 0 THEN 1 ELSE sent[k].first + sent[k].size

CodecInv ==
    /\ Stream
    /\ Holds(buffer, received) /\ received <= Total
    /\ delivered \in Seq(Seq(1 .. MaxStream))
    /\ Framed /\ FramesIntact

LEMMA Initially == Init => CodecInv
<1> SUFFICES ASSUME Init PROVE CodecInv
  OBVIOUS
<1>1. sent = <<>> /\ delivered = <<>> /\ received = 0 /\ buffer = Net!EmptyBuffer
  BY DEF Init
<1>2. Holds(buffer, received)
  BY <1>1, EmptyHolds
<1>3. Stream /\ Total = 0
  BY <1>1 DEF Stream, Total
<1>4. FrontPos = 1
  BY <1>1 DEF FrontPos, Net!ReadableSize, Net!EmptyBuffer
<1>5. Framed /\ FramesIntact
  BY <1>1, <1>4 DEF Framed, FramesIntact
<1> QED BY <1>1, <1>2, <1>3, <1>5 DEF CodecInv

LEMMA PacksAreTyped ==
    ASSUME Stream, NEW k \in 1 .. Len(sent)
    PROVE  /\ sent[k].kind \in Kinds /\ sent[k].first \in Nat /\ sent[k].size \in Nat
           /\ sent[k].first >= 1 /\ sent[k].size >= HeadSize /\ sent[k].size > 0
           /\ sent[k].first + sent[k].size - 1 <= MaxStream
<1>1. sent[k] \in Packs
  <2>1. sent \in Seq(Packs)
    BY DEF Stream
  <2> QED BY <2>1, ElementOfSeq
<1>2. sent[k].kind \in Kinds /\ sent[k].first \in Nat /\ sent[k].size \in Nat
  BY <1>1 DEF Packs
<1>3. /\ sent[k].first >= 1 /\ sent[k].size >= HeadSize
      /\ sent[k].first + sent[k].size - 1 <= MaxStream
  BY DEF Stream
<1> QED BY <1>2, <1>3

LEMMA TotalBound ==
    ASSUME Stream
    PROVE  /\ Total \in Nat /\ Total <= MaxStream
           /\ sent # <<>> => Len(sent) \in 1 .. Len(sent)
                            /\ Total = sent[Len(sent)].first + sent[Len(sent)].size - 1
<1>1. CASE sent = <<>>
  BY <1>1 DEF Total
<1>2. CASE sent # <<>>
  <2>1. Len(sent) \in 1 .. Len(sent)
    BY <1>2 DEF Stream
  <2>2. /\ sent[Len(sent)].first \in Nat /\ sent[Len(sent)].size \in Nat
        /\ sent[Len(sent)].first >= 1
        /\ sent[Len(sent)].first + sent[Len(sent)].size - 1 <= MaxStream
    BY <2>1, PacksAreTyped
  <2> QED BY <1>2, <2>1, <2>2 DEF Total
<1> QED BY <1>1, <1>2

\* A pack that is sent goes behind the others.
LEMMA SendKeeps ==
    ASSUME CodecInv, NEW kind \in Kinds, NEW body \in 0 .. MaxBody, Send(kind, body)
    PROVE  CodecInv'
<1> DEFINE pack == [kind |-> kind, first |-> Total + 1, size |-> HeadSize + body]
           n == Len(sent)
<1>1. /\ Stream /\ sent' = Append(sent, pack) /\ Total + HeadSize + body <= MaxStream
      /\ UNCHANGED <<received, buffer, delivered>>
  BY DEF CodecInv, Send
<1>2. /\ n \in Nat /\ Total \in Nat /\ body \in Nat /\ pack \in Packs
      /\ pack.first = Total + 1 /\ pack.size = HeadSize + body
  <2>1. n \in Nat
    BY <1>1 DEF Stream
  <2>2. Total \in Nat
    BY <1>1, TotalBound
  <2>3. Total + 1 \in Nat /\ body \in Nat /\ HeadSize + body \in Nat
    BY <2>2
  <2>4. pack \in Packs
    BY <2>3 DEF Packs
  <2> QED BY <2>1, <2>2, <2>3, <2>4
<1> HIDE DEF pack
<1>3. /\ sent' \in Seq(Packs)
      /\ Len(sent') = n + 1 /\ sent'[n + 1] = pack
      /\ \A k \in 1 .. n : sent'[k] = sent[k]
  BY <1>1, <1>2 DEF Stream
<1>4. /\ n = 0 => Total = 0
      /\ n # 0 => n \in 1 .. n /\ Total = sent[n].first + sent[n].size - 1
  BY <1>1, TotalBound DEF Stream, Total
<1>5. \A k \in 1 .. n : sent[k].first \in Nat /\ sent[k].size \in Nat /\ sent[k].size > 0
  BY <1>1, PacksAreTyped
<1>6. \A k \in 1 .. n : sent[k].first + sent[k].size <= pack.first
  <2> SUFFICES ASSUME NEW k \in 1 .. n PROVE sent[k].first + sent[k].size <= pack.first
    OBVIOUS
  <2>1. CASE k = n
    BY <1>2, <1>4, <1>5, <2>1
  <2>2. CASE k < n
    <3>1. n # 0 /\ n \in 1 .. n
      BY <1>2, <2>2
    <3>2. sent[k].first + sent[k].size <= sent[n].first
      BY <1>1, <2>2, <3>1 DEF Stream, n
    <3>3. /\ sent[k].first \in Nat /\ sent[k].size \in Nat
          /\ sent[n].first \in Nat /\ sent[n].size \in Nat /\ sent[n].size > 0
      BY <1>5, <3>1
    <3>4. Total = sent[n].first + sent[n].size - 1 /\ pack.first = Total + 1
      BY <1>2, <1>4, <3>1
    <3> HIDE DEF n
    <3>5. pack.first = sent[n].first + sent[n].size
      BY <3>3, <3>4
    <3> QED BY <3>2, <3>3, <3>5
  <2> QED BY <1>2, <2>1, <2>2
<1>7. Stream'
  <2>1. ASSUME NEW k \in 1 .. n + 1
        PROVE  /\ sent'[k].first >= 1 /\ sent'[k].size >= HeadSize
               /\ sent'[k].first + sent'[k].size - 1 <= MaxStream
               /\ k = 1 => sent'[k].first = 1
    <3>1. CASE k \in 1 .. n
      BY <1>1, <1>3, <3>1 DEF Stream
    <3>2. CASE k = n + 1
      BY <1>1, <1>2, <1>3, <1>4, <3>2
    <3> QED BY <1>2, <3>1, <3>2
  <2>2. ASSUME NEW j \in 1 .. n + 1, NEW k \in 1 .. n + 1
        PROVE  /\ j < k => sent'[j].first + sent'[j].size <= sent'[k].first
               /\ j + 1 = k => sent'[j].first + sent'[j].size = sent'[k].first
    <3>1. CASE k \in 1 .. n /\ j \in 1 .. n
      BY <1>1, <1>3, <3>1 DEF Stream
    <3>2. CASE k = n + 1 /\ j \in 1 .. n
      <4>1. sent'[k] = pack /\ sent'[j] = sent[j]
        BY <1>3, <3>2
      <4>2. sent[j].first + sent[j].size <= pack.first
        BY <1>6, <3>2
      <4>3. j + 1 = k => sent[j].first + sent[j].size = pack.first
        <5> SUFFICES ASSUME j + 1 = k PROVE sent[j].first + sent[j].size = pack.first
          OBVIOUS
        <5>1. j = n /\ n # 0
          BY <1>2, <3>2
        <5>2. /\ sent[j].first \in Nat /\ sent[j].size \in Nat
              /\ Total = sent[j].first + sent[j].size - 1 /\ pack.first = Total + 1
          BY <1>2, <1>4, <1>5, <5>1, <3>2
        <5> QED BY <5>2
      <4> QED BY <4>1, <4>2, <4>3
    <3>3. CASE j = n + 1
      BY <1>2, <3>3
    <3> QED BY <1>2, <3>1, <3>2, <3>3
  <2> QED BY <1>3, <2>1, <2>2 DEF Stream
<1>8. Total' = Total + HeadSize + body
  <2>1. sent' # <<>>
    BY <1>2, <1>3
  <2>2. Total' = sent'[n + 1].first + sent'[n + 1].size - 1
    BY <1>3, <2>1 DEF Total
  <2>3. Total' = pack.first + pack.size - 1
    BY <1>3, <2>2
  <2> QED BY <1>2, <2>3
<1>9. \A k \in Nat : LengthsRight(k)' => LengthsRight(k)
  BY <1>2, <1>3 DEF LengthsRight
<1>10. Framed'
  <2> SUFFICES ASSUME LengthsRight(Len(delivered))'
               PROVE  /\ Len(delivered) <= n + 1
                      /\ FrontPos' = IF Len(delivered) = 0 THEN 1
                                  ELSE sent'[Len(delivered)].first + sent'[Len(delivered)].size
    BY <1>1, <1>3 DEF Framed
  <2>1. Len(delivered) \in Nat /\ LengthsRight(Len(delivered))
    BY <1>1, <1>9 DEF CodecInv
  <2>2. /\ Len(delivered) <= n
        /\ FrontPos = IF Len(delivered) = 0 THEN 1
                   ELSE sent[Len(delivered)].first + sent[Len(delivered)].size
    BY <2>1 DEF CodecInv, Framed
  <2>3. FrontPos' = FrontPos
    BY <1>1 DEF FrontPos
  <2> QED BY <1>2, <1>3, <2>1, <2>2, <2>3
<1>11. FramesIntact'
  <2> SUFFICES ASSUME NEW k \in 1 .. Len(delivered), LengthsRight(k)'
               PROVE  (Intact(k) /\ Proper(sent[k]))'
    BY <1>1 DEF FramesIntact
  <2>1. Intact(k) /\ Proper(sent[k])
    BY <1>9 DEF CodecInv, FramesIntact
  <2>2. k \in 1 .. n /\ sent'[k] = sent[k]
    BY <1>2, <1>3, <2>1 DEF Intact
  <2> QED BY <1>1, <1>2, <1>3, <2>1, <2>2 DEF Intact, Proper
<1>12. Holds(buffer, received)' /\ received' <= Total'
  BY <1>1, <1>2, <1>8 DEF CodecInv, Holds
<1> QED BY <1>1, <1>7, <1>10, <1>11, <1>12 DEF CodecInv

\* A read comes behind what was not consumed.
LEMMA ReadLeavesFront ==
    ASSUME CodecInv, NEW n \in 1 .. MaxStream, OnReadEvent(n)
    PROVE  /\ Holds(buffer', received + n) /\ FrontPos' = FrontPos
           /\ received + n \in Nat /\ received + n <= Total
<1>1. /\ Stream /\ Holds(buffer, received) /\ received <= Total /\ received \in Nat
      /\ n <= Total - received /\ received' = received + n
      /\ buffer' = Net!Filled(buffer, [i \in 1 .. n |-> received + i])
  BY DEF CodecInv, OnReadEvent, Holds
<1>2. Total \in Nat /\ Total <= MaxStream
  BY <1>1, TotalBound
<1>3. Holds(buffer', received + n) /\ Net!ReadableSize(buffer') = Net!ReadableSize(buffer) + n
  <2>1. n \in Nat /\ received + n <= MaxStream
    BY <1>1, <1>2
  <2> QED BY <1>1, <2>1, FilledHolds
<1>4. FrontPos' = FrontPos
  BY <1>1, <1>3 DEF FrontPos, Holds
<1> QED BY <1>1, <1>2, <1>3, <1>4

LEMMA ReadKeeps ==
    ASSUME CodecInv, NEW n \in 1 .. MaxStream, OnReadEvent(n)
    PROVE  CodecInv'
<1>1. Stream /\ received' = received + n /\ UNCHANGED <<sent, delivered>>
  BY DEF CodecInv, OnReadEvent
<1>2. Holds(buffer', received') /\ FrontPos' = FrontPos /\ received' <= Total
  BY <1>1, ReadLeavesFront
<1>3. received' <= Total' /\ Stream'
  BY <1>1, <1>2 DEF Total, Stream
<1>4. \A k : LengthsRight(k)' = LengthsRight(k) /\ Intact(k)' = Intact(k)
  BY <1>1 DEF LengthsRight, Intact
<1>5. Framed'
  BY <1>1, <1>2, <1>4 DEF CodecInv, Framed
<1>6. FramesIntact'
  BY <1>1, <1>4 DEF CodecInv, FramesIntact, Proper
<1> QED BY <1>1, <1>2, <1>3, <1>5, <1>6 DEF CodecInv

LEMMA QuietKeeps ==
    ASSUME CodecInv, UNCHANGED <<sent, received, buffer, delivered>>
    PROVE  CodecInv'
<1>1. Stream' /\ Total' = Total /\ FrontPos' = FrontPos
  BY DEF CodecInv, Stream, Total, FrontPos
<1>2. Holds(buffer, received)'
  BY DEF CodecInv
<1>3. UNCHANGED <<sent, delivered>> /\ Framed /\ FramesIntact
  BY DEF CodecInv
<1>4. \A k : LengthsRight(k)' = LengthsRight(k)
  BY <1>3 DEF LengthsRight
<1>5. \A k : Intact(k)' = Intact(k)
  BY <1>3 DEF Intact
<1>6. Framed'
  BY <1>1, <1>3, <1>4 DEF Framed
<1>7. FramesIntact'
  BY <1>3, <1>4, <1>5 DEF FramesIntact, Proper
<1> QED BY <1>1, <1>2, <1>6, <1>7 DEF CodecInv

\* The pack at the front is the one behind the last that was delivered.
LEMMA FrontIsNextPack ==
    ASSUME CodecInv, Net!ReadableSize(buffer) > 0, LengthsRight(Len(delivered)),
           NEW j \in 1 .. Len(sent), sent[j].first = FrontByte
    PROVE  j = Len(delivered) + 1
<1> DEFINE k == Len(delivered)
<1>1. k \in Nat /\ Len(sent) \in Nat /\ FrontByte = FrontPos
  BY FrontIsNext DEF CodecInv, FrontByte, FrontPos, Stream
<1>2. k <= Len(sent) /\ FrontPos = IF k = 0 THEN 1 ELSE sent[k].first + sent[k].size
  BY DEF CodecInv, Framed
<1> HIDE DEF k
<1>3. \A i \in 1 .. Len(sent) : sent[i].first \in Nat /\ sent[i].size \in Nat /\ sent[i].size > 0
                              /\ sent[i].first >= 1
  BY PacksAreTyped DEF CodecInv
<1>4. k < j
  <2>1. CASE k = 0
    BY <2>1
  <2>2. CASE k # 0 /\ j = k
    BY <1>1, <1>2, <1>3, <2>2
  <2>3. CASE k # 0 /\ j < k
    <3>1. k \in 1 .. Len(sent) /\ sent[j].first + sent[j].size <= sent[k].first
      BY <1>1, <1>2, <2>3 DEF CodecInv, Stream
    <3> QED BY <1>1, <1>2, <1>3, <2>3, <3>1
  <2> QED BY <1>1, <2>1, <2>2, <2>3
<1>5. k + 1 \in 1 .. Len(sent) /\ sent[k + 1].first = FrontPos
  <2>1. k + 1 \in 1 .. Len(sent)
    BY <1>1, <1>4
  <2>2. CASE k = 0
    BY <1>2, <2>1, <2>2 DEF CodecInv, Stream
  <2>3. CASE k # 0
    <3>1. k \in 1 .. Len(sent)
      BY <1>1, <1>2, <2>3
    <3> QED BY <1>2, <2>1, <2>3, <3>1 DEF CodecInv, Stream
  <2> QED BY <2>1, <2>2, <2>3
<1>6. ~ (k + 1 < j)
  <2>1. k + 1 < j => sent[k + 1].first + sent[k + 1].size <= sent[j].first
    BY <1>5 DEF CodecInv, Stream
  <2> QED BY <1>1, <1>3, <1>5, <2>1
<1> QED BY <1>1, <1>4, <1>6 DEF k

\* What ParseDelivers hands over, in positions of the stream.
LEMMA DeliveryIs ==
    ASSUME CodecInv, ParseDelivers
    PROVE  \E j \in 1 .. Len(sent), part \in Seq(1 .. MaxStream) :
              /\ sent[j].first = FrontByte /\ sent[j].kind # "foreign"
              /\ PackLen(sent[j]) <= DEF_PACK_MAX
              /\ PackLen(sent[j]) \in HeadSize .. Net!ReadableSize(buffer)
              /\ part = [i \in 1 .. PackLen(sent[j]) - HeadSize |->
                            received - Net!ReadableSize(buffer) + HeadSize + i]
              /\ delivered' = Append(delivered, part)
              /\ Holds(buffer', received') /\ FrontPos' = FrontPos + PackLen(sent[j])
<1> DEFINE m == Net!ReadableSize(buffer)
<1>1. m >= HeadSize /\ Holds(buffer, received) /\ m \in Nat /\ received \in Nat
  BY DEF CodecInv, ParseDelivers, Holds
<1>2. PICK j \in 1 .. Len(sent) :
        /\ sent[j].first = FrontByte
        /\ sent[j].kind # "foreign" /\ PackLen(sent[j]) <= DEF_PACK_MAX
        /\ PackLen(sent[j]) <= m /\ PackLen(sent[j]) >= HeadSize
        /\ delivered' = Append(delivered, SubSeq(Net!Contents(buffer), HeadSize + 1, PackLen(sent[j])))
        /\ buffer' = Net!Consumed(buffer, PackLen(sent[j]))
  BY DEF ParseDelivers, AtFront, Arrived, Cut
<1> DEFINE size == PackLen(sent[j])
           part == SubSeq(Net!Contents(buffer), HeadSize + 1, size)
<1>3. /\ sent[j].kind \in Kinds /\ sent[j].first \in Nat /\ sent[j].size \in Nat
      /\ sent[j].size >= HeadSize
  BY PacksAreTyped DEF CodecInv
<1>4. size \in 0 .. m
  BY <1>1, <1>2, <1>3 DEF PackLen
<1>5. UNCHANGED <<sent, received>>
  BY DEF ParseDelivers
<1>6. /\ Net!Contents(buffer) \in Seq(1 .. MaxStream) /\ Len(Net!Contents(buffer)) = m
      /\ \A i \in 1 .. m : Net!Contents(buffer)[i] = received - m + i
  BY <1>1 DEF Holds
<1> HIDE DEF size, m
<1>7. /\ part \in Seq(1 .. MaxStream)
      /\ part = [i \in 1 .. size - HeadSize |-> received - m + HeadSize + i]
  <2>1. size >= HeadSize
    BY <1>2 DEF size
  <2>2. part = [i \in 1 .. size - HeadSize |-> Net!Contents(buffer)[HeadSize + i]]
    BY <1>1, <1>4, <1>6, <2>1
  <2>3. \A i \in 1 .. size - HeadSize : HeadSize + i \in 1 .. m
    BY <1>1, <1>4, <2>1
  <2>4. \A i \in 1 .. size - HeadSize :
           Net!Contents(buffer)[HeadSize + i] = received - m + HeadSize + i
    BY <1>1, <1>6, <2>3
  <2>5. \A i \in 1 .. size - HeadSize : Net!Contents(buffer)[HeadSize + i] \in 1 .. MaxStream
    BY <1>6, <2>3, ElementOfSeq
  <2>6. size - HeadSize \in Nat
    BY <1>1, <1>4, <2>1
  <2>7. part \in Seq(1 .. MaxStream)
    <3> DEFINE f == [i \in 1 .. size - HeadSize |-> Net!Contents(buffer)[HeadSize + i]]
    <3>1. f \in [1 .. size - HeadSize -> 1 .. MaxStream]
      BY <2>5
    <3>2. f \in Seq(1 .. MaxStream)
      <4> HIDE DEF f
      <4> QED BY <2>6, <3>1, SeqDef
    <3> QED BY <2>2, <3>2
  <2>8. part = [i \in 1 .. size - HeadSize |-> received - m + HeadSize + i]
    BY <2>2, <2>4
  <2> QED BY <2>7, <2>8
<1> HIDE DEF part
<1>8. Holds(buffer', received') /\ FrontPos' = FrontPos + size
  <2>1. Holds(Net!Consumed(buffer, size), received)
        /\ Net!ReadableSize(Net!Consumed(buffer, size)) = m - size
    BY <1>1, <1>4, ConsumedHolds DEF m
  <2>2. buffer' = Net!Consumed(buffer, size)
    BY <1>2 DEF size
  <2> QED BY <1>1, <1>4, <1>5, <2>1, <2>2 DEF FrontPos, m
<1>9. delivered' = Append(delivered, part)
  BY <1>2 DEF part, size
<1>10. size \in HeadSize .. m /\ size <= DEF_PACK_MAX
  BY <1>1, <1>2, <1>4 DEF size
<1> QED BY <1>2, <1>7, <1>8, <1>9, <1>10 DEF size, m

LEMMA DeliverKeeps ==
    ASSUME CodecInv, ParseDelivers
    PROVE  CodecInv'
<1> DEFINE k == Len(delivered)
           m == Net!ReadableSize(buffer)
<1>1. m >= HeadSize /\ Holds(buffer, received) /\ m \in Nat /\ received \in Nat
  BY DEF CodecInv, ParseDelivers, Holds
<1>2. PICK j \in 1 .. Len(sent), part \in Seq(1 .. MaxStream) :
        /\ sent[j].first = FrontByte /\ sent[j].kind # "foreign"
        /\ PackLen(sent[j]) <= DEF_PACK_MAX /\ PackLen(sent[j]) \in HeadSize .. m
        /\ part = [i \in 1 .. PackLen(sent[j]) - HeadSize |-> received - m + HeadSize + i]
        /\ delivered' = Append(delivered, part)
        /\ Holds(buffer', received') /\ FrontPos' = FrontPos + PackLen(sent[j])
  BY DeliveryIs
<1> DEFINE size == PackLen(sent[j])
<1>3. /\ sent[j].kind \in Kinds /\ sent[j].first \in Nat /\ sent[j].size \in Nat
      /\ sent[j].size >= HeadSize
  BY PacksAreTyped DEF CodecInv
<1>4. size \in 0 .. m
  BY <1>1, <1>2
<1>5. UNCHANGED <<sent, received>>
  BY DEF ParseDelivers
<1>7. /\ part \in Seq(1 .. MaxStream)
      /\ part = [i \in 1 .. size - HeadSize |-> received - m + HeadSize + i]
  BY <1>2
<1>9. Holds(buffer', received') /\ FrontPos' = FrontPos + size
  BY <1>2
<1> HIDE DEF size, m
<1>8. /\ delivered' \in Seq(Seq(1 .. MaxStream)) /\ Len(delivered') = k + 1
      /\ delivered'[k + 1] = part
      /\ \A i \in 1 .. k : delivered'[i] = delivered[i]
      /\ k \in Nat /\ delivered \in Seq(Seq(1 .. MaxStream))
  <2>1. delivered' = Append(delivered, part) /\ delivered \in Seq(Seq(1 .. MaxStream))
    BY <1>2 DEF CodecInv
  <2> QED BY <1>7, <2>1
<1> HIDE DEF k
<1>10. ASSUME LengthsRight(k + 1)
       PROVE  /\ j = k + 1 /\ sent[j].kind = "whole" /\ size = sent[j].size
              /\ FrontPos = sent[j].first /\ FrontPos = received - m + 1
  <2>1. LengthsRight(k)
    BY <1>8, <1>10 DEF LengthsRight
  <2>2. j = k + 1
    BY <1>1, <1>2, <2>1, FrontIsNextPack DEF k, m
  <2>3. sent[j].kind = "whole"
    <3>1. sent[j].kind # "body"
      BY <1>10, <1>8, <2>2 DEF LengthsRight
    <3>2. sent[j].kind \in {"whole", "body", "foreign"}
      BY <1>3
    <3> QED BY <1>2, <3>1, <3>2
  <2>4. FrontByte = FrontPos /\ FrontPos = received - m + 1
    BY <1>1, FrontIsNext DEF FrontByte, FrontPos, m
  <2> QED BY <1>2, <2>2, <2>3, <2>4 DEF PackLen, size
<1>11. \A i \in Nat : LengthsRight(i)' = LengthsRight(i)
  BY <1>5 DEF LengthsRight
<1>12. Framed'
  <2> SUFFICES ASSUME LengthsRight(k + 1)
               PROVE  k + 1 <= Len(sent) /\ FrontPos' = sent[k + 1].first + sent[k + 1].size
    BY <1>5, <1>8, <1>11 DEF Framed
  <2> QED BY <1>8, <1>9, <1>10
<1>13. FramesIntact'
  <2> SUFFICES ASSUME NEW i \in 1 .. k + 1, LengthsRight(i)
               PROVE  Intact(i)' /\ Proper(sent[i])'
    BY <1>8, <1>11 DEF FramesIntact
  <2>1. CASE i \in 1 .. k
    <3>1. Intact(i) /\ Proper(sent[i])
      BY <2>1 DEF CodecInv, FramesIntact, k
    <3> QED BY <1>5, <1>8, <2>1, <3>1 DEF Intact, Proper
  <2>2. CASE i = k + 1
    <3>1. /\ j = i /\ sent[i].kind = "whole" /\ size = sent[i].size
          /\ sent[i].first = received - m + 1
      BY <1>10, <2>2
    <3>2. sent[i].size <= DEF_PACK_MAX
      BY <1>2, <3>1 DEF size
    <3>3. part = [p \in 1 .. sent[i].size - HeadSize |-> sent[i].first + HeadSize + p - 1]
      BY <1>1, <1>3, <1>7, <3>1
    <3> QED BY <1>5, <1>8, <2>2, <3>1, <3>2, <3>3 DEF Intact, Proper
  <2> QED BY <1>8, <2>1, <2>2
<1> QED BY <1>5, <1>8, <1>9, <1>12, <1>13 DEF CodecInv, Stream, Total

-----------------------------------------------------------------------------
LEMMA CodecInvariant == Spec => []CodecInv
<1>1. CodecInv /\ [Next]_vars => CodecInv'
  <2> SUFFICES ASSUME CodecInv, [Next]_vars PROVE CodecInv'
    OBVIOUS
  <2>1. ASSUME NEW kind \in Kinds, NEW body \in 0 .. MaxBody, Send(kind, body) PROVE CodecInv'
    BY <2>1, SendKeeps
  <2>2. ASSUME NEW n \in 1 .. MaxStream, OnReadEvent(n) PROVE CodecInv'
    BY <2>2, ReadKeeps
  <2>3. CASE ParseDelivers
    BY <2>3, DeliverKeeps
  <2>4. CASE PeerClose \/ ReadEnd \/ ReadFails \/ ParseStops \/ ParseRefuses \/ ParseFaults
             \/ UNCHANGED vars
    BY <2>4, QuietKeeps
       DEF PeerClose, ReadEnd, ReadFails, ParseStops, ParseRefuses, ParseFaults, vars
  <2> QED BY <2>1, <2>2, <2>3, <2>4 DEF Next, Read, Parse
<1> QED BY <1>1, Initially, PTL DEF Spec

\* However the stream is cut into reads and whatever the sizes, the k-th body
\* delivered is the body of the k-th pack sent, whole and at its place, unless a
\* pack with a wrong length came before (PackCodec::OnRawBuf, ParsePacket).
THEOREM FramesIntactCorrect == Spec => []FramesIntact
<1>1. CodecInv => FramesIntact
  BY DEF CodecInv
<1> QED BY <1>1, CodecInvariant, PTL

\* What was delivered lies before the first byte that was not consumed.
Consumption ==
    /\ BytesInOrder
    /\ \A k \in 1 .. Len(delivered) : \A i \in 1 .. Len(delivered[k]) : delivered[k][i] < FrontPos

LEMMA DeliveryInOrder ==
    ASSUME CodecInv, Consumption, ParseDelivers
    PROVE  Consumption'
<1> DEFINE n == Len(delivered)
           front == FrontPos
           m == Net!ReadableSize(buffer)
<1>1. PICK j \in 1 .. Len(sent), part \in Seq(1 .. MaxStream) :
        /\ PackLen(sent[j]) \in HeadSize .. m
        /\ part = [i \in 1 .. PackLen(sent[j]) - HeadSize |-> received - m + HeadSize + i]
        /\ delivered' = Append(delivered, part)
        /\ FrontPos' = FrontPos + PackLen(sent[j])
  BY DeliveryIs
<1> DEFINE size == PackLen(sent[j])
<1>2. m \in Nat /\ received \in Nat /\ m <= received /\ front = received - m + 1 /\ size \in HeadSize .. m
  BY <1>1 DEF CodecInv, Holds, FrontPos
<1>3. part = [i \in 1 .. size - HeadSize |-> received - m + HeadSize + i] /\ FrontPos' = front + size
  BY <1>1
<1> HIDE DEF m, size, front
<1>4. Len(part) = size - HeadSize
  BY <1>2, <1>3
<1>5. /\ front \in Nat /\ size \in Nat
      /\ \A i \in 1 .. Len(part) : part[i] = front + HeadSize + i - 1
  BY <1>2, <1>3, <1>4
<1>6. /\ Len(delivered') = n + 1 /\ delivered'[n + 1] = part /\ n \in Nat
      /\ \A k \in 1 .. n : delivered'[k] = delivered[k]
  <2>1. delivered \in Seq(Seq(1 .. MaxStream)) /\ delivered' = Append(delivered, part)
    BY <1>1 DEF CodecInv
  <2> QED BY <2>1
<1> HIDE DEF n
<1>7. ASSUME NEW k \in 1 .. n, NEW i \in 1 .. Len(delivered[k])
      PROVE  delivered[k][i] \in Nat /\ delivered[k][i] < front
  <2>1. delivered[k] \in Seq(1 .. MaxStream)
    BY <1>6, <1>7 DEF CodecInv, n
  <2>2. delivered[k][i] \in 1 .. MaxStream
    BY <2>1, ElementOfSeq
  <2>3. delivered[k][i] < front
    BY DEF Consumption, n, front
  <2> QED BY <2>2, <2>3
<1>8. \A k \in 1 .. n + 1 : k \in 1 .. n \/ k = n + 1
  BY <1>6
<1>9. ASSUME NEW k \in 1 .. n + 1, NEW i \in 1 .. Len(delivered'[k])
      PROVE  delivered'[k][i] < front + size
  <2>1. CASE k \in 1 .. n
    <3>1. delivered'[k] = delivered[k]
      BY <1>6, <2>1
    <3>2. delivered[k][i] \in Nat /\ delivered[k][i] < front
      BY <1>7, <2>1, <3>1
    <3> QED BY <1>5, <3>1, <3>2
  <2>2. CASE k = n + 1
    <3>1. i \in 1 .. Len(part) /\ delivered'[k][i] = front + HeadSize + i - 1
      BY <1>5, <1>6, <2>2
    <3> QED BY <1>2, <1>4, <1>5, <3>1
  <2> QED BY <1>8, <2>1, <2>2
<1>10. ASSUME NEW k \in 1 .. n + 1, NEW l \in 1 .. n + 1,
              NEW i \in 1 .. Len(delivered'[k]), NEW h \in 1 .. Len(delivered'[l]),
              k < l \/ (k = l /\ i < h)
       PROVE  delivered'[k][i] < delivered'[l][h]
  <2>1. CASE k \in 1 .. n /\ l \in 1 .. n
    <3>1. delivered'[k] = delivered[k] /\ delivered'[l] = delivered[l]
      BY <1>6, <2>1
    <3> QED BY <1>10, <2>1, <3>1 DEF Consumption, BytesInOrder, n
  <2>2. CASE k \in 1 .. n /\ l = n + 1
    <3>1. delivered'[k] = delivered[k] /\ delivered'[l] = part
      BY <1>6, <2>2
    <3>2. delivered[k][i] \in Nat /\ delivered[k][i] < front
      BY <1>7, <2>2, <3>1
    <3>3. h \in 1 .. Len(part) /\ part[h] = front + HeadSize + h - 1
      BY <1>5, <3>1
    <3> QED BY <1>5, <3>1, <3>2, <3>3
  <2>3. CASE k = n + 1
    <3>1. l = n + 1 /\ i < h
      BY <1>6, <1>10, <2>3
    <3>2. delivered'[k] = part /\ delivered'[l] = part
      BY <1>6, <2>3, <3>1
    <3>3. i \in 1 .. Len(part) /\ h \in 1 .. Len(part)
      BY <3>2
    <3>4. part[i] = front + HeadSize + i - 1 /\ part[h] = front + HeadSize + h - 1
      BY <1>5, <3>3
    <3> QED BY <1>5, <3>1, <3>2, <3>3, <3>4
  <2> QED BY <1>8, <2>1, <2>2, <2>3
<1> QED BY <1>3, <1>6, <1>9, <1>10 DEF Consumption, BytesInOrder

\* Also from a peer whose packLen is wrong, the bytes of the bodies are bytes of
\* the stream in stream order, none of them twice: the read position moves behind
\* every pack that is delivered, and never back (AddReadPos, ReadFd).
THEOREM BytesInOrderCorrect == Spec => []BytesInOrder
<1>1. Init => Consumption
  BY DEF Init, Consumption, BytesInOrder
<1>2. CodecInv /\ Consumption /\ [Next]_vars => Consumption'
  <2> SUFFICES ASSUME CodecInv, Consumption, [Next]_vars PROVE Consumption'
    OBVIOUS
  <2>1. CASE ParseDelivers
    BY <2>1, DeliveryInOrder
  <2>2. ASSUME delivered' = delivered, FrontPos' = FrontPos PROVE Consumption'
    BY <2>2 DEF Consumption, BytesInOrder
  <2>3. ASSUME NEW n \in 1 .. MaxStream, OnReadEvent(n) PROVE Consumption'
    <3>1. delivered' = delivered /\ FrontPos' = FrontPos
      BY <2>3, ReadLeavesFront DEF OnReadEvent
    <3> QED BY <2>2, <3>1
  <2>4. CASE UNCHANGED <<received, buffer, delivered>>
    BY <2>2, <2>4 DEF FrontPos
  <2> QED BY <2>1, <2>3, <2>4 DEF Next, Read, Parse, Send, PeerClose, ReadEnd, ReadFails,
       ParseStops, ParseRefuses, ParseFaults, vars
<1>3. Consumption => BytesInOrder
  BY DEF Consumption
<1> QED BY <1>1, <1>2, <1>3, CodecInvariant, PTL DEF Spec

-----------------------------------------------------------------------------
(***************************************************************************)
(* The fields in the body of a pack: NetBytes.                             *)
(***************************************************************************)

HIDE PackCodecAssumption

\* What a field leaves in the block.
Encoded(f) ==
    IF ~ f.written THEN <<>>
    ELSE IF f.type = "string" THEN hton(HostWord(Len(f.value))) \o f.value
    ELSE hton(f.value)

Field ==
    {f \in [type : {"scalar", "string"}, value : Seq(0 .. 255), written : BOOLEAN] :
        f.type = "string" => Len(f.value) < 256}

\* The field i starts behind off[i] bytes.
Layout(off) ==
    /\ off \in [1 .. Len(fields) + 1 -> Nat]
    /\ off[Len(fields) + 1] = Len(block)
    /\ \A i \in 1 .. Len(fields) :
          /\ off[i + 1] = off[i] + Len(Encoded(fields[i]))
          /\ off[i + 1] <= Len(block)
          /\ \A j \in 1 .. Len(Encoded(fields[i])) : block[off[i] + j] = Encoded(fields[i])[j]

\* As long as all that was read was written, and was not empty, the next field
\* is read where it starts.
ReadAt(off) ==
    (\A j \in 1 .. Len(got) : fields[j].written /\ fields[j].value # <<>>)
        => rdPos = off[Len(got) + 1]

FieldsTyped ==
    /\ block \in Seq(0 .. 255) /\ fields \in Seq(Field)
    /\ \E S : got \in Seq(S)
    /\ Len(got) <= Len(fields) /\ (~ reading => got = <<>> /\ rdPos = 0)

FieldsInv ==
    /\ FieldsTyped
    /\ \E off : off[1] = 0 /\ Layout(off) /\ ReadAt(off)
    /\ FieldsArrive

\* The word in front of a string is its length, there and back.
LEMMA WordOfLength ==
    ASSUME NEW n \in 0 .. 255
    PROVE  /\ hton(HostWord(n)) = <<0, 0, 0, n>>
           /\ Number(ntoh(<<0, 0, 0, n>>)) = n
           /\ WordSize = 4
<1>1. HostWord(n) = <<n, 0, 0, 0>> /\ Len(<<n, 0, 0, 0>>) = 4
  BY DEF HostWord
<1>2. WordSize = 4
  BY DEF WordSize, HostWord
<1>3. \A w \in Seq(0 .. 255) : Len(w) = 4 => Reverse(w) = <<w[4], w[3], w[2], w[1]>>
  <2> SUFFICES ASSUME NEW w \in Seq(0 .. 255), Len(w) = 4
               PROVE  Reverse(w) = <<w[4], w[3], w[2], w[1]>>
    OBVIOUS
  <2>1. Reverse(w) = [i \in 1 .. 4 |-> w[(4 - i) + 1]]
    BY DEF Reverse
  <2> DEFINE x == <<w[4], w[3], w[2], w[1]>>
  <2>2. x = [i \in 1 .. 4 |-> x[i]]
    OBVIOUS
  <2>3. \A i \in 1 .. 4 : x[i] = w[(4 - i) + 1]
    <3> TAKE i \in 1 .. 4
    <3>1. i = 1 \/ i = 2 \/ i = 3 \/ i = 4
      OBVIOUS
    <3> QED BY <3>1
  <2> QED BY <2>1, <2>2, <2>3
<1>4. <<n, 0, 0, 0>> \in Seq(0 .. 255) /\ <<0, 0, 0, n>> \in Seq(0 .. 255)
  OBVIOUS
<1>5. hton(HostWord(n)) = <<0, 0, 0, n>>
  BY <1>1, <1>3, <1>4 DEF hton
<1>6. ntoh(<<0, 0, 0, n>>) = <<n, 0, 0, 0>>
  BY <1>3, <1>4 DEF ntoh
<1>7. Number(<<n, 0, 0, 0>>) = n
  BY DEF Number
<1> QED BY <1>2, <1>5, <1>6, <1>7

\* The cells that hold a sequence are it.
LEMMA CellsAre ==
    ASSUME block \in Seq(0 .. 255), NEW p \in Nat, NEW s \in Seq(0 .. 255),
           p + Len(s) <= Len(block), \A j \in 1 .. Len(s) : block[p + j] = s[j]
    PROVE  Cells(p, Len(s)) = s
<1> DEFINE c == SubSeq(block, p + 1, p + Len(s))
<1>1. c \in Seq(0 .. 255) /\ Len(c) = Len(s) /\ \A j \in 1 .. Len(s) : c[j] = block[p + j]
  <2>1. Len(s) \in Nat /\ Len(block) \in Nat /\ p + 1 \in Int /\ p + Len(s) \in Int
    OBVIOUS
  <2>1a. \A i \in p + 1 .. p + Len(s) : block[i] \in 0 .. 255
    <3> TAKE i \in p + 1 .. p + Len(s)
    <3>1. i \in 1 .. Len(block)
      BY <2>1
    <3> QED BY <3>1, ElementOfSeq
  <2>2. /\ c \in Seq(0 .. 255)
        /\ Len(c) = IF p + 1 <= p + Len(s) THEN p + Len(s) - (p + 1) + 1 ELSE 0
        /\ \A j \in 1 .. p + Len(s) - (p + 1) + 1 : c[j] = block[p + 1 + j - 1]
    BY <2>1, <2>1a, SubSeqProperties
  <2>3. p + Len(s) - (p + 1) + 1 = Len(s) /\ \A j \in 1 .. Len(s) : p + 1 + j - 1 = p + j
    BY <2>1
  <2> HIDE DEF c
  <2> QED BY <2>1, <2>2, <2>3
<1>2. c = s
  <2>1. \A j \in 1 .. Len(s) : c[j] = s[j]
    BY <1>1
  <2>2. c \in Seq(0 .. 255) /\ Len(c) = Len(s)
    BY <1>1
  <2> HIDE DEF c
  <2> QED BY ONLY s \in Seq(0 .. 255), <2>1, <2>2, SeqEqual
<1> QED BY <1>2 DEF Cells

\* hton and ntoh undo each other.
LEMMA ReverseTwice ==
    ASSUME NEW s \in Seq(0 .. 255)
    PROVE  /\ hton(s) \in Seq(0 .. 255) /\ Len(hton(s)) = Len(s)
           /\ ntoh(hton(s)) = s
<1> DEFINE n == Len(s)
           r == [i \in 1 .. n |-> s[(n - i) + 1]]
<1>1. n \in Nat /\ s = [i \in 1 .. n |-> s[i]]
  OBVIOUS
<1>2. hton(s) = r
  BY DEF hton, Reverse
<1>3. \A i \in 1 .. n : (n - i) + 1 \in 1 .. n /\ s[i] \in 0 .. 255
  BY <1>1
<1>4. r \in Seq(0 .. 255) /\ Len(r) = n
  BY <1>1, <1>3
<1>5. ntoh(r) = [i \in 1 .. n |-> r[(n - i) + 1]]
  BY <1>4 DEF ntoh, Reverse
<1>6. \A i \in 1 .. n : r[(n - i) + 1] = s[i]
  <2> TAKE i \in 1 .. n
  <2>1. r[(n - i) + 1] = s[(n - ((n - i) + 1)) + 1]
    BY <1>3
  <2>2. (n - ((n - i) + 1)) + 1 = i
    BY <1>1
  <2> QED BY <2>1, <2>2
<1> QED BY <1>1, <1>2, <1>4, <1>5, <1>6

\* What a field that was written looks like.
LEMMA EncodedIs ==
    ASSUME NEW f \in Field
    PROVE  /\ Encoded(f) \in Seq(0 .. 255)
           /\ f.written /\ f.type = "scalar" => Encoded(f) = hton(f.value)
           /\ f.written /\ f.type = "string" =>
                 /\ Encoded(f) = <<0, 0, 0, Len(f.value)>> \o f.value
                 /\ Len(f.value) \in 0 .. 255
<1>1. f.value \in Seq(0 .. 255) /\ (f.type = "string" => Len(f.value) \in 0 .. 255)
  <2>1. f.value \in Seq(0 .. 255) /\ (f.type = "string" => Len(f.value) < 256)
    BY DEF Field
  <2>2. Len(f.value) \in Nat
    BY <2>1, LenProperties
  <2>3. \A k \in Nat : k < 256 => k \in 0 .. 255
    OBVIOUS
  <2> QED BY ONLY <2>1, <2>2, <2>3
<1>2. hton(f.value) \in Seq(0 .. 255)
  BY <1>1, ReverseTwice
<1>3. f.type = "string" => hton(HostWord(Len(f.value))) = <<0, 0, 0, Len(f.value)>>
  BY <1>1, WordOfLength
<1>4. f.type = "string" => <<0, 0, 0, Len(f.value)>> \in Seq(0 .. 255)
  BY <1>1
<1>5. CASE ~ f.written
  BY <1>5 DEF Encoded
<1>6. CASE f.written /\ f.type = "string"
  <2>1. Encoded(f) = <<0, 0, 0, Len(f.value)>> \o f.value
    BY <1>3, <1>6 DEF Encoded
  <2>2. <<0, 0, 0, Len(f.value)>> \o f.value \in Seq(0 .. 255)
    BY <1>1, <1>4, <1>6, ConcatProperties
  <2> QED BY <1>1, <1>6, <2>1, <2>2
<1>7. CASE f.written /\ f.type = "scalar"
  BY <1>2, <1>7 DEF Encoded
<1> QED BY <1>5, <1>6, <1>7 DEF Field

\* A field is appended to the block as it is encoded.
LEMMA WriteAppends ==
    ASSUME FieldsTyped, NEW type, NEW v, PackWrite(type, v),
           \/ type = "scalar" /\ v \in Scalars
           \/ type = "string" /\ v \in Strings
    PROVE  \E f \in Field : fields' = Append(fields, f) /\ block' = block \o Encoded(f)
<1> DEFINE f == [type |-> type, value |-> v, written |-> type = "scalar" \/ StringFits(v)]
<1>1. f \in Field /\ f.type = type /\ f.value = v
  <2>1. f.written \in BOOLEAN
    OBVIOUS
  <2>2. v \in Seq(0 .. 255) /\ (type = "string" => Len(v) < 256)
    BY NetBytesAssumption
  <2> QED BY <2>1, <2>2 DEF Field
<1>2. f.written <=> type = "scalar" \/ StringFits(v)
  OBVIOUS
<1>3. fields' = Append(fields, f)
  BY DEF PackWrite
<1>4. block \in Seq(0 .. 255)
  BY DEF FieldsTyped
<1> HIDE DEF f
<1>5. CASE type = "scalar"
  <2>1. block' = block \o hton(v)
    BY <1>5 DEF PackWrite, PutScalar
  <2> QED BY <1>1, <1>2, <1>3, <1>5, <2>1, EncodedIs
<1>6. CASE type = "string" /\ StringFits(v)
  <2>1. block' = block \o hton(HostWord(Len(v))) \o v
    BY <1>6 DEF PackWrite, PutString
  <2>a. v \in Seq(0 .. 255) /\ Len(v) < 256 /\ v \in Strings
    <3>1. v \in Strings
      BY <1>6
    <3> QED BY <3>1, NetBytesAssumption
  <2>b. Len(v) \in 0 .. 255
    <3>1. Len(v) \in Nat
      BY <2>a, LenProperties
    <3>2. \A k \in Nat : k < 256 => k \in 0 .. 255
      OBVIOUS
    <3> QED BY ONLY <2>a, <3>1, <3>2
  <2>2. /\ hton(HostWord(Len(v))) = <<0, 0, 0, Len(v)>>
        /\ v \in Seq(0 .. 255) /\ Len(v) \in 0 .. 255
    BY <2>a, <2>b, WordOfLength
  <2>3. <<0, 0, 0, Len(v)>> \in Seq(0 .. 255)
    <3>1. \A k \in 0 .. 255 : <<0, 0, 0, k>> \in Seq(0 .. 255)
      OBVIOUS
    <3> QED BY <2>b, <3>1
  <2>4. block' = block \o (<<0, 0, 0, Len(v)>> \o v)
    <3> DEFINE w == <<0, 0, 0, Len(v)>>
    <3>1. block' = (block \o w) \o v /\ w \in Seq(0 .. 255)
      BY <2>1, <2>2, <2>3
    <3> HIDE DEF w
    <3>2. (block \o w) \o v = block \o (w \o v)
      BY <1>4, <2>a, <3>1, ConcatAssociative
    <3> QED BY <3>1, <3>2 DEF w
  <2> QED BY <1>1, <1>2, <1>3, <1>6, <2>4, EncodedIs
<1>7. CASE type = "string" /\ ~ StringFits(v)
  <2>1. block' = block
    BY <1>7 DEF PackWrite, PutString
  <2>2. Encoded(f) = <<>>
    BY <1>2, <1>7 DEF Encoded
  <2>3. block \o <<>> = block
    BY <1>4
  <2> QED BY <1>1, <1>3, <2>1, <2>2, <2>3
<1> QED BY <1>5, <1>6, <1>7

\* Every field that was there stays where it was.
LEMMA LayoutGrows ==
    ASSUME FieldsTyped, NEW off, Layout(off), NEW f \in Field,
           fields' = Append(fields, f), block' = block \o Encoded(f)
    PROVE  \E new : Layout(new)' /\ \A i \in 1 .. Len(fields) + 1 : new[i] = off[i]
<1> DEFINE n == Len(fields)
           e == Encoded(f)
<1>1. block \in Seq(0 .. 255) /\ fields \in Seq(Field) /\ e \in Seq(0 .. 255)
  BY EncodedIs DEF FieldsTyped
<1>2. n \in Nat /\ Len(block) \in Nat /\ Len(e) \in Nat
  BY <1>1
<1>3. Len(fields') = n + 1 /\ fields'[n + 1] = f /\ \A i \in 1 .. n : fields'[i] = fields[i]
  BY <1>1
<1>4. /\ Len(block') = Len(block) + Len(e)
      /\ \A i \in 1 .. Len(block) : block'[i] = block[i]
      /\ \A j \in 1 .. Len(e) : block'[Len(block) + j] = e[j]
  <2>1. block' = block \o e
    OBVIOUS
  <2> HIDE DEF e
  <2> QED BY <1>1, <2>1, ConcatProperties
<1>5. /\ off \in [1 .. n + 1 -> Nat] /\ off[n + 1] = Len(block)
      /\ \A i \in 1 .. n :
            /\ off[i + 1] = off[i] + Len(Encoded(fields[i]))
            /\ off[i + 1] <= Len(block)
            /\ \A j \in 1 .. Len(Encoded(fields[i])) : block[off[i] + j] = Encoded(fields[i])[j]
  BY DEF Layout
<1>5a. PICK new : new = [i \in 1 .. n + 2 |-> IF i <= n + 1 THEN off[i] ELSE Len(block) + Len(e)]
  OBVIOUS
<1> HIDE DEF n
<1>6. /\ new \in [1 .. n + 2 -> Nat] /\ new[n + 2] = Len(block')
      /\ \A i \in 1 .. n + 1 : new[i] = off[i]
  <2> HIDE DEF e
  <2> QED BY <1>2, <1>4, <1>5, <1>5a
<1>7. ASSUME NEW i \in 1 .. n + 1
      PROVE  /\ new[i + 1] = new[i] + Len(Encoded(fields'[i]))
             /\ new[i + 1] <= Len(block')
             /\ \A j \in 1 .. Len(Encoded(fields'[i])) :
                   block'[new[i] + j] = Encoded(fields'[i])[j]
  <2>1. CASE i = n + 1
    <3>1. new[i] = Len(block) /\ new[i + 1] = Len(block) + Len(e) /\ fields'[i] = f
      <4>1. i + 1 = n + 2
        BY <1>2, <2>1
      <4> QED BY <1>2, <1>3, <1>4, <1>5, <1>6, <2>1, <4>1
    <3>2. Encoded(fields'[i]) = e
      BY <3>1
    <3> HIDE DEF e
    <3>3. new[i + 1] = new[i] + Len(Encoded(fields'[i])) /\ new[i + 1] <= Len(block')
      BY <1>2, <1>4, <3>1, <3>2
    <3>4. \A j \in 1 .. Len(Encoded(fields'[i])) : block'[new[i] + j] = Encoded(fields'[i])[j]
      BY <1>4, <3>1, <3>2
    <3> QED BY <3>3, <3>4
  <2>2. CASE i \in 1 .. n
    <3>1. new[i] = off[i] /\ new[i + 1] = off[i + 1] /\ fields'[i] = fields[i]
      BY <1>2, <1>3, <1>6, <2>2
    <3>2. fields[i] \in Field
      BY <1>1, <2>2, ElementOfSeq DEF n
    <3> DEFINE d == Encoded(fields[i])
    <3>3. d \in Seq(0 .. 255)
      BY <3>2, EncodedIs
    <3>4. Len(d) \in Nat /\ off[i] \in Nat /\ off[i + 1] \in Nat
      BY <1>2, <1>5, <2>2, <3>3
    <3>5. off[i + 1] = off[i] + Len(d) /\ off[i + 1] <= Len(block)
          /\ \A j \in 1 .. Len(d) : block[off[i] + j] = d[j]
      BY <1>5, <2>2
    <3>6. \A j \in 1 .. Len(d) : off[i] + j \in 1 .. Len(block)
      BY <1>2, <3>4, <3>5
    <3>7. Encoded(fields'[i]) = d
      BY <3>1
    <3> HIDE DEF d, e
    <3>8. off[i + 1] <= Len(block')
      BY <1>2, <1>4, <3>4, <3>5
    <3>9. new[i + 1] = new[i] + Len(Encoded(fields'[i])) /\ new[i + 1] <= Len(block')
      BY <3>1, <3>5, <3>7, <3>8
    <3>10. \A j \in 1 .. Len(Encoded(fields'[i])) : block'[new[i] + j] = Encoded(fields'[i])[j]
      BY <1>4, <3>1, <3>5, <3>6, <3>7
    <3> QED BY <3>9, <3>10
  <2>3. i = n + 1 \/ i \in 1 .. n
    BY <1>2
  <2> QED BY <2>1, <2>2, <2>3, Zenon
<1>8. n + 1 + 1 = n + 2
  BY <1>2
<1>9. Layout(new)'
  <2>1. \A g : Encoded(g)' = Encoded(g)
    BY DEF Encoded
  <2>2. \A i \in 1 .. n + 1 : Encoded(fields[i])' = Encoded(fields'[i])
    BY DEF Encoded
  <2> QED BY <1>3, <1>6, <1>7, <1>8, <2>2 DEF Layout
<1> QED BY <1>6, <1>9 DEF n

\* A field that was written and stands where the reader is, is what is read.
LEMMA ReadTakes ==
    ASSUME FieldsTyped, PackRead, NEW off, Layout(off), NEW n \in Nat, n = Len(got),
           fields[n + 1].written, rdPos = off[n + 1],
           UNCHANGED got => FALSE
    PROVE  /\ got' = Append(got, IF fields[n + 1].type = "string"
                                 THEN CString(fields[n + 1].value) ELSE fields[n + 1].value)
           /\ fields[n + 1].value # <<>> => rdPos' = off[n + 2]
<1> DEFINE f == fields[n + 1]
           s == f.value
           e == Encoded(f)
<1>1. n + 1 \in 1 .. Len(fields) /\ fields \in Seq(Field) /\ block \in Seq(0 .. 255)
  BY DEF FieldsTyped, PackRead
<1>2. f \in Field
  BY <1>1, ElementOfSeq
<1>3. s \in Seq(0 .. 255) /\ f.type \in {"scalar", "string"}
  BY <1>2 DEF Field
<1>4. e \in Seq(0 .. 255)
  BY <1>2, EncodedIs
<1>5. /\ off[n + 1 + 1] = off[n + 1] + Len(e) /\ off[n + 1 + 1] <= Len(block)
      /\ \A j \in 1 .. Len(e) : block[off[n + 1] + j] = e[j]
      /\ off[n + 1] \in Nat
  BY <1>1 DEF Layout
<1>6. n + 1 + 1 = n + 2
  OBVIOUS
<1>7. IF f.type = "string" THEN GetString ELSE GetScalar(Len(s))
  BY DEF PackRead
<1>8. CASE f.type = "scalar"
  <2>1. e = hton(s)
    BY <1>2, <1>8, EncodedIs
  <2>2. Len(e) = Len(s) /\ ntoh(hton(s)) = s
    BY <1>3, <2>1, ReverseTwice
  <2> HIDE DEF e
  <2>3. Cells(rdPos, Len(e)) = e
    BY <1>1, <1>4, <1>5, CellsAre
  <2>4. ntoh(Cells(rdPos, Len(s))) = s
    BY <2>1, <2>2, <2>3
  <2>5. Took(0, Len(s), s)
    BY <1>7, <1>8, <2>4 DEF GetScalar
  <2>6. Len(s) \in Nat
    BY <1>3
  <2> HIDE DEF s, f
  <2>7. got' = Append(got, s) /\ rdPos' = rdPos + 0 + Len(s)
    BY <2>5 DEF Took
  <2>8. rdPos' = off[n + 2]
    BY <1>5, <1>6, <2>2, <2>6, <2>7
  <2> QED BY <1>8, <2>7, <2>8 DEF s, f
<1>9. CASE f.type = "string"
  <2> DEFINE w == <<0, 0, 0, Len(s)>>
  <2>1. e = w \o s /\ Len(s) \in 0 .. 255
    BY <1>2, <1>9, EncodedIs
  <2>2. w \in Seq(0 .. 255) /\ Len(w) = 4
    <3>1. \A k \in 0 .. 255 : <<0, 0, 0, k>> \in Seq(0 .. 255) /\ Len(<<0, 0, 0, k>>) = 4
      OBVIOUS
    <3> QED BY <2>1, <3>1
  <2>3. Number(ntoh(w)) = Len(s) /\ WordSize = 4
    BY <2>1, WordOfLength
  <2> HIDE DEF w, e, s
  <2>4. /\ Len(e) = 4 + Len(s)
        /\ \A j \in 1 .. 4 : e[j] = w[j]
        /\ \A j \in 1 .. Len(s) : e[4 + j] = s[j]
    <3>1. /\ Len(e) = Len(w) + Len(s)
          /\ \A j \in 1 .. Len(w) : e[j] = w[j]
          /\ \A j \in 1 .. Len(s) : e[Len(w) + j] = s[j]
      <4>1. w \in Seq(0 .. 255) /\ s \in Seq(0 .. 255) /\ e = w \o s
        BY <1>3, <2>1, <2>2
      <4> QED BY ONLY <4>1, ConcatProperties
    <3> QED BY ONLY <2>2, <3>1
  <2>4a. Len(e) = 4 + Len(s)
    BY <2>4
  <2>4b. off[n + 2] = rdPos + Len(e)
    BY <1>5, <1>6
  <2>5. Len(s) \in Nat /\ Len(block) \in Nat /\ rdPos \in Nat
        /\ rdPos + 4 + Len(s) <= Len(block)
    BY <1>1, <1>5, <2>1, <2>4
  <2>6. Cells(rdPos, 4) = w
    <3>1. \A j \in 1 .. 4 : block[rdPos + j] = w[j]
      <4> TAKE j \in 1 .. 4
      <4>1. j \in 1 .. Len(e)
        BY <2>4a, <2>5
      <4>2. block[rdPos + j] = e[j]
        BY <1>5, <4>1
      <4> QED BY <2>4, <4>2
    <3>2. rdPos + Len(w) <= Len(block)
      BY <2>2, <2>5
    <3> QED BY <1>1, <2>2, <2>5, <3>1, <3>2, CellsAre
  <2>7. Cells(rdPos + 4, Len(s)) = s
    <3>1. \A j \in 1 .. Len(s) : block[rdPos + 4 + j] = s[j]
      <4> TAKE j \in 1 .. Len(s)
      <4>0. j \in Nat /\ 1 <= j /\ j <= Len(s) /\ Len(s) \in Nat /\ rdPos \in Nat
        BY <2>5
      <4>1. 4 + j \in 1 .. Len(e) /\ rdPos + (4 + j) = rdPos + 4 + j
        BY ONLY <2>4a, <4>0
      <4>2. block[rdPos + (4 + j)] = e[4 + j]
        BY <1>5, <4>1
      <4> QED BY <2>4, <4>1, <4>2
    <3>2. rdPos + 4 \in Nat
      BY <2>5
    <3> QED BY <1>1, <1>3, <2>5, <3>1, <3>2, CellsAre
  <2>8. GetBuf
    <3>1. GetString
      BY <1>7, <1>9
    <3> QED BY <3>1, <2>5, <2>3 DEF GetString
  <2>9. CASE s = <<>>
    <3>1. Len(s) = 0
      BY <2>9
    <3>2. got' = Append(got, <<>>)
      BY <2>3, <2>6, <2>8, <3>1 DEF GetBuf
    <3>3. CString(s) = <<>>
      BY <2>9 DEF CString, ToSet
    <3> QED BY <1>9, <2>9, <3>2, <3>3 DEF s
  <2>10. CASE s # <<>>
    <3>1. Len(s) # 0
      BY <1>3, <2>10, EmptySeq
    <3>2. Took(4, Len(s), CString(s))
      BY <2>3, <2>6, <2>7, <2>8, <3>1 DEF GetBuf
    <3>3. got' = Append(got, CString(s)) /\ rdPos' = rdPos + 4 + Len(s)
      BY <3>2 DEF Took
    <3>4. rdPos' = off[n + 2]
      BY ONLY <2>4a, <2>4b, <2>5, <3>3
    <3> QED BY <1>9, <3>3, <3>4 DEF s
  <2> QED BY <2>9, <2>10
<1> QED BY <1>3, <1>8, <1>9

\* operator<<.
LEMMA WriteKeeps ==
    ASSUME FieldsInv, NEW type, NEW v, PackWrite(type, v),
           \/ type = "scalar" /\ v \in Scalars
           \/ type = "string" /\ v \in Strings
    PROVE  FieldsInv'
<1>1. FieldsTyped
  BY DEF FieldsInv
<1>2. PICK f \in Field : fields' = Append(fields, f) /\ block' = block \o Encoded(f)
  BY <1>1, WriteAppends
<1>3. PICK off : off[1] = 0 /\ Layout(off)
  BY DEF FieldsInv
<1>4. PICK new : Layout(new)' /\ \A i \in 1 .. Len(fields) + 1 : new[i] = off[i]
  BY <1>1, <1>2, <1>3, LayoutGrows
<1>5. UNCHANGED <<rdPos, got, reading>> /\ got = <<>> /\ rdPos = 0 /\ ~ reading
  BY <1>1 DEF PackWrite, FieldsTyped
<1>6. fields \in Seq(Field) /\ Len(fields) \in Nat
  BY <1>1 DEF FieldsTyped
<1>7. new[1] = 0
  BY <1>3, <1>4, <1>6
<1>8. Len(got') = 0 /\ Len(<<>>) = 0 /\ <<>> \in Seq({})
  BY <1>5
<1>9. ReadAt(new)'
  BY <1>5, <1>7, <1>8 DEF ReadAt
<1>10. FieldsTyped'
  <2>1. fields' \in Seq(Field) /\ Len(fields') \in Nat
    BY <1>2, <1>6
  <2>2. block' \in Seq(0 .. 255)
    BY <1>1, <1>2, EncodedIs, ConcatProperties DEF FieldsTyped
  <2>3. \E S : got' \in Seq(S)
    BY <1>5, <1>8
  <2> QED BY <1>5, <1>8, <2>1, <2>2, <2>3 DEF FieldsTyped
<1>11. FieldsArrive'
  BY <1>5 DEF FieldsArrive
<1> QED BY <1>4, <1>7, <1>9, <1>10, <1>11 DEF FieldsInv

\* What was read, with one more value.
LEMMA Longer ==
    ASSUME FieldsTyped, NEW x
    PROVE  /\ Append(got, x) # got /\ Len(got) \in Nat
           /\ Len(Append(got, x)) = Len(got) + 1 /\ Append(got, x)[Len(got) + 1] = x
           /\ \A i \in 1 .. Len(got) : Append(got, x)[i] = got[i]
           /\ \E S : Append(got, x) \in Seq(S)
<1>1. PICK S : got \in Seq(S)
  BY DEF FieldsTyped
<1> DEFINE T == S \cup {x}
<1>2. got \in Seq(T) /\ x \in T
  <2>1. \A i \in 1 .. Len(got) : got[i] \in T
    BY <1>1, ElementOfSeq
  <2>2. Len(got) \in Nat /\ got \in [1 .. Len(got) -> S]
    BY <1>1, LenProperties
  <2>3. got \in [1 .. Len(got) -> T]
    BY <2>1, <2>2
  <2> QED BY <2>2, <2>3, IsASeq
<1> HIDE DEF T
<1>3. /\ Append(got, x) \in Seq(T) /\ Len(Append(got, x)) = Len(got) + 1
      /\ \A i \in 1 .. Len(got) : Append(got, x)[i] = got[i]
      /\ Append(got, x)[Len(got) + 1] = x
  BY <1>2, AppendProperties
<1>4. Len(got) \in Nat
  BY <1>1, LenProperties
<1> QED BY <1>3, <1>4

\* operator>>: a field that was written is read as it was, and if it is not empty
\* the reader stands at the next.
LEMMA FieldReadKeeps ==
    ASSUME FieldsInv, PackRead
    PROVE  FieldsInv'
<1> DEFINE n == Len(got)
<1>1. FieldsTyped /\ FieldsArrive
  BY DEF FieldsInv
<1>2. PICK off : off[1] = 0 /\ Layout(off) /\ ReadAt(off)
  BY DEF FieldsInv
<1>3. UNCHANGED <<block, fields, reading>> /\ reading /\ Len(got) < Len(fields)
  BY DEF PackRead
<1>4. Layout(off)'
  BY <1>2, <1>3 DEF Layout, Encoded
<1>5. UNCHANGED <<rdPos, got>> \/ \E x : got' = Append(got, x)
  BY DEF PackRead, GetString, GetBuf, GetScalar, Took
<1>6. CASE UNCHANGED <<rdPos, got>>
  BY <1>1, <1>2, <1>3, <1>4, <1>6 DEF FieldsInv, FieldsTyped, FieldsArrive, ReadAt
<1>7. ASSUME NEW x, got' = Append(got, x)
      PROVE  FieldsInv'
  <2>1. /\ got' # got /\ n \in Nat /\ Len(got') = n + 1 /\ got'[n + 1] = x
        /\ \A i \in 1 .. n : got'[i] = got[i]
        /\ \E S : got' \in Seq(S)
    BY <1>1, <1>7, Longer
  <2>2. fields \in Seq(Field) /\ Len(fields) \in Nat /\ n + 1 <= Len(fields)
    BY <1>1, <1>3, <2>1 DEF FieldsTyped
  <2>3. FieldsTyped'
    BY <1>1, <1>3, <2>1, <2>2 DEF FieldsTyped
  <2> DEFINE good == \A j \in 1 .. n : fields[j].written /\ fields[j].value # <<>>
  <2>4. good /\ fields[n + 1].written =>
           /\ x = IF fields[n + 1].type = "string"
                  THEN CString(fields[n + 1].value) ELSE fields[n + 1].value
           /\ fields[n + 1].value # <<>> => rdPos' = off[n + 2]
    <3> SUFFICES ASSUME good, fields[n + 1].written
                 PROVE  /\ x = IF fields[n + 1].type = "string"
                               THEN CString(fields[n + 1].value) ELSE fields[n + 1].value
                        /\ fields[n + 1].value # <<>> => rdPos' = off[n + 2]
      OBVIOUS
    <3>1. rdPos = off[n + 1]
      BY <1>2 DEF ReadAt
    <3> DEFINE y == IF fields[n + 1].type = "string"
                    THEN CString(fields[n + 1].value) ELSE fields[n + 1].value
    <3>2. got' = Append(got, y) /\ (fields[n + 1].value # <<>> => rdPos' = off[n + 2])
      BY <1>1, <1>2, <2>1, <3>1, ReadTakes
    <3> HIDE DEF y
    <3>3. Append(got, y)[n + 1] = y
      BY <1>1, Longer
    <3>4. x = y
      BY <2>1, <3>2, <3>3
    <3> QED BY <3>2, <3>4 DEF y
  <2>5. ReadAt(off)'
    <3> SUFFICES ASSUME \A j \in 1 .. Len(got') : fields'[j].written /\ fields'[j].value # <<>>
                 PROVE  rdPos' = off[Len(got') + 1]
      BY DEF ReadAt
    <3>1. \A j \in 1 .. n + 1 : fields[j].written /\ fields[j].value # <<>>
      BY <1>3, <2>1
    <3>2. good /\ fields[n + 1].written /\ fields[n + 1].value # <<>>
      BY <2>1, <3>1
    <3>3. Len(got') + 1 = n + 2
      BY <2>1
    <3> QED BY <2>4, <3>2, <3>3
  <2>6. FieldsArrive'
    <3>1. DOMAIN got' = 1 .. n + 1 /\ DOMAIN got = 1 .. n
      <4>1. DOMAIN got' = 1 .. Len(got')
        BY <2>1, LenProperties
      <4>2. DOMAIN got = 1 .. Len(got)
        BY <1>1, LenProperties DEF FieldsTyped
      <4> QED BY <2>1, <4>1, <4>2
    <3> SUFFICES ASSUME NEW i \in 1 .. n + 1,
                        \A j \in 1 .. i : fields[j].written /\ (j < i => fields[j].value # <<>>)
                 PROVE  got'[i] = IF fields[i].type = "string" THEN CString(fields[i].value)
                                  ELSE fields[i].value
      <4>1. \A i \in 1 .. n + 1 : CString(fields[i].value)' = CString(fields[i].value)
        BY <1>3
      <4> QED BY <1>3, <3>1, <4>1 DEF FieldsArrive
    <3>2. CASE i \in 1 .. n
      <4>1. got'[i] = got[i]
        BY <2>1, <3>2
      <4> QED BY <1>1, <3>1, <3>2, <4>1 DEF FieldsArrive
    <3>3. CASE i = n + 1
      <4>1. good /\ fields[n + 1].written
        <5>1. \A j \in 1 .. n : j \in 1 .. n + 1 /\ j < n + 1
          BY <2>1
        <5>2. n + 1 \in 1 .. n + 1
          BY <2>1
        <5> QED BY <3>3, <5>1, <5>2
      <4> HIDE DEF good
      <4> QED BY <2>1, <2>4, <3>3, <4>1
    <3>4. i \in 1 .. n \/ i = n + 1
      BY <2>1
    <3> QED BY <3>2, <3>3, <3>4
  <2> QED BY <1>2, <1>4, <2>3, <2>5, <2>6 DEF FieldsInv
<1> QED BY <1>5, <1>6, <1>7

\* A new pack.
LEMMA FieldsStart ==
    ASSUME block = <<>>, fields = <<>>, got = <<>>, rdPos = 0
    PROVE  FieldsInv
<1> DEFINE off == [i \in 1 .. 1 |-> 0]
<1>1. /\ Len(fields) = 0 /\ Len(block) = 0 /\ Len(got) = 0 /\ block \in Seq(0 .. 255)
      /\ fields \in Seq(Field) /\ got \in Seq({})
  OBVIOUS
<1>2. FieldsTyped
  BY <1>1 DEF FieldsTyped
<1>3. off[1] = 0 /\ Layout(off) /\ ReadAt(off)
  BY <1>1 DEF Layout, ReadAt
<1>4. FieldsArrive
  BY DEF FieldsArrive
<1> QED BY <1>2, <1>3, <1>4 DEF FieldsInv

\* Sending a pack changes nothing in it.
LEMMA OthersKeep ==
    ASSUME FieldsInv, SendPack \/ NewPack \/ UNCHANGED packVars
    PROVE  FieldsInv'
<1>1. CASE NewPack
  <2>1. block' = <<>> /\ fields' = <<>> /\ got' = <<>> /\ rdPos' = 0
    BY <1>1 DEF NewPack
  <2> DEFINE off == [i \in 1 .. 1 |-> 0]
  <2>2. /\ Len(<<>>) = 0 /\ <<>> \in Seq(0 .. 255)
        /\ <<>> \in Seq(Field) /\ <<>> \in Seq({}) /\ off \in [1 .. 1 -> Nat] /\ off[1] = 0
    OBVIOUS
  <2>3. FieldsTyped'
    BY <2>1, <2>2 DEF FieldsTyped
  <2>4. Layout(off)' /\ ReadAt(off)'
    BY <2>1, <2>2 DEF Layout, ReadAt
  <2>5. FieldsArrive'
    BY <2>1 DEF FieldsArrive
  <2> QED BY <2>2, <2>3, <2>4, <2>5 DEF FieldsInv
<1>2. CASE SendPack \/ UNCHANGED packVars
  <2>1. UNCHANGED <<block, rdPos, fields, got>> /\ (reading => reading')
    BY <1>2 DEF SendPack, packVars
  <2>2. PICK off : off[1] = 0 /\ Layout(off) /\ ReadAt(off)
    BY DEF FieldsInv
  <2>3. Layout(off)' /\ ReadAt(off)'
    BY <2>1, <2>2 DEF Layout, ReadAt, Encoded
  <2>4. FieldsTyped'
    BY <2>1 DEF FieldsInv, FieldsTyped
  <2>5. FieldsArrive'
    <3>1. \A i \in DOMAIN got : CString(fields[i].value)' = CString(fields[i].value)
      BY <2>1
    <3> QED BY <2>1, <3>1 DEF FieldsInv, FieldsArrive
  <2> QED BY <2>2, <2>3, <2>4, <2>5 DEF FieldsInv
<1> QED BY <1>1, <1>2

\* Whatever the fields and the size of the block: the other side reads what was
\* written, up to the first string that did not fit and was dropped, and but for
\* the fields behind an empty string (NetBytes.cpp, operator<< and operator>>).
THEOREM FieldsArriveCorrect == PackSpec => []FieldsArrive
<1>1. PackInit => FieldsInv
  BY FieldsStart DEF PackInit
<1>2. ASSUME FieldsInv, [PackNext]_packVars PROVE FieldsInv'
  <2>1. ASSUME NEW v \in Scalars, PackWrite("scalar", v) PROVE FieldsInv'
    BY <2>1, <1>2, WriteKeeps
  <2>2. ASSUME NEW v \in Strings, PackWrite("string", v) PROVE FieldsInv'
    BY <2>2, <1>2, WriteKeeps
  <2> QED BY <1>2, <2>1, <2>2, FieldReadKeeps, OthersKeep DEF PackNext
<1>3. FieldsInv => FieldsArrive
  BY DEF FieldsInv
<1> QED BY <1>1, <1>2, <1>3, PTL DEF PackSpec
=============================================================================
