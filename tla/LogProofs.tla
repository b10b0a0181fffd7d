------------------------------- MODULE LogProofs -------------------------------
(***************************************************************************)
(* Proofs about the logger.  LogInv says where every CBuffer is and in     *)
(* which order lines lie: a full buffer goes from _pCurBuffer through      *)
(* _workList to OnProc's pBuffer, so that what OnProc holds is older than  *)
(* what is in _workList, and that is older than the current buffer         *)
(* (Ordered); what is on the disk is older still, or was written in place  *)
(* (Saved).  Loss remembers that the current buffer is gone or empty when  *)
(* the last line did not fit, so that the next one does.                   *)
(***************************************************************************)
EXTENDS Log, SequenceTheorems, FiniteSetTheorems, TLAPS

CBuffer == [ids : Seq(Nat), writePos : 0 .. BufSize]

Line == [id : Nat, file : Int, flushed : BOOLEAN]

Writer ==
    [at : {"file", "get", "write", "flush", "ended"}, buf : Buffer \cup {NoBuffer},
     tick : 0 .. TickLimit]

Types ==
    /\ pc \in [Thread -> {"out", "in", "locked"}] /\ owner \in Thread \cup {Nobody}
    /\ \A t \in Thread : pc[t] = "locked" <=> owner = t
    /\ free \in Seq(Buffer) /\ work \in Seq(Buffer) /\ cur \in Buffer \cup {NoBuffer}
    /\ content \in [Buffer -> CBuffer] /\ lines \in Nat
    /\ stop \in BOOLEAN /\ uninit \in {"out", "join", "clean", "done"} /\ second \in 0 .. MaxSecond
    /\ disk \in Seq(Line) /\ file \in [opened : BOOLEAN, name : Nat, size : Nat]

\* OnProc has a buffer while it writes it, and for good when fwrite failed.
Writing ==
    /\ writer \in Writer
    /\ writer.at \in {"file", "get"} => writer.tick < TickLimit
    /\ writer.at \in {"file", "get", "flush"} => writer.buf = NoBuffer
    /\ writer.at = "write" => writer.buf \in Buffer
    /\ writer.at = "ended" \/ uninit # "out" => stop

\* Every buffer has one owner.
Owned ==
    /\ IsInjective(free) /\ IsInjective(work)
    /\ ToSet(free) \cap ToSet(work) = {} /\ (ToSet(free) \cup ToSet(work)) \cap Held = {}
    /\ cur # writer.buf \/ cur = NoBuffer
    /\ \A b \in ToSet(free) : content[b] = EmptyBuffer

\* The order in which full buffers go through the lists.
Precedes(b, c) ==
    \/ b = writer.buf /\ (c = cur \/ c \in ToSet(work))
    \/ b \in ToSet(work) /\ c = cur
    \/ \E i, j \in 1 .. Len(work) : i < j /\ b = work[i] /\ c = work[j]

Rising(s) == \A i, j \in 1 .. Len(s) : i < j => s[i] < s[j]

\* Lines lie in the buffers in the order they were logged.
Ordered ==
    /\ \A b \in Buffer : Rising(content[b].ids) /\ LinesOf(b) \subseteq 1 .. lines
    /\ \A b, c \in Buffer :
          Precedes(b, c) => \A m \in LinesOf(b), n \in LinesOf(c) : m < n

\* The line d of the disk and the line n logged are different, and d is older or
\* was written in place.
Apart(d, n) == d.id # n /\ (d.id > n => d.flushed)

\* What is on the disk is older than what is in the buffers.
Saved ==
    /\ \A i \in 1 .. Len(disk) : disk[i].id \in 1 .. lines
    /\ \A i, j \in 1 .. Len(disk) : i < j => Apart(disk[i], disk[j].id)
    /\ \A i \in 1 .. Len(disk), b \in Kept : \A n \in LinesOf(b) : Apart(disk[i], n)

\* Of two lines one is kept; when the last was dropped, the next has an empty buffer.
Loss ==
    ~ stop =>
        /\ \A n \in 1 .. lines - 1 : n \in Accounted \/ n + 1 \in Accounted
        /\ lines = 0 \/ lines \in Accounted \/ cur = NoBuffer \/ DataLen(cur) = 0

LogInv == Types /\ Writing /\ Owned /\ Ordered /\ Saved /\ Loss

-----------------------------------------------------------------------------
(* What a step leaves alone. *)

LEMMA KeptBuffers ==
    ASSUME Types, Writing
    PROVE  /\ Kept \subseteq Buffer /\ ToSet(work) \subseteq Buffer /\ ToSet(free) \subseteq Buffer
           /\ \A b : b \in Kept <=> \/ b \in ToSet(work)
                                    \/ b = cur /\ cur # NoBuffer
                                    \/ b = writer.buf /\ writer.buf # NoBuffer
           /\ NoBuffer \notin Buffer
<1>1. ToSet(work) \subseteq Buffer /\ ToSet(free) \subseteq Buffer
  BY DEF Types, ToSet
<1>2. NoBuffer \notin Buffer
  BY LogAssumption DEF NoBuffer
<1>3. writer.buf \in Buffer \cup {NoBuffer} /\ cur \in Buffer \cup {NoBuffer}
  BY DEF Types, Writing, Writer
<1> QED BY <1>1, <1>2, <1>3 DEF Kept, Held

LEMMA OrderedSame ==
    ASSUME Ordered, UNCHANGED <<content, lines, work, cur>>, writer'.buf = writer.buf
    PROVE  Ordered'
BY DEF Ordered, Precedes, LinesOf

LEMMA SavedSame ==
    ASSUME Saved, UNCHANGED <<content, lines, disk>>, Kept' \subseteq Kept
    PROVE  Saved'
BY DEF Saved, LinesOf

LEMMA AccountedGrows ==
    ASSUME spoiled \subseteq spoiled',
           \A i \in DOMAIN disk : \E j \in DOMAIN disk' : disk'[j].id = disk[i].id,
           \A b \in Kept : \A n \in LinesOf(b) :
              \/ \E j \in DOMAIN disk' : disk'[j].id = n
              \/ n \in spoiled'
              \/ b \in Kept' /\ n \in LinesOf(b)'
    PROVE  Accounted \subseteq Accounted'
<1> SUFFICES ASSUME NEW n \in Accounted PROVE n \in Accounted'
  OBVIOUS
<1>1. CASE n \in spoiled
  BY <1>1 DEF Accounted
<1>2. ASSUME NEW i \in DOMAIN disk, disk[i].id = n PROVE n \in Accounted'
  BY <1>2 DEF Accounted
<1>3. ASSUME NEW b \in Kept, n \in LinesOf(b) PROVE n \in Accounted'
  BY <1>3 DEF Accounted
<1> QED BY <1>1, <1>2, <1>3 DEF Accounted

LEMMA LossKept ==
    ASSUME Loss, UNCHANGED lines, stop => stop', Accounted \subseteq Accounted',
           cur' = cur /\ content' = content
    PROVE  Loss'
BY DEF Loss, DataLen

\* Nothing goes through the lists behind the current buffer.
LEMMA CurIsLast ==
    ASSUME Types, Owned, cur # NoBuffer, NEW c \in Buffer, Precedes(cur, c)
    PROVE  FALSE
<1>1. cur # writer.buf /\ cur \notin ToSet(work)
  BY DEF Owned, Held
<1>2. \A i \in 1 .. Len(work) : work[i] \in ToSet(work)
  BY DEF Types, ToSet
<1> QED BY <1>1, <1>2 DEF Precedes

LEMMA TailOf ==
    ASSUME NEW S, NEW s \in Seq(S), s # <<>>, IsInjective(s)
    PROVE  /\ Head(s) \in ToSet(s) /\ ToSet(Tail(s)) \subseteq ToSet(s) \ {Head(s)}
           /\ ToSet(s) \subseteq ToSet(Tail(s)) \cup {Head(s)}
           /\ Tail(s) \in Seq(S) /\ IsInjective(Tail(s))
<1>1. /\ Tail(s) \in Seq(S) /\ Len(s) \in Nat \ {0} /\ Len(Tail(s)) = Len(s) - 1 /\ Head(s) = s[1]
      /\ \A i \in 1 .. Len(s) - 1 : Tail(s)[i] = s[i + 1]
      /\ DOMAIN s = 1 .. Len(s) /\ DOMAIN Tail(s) = 1 .. Len(s) - 1
  OBVIOUS
<1>2. \A i \in 1 .. Len(s) - 1 : i + 1 \in 1 .. Len(s) /\ i + 1 # 1 /\ 1 \in 1 .. Len(s)
  BY <1>1
<1>3. \A i, j \in 1 .. Len(s) : s[i] = s[j] => i = j
  BY <1>1 DEF IsInjective
<1>4. IsInjective(Tail(s))
  <2>1. ASSUME NEW i \in 1 .. Len(s) - 1, NEW j \in 1 .. Len(s) - 1, Tail(s)[i] = Tail(s)[j]
        PROVE  i = j
    <3>1. s[i + 1] = s[j + 1]
      BY <1>1, <2>1
    <3>2. i + 1 = j + 1
      BY <1>2, <1>3, <3>1
    <3> QED BY <3>2
  <2> QED BY <1>1, <2>1 DEF IsInjective
<1>5. ASSUME NEW i \in 1 .. Len(s) - 1 PROVE Tail(s)[i] \in ToSet(s) /\ Tail(s)[i] # Head(s)
  BY <1>1, <1>2, <1>3 DEF ToSet
<1>6. \A i \in 1 .. Len(s) : i = 1 \/ (i - 1 \in 1 .. Len(s) - 1 /\ (i - 1) + 1 = i)
  BY <1>1
<1>7. ASSUME NEW i \in 1 .. Len(s) PROVE s[i] = Head(s) \/ s[i] \in ToSet(Tail(s))
  <2>1. CASE i = 1
    BY <1>1, <2>1
  <2>2. CASE i # 1
    <3>1. i - 1 \in 1 .. Len(s) - 1 /\ (i - 1) + 1 = i
      BY <1>6, <2>2
    <3>2. Tail(s)[i - 1] = s[i] /\ i - 1 \in DOMAIN Tail(s)
      BY <1>1, <3>1
    <3> QED BY <3>2 DEF ToSet
  <2> QED BY <2>1, <2>2
<1>8. Head(s) \in ToSet(s)
  BY <1>1, <1>2 DEF ToSet
<1> QED BY <1>1, <1>4, <1>5, <1>7, <1>8 DEF ToSet

LEMMA AppendOf ==
    ASSUME NEW S, NEW s \in Seq(S), NEW e \in S
    PROVE  /\ Append(s, e) \in Seq(S) /\ ToSet(Append(s, e)) = ToSet(s) \cup {e}
           /\ IsInjective(s) /\ e \notin ToSet(s) => IsInjective(Append(s, e))
<1> DEFINE r == Append(s, e)
<1>1. /\ r \in Seq(S) /\ Len(s) \in Nat /\ Len(r) = Len(s) + 1 /\ r[Len(s) + 1] = e
      /\ \A i \in 1 .. Len(s) : r[i] = s[i]
      /\ DOMAIN s = 1 .. Len(s) /\ DOMAIN r = 1 .. Len(s) + 1
  OBVIOUS
<1> HIDE DEF r
<1>2. \A i \in 1 .. Len(s) + 1 : i \in 1 .. Len(s) \/ i = Len(s) + 1
  BY <1>1
<1>3. \A i \in 1 .. Len(s) : i \in 1 .. Len(s) + 1 /\ Len(s) + 1 \in 1 .. Len(s) + 1
  BY <1>1
<1>4. Len(s) + 1 \in 1 .. Len(s) + 1
  BY <1>1
<1>5. ToSet(r) = ToSet(s) \cup {e}
  BY <1>1, <1>2, <1>3, <1>4 DEF ToSet
<1>6. ASSUME IsInjective(s), e \notin ToSet(s) PROVE IsInjective(r)
  BY <1>1, <1>2, <1>6 DEF IsInjective, ToSet
<1> QED BY <1>1, <1>5, <1>6 DEF r

LEMMA OpenIs ==
    ASSUME disk \in Seq(Line), Open
    PROVE  /\ disk' \in Seq(Line) /\ Len(disk') = Len(disk)
           /\ \A i \in 1 .. Len(disk) : disk'[i].id = disk[i].id /\ disk'[i].flushed = disk[i].flushed
<1>1. DOMAIN disk = 1 .. Len(disk) /\ Len(disk) \in Nat /\ \A i \in 1 .. Len(disk) : disk[i] \in Line
  OBVIOUS
<1> DEFINE after(i) == IF disk[i].file = second
                       THEN [id |-> disk[i].id, file |-> NoFile, flushed |-> disk[i].flushed]
                       ELSE disk[i]
<1>2. disk' = [i \in 1 .. Len(disk) |-> after(i)]
  BY <1>1 DEF Open
<1>3. NoFile \in Int
  BY DEF NoFile
<1>4. \A i \in 1 .. Len(disk) :
         after(i) \in Line /\ after(i).id = disk[i].id /\ after(i).flushed = disk[i].flushed
  BY <1>1, <1>3 DEF Line
<1> HIDE DEF after
<1> QED BY <1>1, <1>2, <1>4

\* What fwrite adds to the files.
LEMMA WrittenIs ==
    ASSUME Types, NEW b \in Buffer, NEW fl \in BOOLEAN, Written(b, fl)
    PROVE  /\ disk' \in Seq(Line) /\ Len(disk') = Len(disk) + Len(content[b].ids)
           /\ Len(disk) \in Nat /\ Len(content[b].ids) \in Nat
           /\ \A i \in 1 .. Len(disk) : disk'[i] = disk[i]
           /\ \A i \in 1 .. Len(content[b].ids) :
                 /\ disk'[Len(disk) + i].id = content[b].ids[i]
                 /\ disk'[Len(disk) + i].flushed = fl
<1> DEFINE s == content[b].ids
           line(i) == [id |-> s[i], file |-> file.name, flushed |-> fl]
           r == [i \in DOMAIN s |-> line(i)]
<1>1. disk \in Seq(Line) /\ s \in Seq(Nat) /\ file.name \in Int
  BY DEF Types, CBuffer
<1>2. disk' = disk \o r
  BY DEF Written
<1> HIDE DEF s
<1>3. DOMAIN s = 1 .. Len(s) /\ Len(s) \in Nat /\ \A i \in 1 .. Len(s) : s[i] \in Nat
  BY <1>1
<1>4. \A i \in 1 .. Len(s) : line(i) \in Line /\ line(i).id = s[i] /\ line(i).flushed = fl
  BY <1>1, <1>3 DEF Line
<1> HIDE DEF line
<1>5. r \in Seq(Line) /\ Len(r) = Len(s) /\ \A i \in 1 .. Len(s) : r[i] = line(i)
  BY <1>3, <1>4
<1> HIDE DEF r
<1>6. /\ disk' \in Seq(Line) /\ Len(disk') = Len(disk) + Len(s) /\ Len(disk) \in Nat
      /\ \A i \in 1 .. Len(disk) : disk'[i] = disk[i]
      /\ \A i \in 1 .. Len(s) : disk'[Len(disk) + i] = r[i]
  <2>1. Len(disk) \in Nat
    BY <1>1
  <2>2. /\ disk' \in Seq(Line) /\ Len(disk') = Len(disk) + Len(r)
        /\ \A i \in 1 .. Len(disk) + Len(r) :
              disk'[i] = IF i <= Len(disk) THEN disk[i] ELSE r[i - Len(disk)]
    BY <1>1, <1>2, <1>5, ConcatProperties
  <2>3. \A i \in 1 .. Len(disk) : i \in 1 .. Len(disk) + Len(r) /\ i <= Len(disk)
    BY <1>3, <1>5, <2>1
  <2>4. \A i \in 1 .. Len(s) : /\ Len(disk) + i \in 1 .. Len(disk) + Len(r)
                              /\ ~ (Len(disk) + i <= Len(disk)) /\ (Len(disk) + i) - Len(disk) = i
    BY <1>3, <1>5, <2>1
  <2>5. \A i \in 1 .. Len(disk) : disk'[i] = disk[i]
    BY <2>2, <2>3
  <2>6. \A i \in 1 .. Len(s) : disk'[Len(disk) + i] = r[i]
    BY <2>2, <2>4
  <2> QED BY <1>5, <2>1, <2>2, <2>5, <2>6
<1> QED BY <1>3, <1>4, <1>5, <1>6 DEF s

LEMMA FileIs ==
    ASSUME Types, NEW b \in Buffer, NEW fl, Written(b, fl)
    PROVE  file' \in [opened : BOOLEAN, name : Nat, size : Nat]
<1>1. file.size + DataLen(b) \in Nat /\ file \in [opened : BOOLEAN, name : Nat, size : Nat]
  <2>1. file \in [opened : BOOLEAN, name : Nat, size : Nat] /\ content[b] \in CBuffer
    BY DEF Types
  <2>2. DataLen(b) \in 0 .. BufSize /\ BufSize \in Nat
    BY <2>1, LogAssumption DEF DataLen, CBuffer
  <2>3. file.size \in Nat /\ DataLen(b) \in Nat
    BY <2>1, <2>2
  <2>4. file.size + DataLen(b) \in Nat
    BY <2>3
  <2> QED BY <2>1, <2>4
<1>2. file' = [file EXCEPT !.size = file.size + DataLen(b)]
  BY DEF Written
<1> QED BY <1>1, <1>2

LEMMA ResetIs ==
    ASSUME Types, NEW b \in Buffer, Reset(b)
    PROVE  /\ \A c \in Buffer : LinesOf(c)' = IF c = b THEN {} ELSE LinesOf(c)
           /\ content' \in [Buffer -> CBuffer] /\ content'[b] = EmptyBuffer
           /\ \A c \in Buffer \ {b} : content'[c] = content[c]
           /\ \A c \in Buffer : Rising(content[c].ids) => Rising(content'[c].ids)
<1>1. EmptyBuffer \in CBuffer /\ EmptyBuffer.ids = <<>>
  BY LogAssumption DEF EmptyBuffer, CBuffer
<1>2. content \in [Buffer -> CBuffer] /\ content' = [content EXCEPT ![b] = EmptyBuffer]
  BY DEF Types, Reset
<1>3. /\ content' \in [Buffer -> CBuffer] /\ content'[b] = EmptyBuffer
      /\ \A c \in Buffer \ {b} : content'[c] = content[c]
  BY <1>1, <1>2
<1>4. ToSet(<<>>) = {} /\ Rising(<<>>)
  BY DEF ToSet, Rising
<1>5. ASSUME NEW c \in Buffer PROVE LinesOf(c)' = IF c = b THEN {} ELSE LinesOf(c)
  BY <1>1, <1>3, <1>4 DEF LinesOf
<1>6. ASSUME NEW c \in Buffer, Rising(content[c].ids) PROVE Rising(content'[c].ids)
  BY <1>1, <1>3, <1>4, <1>6
<1> QED BY <1>3, <1>5, <1>6

\* The lines of a buffer come behind those of the disk.
LEMMA SavedMore ==
    ASSUME Types, Ordered, Saved, UNCHANGED lines, NEW b \in Buffer,
           Len(disk') = Len(disk) + Len(content[b].ids),
           \A i \in 1 .. Len(disk) : disk'[i] = disk[i],
           \A i \in 1 .. Len(content[b].ids) : disk'[Len(disk) + i].id = content[b].ids[i],
           \A i \in 1 .. Len(disk) : \A m \in LinesOf(b) : Apart(disk[i], m),
           \A i \in 1 .. Len(disk), c \in Kept' : \A n \in LinesOf(c)' : Apart(disk[i], n),
           \A i \in 1 .. Len(content[b].ids), c \in Kept' :
              \A n \in LinesOf(c)' : Apart(disk'[Len(disk) + i], n)
    PROVE  Saved'
<1> DEFINE s == content[b].ids
           k == Len(disk)
<1>1. s \in Seq(Nat) /\ k \in Nat /\ Len(s) \in Nat /\ lines \in Nat /\ DOMAIN s = 1 .. Len(s)
  BY DEF Types, CBuffer
<1>2. Rising(s) /\ LinesOf(b) \subseteq 1 .. lines /\ LinesOf(b) = ToSet(s)
  BY DEF Ordered, LinesOf
<1>3. /\ Len(disk') = k + Len(s)
      /\ \A i \in 1 .. k : disk'[i] = disk[i]
      /\ \A i \in 1 .. Len(s) : disk'[k + i].id = s[i] /\ s[i] \in LinesOf(b)
  <2> HIDE DEF s, k
  <2>1. \A i \in 1 .. Len(s) : s[i] \in LinesOf(b)
    BY <1>1, <1>2 DEF ToSet
  <2> QED BY <2>1 DEF s, k
<1> HIDE DEF s, k
<1>4. ASSUME NEW i \in 1 .. Len(disk')
      PROVE  i \in 1 .. k \/ (i - k \in 1 .. Len(s) /\ k + (i - k) = i)
  BY <1>1, <1>3
<1>5. ASSUME NEW i \in 1 .. Len(disk') PROVE disk'[i].id \in 1 .. lines
  <2>1. CASE i \in 1 .. k
    BY <1>3, <2>1 DEF Saved, k
  <2>2. CASE i - k \in 1 .. Len(s) /\ k + (i - k) = i
    <3>1. disk'[k + (i - k)].id = s[i - k] /\ s[i - k] \in LinesOf(b)
      BY <1>3, <2>2
    <3> QED BY <1>2, <2>2, <3>1
  <2> QED BY <1>4, <2>1, <2>2
<1>6. ASSUME NEW i \in 1 .. Len(disk'), NEW j \in 1 .. Len(disk'), i < j
      PROVE  Apart(disk'[i], disk'[j].id)
  <2>1. CASE i \in 1 .. k /\ j \in 1 .. k
    BY <1>3, <1>6, <2>1 DEF Saved, k
  <2>2. CASE i \in 1 .. k /\ j - k \in 1 .. Len(s) /\ k + (j - k) = j
    <3>1. disk'[k + (j - k)].id = s[j - k] /\ s[j - k] \in LinesOf(b)
      BY <1>3, <2>2
    <3> QED BY <1>3, <2>2, <3>1 DEF k
  <2>3. CASE i - k \in 1 .. Len(s) /\ k + (i - k) = i /\ j - k \in 1 .. Len(s) /\ k + (j - k) = j
    <3>1. disk'[i].id = s[i - k] /\ disk'[j].id = s[j - k]
      <4>1. disk'[k + (i - k)].id = s[i - k] /\ disk'[k + (j - k)].id = s[j - k]
        BY <1>3, <2>3
      <4> QED BY <2>3, <4>1
    <3>2. i - k < j - k
      BY <1>1, <1>3, <1>6
    <3>3. s[i - k] < s[j - k] /\ s[i - k] \in Nat /\ s[j - k] \in Nat
      <4>1. i - k \in 1 .. Len(s) /\ j - k \in 1 .. Len(s)
        BY <2>3
      <4>2. s[i - k] < s[j - k]
        BY <1>2, <3>2, <4>1 DEF Rising
      <4>3. \A h \in 1 .. Len(s) : s[h] \in Nat
        BY <1>1
      <4> QED BY <4>1, <4>2, <4>3
    <3>4. s[i - k] # s[j - k] /\ ~ (s[i - k] > s[j - k])
      BY <3>3
    <3> QED BY <3>1, <3>4 DEF Apart
  <2>4. ~ (j \in 1 .. k /\ ~ (i \in 1 .. k))
    BY <1>1, <1>3, <1>6
  <2> QED BY <1>4, <2>1, <2>2, <2>3, <2>4
<1>7. ASSUME NEW i \in 1 .. Len(disk'), NEW c \in Kept', NEW n \in LinesOf(c)'
      PROVE  Apart(disk'[i], n)
  <2>1. CASE i \in 1 .. k
    BY <1>3, <2>1 DEF k
  <2>2. CASE i - k \in 1 .. Len(s) /\ k + (i - k) = i
    <3>1. Apart(disk'[k + (i - k)], n)
      BY <2>2 DEF s, k
    <3> QED BY <2>2, <3>1
  <2> QED BY <1>4, <2>1, <2>2
<1> QED BY <1>5, <1>6, <1>7 DEF Saved

LEMMA AllOnDisk ==
    ASSUME Types, NEW b \in Buffer, disk' \in Seq(Line),
           Len(disk') = Len(disk) + Len(content[b].ids),
           \A i \in 1 .. Len(disk) : disk'[i] = disk[i],
           \A i \in 1 .. Len(content[b].ids) : disk'[Len(disk) + i].id = content[b].ids[i]
    PROVE  /\ \A i \in DOMAIN disk : \E j \in DOMAIN disk' : disk'[j].id = disk[i].id
           /\ \A n \in LinesOf(b) : \E j \in DOMAIN disk' : disk'[j].id = n
<1> DEFINE s == content[b].ids
<1>1. s \in Seq(Nat) /\ disk \in Seq(Line) /\ LinesOf(b) = ToSet(s)
  BY DEF Types, CBuffer, LinesOf
<1>2. Len(disk') = Len(disk) + Len(s) /\ \A i \in 1 .. Len(s) : disk'[Len(disk) + i].id = s[i]
  OBVIOUS
<1> HIDE DEF s
<1>3. /\ DOMAIN disk = 1 .. Len(disk) /\ DOMAIN disk' = 1 .. Len(disk') /\ DOMAIN s = 1 .. Len(s)
      /\ Len(disk) \in Nat /\ Len(s) \in Nat
  BY <1>1
<1>4. /\ \A i \in 1 .. Len(disk) : i \in 1 .. Len(disk')
      /\ \A i \in 1 .. Len(s) : Len(disk) + i \in 1 .. Len(disk')
  BY <1>2, <1>3
<1>5. ASSUME NEW n \in LinesOf(b) PROVE \E j \in DOMAIN disk' : disk'[j].id = n
  <2>1. PICK i \in 1 .. Len(s) : s[i] = n
    BY <1>1, <1>3 DEF ToSet
  <2> QED BY <1>2, <1>3, <1>4, <2>1
<1> QED BY <1>3, <1>4, <1>5

-----------------------------------------------------------------------------
(* The threads that log. *)

LEMMA WLogStep ==
    ASSUME LogInv, NEW t \in Thread, WLog(t) \/ Lock(t)
    PROVE  LogInv'
<1>1. /\ UNCHANGED <<free, work, cur, content, lines, writer, stop, uninit, disk, file, second,
                     spoiled>>
      /\ Types'
  <2>1. CASE WLog(t)
    BY <2>1 DEF LogInv, Types, WLog
  <2>2. CASE Lock(t)
    <3>1. Nobody \notin Thread
      BY LogAssumption DEF Nobody
    <3> QED BY <2>2, <3>1 DEF LogInv, Types, Lock
  <2> QED BY <2>1, <2>2
<1>2. Held' = Held /\ Kept' = Kept
  BY <1>1 DEF Held, Kept
<1>3. Writing' /\ Owned' /\ Loss'
  BY <1>1, <1>2 DEF LogInv, Writing, Owned, Loss, Accounted, DataLen, LinesOf
<1>4. Ordered' /\ Saved'
  BY <1>1, <1>2, OrderedSame, SavedSame DEF LogInv
<1> QED BY <1>1, <1>3, <1>4 DEF LogInv

LEMMA GetWaitStep ==
    ASSUME LogInv, NEW t \in Thread, GetWait(t)
    PROVE  LogInv'
<1>1. /\ cur = NoBuffer /\ free # <<>> /\ cur' = Head(free) /\ free' = Tail(free)
      /\ UNCHANGED <<pc, owner, work, content, lines, writer, stop, uninit, disk, file, second,
                     spoiled>>
  BY DEF GetWait
<1>2. Types /\ Writing /\ Owned /\ Ordered /\ Saved /\ Loss
  BY DEF LogInv
<1>3. free \in Seq(Buffer) /\ work \in Seq(Buffer) /\ IsInjective(free)
  BY <1>2 DEF Types, Owned
<1>4. /\ Head(free) \in ToSet(free) /\ ToSet(Tail(free)) \subseteq ToSet(free) \ {Head(free)}
      /\ Tail(free) \in Seq(Buffer) /\ IsInjective(Tail(free))
  BY <1>1, <1>3, TailOf
<1>5. /\ cur' \in Buffer /\ cur' # NoBuffer /\ cur' \in ToSet(free) /\ content[cur'] = EmptyBuffer
      /\ cur' # writer.buf \/ writer.buf = NoBuffer
  BY <1>1, <1>2, <1>4, KeptBuffers DEF Owned, Held
<1>6. LinesOf(cur') = {} /\ \A b : LinesOf(b)' = LinesOf(b)
  <2>1. ToSet(<<>>) = {}
    BY DEF ToSet
  <2> QED BY <1>1, <1>5, <2>1 DEF LinesOf, EmptyBuffer
<1>7. Kept' = Kept \cup {cur'}
  BY <1>1, <1>5 DEF Kept, Held
<1>8. Types' /\ Writing'
  BY <1>1, <1>2, <1>4, <1>5 DEF Types, Writing
<1>9. Owned'
  <2>1. \A b \in ToSet(free') : b \in ToSet(free) /\ b # cur'
    BY <1>1, <1>4
  <2>2. Held' \subseteq Held \cup {cur'}
    BY <1>1 DEF Held
  <2>3. cur' \notin ToSet(work)
    BY <1>2, <1>5 DEF Owned
  <2>4. (ToSet(free') \cup ToSet(work')) \cap Held' = {} /\ ToSet(free') \cap ToSet(work') = {}
    BY <1>1, <1>2, <2>1, <2>2, <2>3 DEF Owned
  <2>5. cur' # writer'.buf \/ cur' = NoBuffer
    BY <1>1, <1>5
  <2>6. IsInjective(free') /\ IsInjective(work')
    BY <1>1, <1>2, <1>4 DEF Owned
  <2>7. \A b \in ToSet(free') : content'[b] = EmptyBuffer
    BY <1>1, <1>2, <2>1 DEF Owned
  <2> QED BY <2>4, <2>5, <2>6, <2>7 DEF Owned
<1>10. Ordered'
  <2>1. \A b \in Buffer : Rising(content'[b].ids) /\ LinesOf(b)' \subseteq 1 .. lines'
    BY <1>1, <1>2, <1>6 DEF Ordered
  <2>2. ASSUME NEW b \in Buffer, NEW c \in Buffer, Precedes(b, c)', c # cur'
        PROVE  Precedes(b, c)
    BY <1>1, <2>2 DEF Precedes
  <2>3. ASSUME NEW b \in Buffer, NEW c \in Buffer, Precedes(b, c)'
        PROVE  \A m \in LinesOf(b)', n \in LinesOf(c)' : m < n
    BY <1>2, <1>6, <2>2, <2>3 DEF Ordered
  <2> QED BY <2>1, <2>3 DEF Ordered
<1>11. Saved'
  BY <1>1, <1>2, <1>6, <1>7 DEF Saved
<1>12. Loss'
  <2>1. Accounted \subseteq Accounted'
    BY <1>1, <1>6, <1>7 DEF Accounted
  <2>2. DataLen(cur)' = 0
    BY <1>1, <1>5 DEF DataLen, EmptyBuffer
  <2> QED BY <1>1, <1>2, <2>1, <2>2 DEF Loss
<1> QED BY <1>8, <1>9, <1>10, <1>11, <1>12 DEF LogInv

LEMMA AppendLineStep ==
    ASSUME LogInv, NEW t \in Thread, AppendLine(t)
    PROVE  LogInv'
<1>1. PICK n \in Lens :
        IF Fits(n)
        THEN /\ content' = [content EXCEPT ![cur] = [ids |-> Append(content[cur].ids, lines + 1),
                                                     writePos |-> DataLen(cur) + n]]
             /\ UNCHANGED <<work, cur>>
        ELSE HandOver /\ content' = content
  BY DEF AppendLine
<1>2. /\ pc[t] = "locked" /\ cur # NoBuffer /\ lines' = lines + 1
      /\ owner' = Nobody /\ pc' = [pc EXCEPT ![t] = "out"]
      /\ UNCHANGED <<free, writer, stop, uninit, disk, file, second, spoiled>>
  BY DEF AppendLine
<1>3. Types /\ Writing /\ Owned /\ Ordered /\ Saved /\ Loss
  BY DEF LogInv
<1>4. /\ cur \in Buffer /\ content[cur] \in CBuffer /\ content[cur].ids \in Seq(Nat)
      /\ DataLen(cur) \in 0 .. BufSize /\ lines \in Nat /\ lines + 1 \in Nat
      /\ n \in 1 .. BufSize /\ BufSize \in Nat
  BY <1>2, <1>3, LogAssumption DEF Types, CBuffer, DataLen
<1>5. /\ pc' \in [Thread -> {"out", "in", "locked"}] /\ owner' \in Thread \cup {Nobody}
      /\ \A u \in Thread : pc'[u] = "locked" <=> owner' = u
  <2>1. Nobody \notin Thread /\ owner = t
    BY <1>2, <1>3, LogAssumption DEF Nobody, Types
  <2> QED BY <1>2, <1>3, <2>1 DEF Types
<1>6. \A m \in 1 .. lines : m < lines + 1 /\ m \in 1 .. lines + 1
  BY <1>4
<1>7. ASSUME Fits(n) PROVE LogInv'
  <2> DEFINE s == content[cur].ids
             r == Append(s, lines + 1)
             q == [ids |-> r, writePos |-> DataLen(cur) + n]
  <2>1. content' = [content EXCEPT ![cur] = q] /\ work' = work /\ cur' = cur
    BY <1>1, <1>7
  <2>2. /\ r \in Seq(Nat) /\ Len(r) = Len(s) + 1 /\ r[Len(s) + 1] = lines + 1 /\ Len(s) \in Nat
        /\ \A i \in 1 .. Len(s) : r[i] = s[i]
        /\ ToSet(r) = ToSet(s) \cup {lines + 1}
    <3>1. s \in Seq(Nat) /\ lines + 1 \in Nat
      BY <1>4
    <3> HIDE DEF s
    <3>2. Append(s, lines + 1) \in Seq(Nat) /\ ToSet(Append(s, lines + 1)) = ToSet(s) \cup {lines + 1}
      BY <3>1, AppendOf
    <3>3. /\ Len(r) = Len(s) + 1 /\ r[Len(s) + 1] = lines + 1 /\ Len(s) \in Nat
          /\ \A i \in 1 .. Len(s) : r[i] = s[i]
      BY <3>1
    <3> QED BY <3>2, <3>3
  <2>3. DataLen(cur) + n \in 0 .. BufSize
    BY <1>4, <1>7 DEF Fits, LeftSize
  <2>4. Rising(s) /\ ToSet(s) \subseteq 1 .. lines
    BY <1>3, <1>4 DEF Ordered, LinesOf
  <2>5. Rising(r)
    <3>1. \A i \in 1 .. Len(s) : s[i] \in ToSet(s)
      BY <1>4 DEF ToSet
    <3>2. \A i, j \in 1 .. Len(s) + 1 :
            i < j => i \in 1 .. Len(s) /\ (j \in 1 .. Len(s) \/ j = Len(s) + 1)
      <4>1. Len(s) \in Nat
        BY <2>2
      <4> HIDE DEF s
      <4> QED BY <4>1
    <3> HIDE DEF r, s
    <3> QED BY <1>6, <2>2, <2>4, <3>1, <3>2 DEF Rising
  <2> HIDE DEF r
  <2>6. q \in CBuffer /\ q.ids = r
    BY <2>2, <2>3 DEF CBuffer
  <2> HIDE DEF q
  <2>7. content'[cur] = q /\ \A b \in Buffer \ {cur} : content'[b] = content[b]
    BY <1>3, <1>4, <2>1 DEF Types
  <2>8. \A b \in Buffer :
           LinesOf(b)' = IF b = cur THEN LinesOf(b) \cup {lines + 1} ELSE LinesOf(b)
    <3>1. ASSUME NEW b \in Buffer
          PROVE  LinesOf(b)' = IF b = cur THEN LinesOf(b) \cup {lines + 1} ELSE LinesOf(b)
      <4>1. CASE b = cur
        <5>1. LinesOf(b)' = ToSet(r)
          BY <2>6, <2>7, <4>1 DEF LinesOf
        <5>2. LinesOf(b) = ToSet(s)
          BY <4>1 DEF LinesOf
        <5> HIDE DEF s
        <5> QED BY <2>2, <4>1, <5>1, <5>2
      <4>2. CASE b # cur
        BY <2>7, <4>2 DEF LinesOf
      <4> QED BY <4>1, <4>2
    <3> QED BY <3>1
  <2>9. Types' /\ Writing'
    BY <1>2, <1>3, <1>4, <1>5, <2>1, <2>6 DEF Types, Writing
  <2>10. Kept' = Kept /\ Held' = Held /\ Kept \subseteq Buffer /\ cur \in Kept
    BY <1>2, <1>3, <2>1, KeptBuffers DEF Kept, Held
  <2>11. Owned'
    <3>1. cur \notin ToSet(free)
      BY <1>2, <1>3 DEF Owned, Held
    <3>2. \A b \in ToSet(free) : content'[b] = content[b]
      BY <1>3, <2>7, <3>1, KeptBuffers
    <3> QED BY <1>2, <1>3, <2>1, <2>10, <3>2 DEF Owned
  <2>12. Ordered'
    <3>1. ASSUME NEW b \in Buffer PROVE Rising(content'[b].ids) /\ LinesOf(b)' \subseteq 1 .. lines'
      <4>1. LinesOf(b) \subseteq 1 .. lines /\ Rising(content[b].ids)
        BY <1>3 DEF Ordered
      <4>2. 1 .. lines \subseteq 1 .. lines + 1 /\ lines + 1 \in 1 .. lines + 1
        BY <1>4
      <4> QED BY <1>2, <2>5, <2>6, <2>7, <2>8, <4>1, <4>2
    <3>2. ASSUME NEW b \in Buffer, NEW c \in Buffer, Precedes(b, c)'
          PROVE  \A m \in LinesOf(b)', k \in LinesOf(c)' : m < k
      <4>1. Precedes(b, c)
        BY <1>2, <2>1, <3>2 DEF Precedes
      <4>2. \A m \in LinesOf(b), k \in LinesOf(c) : m < k
        BY <1>3, <4>1 DEF Ordered
      <4>3. b # cur
        BY <1>2, <1>3, <1>4, <4>1, CurIsLast
      <4>4. LinesOf(b) \subseteq 1 .. lines
        BY <1>3 DEF Ordered
      <4> QED BY <1>6, <2>8, <4>2, <4>3, <4>4
    <3> QED BY <3>1, <3>2 DEF Ordered
  <2>13. Saved'
    <3>1. ASSUME NEW i \in 1 .. Len(disk), NEW b \in Kept, NEW m \in LinesOf(b)'
          PROVE  Apart(disk[i], m)
      <4>1. CASE m \in LinesOf(b)
        BY <1>3, <4>1 DEF Saved
      <4>2. CASE m = lines + 1
        <5>1. disk[i].id \in 1 .. lines
          BY <1>3 DEF Saved
        <5>2. disk[i].id # lines + 1 /\ ~ (disk[i].id > lines + 1)
          BY <1>4, <5>1
        <5> QED BY <4>2, <5>2 DEF Apart
      <4> QED BY <2>8, <2>10, <4>1, <4>2
    <3>2. \A i \in 1 .. Len(disk) : disk[i].id \in 1 .. lines + 1
      BY <1>3, <1>6 DEF Saved
    <3>3. \A i, j \in 1 .. Len(disk) : i < j => Apart(disk[i], disk[j].id)
      BY <1>3 DEF Saved
    <3> QED BY <1>2, <2>10, <3>1, <3>2, <3>3 DEF Saved
  <2>14. Loss'
    <3>1. Accounted \subseteq Accounted' /\ lines + 1 \in Accounted'
      <4>1. \A b \in Kept : LinesOf(b) \subseteq LinesOf(b)'
        BY <2>8, <2>10
      <4> QED BY <1>2, <2>8, <2>10, <4>1 DEF Accounted
    <3>2. \A m \in 1 .. (lines + 1) - 1 : m = lines \/ m \in 1 .. lines - 1
      BY <1>4
    <3>3. \A m \in 1 .. lines - 1 : ~ stop => m \in Accounted \/ m + 1 \in Accounted
      BY <1>3 DEF Loss
    <3> QED BY <1>2, <3>1, <3>2, <3>3 DEF Loss
  <2> QED BY <2>9, <2>11, <2>12, <2>13, <2>14 DEF LogInv
<1>8. ASSUME ~ Fits(n) PROVE LogInv'
  <2>1. work' = Append(work, cur) /\ cur' = NoBuffer /\ content' = content
    BY <1>1, <1>8 DEF HandOver, Add
  <2>2. work \in Seq(Buffer) /\ IsInjective(work) /\ cur \notin ToSet(work)
    BY <1>2, <1>3 DEF Types, Owned, Held
  <2>3. /\ work' \in Seq(Buffer) /\ ToSet(work') = ToSet(work) \cup {cur} /\ IsInjective(work')
        /\ Len(work') = Len(work) + 1 /\ work'[Len(work) + 1] = cur /\ Len(work) \in Nat
        /\ \A i \in 1 .. Len(work) : work'[i] = work[i]
    BY <1>4, <2>1, <2>2, AppendOf
  <2>4. \A b : LinesOf(b)' = LinesOf(b)
    BY <2>1 DEF LinesOf
  <2>5. Kept' = Kept /\ Held' = Held \ {cur}
    <3>1. cur # writer.buf
      BY <1>2, <1>3 DEF Owned
    <3> QED BY <1>2, <2>1, <2>3, <3>1 DEF Kept, Held
  <2>6. Types' /\ Writing'
    BY <1>2, <1>3, <1>4, <1>5, <2>1, <2>3 DEF Types, Writing
  <2>7. Owned'
    <3>1. cur \notin ToSet(free)
      BY <1>2, <1>3 DEF Owned, Held
    <3> QED BY <1>2, <1>3, <2>1, <2>3, <2>5, <3>1 DEF Owned
  <2>8. Ordered'
    <3>1. \A b \in Buffer : Rising(content'[b].ids) /\ LinesOf(b)' \subseteq 1 .. lines'
      BY <1>2, <1>3, <1>6, <2>1, <2>4 DEF Ordered
    <3>2. ASSUME NEW b \in Buffer, NEW c \in Buffer, Precedes(b, c)' PROVE Precedes(b, c)
      <4>1. c # cur'
        BY <2>1, KeptBuffers, <1>3
      <4>2. CASE b = writer.buf /\ c \in ToSet(work')
        BY <2>3, <4>2 DEF Precedes
      <4>3. ASSUME NEW i \in 1 .. Len(work'), NEW j \in 1 .. Len(work'),
                   i < j, b = work'[i], c = work'[j]
            PROVE  Precedes(b, c)
        <5>1. i \in 1 .. Len(work) /\ (j \in 1 .. Len(work) \/ j = Len(work) + 1)
          BY <2>3, <4>3
        <5>2. work[i] \in ToSet(work)
          BY <2>2, <5>1 DEF ToSet
        <5> QED BY <2>3, <4>3, <5>1, <5>2 DEF Precedes
      <4> QED BY <1>2, <3>2, <4>1, <4>2, <4>3 DEF Precedes
    <3> QED BY <1>3, <2>4, <3>1, <3>2 DEF Ordered
  <2>9. Saved'
    BY <1>2, <1>3, <1>6, <2>4, <2>5 DEF Saved
  <2>10. Loss'
    <3>1. Accounted' = Accounted
      BY <1>2, <2>4, <2>5 DEF Accounted
    <3>2. DataLen(cur) # 0
      BY <1>4, <1>8 DEF Fits, LeftSize
    <3>3. ASSUME ~ stop, NEW m \in 1 .. (lines + 1) - 1
          PROVE  m \in Accounted \/ m + 1 \in Accounted
      <4>1. (m = lines /\ lines # 0) \/ m \in 1 .. lines - 1
        BY <1>4
      <4> QED BY <1>2, <1>3, <3>2, <3>3, <4>1 DEF Loss
    <3> QED BY <1>2, <2>1, <3>1, <3>3 DEF Loss
  <2> QED BY <2>6, <2>7, <2>8, <2>9, <2>10 DEF LogInv
<1> QED BY <1>7, <1>8

-----------------------------------------------------------------------------
(* The writer. *)

LEMMA CheckFileStep ==
    ASSUME LogInv, CheckFile
    PROVE  LogInv'
<1>1. /\ writer.at = "file"
      /\ UNCHANGED <<pc, owner, free, work, cur, content, lines, uninit, second>>
  BY DEF CheckFile
<1>2. Types /\ Writing /\ Owned /\ Ordered /\ Saved /\ Loss
  BY DEF LogInv
<1>3. \/ /\ writer' = [writer EXCEPT !.at = "ended"] /\ stop' = TRUE /\ UNCHANGED <<disk, spoiled>>
         /\ (file' = file \/ file' = [file EXCEPT !.opened = FALSE])
      \/ /\ writer' = [writer EXCEPT !.at = "get"] /\ stop' = stop
         /\ (UNCHANGED <<disk, file, spoiled>> \/ Open)
  BY <1>1, <1>2 DEF CheckFile, OpenFails, Types
<1>4. writer.buf = NoBuffer /\ writer.tick < TickLimit /\ writer \in Writer
  BY <1>1, <1>2 DEF Writing
<1>5. Writing' /\ writer'.buf = writer.buf
  BY <1>1, <1>2, <1>3, <1>4 DEF Writing, Writer
<1>6. Held' = Held /\ Kept' = Kept
  BY <1>1, <1>5 DEF Held, Kept
<1>7. Owned' /\ Ordered'
  BY <1>1, <1>2, <1>5, <1>6, OrderedSame DEF Owned
<1>8. CASE UNCHANGED <<disk, spoiled>> /\ (file' = file \/ file' = [file EXCEPT !.opened = FALSE])
  <2>1. Types'
    BY <1>1, <1>2, <1>3, <1>8 DEF Types
  <2>2. Saved'
    BY <1>1, <1>2, <1>6, <1>8, SavedSame
  <2>3. Accounted' = Accounted
    BY <1>1, <1>6, <1>8 DEF Accounted, LinesOf
  <2>4. stop => stop'
    BY <1>3
  <2>5. Loss'
    BY <1>1, <1>2, <2>3, <2>4, LossKept
  <2> QED BY <1>5, <1>7, <2>1, <2>2, <2>5 DEF LogInv
<1>9. CASE Open /\ stop' = stop
  <2>1. /\ disk' \in Seq(Line) /\ Len(disk') = Len(disk)
        /\ \A i \in 1 .. Len(disk) : disk'[i].id = disk[i].id /\ disk'[i].flushed = disk[i].flushed
    BY <1>2, <1>9, OpenIs DEF Types
  <2>2. Types'
    <3>1. second \in Nat
      BY <1>2, LogAssumption DEF Types
    <3> QED BY <1>1, <1>2, <1>9, <2>1, <3>1 DEF Types, Open
  <2>3. Saved'
    <3>1. \A b : LinesOf(b)' = LinesOf(b)
      BY <1>1 DEF LinesOf
    <3>2. \A n : \A i \in 1 .. Len(disk) : Apart(disk'[i], n) <=> Apart(disk[i], n)
      BY <2>1 DEF Apart
    <3>3. \A i \in 1 .. Len(disk') : disk'[i].id \in 1 .. lines'
      BY <1>1, <1>2, <2>1 DEF Saved
    <3>4. \A i, j \in 1 .. Len(disk') : i < j => Apart(disk'[i], disk'[j].id)
      BY <1>2, <2>1, <3>2 DEF Saved
    <3>5. \A i \in 1 .. Len(disk'), b \in Kept' : \A n \in LinesOf(b)' : Apart(disk'[i], n)
      BY <1>2, <1>6, <2>1, <3>1, <3>2 DEF Saved
    <3> QED BY <3>3, <3>4, <3>5 DEF Saved
  <2>4. Accounted \subseteq Accounted'
    <3>1. spoiled \subseteq spoiled'
      BY <1>9 DEF Open
    <3>2. DOMAIN disk = 1 .. Len(disk) /\ DOMAIN disk' = 1 .. Len(disk)
      BY <1>2, <2>1 DEF Types
    <3>3. \A b \in Kept : \A n \in LinesOf(b) : b \in Kept' /\ n \in LinesOf(b)'
      BY <1>1, <1>6 DEF LinesOf
    <3> QED BY <2>1, <3>1, <3>2, <3>3, AccountedGrows
  <2>5. Loss'
    BY <1>1, <1>2, <1>9, <2>4, LossKept
  <2> QED BY <1>5, <1>7, <2>2, <2>3, <2>5 DEF LogInv
<1> QED BY <1>3, <1>8, <1>9

LEMMA GetStep ==
    ASSUME LogInv, Get
    PROVE  LogInv'
<1>1. /\ writer.at = "get"
      /\ UNCHANGED <<pc, owner, free, cur, content, lines, stop, uninit, disk, file, second, spoiled>>
  BY DEF Get
<1>2. Types /\ Writing /\ Owned /\ Ordered /\ Saved /\ Loss
  BY DEF LogInv
<1>3. writer.buf = NoBuffer /\ writer.tick \in 0 .. TickLimit /\ writer.tick < TickLimit /\ TickLimit \in Nat \ {0}
  BY <1>1, <1>2, LogAssumption DEF Writing, Writer
<1>4. CASE work # <<>>
  <2> DEFINE h == Head(work)
  <2>1. writer' = [at |-> "write", buf |-> h, tick |-> 0] /\ work' = Tail(work)
    BY <1>4 DEF Get
  <2>2. work \in Seq(Buffer) /\ IsInjective(work)
    BY <1>2 DEF Types, Owned
  <2>3. /\ h \in ToSet(work) /\ ToSet(work') \subseteq ToSet(work) \ {h}
        /\ ToSet(work) \subseteq ToSet(work') \cup {h}
        /\ work' \in Seq(Buffer) /\ IsInjective(work')
    BY <1>4, <2>1, <2>2, TailOf
  <2>4. /\ Len(work) \in Nat \ {0} /\ Len(work') = Len(work) - 1 /\ h = work[1]
        /\ \A i \in 1 .. Len(work) - 1 : work'[i] = work[i + 1]
    BY <1>4, <2>1, <2>2
  <2> HIDE DEF h
  <2>5. h \in Buffer /\ h # NoBuffer
    BY <1>2, <2>3, KeptBuffers
  <2>6. Types' /\ Writing'
    BY <1>1, <1>2, <1>3, <2>1, <2>3, <2>5 DEF Types, Writing, Writer
  <2>7. Held' = Held \cup {h} /\ Kept' = Kept
    BY <1>1, <1>3, <2>1, <2>3, <2>5 DEF Kept, Held
  <2>8. Owned'
    <3>1. h \notin ToSet(free) /\ cur # h
      BY <1>2, <2>3, <2>5 DEF Owned, Held
    <3> QED BY <1>1, <1>2, <2>1, <2>3, <2>7, <3>1 DEF Owned
  <2>9. \A b : LinesOf(b)' = LinesOf(b)
    BY <1>1 DEF LinesOf
  <2>10. ASSUME NEW b \in Buffer, NEW c \in Buffer, Precedes(b, c)' PROVE Precedes(b, c)
    <3>1. CASE b = h /\ c = cur
      BY <2>3, <3>1 DEF Precedes
    <3>2. CASE b = h /\ c \in ToSet(work')
      <4>1. PICK i \in 1 .. Len(work) : c = work[i]
        <5>1. c \in ToSet(work) /\ DOMAIN work = 1 .. Len(work)
          BY <2>2, <2>3, <3>2
        <5> QED BY <5>1 DEF ToSet
      <4>2. i # 1
        BY <2>3, <2>4, <3>2, <4>1
      <4>3. 1 < i /\ 1 \in 1 .. Len(work)
        BY <2>4, <4>2
      <4> QED BY <2>4, <3>2, <4>1, <4>3 DEF Precedes
    <3>3. CASE b \in ToSet(work') /\ c = cur
      BY <2>3, <3>3 DEF Precedes
    <3>4. ASSUME NEW i \in 1 .. Len(work'), NEW j \in 1 .. Len(work'), i < j, b = work'[i], c = work'[j]
          PROVE  Precedes(b, c)
      <4>1. i + 1 \in 1 .. Len(work) /\ j + 1 \in 1 .. Len(work) /\ i + 1 < j + 1
        BY <2>4, <3>4
      <4> QED BY <2>4, <3>4, <4>1 DEF Precedes
    <3> QED BY <1>1, <2>1, <2>10, <3>1, <3>2, <3>3, <3>4 DEF Precedes
  <2>11. Ordered'
    BY <1>1, <1>2, <2>9, <2>10 DEF Ordered
  <2>12. Saved'
    BY <1>1, <1>2, <2>7, SavedSame
  <2>13. Loss'
    <3>1. Accounted' = Accounted
      BY <1>1, <2>7, <2>9 DEF Accounted
    <3> QED BY <1>1, <1>2, <3>1, LossKept
  <2> QED BY <2>6, <2>8, <2>11, <2>12, <2>13 DEF LogInv
<1>5. CASE work = <<>>
  <2>1. writer' = Ticked(writer.tick + 1) /\ work' = work
    BY <1>5 DEF Get
  <2>2. writer.tick + 1 \in 0 .. TickLimit
    BY <1>3
  <2>3. writer'.buf = writer.buf /\ Writing'
    BY <1>1, <1>2, <1>3, <2>1, <2>2 DEF Writing, Writer, Ticked
  <2>4. Held' = Held /\ Kept' = Kept
    BY <1>1, <2>1, <2>3 DEF Held, Kept
  <2>5. Types' /\ Owned'
    BY <1>1, <1>2, <2>1, <2>3, <2>4 DEF Types, Owned
  <2>6. Ordered' /\ Saved'
    BY <1>1, <1>2, <2>1, <2>3, <2>4, OrderedSame, SavedSame
  <2>7. Loss'
    <3>1. Accounted' = Accounted
      BY <1>1, <2>4 DEF Accounted, LinesOf
    <3> QED BY <1>1, <1>2, <3>1, LossKept
  <2> QED BY <2>3, <2>5, <2>6, <2>7 DEF LogInv
<1> QED BY <1>4, <1>5

LEMMA WriteWorkStep ==
    ASSUME LogInv, WriteWork
    PROVE  LogInv'
<1> DEFINE b == writer.buf
<1>1. writer.at = "write" /\ UNCHANGED <<pc, owner, work, cur, lines, uninit, second>>
  BY DEF WriteWork
<1>2. Types /\ Writing /\ Owned /\ Ordered /\ Saved /\ Loss
  BY DEF LogInv
<1>3. b \in Buffer /\ b # NoBuffer /\ writer \in Writer /\ TickLimit \in Nat
  BY <1>1, <1>2, KeptBuffers, LogAssumption DEF Writing
<1>4. b \notin ToSet(free) /\ b \notin ToSet(work) /\ b # cur /\ b \in Kept
  BY <1>2, <1>3 DEF Owned, Held, Kept
<1>5. CASE /\ NotWritten(b) /\ stop' = TRUE /\ writer' = [writer EXCEPT !.at = "ended"]
           /\ UNCHANGED <<free, content>>
  <2>1. UNCHANGED <<disk, file>>
    BY <1>5 DEF NotWritten
  <2>2. writer'.buf = writer.buf /\ Writing'
    BY <1>1, <1>2, <1>3, <1>5 DEF Writing, Writer
  <2>3. Held' = Held /\ Kept' = Kept
    BY <1>1, <2>2 DEF Held, Kept
  <2>4. Types' /\ Owned'
    BY <1>1, <1>2, <1>5, <2>1, <2>2, <2>3 DEF Types, Owned
  <2>5. Ordered' /\ Saved'
    BY <1>1, <1>2, <1>5, <2>1, <2>2, <2>3, OrderedSame, SavedSame
  <2>6. Loss'
    BY <1>5 DEF Loss
  <2> QED BY <2>2, <2>4, <2>5, <2>6 DEF LogInv
<1>6. CASE /\ Written(b, FALSE) /\ Reset(b) /\ free' = Add(free, b) /\ stop' = stop
           /\ writer' = [at |-> "file", buf |-> NoBuffer, tick |-> 0]
  <2> HIDE DEF b
  <2>1. /\ disk' \in Seq(Line) /\ Len(disk') = Len(disk) + Len(content[b].ids)
        /\ Len(disk) \in Nat /\ Len(content[b].ids) \in Nat
        /\ \A i \in 1 .. Len(disk) : disk'[i] = disk[i]
        /\ \A i \in 1 .. Len(content[b].ids) :
              /\ disk'[Len(disk) + i].id = content[b].ids[i]
              /\ disk'[Len(disk) + i].flushed = FALSE
    BY <1>2, <1>3, <1>6, WrittenIs
  <2>2. /\ \A c \in Buffer : LinesOf(c)' = IF c = b THEN {} ELSE LinesOf(c)
        /\ content' \in [Buffer -> CBuffer] /\ content'[b] = EmptyBuffer
        /\ \A c \in Buffer \ {b} : content'[c] = content[c]
        /\ \A c \in Buffer : Rising(content[c].ids) => Rising(content'[c].ids)
    BY <1>2, <1>3, <1>6, ResetIs
  <2>3. /\ free' \in Seq(Buffer) /\ ToSet(free') = ToSet(free) \cup {b} /\ IsInjective(free')
    BY <1>2, <1>3, <1>4, <1>6, AppendOf DEF Types, Owned, Add
  <2>4. writer'.buf = NoBuffer /\ Writing'
    <3>1. 0 \in 0 .. TickLimit /\ 0 < TickLimit
      BY LogAssumption
    <3> QED BY <1>1, <1>2, <1>6, <3>1 DEF Writing, Writer
  <2>5. Held' = Held \ {b} /\ Kept' = Kept \ {b}
    BY <1>1, <1>3, <1>4, <2>4 DEF Held, Kept, b
  <2>6. Types'
    <3>1. file' \in [opened : BOOLEAN, name : Nat, size : Nat]
      BY <1>2, <1>3, <1>6, FileIs
    <3> QED BY <1>1, <1>2, <1>6, <2>1, <2>2, <2>3, <3>1 DEF Types
  <2>7. Owned'
    <3>1. \A c \in ToSet(free') : content'[c] = EmptyBuffer
      <4>1. \A c \in ToSet(free) : c \in Buffer
        BY <1>2, KeptBuffers
      <4> QED BY <1>2, <2>2, <2>3, <4>1 DEF Owned
    <3> QED BY <1>1, <1>2, <1>4, <2>3, <2>4, <2>5, <3>1 DEF Owned
  <2>8. Ordered'
    <3>1. ASSUME NEW c \in Buffer, NEW d \in Buffer, Precedes(c, d)' PROVE Precedes(c, d)
      BY <1>1, <2>4, <3>1, KeptBuffers, <1>2 DEF Precedes
    <3>2. \A c, d \in Buffer : Precedes(c, d)' => \A m \in LinesOf(c)', n \in LinesOf(d)' : m < n
      BY <1>2, <2>2, <3>1 DEF Ordered
    <3>3. \A c \in Buffer : Rising(content'[c].ids) /\ LinesOf(c)' \subseteq 1 .. lines'
      BY <1>1, <1>2, <2>2 DEF Ordered
    <3> QED BY <3>2, <3>3 DEF Ordered
  <2>9. Saved'
    <3>1. ASSUME NEW c \in Kept', NEW m \in LinesOf(b), NEW n \in LinesOf(c)' PROVE m < n
      <4>1. c \in Buffer /\ c # b /\ n \in LinesOf(c) /\ (c = cur \/ c \in ToSet(work))
        BY <1>2, <2>2, <2>5, <3>1, KeptBuffers DEF b
      <4>2. Precedes(b, c)
        BY <4>1 DEF Precedes, b
      <4> QED BY <1>2, <1>3, <3>1, <4>1, <4>2 DEF Ordered
    <3>2. ASSUME NEW c \in Kept' PROVE c \in Kept /\ LinesOf(c)' = LinesOf(c)
      BY <1>2, <2>2, <2>5, <3>2, KeptBuffers
    <3>3. ASSUME NEW m \in LinesOf(b), NEW c \in Kept', NEW n \in LinesOf(c)',
                 NEW d, d.id = m
          PROVE  Apart(d, n)
      <4>1. c \in Buffer /\ m \in 1 .. lines /\ n \in 1 .. lines /\ lines \in Nat
        BY <1>2, <1>3, <3>2, <3>3, KeptBuffers DEF Ordered, Types
      <4>2. m < n
        BY <3>1
      <4>3. m # n /\ ~ (m > n)
        BY <4>1, <4>2
      <4> QED BY <3>3, <4>3 DEF Apart
    <3>4. \A i \in 1 .. Len(disk) : \A m \in LinesOf(b) : Apart(disk[i], m)
      BY <1>2, <1>4 DEF Saved
    <3>5. \A i \in 1 .. Len(disk), c \in Kept' : \A n \in LinesOf(c)' : Apart(disk[i], n)
      BY <1>2, <3>2 DEF Saved
    <3>6. ASSUME NEW i \in 1 .. Len(content[b].ids), NEW c \in Kept', NEW n \in LinesOf(c)'
          PROVE  Apart(disk'[Len(disk) + i], n)
      <4>1. content[b].ids \in Seq(Nat)
        BY <1>2, <1>3 DEF Types, CBuffer
      <4>2. content[b].ids[i] \in LinesOf(b)
        BY <4>1 DEF LinesOf, ToSet
      <4> QED BY <2>1, <3>3, <4>2
    <3>7. UNCHANGED lines
      BY <1>1
    <3> QED BY <1>2, <1>3, <2>1, <3>4, <3>5, <3>6, <3>7, SavedMore
  <2>10. Accounted \subseteq Accounted'
    <3>1. /\ \A i \in DOMAIN disk : \E j \in DOMAIN disk' : disk'[j].id = disk[i].id
          /\ \A n \in LinesOf(b) : \E j \in DOMAIN disk' : disk'[j].id = n
      BY <1>2, <1>3, <2>1, AllOnDisk
    <3>2. ASSUME NEW c \in Kept, c # b PROVE c \in Kept' /\ LinesOf(c)' = LinesOf(c)
      BY <1>2, <2>2, <2>5, <3>2, KeptBuffers
    <3>3. spoiled' = spoiled
      BY <1>6 DEF Written
    <3> QED BY <3>1, <3>2, <3>3, AccountedGrows
  <2>11. Loss'
    <3>1. cur # NoBuffer => DataLen(cur)' = DataLen(cur)
      BY <1>1, <1>2, <1>4, <2>2 DEF DataLen, Types
    <3> QED BY <1>1, <1>2, <1>6, <2>10, <3>1 DEF Loss
  <2> QED BY <2>4, <2>6, <2>7, <2>8, <2>9, <2>11 DEF LogInv
<1> QED BY <1>1, <1>5, <1>6 DEF WriteWork

LEMMA FlushCurrentStep ==
    ASSUME LogInv, FlushCurrent
    PROVE  LogInv'
<1>1. /\ writer.at = "flush" /\ writer' = [at |-> "file", buf |-> NoBuffer, tick |-> 0]
      /\ UNCHANGED <<pc, owner, free, work, cur, lines, stop, uninit, second>>
  BY DEF FlushCurrent
<1>2. Types /\ Writing /\ Owned /\ Ordered /\ Saved /\ Loss
  BY DEF LogInv
<1>3. writer.buf = NoBuffer /\ writer'.buf = writer.buf /\ Writing'
  <2>1. 0 \in 0 .. TickLimit /\ 0 < TickLimit
    BY LogAssumption
  <2> QED BY <1>1, <1>2, <2>1 DEF Writing, Writer
<1>4. Held' = Held /\ Kept' = Kept
  BY <1>1, <1>3 DEF Held, Kept
<1>5. CASE UNCHANGED <<content, disk, file, spoiled>>
  <2>1. Types' /\ Owned'
    BY <1>1, <1>2, <1>3, <1>4, <1>5 DEF Types, Owned
  <2>2. Ordered' /\ Saved'
    BY <1>1, <1>2, <1>3, <1>4, <1>5, OrderedSame, SavedSame
  <2>3. Accounted' = Accounted
    BY <1>4, <1>5 DEF Accounted, LinesOf
  <2>4. Loss'
    BY <1>1, <1>2, <1>5, <2>3, LossKept
  <2> QED BY <1>3, <2>1, <2>2, <2>4 DEF LogInv
<1>6. CASE cur # NoBuffer /\ Reset(cur) /\ (Written(cur, TRUE) \/ NotWritten(cur))
  <2>1. cur \in Buffer /\ cur \in Kept /\ cur \notin ToSet(free)
    BY <1>2, <1>6, KeptBuffers DEF Types, Owned, Held
  <2>2. /\ \A c \in Buffer : LinesOf(c)' = IF c = cur THEN {} ELSE LinesOf(c)
        /\ content' \in [Buffer -> CBuffer] /\ content'[cur] = EmptyBuffer
        /\ \A c \in Buffer \ {cur} : content'[c] = content[c]
        /\ \A c \in Buffer : Rising(content[c].ids) => Rising(content'[c].ids)
    BY <1>2, <1>6, <2>1, ResetIs
  <2>3. Owned'
    <3>1. \A c \in ToSet(free) : content'[c] = EmptyBuffer
      <4>1. \A c \in ToSet(free) : c \in Buffer
        BY <1>2, KeptBuffers
      <4> QED BY <1>2, <2>2, <4>1 DEF Owned
    <3> QED BY <1>1, <1>2, <1>3, <1>4, <3>1 DEF Owned
  <2>4. Ordered'
    <3>1. \A c, d \in Buffer : Precedes(c, d)' => Precedes(c, d)
      BY <1>1, <1>3 DEF Precedes
    <3>2. \A c, d \in Buffer : Precedes(c, d)' => \A m \in LinesOf(c)', n \in LinesOf(d)' : m < n
      BY <1>2, <2>2, <3>1 DEF Ordered
    <3>3. \A c \in Buffer : Rising(content'[c].ids) /\ LinesOf(c)' \subseteq 1 .. lines'
      BY <1>1, <1>2, <2>2 DEF Ordered
    <3> QED BY <3>2, <3>3 DEF Ordered
  <2>5. ASSUME NEW c \in Kept', NEW n \in LinesOf(c)'
        PROVE  c \in Buffer /\ c \in Kept /\ c # cur /\ n \in LinesOf(c)
    BY <1>2, <1>4, <2>2, <2>5, KeptBuffers
  <2>6. Accounted \subseteq Accounted' => Loss'
    <3>1. DataLen(cur)' = 0
      BY <1>1, <2>2 DEF DataLen, EmptyBuffer
    <3> QED BY <1>1, <1>2, <3>1 DEF Loss
  <2>7. ASSUME NEW c \in Kept, c # cur PROVE c \in Kept' /\ LinesOf(c)' = LinesOf(c)
    BY <1>2, <1>4, <2>2, <2>7, KeptBuffers
  <2>8. CASE NotWritten(cur)
    <3>1. UNCHANGED <<disk, file>> /\ spoiled' = spoiled \cup LinesOf(cur)
      BY <2>8 DEF NotWritten
    <3>2. Types'
      BY <1>1, <1>2, <2>2, <3>1 DEF Types
    <3>3. Saved'
      BY <1>1, <1>2, <2>5, <3>1 DEF Saved
    <3>4. Accounted \subseteq Accounted'
      <4>1. \A i \in DOMAIN disk : \E j \in DOMAIN disk' : disk'[j].id = disk[i].id
        BY <3>1
      <4> QED BY <2>7, <3>1, <4>1, AccountedGrows
    <3> QED BY <1>3, <2>3, <2>4, <2>6, <3>2, <3>3, <3>4 DEF LogInv
  <2>9. CASE Written(cur, TRUE)
    <3>1. /\ disk' \in Seq(Line) /\ Len(disk') = Len(disk) + Len(content[cur].ids)
          /\ Len(disk) \in Nat /\ Len(content[cur].ids) \in Nat
          /\ \A i \in 1 .. Len(disk) : disk'[i] = disk[i]
          /\ \A i \in 1 .. Len(content[cur].ids) :
                /\ disk'[Len(disk) + i].id = content[cur].ids[i]
                /\ disk'[Len(disk) + i].flushed = TRUE
      BY <1>2, <2>1, <2>9, WrittenIs
    <3>2. file' \in [opened : BOOLEAN, name : Nat, size : Nat]
      BY <1>2, <2>1, <2>9, FileIs
    <3>3. Types'
      BY <1>1, <1>2, <2>2, <3>1, <3>2 DEF Types
    <3>4. Saved'
      <4>1. \A i \in 1 .. Len(disk) : \A m \in LinesOf(cur) : Apart(disk[i], m)
        BY <1>2, <2>1 DEF Saved
      <4>2. \A i \in 1 .. Len(disk), c \in Kept' : \A n \in LinesOf(c)' : Apart(disk[i], n)
        BY <1>2, <2>5 DEF Saved
      <4>3. ASSUME NEW i \in 1 .. Len(content[cur].ids), NEW c \in Kept', NEW n \in LinesOf(c)'
            PROVE  Apart(disk'[Len(disk) + i], n)
        <5>1. content[cur].ids \in Seq(Nat)
          BY <1>2, <2>1 DEF Types, CBuffer
        <5>2. content[cur].ids[i] \in LinesOf(cur)
          BY <5>1 DEF LinesOf, ToSet
        <5>3. c \in ToSet(work) /\ c \in Buffer /\ n \in LinesOf(c)
          BY <1>2, <1>3, <2>5, KeptBuffers
        <5>4. Precedes(c, cur)
          BY <5>3 DEF Precedes
        <5>5. n < content[cur].ids[i]
          BY <1>2, <2>1, <5>2, <5>3, <5>4 DEF Ordered
        <5>6. n \in Int /\ content[cur].ids[i] \in Int
          BY <1>2, <2>1, <5>2, <5>3 DEF Ordered
        <5>7. content[cur].ids[i] # n
          BY <5>5, <5>6
        <5> QED BY <3>1, <5>7 DEF Apart
      <4>4. UNCHANGED lines
        BY <1>1
      <4> QED BY <1>2, <2>1, <3>1, <4>1, <4>2, <4>3, <4>4, SavedMore
    <3>5. Accounted \subseteq Accounted'
      <4>1. /\ \A i \in DOMAIN disk : \E j \in DOMAIN disk' : disk'[j].id = disk[i].id
            /\ \A n \in LinesOf(cur) : \E j \in DOMAIN disk' : disk'[j].id = n
        BY <1>2, <2>1, <3>1, AllOnDisk
      <4>2. spoiled' = spoiled
        BY <2>9 DEF Written
      <4> QED BY <2>7, <4>1, <4>2, AccountedGrows
    <3> QED BY <1>3, <2>3, <2>4, <2>6, <3>3, <3>4, <3>5 DEF LogInv
  <2> QED BY <1>6, <2>8, <2>9
<1> QED BY <1>5, <1>6 DEF FlushCurrent

-----------------------------------------------------------------------------
(* UnInit and the clock. *)

\* The logger has stopped: what leaves the lists need not be found again.
LEMMA UnInitStep ==
    ASSUME LogInv, UnInit
    PROVE  LogInv'
<1>1. Types /\ Writing /\ Owned /\ Ordered /\ Saved /\ Loss
  BY DEF LogInv
<1>2. /\ UNCHANGED <<pc, owner, content, lines, writer, disk, file, second, spoiled>>
      /\ stop' = TRUE /\ uninit' \in {"out", "join", "clean", "done"}
      /\ \/ UNCHANGED <<free, work, cur>>
         \/ free' = <<>> /\ work' = <<>> /\ cur' = cur
         \/ free' = free /\ work' = work /\ cur' = NoBuffer
  <2>1. CASE StopWriter
    BY <2>1 DEF StopWriter
  <2>2. CASE Clean
    BY <1>1, <2>2 DEF Clean, Writing
  <2>3. CASE DeleteCurrent
    BY <1>1, <2>3 DEF DeleteCurrent, Writing
  <2> QED BY <2>1, <2>2, <2>3 DEF UnInit
<1>3. /\ ToSet(free') \subseteq ToSet(free) /\ ToSet(work') \subseteq ToSet(work)
      /\ IsInjective(free') /\ IsInjective(work')
  <2>1. ToSet(<<>>) = {} /\ IsInjective(<<>>)
    BY DEF ToSet, IsInjective
  <2> QED BY <1>1, <1>2, <2>1 DEF Owned
<1>4. Held' \subseteq Held
  BY <1>2 DEF Held
<1>5. Kept' \subseteq Kept
  BY <1>3, <1>4 DEF Kept
<1>6. Types'
  <2>1. /\ <<>> \in Seq(Buffer) /\ free \in Seq(Buffer) /\ work \in Seq(Buffer)
        /\ cur \in Buffer \cup {NoBuffer}
    BY <1>1 DEF Types
  <2>2. free' \in Seq(Buffer) /\ work' \in Seq(Buffer) /\ cur' \in Buffer \cup {NoBuffer}
    BY <1>2, <2>1
  <2> QED BY <1>1, <1>2, <2>2 DEF Types
<1>7. Writing'
  BY <1>1, <1>2 DEF Writing
<1>8. Owned'
  BY <1>1, <1>2, <1>3, <1>4 DEF Owned
<1>9. Ordered'
  <2>1. \A b : LinesOf(b)' = LinesOf(b)
    BY <1>2 DEF LinesOf
  <2>2. NoBuffer \notin Buffer
    BY <1>1, KeptBuffers
  <2>3. ASSUME NEW b \in Buffer, NEW c \in Buffer, Precedes(b, c)' PROVE Precedes(b, c)
    <3>1. CASE work' = work
      BY <1>2, <2>2, <2>3, <3>1 DEF Precedes
    <3>2. CASE work' = <<>> /\ cur' = cur
      <4>1. ~ (\E i, j \in 1 .. Len(work') : i < j /\ b = work'[i] /\ c = work'[j])
        BY <3>2
      <4> QED BY <1>2, <1>3, <2>3, <3>2, <4>1 DEF Precedes
    <3> QED BY <1>2, <3>1, <3>2
  <2> QED BY <1>1, <1>2, <2>1, <2>3 DEF Ordered
<1>10. Saved'
  BY <1>1, <1>2, <1>5, SavedSame
<1>11. Loss'
  BY <1>2 DEF Loss
<1> QED BY <1>6, <1>7, <1>8, <1>9, <1>10, <1>11 DEF LogInv

LEMMA TickStep ==
    ASSUME LogInv, Tick \/ UNCHANGED vars
    PROVE  LogInv'
<1>1. Types /\ Writing /\ Owned /\ Ordered /\ Saved /\ Loss
  BY DEF LogInv
<1>2. /\ UNCHANGED <<pc, owner, free, work, cur, content, lines, writer, stop, uninit, disk, file,
                     spoiled>>
      /\ second' \in 0 .. MaxSecond
  <2>1. second \in 0 .. MaxSecond /\ MaxSecond \in Nat
    BY <1>1, LogAssumption DEF Types
  <2>2. CASE Tick
    <3>1. second' \in 0 .. MaxSecond
      BY <2>1, <2>2 DEF Tick
    <3> QED BY <2>2, <3>1 DEF Tick
  <2>3. CASE UNCHANGED vars
    BY <2>1, <2>3 DEF vars
  <2> QED BY <2>2, <2>3
<1>3. Held' = Held /\ Kept' = Kept
  BY <1>2 DEF Held, Kept
<1>4. Types' /\ Writing' /\ Owned'
  BY <1>1, <1>2, <1>3 DEF Types, Writing, Owned
<1>5. Ordered' /\ Saved'
  BY <1>1, <1>2, <1>3, OrderedSame, SavedSame
<1>6. Accounted' = Accounted
  BY <1>2, <1>3 DEF Accounted, LinesOf
<1>7. Loss'
  BY <1>1, <1>2, <1>6, LossKept
<1> QED BY <1>4, <1>5, <1>7 DEF LogInv

-----------------------------------------------------------------------------
(* The invariant, and what it means. *)

LEMMA FreeListIs ==
    ASSUME NEW S, IsFiniteSet(S)
    PROVE  SetToSeq(S) \in Seq(S) /\ IsInjective(SetToSeq(S))
<1>1. PICK n \in Nat : ExistsBijection(1 .. n, S)
  BY FS_NatBijection
<1>2. Cardinality(S) = n
  BY <1>1, FS_CountingElements
<1>3. PICK f \in Bijection(1 .. n, S) : TRUE
  BY <1>1 DEF ExistsBijection
<1>4. f \in [1 .. n -> S] /\ IsInjective(f)
  BY <1>3 DEF Bijection, Injection, IsInjective
<1>5. SetToSeq(S) \in [1 .. n -> S] /\ IsInjective(SetToSeq(S))
  BY <1>2, <1>4 DEF SetToSeq
<1> QED BY <1>5

LEMMA LogInit == Init => LogInv
<1> SUFFICES ASSUME Init PROVE LogInv
  OBVIOUS
<1>1. free \in Seq(Buffer) /\ IsInjective(free)
  BY FreeListIs, LogAssumption DEF Init
<1>2. /\ work = <<>> /\ cur = NoBuffer /\ writer.buf = NoBuffer /\ disk = <<>> /\ lines = 0
      /\ content = [b \in Buffer |-> EmptyBuffer] /\ spoiled = {}
  BY DEF Init
<1>3. EmptyBuffer \in CBuffer /\ ToSet(<<>>) = {} /\ Rising(<<>>) /\ IsInjective(<<>>)
  BY LogAssumption DEF EmptyBuffer, CBuffer, ToSet, Rising, IsInjective
<1>4. \A b \in Buffer : content[b] = EmptyBuffer /\ LinesOf(b) = {}
  BY <1>2, <1>3 DEF LinesOf, EmptyBuffer
<1>5. Held = {} /\ Kept = {}
  BY <1>2, <1>3 DEF Held, Kept
<1>6. Types
  <2>1. /\ pc = [t \in Thread |-> "out"] /\ owner = Nobody /\ stop = FALSE /\ uninit = "out"
        /\ second = 0 /\ file \in Opened
    BY DEF Init
  <2>2. \A t \in Thread : pc[t] = "locked" <=> owner = t
    BY <2>1, LogAssumption DEF Nobody
  <2>3. file \in [opened : BOOLEAN, name : Nat, size : Nat]
    BY <2>1 DEF Opened
  <2>4. second \in 0 .. MaxSecond
    BY <2>1, LogAssumption
  <2>5. content \in [Buffer -> CBuffer]
    BY <1>2, <1>3
  <2>6. disk \in Seq(Line) /\ work \in Seq(Buffer)
    BY <1>2
  <2> QED BY <1>1, <1>2, <2>1, <2>2, <2>3, <2>4, <2>5, <2>6 DEF Types
<1>7. Writing
  <2>1. 0 \in 0 .. TickLimit /\ 0 < TickLimit
    BY LogAssumption
  <2> QED BY <2>1 DEF Init, Writing, Writer
<1>8. Owned
  <2>1. \A b \in ToSet(free) : b \in Buffer
    BY <1>1 DEF ToSet
  <2> QED BY <1>1, <1>2, <1>3, <1>4, <1>5, <2>1 DEF Owned
<1>9. Ordered
  <2>1. \A b \in Buffer : Rising(content[b].ids)
    BY <1>3, <1>4 DEF EmptyBuffer
  <2> QED BY <1>4, <2>1 DEF Ordered
<1>10. Saved
  BY <1>2, <1>5 DEF Saved
<1>11. Loss
  BY <1>2 DEF Loss
<1> QED BY <1>6, <1>7, <1>8, <1>9, <1>10, <1>11 DEF LogInv

LEMMA LogStep == LogInv /\ [Next]_vars => LogInv'
<1> SUFFICES ASSUME LogInv, [Next]_vars PROVE LogInv'
  OBVIOUS
<1>1. ASSUME NEW t \in Thread, WLog(t) \/ Lock(t) \/ GetWait(t) \/ AppendLine(t)
      PROVE  LogInv'
  BY <1>1, WLogStep, GetWaitStep, AppendLineStep
<1>2. CASE OnProc
  BY <1>2, CheckFileStep, GetStep, WriteWorkStep, FlushCurrentStep DEF OnProc
<1>3. CASE UnInit
  BY <1>3, UnInitStep
<1>4. CASE Tick \/ UNCHANGED vars
  BY <1>4, TickStep
<1> QED BY <1>1, <1>2, <1>3, <1>4 DEF Next, Logging

LEMMA LogInvariant == Spec => []LogInv
<1> QED BY LogInit, LogStep, PTL DEF Spec

\* Of two buffers that are kept one comes before the other.
LEMMA KeptInOrder ==
    ASSUME LogInv, NEW b \in Kept, NEW c \in Kept, b # c
    PROVE  Precedes(b, c) \/ Precedes(c, b)
<1>1. Types /\ Writing /\ work \in Seq(Buffer)
  BY DEF LogInv, Types
<1>2. /\ b \in ToSet(work) \/ b = cur \/ b = writer.buf
      /\ c \in ToSet(work) \/ c = cur \/ c = writer.buf
  BY <1>1, KeptBuffers
<1>3. CASE b \in ToSet(work) /\ c \in ToSet(work)
  <2>1. DOMAIN work = 1 .. Len(work) /\ Len(work) \in Nat
    BY <1>1
  <2>2. PICK i \in 1 .. Len(work), j \in 1 .. Len(work) : b = work[i] /\ c = work[j]
    BY <1>3, <2>1 DEF ToSet
  <2>3. i < j \/ j < i
    BY <2>1, <2>2
  <2> QED BY <2>2, <2>3 DEF Precedes
<1> QED BY <1>2, <1>3 DEF Precedes

\* Every thread and the writer are where Write and OnProc can be, and every
\* CBuffer has one owner: one place of _freeList or _workList, _pCurBuffer or
\* OnProc's pBuffer, or nobody once fwrite has failed or UnInit has deleted it.
\* One in _freeList is empty, and none holds more than _iBufSize.
THEOREM TypeCorrect == Spec => []TypeOK
<1>1. LogInv => TypeOK
  <2> SUFFICES ASSUME LogInv PROVE TypeOK
    OBVIOUS
  <2>1. Types /\ Writing /\ Owned
    BY DEF LogInv
  <2>2. \A b \in Buffer : DataLen(b) <= BufSize
    <3>1. \A b \in Buffer : content[b] \in CBuffer
      BY <2>1 DEF Types
    <3> QED BY <3>1, LogAssumption DEF DataLen, CBuffer
  <2>3. writer.at \in {"file", "get", "write", "flush", "ended"} /\ writer.tick \in 0 .. TickLimit
    BY <2>1 DEF Writing, Writer
  <2>4. \A b \in Buffer : b \in ToSet(free) => content[b] = EmptyBuffer
    BY <2>1 DEF Owned
  <2> QED BY <2>1, <2>2, <2>3, <2>4 DEF TypeOK, Types, Owned
<1> QED BY <1>1, LogInvariant, PTL

\* Handing the buffers round loses no line and doubles none: no line is twice in
\* the files, twice in the buffers, or in both, and while the logger runs the
\* only lines missing are those Write drops for want of room, never two running,
\* and those the disk lost.
THEOREM LossIsBounded == Spec => []LostOnlyWhenFull
<1>1. LogInv => LostOnlyWhenFull
  <2> SUFFICES ASSUME LogInv PROVE LostOnlyWhenFull
    OBVIOUS
  <2>1. Types /\ Writing /\ Ordered /\ Saved /\ Loss /\ Kept \subseteq Buffer
    BY KeptBuffers DEF LogInv
  <2>2. DOMAIN disk = 1 .. Len(disk) /\ Len(disk) \in Nat
    BY <2>1 DEF Types
  <2>3. ASSUME NEW i \in DOMAIN disk, NEW j \in DOMAIN disk, disk[i].id = disk[j].id PROVE i = j
    <3>1. i < j \/ j < i \/ i = j
      BY <2>2
    <3>2. ~ (i < j) /\ ~ (j < i)
      BY <2>1, <2>2, <2>3 DEF Saved, Apart
    <3> QED BY <3>1, <3>2
  <2>4. ASSUME NEW b \in Kept PROVE IsInjective(content[b].ids)
    <3> DEFINE s == content[b].ids
    <3>1. s \in Seq(Nat) /\ Rising(s)
      BY <2>1 DEF Types, CBuffer, Ordered
    <3> HIDE DEF s
    <3>2. DOMAIN s = 1 .. Len(s) /\ \A i \in 1 .. Len(s) : i \in Nat /\ s[i] \in Nat
      BY <3>1
    <3>3. ASSUME NEW i \in 1 .. Len(s), NEW j \in 1 .. Len(s), s[i] = s[j] PROVE i = j
      <4>1. ~ (s[i] < s[j]) /\ ~ (s[j] < s[i])
        BY <3>2, <3>3
      <4>2. ~ (i < j) /\ ~ (j < i)
        BY <3>1, <4>1 DEF Rising
      <4> QED BY <3>2, <4>2
    <3>4. IsInjective(s)
      BY <3>2, <3>3 DEF IsInjective
    <3> QED BY <3>4 DEF s
  <2>5. \A b \in Kept : \A i \in DOMAIN disk : disk[i].id \notin LinesOf(b)
    BY <2>1, <2>2 DEF Saved, Apart
  <2>6. ASSUME NEW b \in Kept, NEW c \in Kept \ {b} PROVE LinesOf(b) \cap LinesOf(c) = {}
    <3>1. Precedes(b, c) \/ Precedes(c, b)
      BY KeptInOrder
    <3>2. ASSUME NEW n \in LinesOf(b), n \in LinesOf(c) PROVE FALSE
      <4>1. n < n /\ n \in Int
        BY <2>1, <3>1, <3>2 DEF Ordered
      <4> QED BY <4>1
    <3> QED BY <3>2
  <2>7. stop \/ \A n \in 1 .. lines - 1 : {n, n + 1} \cap Accounted # {}
    BY <2>1 DEF Loss
  <2> QED BY <2>3, <2>4, <2>5, <2>6, <2>7 DEF LostOnlyWhenFull
<1> QED BY <1>1, LogInvariant, PTL

\* The files hold the lines in the order of Write: _workList is first in, first
\* out, and only a buffer that OnProc writes in place can come before older ones.
THEOREM OrderKept == Spec => []InOrderUnlessFlushed
<1>1. LogInv => InOrderUnlessFlushed
  <2> SUFFICES ASSUME LogInv PROVE InOrderUnlessFlushed
    OBVIOUS
  <2>1. DOMAIN disk = 1 .. Len(disk) /\ Saved
    BY DEF LogInv, Types
  <2> QED BY <2>1 DEF InOrderUnlessFlushed, Saved, Apart
<1> QED BY <1>1, LogInvariant, PTL

=============================================================================
