------------------------------ MODULE PackCodec ------------------------------
(***************************************************************************)
(* The framing of packs on a connection: TcpConn::OnReadEvent fills the    *)
(* receive buffer from the stream, PackCodec::OnRawBuf cuts packs out of   *)
(* it with NetBuffer::ParsePacket and hands their bodies to the user.      *)
(*                                                                         *)
(* A byte is its position in the stream, so a body that was cut at the     *)
(* wrong place, twice or in the wrong order is seen.  Of a head the model  *)
(* keeps the flag and packLen.  Three peers are modelled, chosen by Kinds: *)
(*   "whole"    packLen counts head and body (HandleCustomPackMgr.cpp:135) *)
(*   "body"     packLen counts the body only (PackCodec::OnSendPack)       *)
(*   "foreign"  no flag: a peer that speaks something else                 *)
(***************************************************************************)
EXTENDS Naturals, Sequences, SequencesExt

CONSTANTS
    Kinds,          \* what peers send
    HeadSize,       \* sizeof(PackHead), 29
    DEF_PACK_MAX,   \* 2048
    MaxBody,        \* bound: longest body sent
    MaxStream,      \* bound: bytes sent on the connection
    BUF_LEN, ExtraSize, Junk

ASSUME PackCodecAssumption ==
    /\ Kinds \subseteq {"whole", "body", "foreign"}
    /\ HeadSize \in Nat \ {0}
    /\ DEF_PACK_MAX \in Nat /\ MaxBody \in Nat /\ MaxStream \in Nat
    /\ BUF_LEN \in Nat \ {0} /\ ExtraSize \in Nat \ {0}
    /\ Junk \notin Nat

VARIABLES
    sent,           \* packs on the stream: [kind, first, size]
    ended,          \* the peer has closed its side
    received,       \* bytes taken from the stream so far
    buffer,         \* TcpConn::_oRcvBuffer
    pc,             \* "wait" in epoll, "parse" in the loop of OnRawBuf
    status,         \* "open", "closed" by HandleClose, "fault": process died
    delivered       \* bodies handed to _OnRecvPack

vars == <<sent, ended, received, buffer, pc, status, delivered>>

Net == INSTANCE NetBuffer
    WITH Byte <- 1 .. MaxStream, MaxData <- 0, MaxUnread <- MaxStream

Total == IF sent = <<>> THEN 0 ELSE sent[Len(sent)].first + sent[Len(sent)].size - 1

Init ==
    /\ sent = <<>> /\ ended = FALSE /\ received = 0
    /\ buffer = Net!EmptyBuffer
    /\ pc = "wait" /\ status = "open" /\ delivered = <<>>

-----------------------------------------------------------------------------
(* The peer. *)

\* A pack of OnSendPack longer than DEF_PACK_MAX is refused; SendBuf takes any.
Send(kind, body) ==
    /\ ~ ended /\ Total + HeadSize + body <= MaxStream
    /\ kind = "body" => body <= DEF_PACK_MAX
    /\ sent' = Append(sent, [kind |-> kind, first |-> Total + 1, size |-> HeadSize + body])
    /\ UNCHANGED <<ended, received, buffer, pc, status, delivered>>

PeerClose ==
    /\ ~ ended
    /\ ended' = TRUE
    /\ UNCHANGED <<sent, received, buffer, pc, status, delivered>>

PackLen(pack) == IF pack.kind = "whole" THEN pack.size ELSE pack.size - HeadSize

-----------------------------------------------------------------------------
(* TcpConn::OnReadEvent. *)

\* Variant: OnRawBuf parses only when the read that came in is itself longer
\* than a head.
StartParseOfRead(b, n) == pc' = IF n > HeadSize THEN "parse" ELSE "wait"

\* OnRawBuf enters its loop only with more than a head in the buffer.
StartParse(b, n) == pc' = IF Net!ReadableSize(b) > HeadSize THEN "parse" ELSE "wait"

\* readv brought n bytes.
OnReadEvent(n) ==
    /\ status = "open" /\ pc = "wait"
    /\ n <= Total - received /\ n <= Net!ReadvSize(buffer)
    /\ received' = received + n
    /\ buffer' = Net!Filled(buffer, [i \in 1 .. n |-> received + i])
    /\ StartParse(buffer', n)
    /\ UNCHANGED <<sent, ended, status, delivered>>

\* readv failed: ReadFd logs it, and the codec looks at the buffer again.
ReadFails ==
    /\ status = "open" /\ pc = "wait"
    /\ StartParse(buffer, 0)
    /\ UNCHANGED <<sent, ended, received, buffer, status, delivered>>

\* readv returned 0: HandleClose.
ReadEnd ==
    /\ status = "open" /\ pc = "wait" /\ ended /\ received = Total
    /\ status' = "closed"
    /\ UNCHANGED <<sent, ended, received, buffer, pc, delivered>>

-----------------------------------------------------------------------------
(* One turn of the loop in PackCodec::OnRawBuf, with NetBuffer::ParsePacket. *)

FrontByte == buffer.buf[buffer.readPos]

\* The packs whose head starts where the buffer is read.
AtFront == {sent[k] : k \in {j \in 1 .. Len(sent) : sent[j].first = FrontByte}}

Valid == \E pack \in AtFront : pack.kind # "foreign"

Arrived(pack) == PackLen(pack) <= Net!ReadableSize(buffer)

\* Variant: what is consumed is the body, and not the head in front of it.
CutBody(pack) == Net!Consumed(buffer, PackLen(pack) - HeadSize)

Cut(pack) == Net!Consumed(buffer, PackLen(pack))

\* Too little for a head, a pack longer than the limit, or one that has not
\* arrived as a whole: the loop is left, and the connection stays as it is.
ParseStops ==
    /\ pc = "parse"
    /\ \/ Net!ReadableSize(buffer) < HeadSize
       \/ /\ Net!ReadableSize(buffer) >= HeadSize
          /\ \E pack \in AtFront :
                /\ pack.kind # "foreign"
                /\ PackLen(pack) > DEF_PACK_MAX \/ ~ Arrived(pack)
    /\ pc' = "wait"
    /\ UNCHANGED <<sent, ended, received, buffer, status, delivered>>

\* No flag: OnRawBuf returns -2 and OnReadEvent closes the connection.
ParseRefuses ==
    /\ pc = "parse" /\ Net!ReadableSize(buffer) >= HeadSize /\ ~ Valid
    /\ pc' = "wait" /\ status' = "closed"
    /\ UNCHANGED <<sent, ended, received, buffer, delivered>>

\* The body goes to the user, who may close the connection from the callback:
\* the loop goes on all the same.
ParseDelivers ==
    /\ pc = "parse" /\ Net!ReadableSize(buffer) >= HeadSize
    /\ \E pack \in AtFront :
          /\ pack.kind # "foreign" /\ PackLen(pack) <= DEF_PACK_MAX /\ Arrived(pack)
          /\ PackLen(pack) >= HeadSize
          /\ delivered' = Append(delivered,
                                 SubSeq(Net!Contents(buffer), HeadSize + 1, PackLen(pack)))
          /\ buffer' = Cut(pack)
    /\ status' \in {status, "closed"}
    /\ UNCHANGED <<sent, ended, received, pc>>

\* packLen smaller than a head: packLen - sizeof(PackHead) wraps around, and
\* CopyData allocates and copies four gigabytes.
ParseFaults ==
    /\ pc = "parse" /\ Net!ReadableSize(buffer) >= HeadSize
    /\ \E pack \in AtFront :
          pack.kind # "foreign" /\ Arrived(pack) /\ PackLen(pack) < HeadSize
    /\ pc' = "wait" /\ status' = "fault"
    /\ UNCHANGED <<sent, ended, received, buffer, delivered>>

Read == ReadEnd \/ \E n \in 1 .. MaxStream : OnReadEvent(n)

Parse == ParseStops \/ ParseRefuses \/ ParseDelivers \/ ParseFaults

Next ==
    \/ \E kind \in Kinds, body \in 0 .. MaxBody : Send(kind, body)
    \/ PeerClose
    \/ Read
    \/ ReadFails
    \/ Parse

Spec == Init /\ [][Next]_vars

\* epoll is level-triggered: a socket with bytes, or at its end, is reported
\* again until it is read, and readv does not fail for ever; the loop of
\* OnRawBuf runs on.
FairSpec == Spec /\ SF_vars(Read) /\ WF_vars(Parse)

-----------------------------------------------------------------------------
\* What PackCodec cuts on purpose: packs with a flag and their length, within the
\* limit.
Proper(pack) == pack.kind = "whole" /\ pack.size <= DEF_PACK_MAX

\* None of the first k packs has a wrong length.
LengthsRight(k) == \A j \in 1 .. Len(sent) : j <= k => sent[j].kind # "body"

\* The k-th body delivered is the body of the k-th pack sent.
Intact(k) ==
    /\ k <= Len(sent)
    /\ delivered[k] = [i \in 1 .. sent[k].size - HeadSize |->
                           sent[k].first + HeadSize + i - 1]

\* However the stream is cut into reads, the k-th body delivered is the body of
\* the k-th pack sent, whole and at its place; nothing is delivered from behind
\* a pack without a flag or over the limit (PackCodec::OnRawBuf, ParsePacket).
\* From behind a pack whose length is wrong anything may come.
FramesIntact ==
    \A k \in 1 .. Len(delivered) : LengthsRight(k) => Intact(k) /\ Proper(sent[k])

\* The same of every pack: what PackCodec::OnSendPack sends, PackCodec::OnRawBuf
\* receives; packLen is the size of the whole pack (Pack.h:29).
OwnPacksIntact == \A k \in 1 .. Len(delivered) : Intact(k)

\* Even from peers whose packLen is wrong: the bytes of the bodies delivered,
\* one after the other, are bytes of the stream in stream order, none of them
\* twice (NetBuffer::ReadFd, AddReadPos).
BytesInOrder ==
    \A k, l \in 1 .. Len(delivered) :
        \A i \in 1 .. Len(delivered[k]), j \in 1 .. Len(delivered[l]) :
            k < l \/ (k = l /\ i < j) => delivered[k][i] < delivered[l][j]

\* Every pack with a body that only packs within the limit precede is delivered,
\* unless the connection is closed first.
EveryPackArrives ==
    \A k \in 1 .. MaxStream \div HeadSize :
        /\ k <= Len(sent)
        /\ \A j \in 1 .. k : j <= Len(sent) => Proper(sent[j])
        /\ sent[k].size > HeadSize
        ~> Len(delivered) >= k \/ status = "closed"
=============================================================================
