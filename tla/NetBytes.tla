------------------------------ MODULE NetBytes ------------------------------
(***************************************************************************)
(* The fields of a pack (NetBytes.cpp): the generated Pack writes them one *)
(* behind the other into a block, scalars in network order, strings behind *)
(* their length; UnPack on the other side reads them in the same order.    *)
(* The host is little-endian: a scalar is the sequence of its bytes, the   *)
(* least significant first.                                                *)
(***************************************************************************)
EXTENDS Naturals, SequencesExt

CONSTANTS
    BlockSize,      \* _iBufSize
    Scalars,        \* values of integers and of bool, of 1, 2, 4 or 8 bytes
    Strings,        \* values of strings, shorter than 256 bytes
    MaxFields       \* bound: fields of a pack

ASSUME NetBytesAssumption ==
    /\ BlockSize \in Nat /\ MaxFields \in Nat
    /\ \A v \in Scalars : v \in Seq(0 .. 255)
    /\ \A s \in Strings : s \in Seq(0 .. 255) /\ Len(s) < 256

VARIABLES
    block,          \* the block up to _iWtPos
    rdPos,          \* _iRdPos
    fields,         \* history: the fields of the pack: [type, value, written]
    got,            \* history: what was read of them
    reading,        \* the pack was sent, and UnPack runs
    overrun         \* a read or a write left the block

packVars == <<block, rdPos, fields, got, reading, overrun>>

PackInit ==
    /\ block = <<>> /\ rdPos = 0 /\ fields = <<>> /\ got = <<>>
    /\ reading = FALSE /\ overrun = FALSE

hton(v) == Reverse(v)
ntoh(v) == Reverse(v)

\* A uint32_t as the host keeps it; lengths are small.
HostWord(n) == <<n, 0, 0, 0>>

Number(word) == word[1] + 256 * word[2] + 65536 * word[3] + 16777216 * word[4]

WordSize == Len(HostWord(0))

Cells(from, n) == SubSeq(block, from + 1, from + n)

\* The bytes of a C string.
CString(s) == IF 0 \in ToSet(s) THEN SubSeq(s, 1, SelectInSeq(s, LAMBDA b : b = 0) - 1) ELSE s

-----------------------------------------------------------------------------
\* operator<< of a scalar looks at no bound.
PutScalar(v) == block' = block \o hton(v)

\* Append compares without the length word; the operator drops its result.
StringFits(s) == Len(block) + Len(s) <= BlockSize

PutString(s) ==
    IF StringFits(s) THEN block' = block \o hton(HostWord(Len(s))) \o s ELSE block' = block

PackWrite(type, v) ==
    /\ ~ reading /\ ~ overrun /\ Len(fields) < MaxFields
    /\ IF type = "string" THEN PutString(v) ELSE PutScalar(v)
    /\ overrun' = (Len(block') > BlockSize)
    /\ fields' = Append(fields, [type |-> type, value |-> v,
                                 written |-> type = "scalar" \/ StringFits(v)])
    /\ UNCHANGED <<rdPos, got, reading>>

\* The pack is sent; it arrives as it was written.
SendPack ==
    /\ ~ reading /\ ~ overrun /\ fields # <<>>
    /\ reading' = TRUE
    /\ UNCHANGED <<block, rdPos, fields, got, overrun>>

-----------------------------------------------------------------------------
\* Moves _iRdPos behind n bytes from offset on, which are the value; both have to be there.
Took(offset, n, value) ==
    IF rdPos + offset + n > Len(block)
    THEN overrun' = TRUE /\ UNCHANGED <<rdPos, got>>
    ELSE rdPos' = rdPos + offset + n /\ got' = Append(got, value) /\ UNCHANGED overrun

GetScalar(n) == Took(0, n, ntoh(Cells(rdPos, n)))

\* Variant: the length word is not skipped.
GetBufShort ==
    LET size == Number(ntoh(Cells(rdPos, WordSize))) IN
    IF size = 0 THEN got' = Append(got, <<>>) /\ UNCHANGED <<rdPos, overrun>>
    ELSE Took(0, size, CString(Cells(rdPos + WordSize, size)))

\* GetBuf of an empty string fails and leaves _iRdPos before the length word; the
\* string keeps its value, which is empty in a new pack.
GetBuf ==
    LET size == Number(ntoh(Cells(rdPos, WordSize))) IN
    IF size = 0 THEN got' = Append(got, <<>>) /\ UNCHANGED <<rdPos, overrun>>
    ELSE Took(WordSize, size, CString(Cells(rdPos + WordSize, size)))

\* operator>> of a string.  Without its length word in the block nothing is known.
GetString ==
    IF rdPos + WordSize > Len(block)
    THEN overrun' = TRUE /\ UNCHANGED <<rdPos, got>>
    ELSE GetBuf

PackRead ==
    /\ reading /\ ~ overrun /\ Len(got) < Len(fields)
    /\ LET field == fields[Len(got) + 1]
       IN  IF field.type = "string" THEN GetString ELSE GetScalar(Len(field.value))
    /\ UNCHANGED <<block, fields, reading>>

\* The next pack.
NewPack ==
    /\ overrun \/ (reading /\ Len(got) = Len(fields))
    /\ block' = <<>> /\ rdPos' = 0 /\ fields' = <<>> /\ got' = <<>>
    /\ reading' = FALSE /\ overrun' = FALSE

PackNext ==
    \/ \E v \in Scalars : PackWrite("scalar", v)
    \/ \E s \in Strings : PackWrite("string", s)
    \/ SendPack \/ PackRead \/ NewPack

PackSpec == PackInit /\ [][PackNext]_packVars

-----------------------------------------------------------------------------
\* What the other side has read is what was written, field by field, up to the
\* first string that did not fit into the block and was silently left out, and
\* but for the fields behind an empty string, which are read from where its
\* length is; a string ends at its first zero.
FieldsArrive ==
    \A i \in DOMAIN got :
        (\A j \in 1 .. i : fields[j].written /\ (j < i => fields[j].value # <<>>))
            => got[i] = IF fields[i].type = "string" THEN CString(fields[i].value)
                        ELSE fields[i].value
=============================================================================
