----------------------------- MODULE NetBufferMC -----------------------------
(***************************************************************************)
(* The bytes of a connection for TLC.  NetBuffer: a block of two bytes and *)
(* a spill area of two, so that sliding, growing and spilling all happen   *)
(* within three bytes.  NetBytes: packs of three fields in a block that    *)
(* the longest of them overrun.                                            *)
(*                                                                         *)
(* The two share nothing, and their properties speak of one of them only:  *)
(* each moves while the other is as it was at first, for their             *)
(* interleavings would show nothing more.                                  *)
(***************************************************************************)
EXTENDS NetBuffer, NetBytes

CONSTANTS a, b, none

MCByte == {a, b}
MCScalars == {<<1>>, <<2, 1>>, <<1, 0, 0, 2>>}
MCStrings == {<<>>, <<7>>, <<3, 0, 5>>}

BothInit == Init /\ PackInit

BothNext ==
    \/ Next /\ fields = <<>> /\ UNCHANGED packVars
    \/ PackNext /\ buffer = EmptyBuffer /\ UNCHANGED buffer

BothSpec == BothInit /\ [][BothNext]_<<buffer, packVars>>
=============================================================================
