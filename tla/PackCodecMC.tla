----------------------------- MODULE PackCodecMC -----------------------------
(***************************************************************************)
(* PackCodec for TLC: a head of two bytes, packs of up to four, bodies of  *)
(* up to three, so that packs without a body, packs at the limit and packs *)
(* over it are all sent.                                                   *)
(***************************************************************************)
EXTENDS PackCodec

CONSTANT none

MCCodecPeer == {"body"}
MCAllPeers == {"whole", "body", "foreign"}
=============================================================================
