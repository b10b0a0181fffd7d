-------------------------------- MODULE LogMC --------------------------------
(* Log for TLC. *)
EXTENDS Log

MCThread == 1 .. 2
MCBuffer == 1 .. 2
=============================================================================
