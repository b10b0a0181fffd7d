------------------------------- MODULE TimerMC -------------------------------
(* Timer for TLC: keys that time stamps hit, and keys that they do not; a    *)
(* delay and an interval that wrap, from 4 units to 1.                       *)
EXTENDS Timer

MCTimerId == 1 .. 2
=============================================================================
