------------------------------ MODULE DouListMC ------------------------------
(***************************************************************************)
(* DouList for TLC.  Four nodes: a head, a tail and two neighbours between *)
(* them; a fifth adds nothing but time.                                    *)
(***************************************************************************)
EXTENDS DouList
=============================================================================
