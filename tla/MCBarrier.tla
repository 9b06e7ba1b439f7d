------------------------------ MODULE MCBarrier ------------------------------
(***************************************************************************)
(* Barrier for TLC.                                                        *)
(***************************************************************************)
EXTENDS Barrier
=============================================================================
