--------------------------- MODULE MCBufferedChan ---------------------------
(***************************************************************************)
(* BufferedChan for TLC.                                                   *)
(***************************************************************************)
EXTENDS BufferedChan
=============================================================================
