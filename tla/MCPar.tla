-------------------------------- MODULE MCPar --------------------------------
(***************************************************************************)
(* Par for TLC.                                                            *)
(***************************************************************************)
EXTENDS Par
=============================================================================
