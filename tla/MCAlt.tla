-------------------------------- MODULE MCAlt --------------------------------
(***************************************************************************)
(* Alt for TLC: a timer between a channel and a buffered channel, and      *)
(* three channels.                                                         *)
(***************************************************************************)
EXTENDS Alt, TLC

ChanTimerBuffer == 0 :> "chan" @@ 1 :> "timer" @@ 2 :> "buffer"
ThreeChans == 0 :> "chan" @@ 1 :> "chan" @@ 2 :> "chan"
=============================================================================
