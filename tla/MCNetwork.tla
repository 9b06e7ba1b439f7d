------------------------------ MODULE MCNetwork ------------------------------
(***************************************************************************)
(* The networks for TLC.                                                   *)
(***************************************************************************)
EXTENDS Network, PlugNPlay

AllNets ==
    "commstime1" :> Commstime(Delta(A, <<B, D>>)) @@
    "commstime2" :> Commstime(SeqDelta(A, <<B, D>>)) @@
    "diningphil" :> DiningPhil @@
    "farm"       :> Farm @@
    "montecarlo" :> MonteCarlo @@
    "stressed"   :> StressedAlt @@
    "pairs"      :> PairsNet @@
    "multiplex"  :> MultiplexNet @@
    "plex"       :> PlexNet @@
    "or"         :> GatesNet(OrProc(C, D, E), [v \in Int |-> v | Wrap(v + 1)]) @@
    "xor"        :> GatesNet(XorProc(C, D, E), [v \in Int |-> v ^^ Wrap(v + 1)]) @@
    "nand"       :> GatesNet(Nand(C, D, E), [v \in Int |-> Complement(v & Wrap(v + 1))]) @@
    "nor"        :> GatesNet(Nor(C, D, E), [v \in Int |-> Complement(v | Wrap(v + 1))]) @@
    "times"      :> GatesNet(Times(C, D, E), [v \in Int |-> Wrap(v * Wrap(v + 1))]) @@
    "chain"      :> ChainNet @@
    "substitute" :> SubstituteNet @@
    "dynamic"    :> DynamicNet @@
    "merge"      :> MergeNet
=============================================================================
