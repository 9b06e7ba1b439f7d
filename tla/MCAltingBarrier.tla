--------------------------- MODULE MCAltingBarrier ---------------------------
(***************************************************************************)
(* AltingBarrier for TLC: two threads, two barriers that can be expanded   *)
(* by two front ends; alts on one barrier and on both.                     *)
(***************************************************************************)
EXTENDS AltingBarrier, TLC

CONSTANTS f1, f2

OfOne == {<<f1>>}
OfTwo == {<<f1, f2>>, <<f2>>}
Symmetry == Permutations(Threads)
=============================================================================
