----------------------------- MODULE MCBasicChan -----------------------------
(***************************************************************************)
(* BasicChan for TLC: small sets of readers, writers and values.           *)
(***************************************************************************)
EXTENDS BasicChan, TLC

\* Processes and values are interchangeable; used by the runs that check no
\* liveness property.
Perms == Permutations(Readers) \cup Permutations(Writers)
=============================================================================
