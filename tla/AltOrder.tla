------------------------------ MODULE AltOrder ------------------------------
(***************************************************************************)
(* The order in which disable_guards (src/csp/alt.h) goes through n guards *)
(* 0..n-1 of a selection that began with guard next and chose guard sel.   *)
(***************************************************************************)
EXTENDS Integers, Sequences

NoneSelected == -1

\* Indices k, k-1, ..., 0.
Down(k) == [i \in 1..(k + 1) |-> k + 1 - i]

\* c times over: the last guard down to the first.
AllDown(n, c) == [i \in 1..(c * n) |-> n - 1 - ((i - 1) % n)]

\* Mutant: only the guards after the first one to be enabled are disabled.
DisableSome(n, next, sel) ==
    Down(IF sel = NoneSelected THEN next - 1 ELSE sel - 1)

\* The inner loop runs down to guard 0 once for every turn of the outer one,
\* so guards are disabled several times, also ones that were never enabled.
DisableOrder(n, next, sel) ==
    CASE sel = next -> << >>
      [] sel < next -> Down(IF sel = NoneSelected THEN next - 1 ELSE sel - 1)
                       \o AllDown(n, n - next)
      [] sel > next -> Down(sel - 1) \o AllDown(n, sel - next - 1)
=============================================================================
