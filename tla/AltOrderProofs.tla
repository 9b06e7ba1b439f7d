--------------------------- MODULE AltOrderProofs ---------------------------
(***************************************************************************)
(* What DisableOrder returns, for any number of guards: the facts on which *)
(* the proofs about selections (AltProofs, AltingBarrierProofs) rest.      *)
(***************************************************************************)
EXTENDS AltOrder, TLAPS

\* The inner loop from guard k visits each of the guards k..0 once.
LEMMA DownVisits ==
  ASSUME NEW k \in Int, k >= -1
  PROVE  /\ Down(k) \in Seq(0..k) /\ Len(Down(k)) = k + 1
         /\ \A j \in 0..k : Down(k)[k + 1 - j] = j
BY DEF Down

\* The product of two numbers of turns.
LEMMA Turns ==
  ASSUME NEW n \in Nat, NEW c \in Nat
  PROVE  /\ c * n \in Nat
         /\ c > 0 => (c - 1) * n \in Nat /\ c * n = (c - 1) * n + n
OBVIOUS

\* Position k * n + r of a walk that starts anew every n steps.
LEMMA Turn ==
  ASSUME NEW n \in Nat \ {0}, NEW k \in Nat, NEW r \in 0..(n - 1)
  PROVE  (k * n + r) % n = r
OBVIOUS

\* The outer loop visits only guards; in its last turn it comes to each guard
\* and after that only to guards before it.
LEMMA AllDownVisits ==
  ASSUME NEW n \in Nat \ {0}, NEW c \in Nat
  PROVE  /\ AllDown(n, c) \in Seq(0..(n - 1)) /\ Len(AllDown(n, c)) = c * n
         /\ \A j \in 0..(n - 1) : c > 0 =>
               LET at == (c - 1) * n + (n - j) IN
               /\ at \in 1..(c * n) /\ AllDown(n, c)[at] = j
               /\ \A i \in (at + 1)..(c * n) : AllDown(n, c)[i] < j
<1>1. c * n \in Nat
  BY Turns
<1>2. \A i \in 1..(c * n) : n - 1 - ((i - 1) % n) \in 0..(n - 1)
  BY <1>1
<1>3. AllDown(n, c) \in Seq(0..(n - 1)) /\ Len(AllDown(n, c)) = c * n
  BY <1>1, <1>2 DEF AllDown
<1>4. ASSUME NEW j \in 0..(n - 1), c > 0,
             NEW i \in ((c - 1) * n + (n - j))..(c * n)
      PROVE  /\ i \in 1..(c * n)
             /\ AllDown(n, c)[i] = n - 1 - (i - 1 - (c - 1) * n)
  <2>1. (c - 1) * n \in Nat /\ c * n = (c - 1) * n + n
    BY <1>4, Turns
  <2> DEFINE r == i - 1 - (c - 1) * n
  <2>2. r \in 0..(n - 1) /\ i - 1 = (c - 1) * n + r /\ i \in 1..(c * n)
    BY <2>1
  <2>3. \A q \in 0..(n - 1) : ((c - 1) * n + q) % n = q
    <3>1. c - 1 \in Nat
      BY <1>4
    <3> QED
      BY <3>1, Turn
  <2>4. (i - 1) % n = r
    <3> HIDE DEF r
    <3> QED
      BY <2>2, <2>3
  <2> QED
    BY <2>2, <2>4 DEF AllDown
<1>5. ASSUME NEW j \in 0..(n - 1), c > 0
      PROVE  LET at == (c - 1) * n + (n - j) IN
               /\ at \in 1..(c * n) /\ AllDown(n, c)[at] = j
               /\ \A i \in (at + 1)..(c * n) : AllDown(n, c)[i] < j
  <2> DEFINE at == (c - 1) * n + (n - j)
  <2>1. (c - 1) * n \in Nat /\ c * n = (c - 1) * n + n
    BY <1>5, Turns
  <2>2. at \in at..(c * n) /\ \A i \in (at + 1)..(c * n) : i \in at..(c * n)
    BY <2>1
  <2>3. at \in 1..(c * n) /\ AllDown(n, c)[at] = j
    BY <1>4, <1>5, <2>1, <2>2
  <2>4. ASSUME NEW i \in (at + 1)..(c * n) PROVE AllDown(n, c)[i] < j
    <3>1. AllDown(n, c)[i] = n - 1 - (i - 1 - (c - 1) * n)
      BY <1>4, <1>5, <2>2
    <3> QED
      BY <2>1, <3>1
  <2> QED
    BY <2>3, <2>4
<1> QED
  BY <1>3, <1>5

-----------------------------------------------------------------------------
(* The order of disable_guards.                                            *)

\* disable_guards walks down from guard k, then c times through all guards.
Walk(n, k, c) == Down(k) \o AllDown(n, c)

\* Walk D comes to guard g and after that only to guards before it.
LastVisits(D, g) ==
  \E i \in 1..Len(D) : D[i] = g /\ \A j \in (i + 1)..Len(D) : D[j] < g

\* The walk visits only guards.  It comes to each guard up to k, and to every
\* guard if there is another turn, and then only to guards before that one.
LEMMA WalkVisits ==
  ASSUME NEW n \in Nat \ {0}, NEW k \in -1..(n - 1), NEW c \in Nat
  PROVE  /\ Walk(n, k, c) \in Seq(0..(n - 1))
         /\ \A g \in 0..(n - 1) : g <= k \/ c > 0 => LastVisits(Walk(n, k, c), g)
         /\ c = 0 => \A i \in 1..Len(Walk(n, k, c)) : Walk(n, k, c)[i] <= k
<1> DEFINE D == Down(k)  A == AllDown(n, c)  W == Walk(n, k, c)
<1>1. /\ D \in Seq(0..k) /\ Len(D) = k + 1
      /\ \A j \in 0..k : D[k + 1 - j] = j
  <2>1. k \in Int /\ k >= -1
    OBVIOUS
  <2> QED
    BY <2>1, DownVisits
<1>2. D \in Seq(0..(n - 1)) /\ A \in Seq(0..(n - 1)) /\ Len(A) = c * n /\ c * n \in Nat
  <2>1. A \in Seq(0..(n - 1)) /\ Len(A) = c * n /\ c * n \in Nat
    BY AllDownVisits, Turns
  <2>2. D \in Seq(0..(n - 1))
    BY DEF Down
  <2> QED
    BY <2>1, <2>2
<1>3. /\ W \in Seq(0..(n - 1)) /\ Len(W) = k + 1 + c * n
      /\ \A i \in 1..(k + 1) : W[i] = D[i]
      /\ \A i \in 1..(c * n) : W[k + 1 + i] = A[i]
  <2>1. W = D \o A
    BY DEF Walk
  <2> HIDE DEF D, A, W
  <2>2. D \in Seq(0..(n - 1)) /\ A \in Seq(0..(n - 1))
    BY <1>2
  <2>3. /\ D \o A \in Seq(0..(n - 1)) /\ Len(D \o A) = Len(D) + Len(A)
        /\ \A i \in 1..Len(D) : (D \o A)[i] = D[i]
        /\ \A i \in 1..Len(A) : (D \o A)[Len(D) + i] = A[i]
    BY <2>2
  <2>4. /\ W \in Seq(0..(n - 1)) /\ Len(W) = Len(D) + Len(A)
        /\ \A i \in 1..Len(D) : W[i] = D[i]
        /\ \A i \in 1..Len(A) : W[Len(D) + i] = A[i]
    BY <2>1, <2>3
  <2> QED
    BY <1>1, <1>2, <2>4
<1>4. ASSUME c = 0
      PROVE  /\ Len(W) = k + 1 /\ \A i \in 1..(k + 1) : W[i] = k + 1 - i
  BY <1>3, <1>4 DEF Down
<1>5. ASSUME NEW g \in 0..(n - 1), g <= k \/ c > 0
      PROVE  LastVisits(W, g)
  <2>1. CASE c = 0
    <3>1. k + 1 - g \in 1..Len(W) /\ W[k + 1 - g] = g
      BY <1>4, <1>5, <2>1
    <3>2. \A j \in (k + 1 - g + 1)..Len(W) : W[j] < g
      BY <1>4, <1>5, <2>1
    <3> HIDE DEF W
    <3> QED
      BY <3>1, <3>2 DEF LastVisits
  <2>2. CASE c > 0
    <3> DEFINE at == (c - 1) * n + (n - g)
    <3>1. /\ at \in 1..(c * n) /\ A[at] = g
          /\ \A i \in (at + 1)..(c * n) : A[i] < g
      BY <2>2, AllDownVisits
    <3> HIDE DEF at, A, W, D
    <3>2. k + 1 + at \in 1..Len(W) /\ W[k + 1 + at] = g
      BY <1>2, <1>3, <3>1
    <3>3. ASSUME NEW j \in (k + 1 + at + 1)..Len(W) PROVE W[j] < g
      <4> DEFINE i == j - (k + 1)
      <4>1. i \in (at + 1)..(c * n) /\ i \in 1..(c * n) /\ k + 1 + i = j
        BY <1>2, <1>3, <3>1, <3>3
      <4> HIDE DEF i
      <4> QED
        BY <1>3, <3>1, <4>1
    <3> QED
      BY <3>2, <3>3 DEF LastVisits
  <2> QED
    BY <2>1, <2>2
<1> HIDE DEF W
<1>6. c = 0 => \A i \in 1..Len(W) : W[i] <= k
  BY <1>4
<1> QED
  BY <1>3, <1>5, <1>6 DEF W

\* disable_guards is such a walk, or nothing at all.
LEMMA OrderIsWalk ==
  ASSUME NEW n \in Nat, NEW next \in 0..n, NEW sel \in -1..(n - 1)
  PROVE  /\ sel = next => DisableOrder(n, next, sel) = << >>
         /\ sel < next /\ sel = NoneSelected =>
               DisableOrder(n, next, sel) = Walk(n, next - 1, n - next)
         /\ sel < next /\ sel # NoneSelected =>
               DisableOrder(n, next, sel) = Walk(n, sel - 1, n - next)
         /\ sel > next => DisableOrder(n, next, sel) = Walk(n, sel - 1, sel - next - 1)
<1>1. /\ sel < next => ~(sel = next) /\ ~(sel > next)
      /\ sel > next => ~(sel = next) /\ ~(sel < next)
      /\ sel = next => ~(sel < next) /\ ~(sel > next)
  OBVIOUS
<1> QED
  BY <1>1, Zenon DEF DisableOrder, Walk

\* A selection without guards disables nothing.
LEMMA EmptyOrder == DisableOrder(0, 0, NoneSelected) = << >>
<1>1. NoneSelected = -1 /\ -1 < 0 /\ 0 \in 0..0 /\ -1 \in -1..(0 - 1)
  BY DEF NoneSelected
<1>2. DisableOrder(0, 0, NoneSelected) = Walk(0, 0 - 1, 0 - 0)
  BY <1>1, OrderIsWalk
<1>3. Down(0 - 1) = << >> /\ AllDown(0, 0 - 0) = << >>
  BY DEF Down, AllDown
<1> QED
  BY <1>2, <1>3 DEF Walk

\* The guards that a selection of n guards from next on has enabled when it
\* has chosen guard sel, or none.
Enabled(next, sel, g) ==
  \/ sel = NoneSelected
  \/ sel > next /\ next <= g /\ g < sel
  \/ sel < next /\ (next <= g \/ g < sel)

\* A selection disables only guards that exist, and every one it has enabled.
THEOREM DisablesEnabled ==
  ASSUME NEW n \in Nat \ {0}, NEW next \in 0..n, NEW sel \in -1..(n - 1)
  PROVE  /\ DisableOrder(n, next, sel) \in Seq(0..(n - 1))
         /\ \A g \in 0..(n - 1) : Enabled(next, sel, g) =>
               \E i \in 1..Len(DisableOrder(n, next, sel)) :
                  DisableOrder(n, next, sel)[i] = g
<1> USE DEF NoneSelected
<1>1. CASE sel = next
  <2>1. DisableOrder(n, next, sel) = << >>
    BY <1>1, OrderIsWalk
  <2> QED
    BY <1>1, <2>1 DEF Enabled
<1>2. ASSUME NEW k \in -1..(n - 1), NEW c \in Nat,
             DisableOrder(n, next, sel) = Walk(n, k, c),
             \A g \in 0..(n - 1) : Enabled(next, sel, g) => g <= k \/ c > 0
      PROVE  /\ DisableOrder(n, next, sel) \in Seq(0..(n - 1))
             /\ \A g \in 0..(n - 1) : Enabled(next, sel, g) =>
                   \E i \in 1..Len(DisableOrder(n, next, sel)) :
                      DisableOrder(n, next, sel)[i] = g
  <2> DEFINE D == Walk(n, k, c)
  <2>1. /\ D \in Seq(0..(n - 1))
        /\ \A g \in 0..(n - 1) : g <= k \/ c > 0 => LastVisits(D, g)
    BY WalkVisits
  <2> HIDE DEF D
  <2> QED
    BY <1>2, <2>1 DEF LastVisits, D
<1>3. CASE sel < next /\ sel = NoneSelected
  <2>1. DisableOrder(n, next, sel) = Walk(n, next - 1, n - next)
    BY <1>3, OrderIsWalk
  <2>2. next - 1 \in -1..(n - 1) /\ n - next \in Nat
    BY <1>3
  <2>3. \A g \in 0..(n - 1) : g <= next - 1 \/ n - next > 0
    BY <1>3
  <2> QED
    BY <1>2, <2>1, <2>2, <2>3
<1>4. CASE sel < next /\ sel # NoneSelected
  <2>1. DisableOrder(n, next, sel) = Walk(n, sel - 1, n - next)
    BY <1>4, OrderIsWalk
  <2>2. sel - 1 \in -1..(n - 1) /\ n - next \in Nat
    BY <1>4
  <2>3. \A g \in 0..(n - 1) : Enabled(next, sel, g) => g <= sel - 1 \/ n - next > 0
    BY <1>4 DEF Enabled
  <2> QED
    BY <1>2, <2>1, <2>2, <2>3
<1>5. CASE sel > next
  <2>1. DisableOrder(n, next, sel) = Walk(n, sel - 1, sel - next - 1)
    BY <1>5, OrderIsWalk
  <2>2. sel - 1 \in -1..(n - 1) /\ sel - next - 1 \in Nat
    BY <1>5
  <2>3. \A g \in 0..(n - 1) :
           Enabled(next, sel, g) => g <= sel - 1 \/ sel - next - 1 > 0
    BY <1>5 DEF Enabled
  <2> QED
    BY <1>2, <2>1, <2>2, <2>3
<1> QED
  BY <1>1, <1>3, <1>4, <1>5

\* In a priority selection (from guard 0) that has chosen guard sel the walk
\* stays below sel, or comes to sel once more and stays below it from then on.
THEOREM PriorityWalk ==
  ASSUME NEW n \in Nat \ {0}, NEW sel \in 0..(n - 1)
  PROVE  LET D == DisableOrder(n, 0, sel) IN
         \/ \A i \in 1..Len(D) : D[i] <= sel
         \/ \E i \in 1..Len(D) : D[i] = sel /\ \A j \in (i + 1)..Len(D) : D[j] <= sel
<1> DEFINE D == DisableOrder(n, 0, sel)
<1>1. CASE sel = 0
  <2>1. D = << >>
    BY <1>1, OrderIsWalk
  <2> QED
    BY <2>1
<1>2. CASE sel > 0
  <2> DEFINE k == sel - 1
  <2>1. D = Walk(n, k, k)
    BY <1>2, OrderIsWalk
  <2>2. k \in -1..(n - 1) /\ k \in Nat /\ sel = k + 1
    BY <1>2
  <2> HIDE DEF D, k
  <2>3. /\ D \in Seq(0..(n - 1)) /\ \A i \in 1..Len(D) : D[i] \in 0..(n - 1)
        /\ k > 0 => LastVisits(D, sel)
        /\ k = 0 => \A i \in 1..Len(D) : D[i] <= k
    <3>1. /\ D \in Seq(0..(n - 1))
          /\ \A g \in 0..(n - 1) : g <= k \/ k > 0 => LastVisits(D, g)
          /\ k = 0 => \A i \in 1..Len(D) : D[i] <= k
      BY <2>1, <2>2, WalkVisits
    <3> QED
      BY <3>1
  <2>4. CASE k = 0
    <3>1. \A i \in 1..Len(D) : D[i] <= sel
      BY <2>2, <2>3, <2>4
    <3> QED
      BY <3>1 DEF D
  <2>5. CASE k > 0
    <3>1. PICK i \in 1..Len(D) :
             D[i] = sel /\ \A j \in (i + 1)..Len(D) : D[j] < sel
      BY <2>3, <2>5 DEF LastVisits
    <3>2. \A j \in (i + 1)..Len(D) : D[j] <= sel
      BY <2>3, <3>1
    <3> QED
      BY <3>1, <3>2 DEF D
  <2> QED
    BY <2>2, <2>4, <2>5
<1> QED
  BY <1>1, <1>2
=============================================================================
