---------------------------- MODULE NetworkProofs ----------------------------
(***************************************************************************)
(* Proofs about Network: the philosophers, for every size of the table, and*)
(* the farm, for every number of lines and of workers.                     *)
(***************************************************************************)
EXTENDS Network, FiniteSetTheorems, TLAPS

N == Philosophers

\* The philosopher on the other side of fork i.
Beside(i) == (i % N) + 1

Left(i)  == <<"left", i>>
Right(i) == <<"right", i>>
Down     == <<"down">>
Up       == <<"up">>
ToPrint  == <<"report">>

PhilOf(i) == Phil(i, Left(i), Right(i), Down, Up, ToPrint)
ForkOf(i) == Fork(Left(i), Right(Beside(i)))
Guard     == Security(Down, Up)
Paper     == Printer(ToPrint)

LEMMA BesideIs ==
  ASSUME NEW i \in 1..N
  PROVE  Beside(i) = IF i = N THEN 1 ELSE i + 1
<1>1. N \in Nat /\ N >= 2
  BY TableAssumption DEF N
<1>2. CASE i = N
  <2>1. N % N = 0
    BY <1>1
  <2> QED BY <1>2, <2>1 DEF Beside
<1>3. CASE i # N
  <2>1. i % N = i
    BY <1>1, <1>3
  <2> QED BY <1>1, <1>3, <2>1 DEF Beside
<1> QED
  BY <1>2, <1>3

LEMMA Table ==
  /\ DiningPhil.watch = << >>
  /\ DOMAIN DiningPhil.procs = 1..(2 * N + 2)
  /\ \A i \in 1..N : DiningPhil.procs[i] = PhilOf(i) /\ DiningPhil.procs[N + i] = ForkOf(i)
  /\ DiningPhil.procs[2 * N + 1] = Guard
  /\ DiningPhil.procs[2 * N + 2] = Paper
<1> DEFINE ps == [i \in 1..N |-> PhilOf(i)]
           fs == [i \in 1..N |-> ForkOf(i)]
<1>0. N \in Nat
  BY TableAssumption DEF N
<1>1. DiningPhil.watch = << >> /\ DiningPhil.procs = ps \o fs \o <<Guard, Paper>>
  BY DEF DiningPhil, Network, PhilOf, ForkOf, Guard, Paper, Left, Right, Down, Up, ToPrint, Beside, N
<1>2. Len(ps) = N /\ Len(fs) = N
  BY <1>0
<1> QED
  BY <1>0, <1>1, <1>2

-----------------------------------------------------------------------------
(* What the processes do in each phase.                                    *)

Reading(x, k) == [kind |-> "in", chan |-> x, vars |-> <<"x">>, set |-> << >>, to |-> k]
Writing(x, v) == [kind |-> "out", chan |-> x, vals |-> v, set |-> << >>, to |-> 0]

\* FORK.
LEMMA ForkPhases ==
  ASSUME NEW s \in Store, NEW i
  PROVE  LET b == ForkOf(i).body[s] IN
         /\ ForkOf(i).loop = 1 /\ Len(b) = 3
         /\ b[1] = [one |-> TRUE, comms |->
                      <<Reading(Left(i), 2), Reading(Right(Beside(i)), 3)>>]
         /\ b[2] = [one |-> FALSE, comms |-> <<Reading(Left(i), 1)>>]
         /\ b[3] = [one |-> FALSE, comms |-> <<Reading(Right(Beside(i)), 1)>>]
<1>1. ASSUME NEW x, NEW k PROVE [In(x, <<"x">>) EXCEPT !.to = k] = Reading(x, k)
  BY DEF In, Reading
<1>2. ASSUME NEW x, NEW k
      PROVE  Goto(k, Read(x, "x")) = [one |-> FALSE, comms |-> <<Reading(x, k)>>]
  <2> DEFINE c == In(x, <<"x">>)
             ph == [one |-> FALSE, comms |-> <<c>>]
  <2>1. Read(x, "x") = ph
    BY DEF Read, All
  <2>2. [c EXCEPT !.to = k] = Reading(x, k)
    BY <1>1
  <2> HIDE DEF c
  <2>3. [j \in DOMAIN ph.comms |-> [ph.comms[j] EXCEPT !.to = k]] = <<Reading(x, k)>>
    BY <2>2
  <2>4. Goto(k, ph) = [ph EXCEPT !.comms = [j \in DOMAIN ph.comms |-> [ph.comms[j] EXCEPT !.to = k]]]
    BY DEF Goto
  <2>5. Goto(k, ph) = [ph EXCEPT !.comms = <<Reading(x, k)>>]
    BY <2>3, <2>4
  <2> QED
    BY <2>1, <2>5
<1> QED
  BY <1>1, <1>2 DEF ForkOf, Fork, Loop, LoopFrom, One

\* SECURITY.
LEMMA GuardPhases ==
  ASSUME NEW s \in Store
  PROVE  LET b == Guard.body[s]
             down == [Reading(Down, 0) EXCEPT !.set = [n |-> s.n + 1]]
             up == [Reading(Up, 0) EXCEPT !.set = [n |-> s.n - 1]]
         IN  /\ Guard.loop = 1 /\ Len(b) = 1
             /\ b[1] = [one |-> TRUE, comms |-> IF s.n < N - 1 THEN <<down, up>> ELSE <<up>>]
BY DEF Guard, Security, Loop, LoopFrom, One, In, Reading, N

\* printer.
LEMMA PaperPhases ==
  ASSUME NEW s \in Store
  PROVE  LET b == Paper.body[s] IN
         /\ Paper.loop = 1 /\ Len(b) = 1
         /\ b[1] = [one |-> FALSE, comms |->
               <<[kind |-> "in", chan |-> ToPrint, vars |-> << >>, set |-> << >>, to |-> 0]>>]
BY DEF Paper, Printer, Loop, LoopFrom, All, In

Zero == [x |-> 0, y |-> 0, i |-> 0, n |-> 0]

LEMMA ZeroStored == Zero \in Store
BY DEF Zero, Store

PhilComms(i, k) == PhilOf(i).body[Zero][k].comms

\* PHIL.
LEMMA PhilPhases ==
  ASSUME NEW i, NEW k \in 1..11
  PROVE  LET b == PhilOf(i).body[Zero] IN
         /\ PhilOf(i).loop = 1 /\ Len(b) = 11 /\ b[k].one = FALSE
         /\ k \in {1, 3, 5, 7, 9} => \E w : PhilComms(i, k) = <<Writing(ToPrint, <<i, w>>)>>
         /\ k \in {2, 8} => PhilComms(i, k) = <<Tau>>
         /\ k = 4 => PhilComms(i, k) = <<Writing(Down, <<i>>)>>
         /\ k \in {6, 10} =>
               PhilComms(i, k) = <<Writing(Left(i), <<i>>), Writing(Right(i), <<i>>)>>
         /\ k = 11 => PhilComms(i, k) = <<Writing(Up, <<i>>)>>
<1> DEFINE b == PhilOf(i).body[Zero]
           Rep(w) == All(<<Out(ToPrint, <<i, w>>)>>)
           Both == ParWrite(<<Left(i), Right(i)>>, <<i, i>>)
<1>1. /\ PhilOf(i).loop = 1
      /\ b = << Rep(0), Sleep, Rep(1), Write(Down, i), Rep(2), Both,
                Rep(3), Sleep, Rep(4), Both, Write(Up, i) >>
  BY ZeroStored DEF PhilOf, Phil, Loop, LoopFrom
<1>2. ASSUME NEW w PROVE Rep(w) = [one |-> FALSE, comms |-> <<Writing(ToPrint, <<i, w>>)>>]
  BY DEF All, Out, Writing
<1>3. ASSUME NEW x PROVE Write(x, i) = [one |-> FALSE, comms |-> <<Writing(x, <<i>>)>>]
  BY DEF Write, All, Out, Writing
<1>4. Sleep = [one |-> FALSE, comms |-> <<Tau>>]
  BY DEF Sleep, All
<1>5. Both = [one |-> FALSE, comms |-> <<Writing(Left(i), <<i>>), Writing(Right(i), <<i>>)>>]
  <2> DEFINE o == <<Left(i), Right(i)>>
             v == <<i, i>>
  <2>1. DOMAIN o = 1..2 /\ o[1] = Left(i) /\ o[2] = Right(i) /\ v[1] = i /\ v[2] = i
    OBVIOUS
  <2>2. Both = [one |-> FALSE, comms |-> [j \in DOMAIN o |-> Writing(o[j], <<v[j]>>)]]
    BY DEF ParWrite, All, Out, Writing
  <2> HIDE DEF o, v
  <2>3. [j \in DOMAIN o |-> Writing(o[j], <<v[j]>>)]
          = <<Writing(Left(i), <<i>>), Writing(Right(i), <<i>>)>>
    BY <2>1
  <2> QED
    BY <2>2, <2>3
<1> HIDE DEF Rep, Both
<1>6. Len(b) = 11
  BY <1>1
<1>7. /\ b[1] = Rep(0) /\ b[3] = Rep(1) /\ b[5] = Rep(2) /\ b[7] = Rep(3) /\ b[9] = Rep(4)
      /\ b[2] = Sleep /\ b[8] = Sleep /\ b[6] = Both /\ b[10] = Both
      /\ b[4] = Write(Down, i) /\ b[11] = Write(Up, i)
  BY <1>1
<1> HIDE DEF b
<1> QED
  <2>0. k \in {1, 3, 5, 7, 9} \/ k \in {2, 8} \/ k \in {6, 10} \/ k \in {4, 11}
    OBVIOUS
  <2>1. CASE k \in {1, 3, 5, 7, 9}
    <3>1. PICK w : b[k] = Rep(w)
      BY <2>1, <1>7
    <3>2. b[k].one = FALSE /\ b[k].comms = <<Writing(ToPrint, <<i, w>>)>>
      BY <3>1, <1>2
    <3>3. k \notin {2, 8} /\ k # 4 /\ k \notin {6, 10} /\ k # 11
      BY <2>1
    <3> QED
      BY <3>2, <3>3, <1>1, <1>6 DEF PhilComms, b
  <2>2. CASE k \in {2, 8}
    BY <2>2, <1>1, <1>4, <1>6, <1>7 DEF PhilComms, b
  <2>3. CASE k \in {6, 10}
    BY <2>3, <1>1, <1>5, <1>6, <1>7 DEF PhilComms, b
  <2>4. CASE k \in {4, 11}
    BY <2>4, <1>1, <1>3, <1>6, <1>7 DEF PhilComms, b
  <2> QED
    BY <2>0, <2>1, <2>2, <2>3, <2>4, Zenon

-----------------------------------------------------------------------------
(* What a communication does to the variables of a process.                *)

\* Nothing: a process that writes, waits or prints keeps its variables.
LEMMA ReceivedNothing ==
  ASSUME NEW s \in Store, NEW c, NEW vals, c.set = << >>,
         c.kind # "in" \/ c.vars = << >>
  PROVE  Received(s, c, vals) = s
<1>1. DOMAIN c.set = {}
  OBVIOUS
<1>2. ASSUME NEW v PROVE {k \in IF c.kind = "in" THEN DOMAIN c.vars ELSE {} : c.vars[k] = v} = {}
  OBVIOUS
<1>3. Received(s, c, vals) = [v \in DOMAIN s |-> s[v]]
  BY <1>1, <1>2 DEF Received
<1> QED
  BY <1>3 DEF Store

\* What is assigned or read goes into the variable it is for.
LEMMA ReceivedVar ==
  ASSUME NEW s \in Store, NEW c, NEW v, c.kind = "in", c.vars = <<"x">>,
         NEW w \in {"x", "y", "i", "n"}
  PROVE  /\ DOMAIN Received(s, c, <<v>>) = {"x", "y", "i", "n"}
         /\ Received(s, c, <<v>>)[w] = IF w \in DOMAIN c.set THEN c.set[w]
                                       ELSE IF w = "x" THEN v ELSE s[w]
<1> DEFINE read(u) == {k \in IF c.kind = "in" THEN DOMAIN c.vars ELSE {} : c.vars[k] = u}
<1>1. read("x") = {1} /\ read("y") = {} /\ read("i") = {} /\ read("n") = {}
  OBVIOUS
<1>2. DOMAIN s = {"x", "y", "i", "n"}
  BY DEF Store
<1>3. (CHOOSE k \in read("x") : TRUE) = 1
  <2>1. (CHOOSE k \in {1} : TRUE) = 1
    OBVIOUS
  <2> QED
    BY <1>1, <2>1
<1>4. Received(s, c, <<v>>) =
        [u \in DOMAIN s |->
            IF u \in DOMAIN c.set THEN c.set[u]
            ELSE IF read(u) # {} THEN <<v>>[CHOOSE k \in read(u) : TRUE] ELSE s[u]]
  BY DEF Received
<1> HIDE DEF read
<1> QED
  BY <1>1, <1>2, <1>3, <1>4

\* A function on the names of the variables to numbers is a store.
LEMMA IsStore ==
  ASSUME NEW f, f = [w \in DOMAIN f |-> f[w]], DOMAIN f = {"x", "y", "i", "n"},
         f["x"] \in Int, f["y"] \in Int, f["i"] \in Int, f["n"] \in Int
  PROVE  f \in Store
BY DEF Store

LEMMA ReceivedX ==
  ASSUME NEW s \in Store, NEW c, NEW v \in Int, c.kind = "in", c.vars = <<"x">>, c.set = << >>
  PROVE  Received(s, c, <<v>>) \in Store /\ Received(s, c, <<v>>).x = v
<1> DEFINE t == Received(s, c, <<v>>)
<1>1. t = [w \in DOMAIN t |-> t[w]]
  BY DEF Received
<1>2. DOMAIN c.set = {}
  OBVIOUS
<1>3. s["x"] \in Int /\ s["y"] \in Int /\ s["i"] \in Int /\ s["n"] \in Int
  BY DEF Store
<1>4. DOMAIN t = {"x", "y", "i", "n"} /\ t["x"] = v /\ t["y"] = s["y"] /\ t["i"] = s["i"]
      /\ t["n"] = s["n"]
  BY <1>2, ReceivedVar
<1> HIDE DEF t
<1>5. t \in Store
  BY <1>1, <1>3, <1>4, IsStore
<1> QED
  BY <1>4, <1>5 DEF t

LEMMA ReceivedXN ==
  ASSUME NEW s \in Store, NEW c, NEW v \in Int, NEW m \in Int,
         c.kind = "in", c.vars = <<"x">>, c.set = [n |-> m]
  PROVE  Received(s, c, <<v>>) \in Store /\ Received(s, c, <<v>>).n = m
<1> DEFINE t == Received(s, c, <<v>>)
<1>1. t = [w \in DOMAIN t |-> t[w]]
  BY DEF Received
<1>2. DOMAIN c.set = {"n"} /\ c.set["n"] = m
  OBVIOUS
<1>3. s["x"] \in Int /\ s["y"] \in Int /\ s["i"] \in Int
  BY DEF Store
<1>4. DOMAIN t = {"x", "y", "i", "n"} /\ t["x"] = v /\ t["y"] = s["y"] /\ t["i"] = s["i"]
      /\ t["n"] = m
  BY <1>2, ReceivedVar
<1> HIDE DEF t
<1>5. t \in Store
  BY <1>1, <1>3, <1>4, IsStore
<1> QED
  BY <1>4, <1>5 DEF t

-----------------------------------------------------------------------------
(* The inductive invariant.                                                *)

\* Philosopher i is in a phase of its run, some of whose communications have
\* still to happen.
PhilState(i, r) ==
    /\ r = [at |-> r.at, store |-> Zero, one |-> FALSE, left |-> r.left]
    /\ r.at \in 1..11
    /\ DOMAIN r.left # {} /\ DOMAIN r.left \subseteq DOMAIN PhilComms(i, r.at)
    /\ \A j \in DOMAIN r.left : r.left[j] = PhilComms(i, r.at)[j]

\* The others are at the beginning of a phase.
ForkState(i, r) ==
    r.at \in 1..3 /\ r.store \in Store /\ r = At(ForkOf(i), r.at, r.store)
GuardState(r) == r.store \in Store /\ r = At(Guard, 1, r.store)
PaperState(r) == r.store \in Store /\ r = At(Paper, 1, r.store)

\* A philosopher has picked up a fork and not put it down: its first message
\* to the fork has been read and the second has not.
Holds(r, j) ==
    \/ r.at = 6 /\ j \notin DOMAIN r.left
    \/ r.at \in Eating
    \/ r.at = 10 /\ j \in DOMAIN r.left

Seated == {i \in 1..N : proc[i].at \in 5..11}

States ==
    /\ DOMAIN proc = 1..(2 * N + 2) /\ DOMAIN got = {}
    /\ \A i \in 1..N : PhilState(i, proc[i]) /\ ForkState(i, proc[N + i])
    /\ GuardState(proc[2 * N + 1]) /\ PaperState(proc[2 * N + 2])

\* A fork waits for a second message of whoever holds it.
ForksHeld ==
    \A i \in 1..N :
        /\ proc[N + i].at = 2 <=> Holds(proc[i], 1)
        /\ proc[N + i].at = 3 <=> Holds(proc[Beside(i)], 2)

\* SECURITY counts those who sit, and leaves a seat empty.
SeatsCounted ==
    LET n == proc[2 * N + 1].store.n IN n = Cardinality(Seated) /\ n <= N - 1

IInv == net = "diningphil" => States /\ ForksHeld /\ SeatsCounted

-----------------------------------------------------------------------------
(* What each process offers.                                               *)

LEMMA PhilOffers ==
  ASSUME NEW i, NEW r, PhilState(i, r)
  PROVE  /\ r.at \notin {6, 10} => DOMAIN r.left = {1}
         /\ r.at \in {6, 10} => DOMAIN r.left \subseteq {1, 2}
         /\ \A j \in DOMAIN r.left :
               LET c == r.left[j] IN
               /\ c.set = << >> /\ c.to = 0
               /\ r.at \in {2, 8} => c.kind = "tau"
               /\ r.at \notin {2, 8} => c.kind = "out"
               /\ r.at \in {1, 3, 5, 7, 9} => c.chan = ToPrint
               /\ r.at = 4 => c.chan = Down /\ c.vals = <<i>>
               /\ r.at = 11 => c.chan = Up /\ c.vals = <<i>>
               /\ r.at \in {6, 10} => /\ c.vals = <<i>>
                                      /\ (j = 1 /\ c.chan = Left(i)) \/ (j = 2 /\ c.chan = Right(i))
<1>1. r.at \in 1..11 /\ DOMAIN r.left # {} /\ DOMAIN r.left \subseteq DOMAIN PhilComms(i, r.at)
      /\ \A j \in DOMAIN r.left : r.left[j] = PhilComms(i, r.at)[j]
  BY DEF PhilState
<1>2. r.at \in {1, 3, 5, 7, 9} \/ r.at \in {2, 8} \/ r.at \in {6, 10} \/ r.at \in {4, 11}
  BY <1>1
<1>3. CASE r.at \in {1, 3, 5, 7, 9}
  <2>1. PICK w : PhilComms(i, r.at) = <<Writing(ToPrint, <<i, w>>)>>
    BY <1>1, <1>3, PhilPhases
  <2> QED
    BY <1>1, <1>3, <2>1 DEF Writing
<1>4. CASE r.at \in {2, 8}
  <2>1. PhilComms(i, r.at) = <<Tau>>
    BY <1>1, <1>4, PhilPhases
  <2> QED
    BY <1>1, <1>4, <2>1 DEF Tau
<1>5. CASE r.at \in {6, 10}
  <2>1. PhilComms(i, r.at) = <<Writing(Left(i), <<i>>), Writing(Right(i), <<i>>)>>
    BY <1>1, <1>5, PhilPhases
  <2>2. DOMAIN PhilComms(i, r.at) = {1, 2}
    BY <2>1
  <2> QED
    BY <1>1, <1>5, <2>1, <2>2 DEF Writing
<1>6. CASE r.at \in {4, 11}
  <2>1. \/ r.at = 4 /\ PhilComms(i, r.at) = <<Writing(Down, <<i>>)>>
        \/ r.at = 11 /\ PhilComms(i, r.at) = <<Writing(Up, <<i>>)>>
    BY <1>1, <1>6, PhilPhases
  <2> QED
    BY <1>1, <1>6, <2>1 DEF Writing
<1> QED
  BY <1>2, <1>3, <1>4, <1>5, <1>6

LEMMA ForkOffers ==
  ASSUME NEW i, NEW r, ForkState(i, r)
  PROVE  /\ r.one \/ DOMAIN r.left = {1}
         /\ r.at = 1 => DOMAIN r.left = {1, 2}
         /\ r.at = 1 => r.left[1] = Reading(Left(i), 2) /\ r.left[2] = Reading(Right(Beside(i)), 3)
         /\ r.at # 1 => DOMAIN r.left = {1}
         /\ r.at = 2 => r.left[1] = Reading(Left(i), 1)
         /\ r.at = 3 => r.left[1] = Reading(Right(Beside(i)), 1)
<1>1. r.at \in 1..3 /\ r.store \in Store
      /\ r.one = ForkOf(i).body[r.store][r.at].one /\ r.left = ForkOf(i).body[r.store][r.at].comms
  BY DEF ForkState, At
<1>2. CASE r.at = 1
  <2>0. ForkOf(i).body[r.store][1] = [one |-> TRUE, comms |-> <<Reading(Left(i), 2), Reading(Right(Beside(i)), 3)>>]
    BY <1>1, ForkPhases
  <2>1. r.one = TRUE /\ r.left = <<Reading(Left(i), 2), Reading(Right(Beside(i)), 3)>>
    BY <1>1, <1>2, <2>0
  <2> QED
    BY <1>2, <2>1
<1>3. CASE r.at = 2
  <2>0. ForkOf(i).body[r.store][2] = [one |-> FALSE, comms |-> <<Reading(Left(i), 1)>>]
    BY <1>1, ForkPhases
  <2>1. r.left = <<Reading(Left(i), 1)>>
    BY <1>1, <1>3, <2>0
  <2> QED
    BY <1>3, <2>1
<1>4. CASE r.at = 3
  <2>0. ForkOf(i).body[r.store][3] = [one |-> FALSE, comms |-> <<Reading(Right(Beside(i)), 1)>>]
    BY <1>1, ForkPhases
  <2>1. r.left = <<Reading(Right(Beside(i)), 1)>>
    BY <1>1, <1>4, <2>0
  <2> QED
    BY <1>4, <2>1
<1>5. r.at = 1 \/ r.at = 2 \/ r.at = 3
  BY <1>1
<1> QED
  BY <1>2, <1>3, <1>4, <1>5

LEMMA ForkReads ==
  ASSUME NEW i, NEW r, ForkState(i, r), NEW m \in DOMAIN r.left
  PROVE  LET e == r.left[m] IN
         /\ e.kind = "in"
         /\ \/ r.at = 1 /\ e.chan = Left(i) /\ e.to = 2
            \/ r.at = 1 /\ e.chan = Right(Beside(i)) /\ e.to = 3
            \/ r.at = 2 /\ e.chan = Left(i) /\ e.to = 1
            \/ r.at = 3 /\ e.chan = Right(Beside(i)) /\ e.to = 1
<1>1. r.at = 1 \/ r.at = 2 \/ r.at = 3
  BY DEF ForkState
<1>2. \/ r.at = 1 /\ r.left[m] = Reading(Left(i), 2)
      \/ r.at = 1 /\ r.left[m] = Reading(Right(Beside(i)), 3)
      \/ r.at = 2 /\ r.left[m] = Reading(Left(i), 1)
      \/ r.at = 3 /\ r.left[m] = Reading(Right(Beside(i)), 1)
  BY <1>1, ForkOffers
<1>3. ASSUME NEW x, NEW k
      PROVE  Reading(x, k).kind = "in" /\ Reading(x, k).chan = x /\ Reading(x, k).to = k
  BY DEF Reading
<1> QED
  BY <1>2, <1>3

LEMMA GuardOffers ==
  ASSUME NEW r, GuardState(r)
  PROVE  LET n == r.store.n
             down == [Reading(Down, 0) EXCEPT !.set = [n |-> n + 1]]
             up == [Reading(Up, 0) EXCEPT !.set = [n |-> n - 1]]
         IN  /\ n \in Int /\ r.at = 1 /\ r.one = TRUE
             /\ n < N - 1 => r.left = <<down, up>>
             /\ ~(n < N - 1) => r.left = <<up>>
<1>1. r.store \in Store /\ r.at = 1 /\ r.one = Guard.body[r.store][1].one
      /\ r.left = Guard.body[r.store][1].comms
  BY DEF GuardState, At
<1>2. r.store.n \in Int
  BY <1>1 DEF Store
<1> DEFINE down == [Reading(Down, 0) EXCEPT !.set = [n |-> r.store.n + 1]]
           up == [Reading(Up, 0) EXCEPT !.set = [n |-> r.store.n - 1]]
<1>3. Guard.body[r.store][1] =
        [one |-> TRUE, comms |-> IF r.store.n < N - 1 THEN <<down, up>> ELSE <<up>>]
  BY <1>1, GuardPhases
<1> HIDE DEF down, up
<1>4. r.one = TRUE /\ r.left = IF r.store.n < N - 1 THEN <<down, up>> ELSE <<up>>
  BY <1>1, <1>3
<1> QED
  BY <1>1, <1>2, <1>4 DEF down, up

LEMMA PaperOffers ==
  ASSUME NEW r, PaperState(r)
  PROVE  /\ r.at = 1
         /\ r.left = <<[kind |-> "in", chan |-> ToPrint, vars |-> << >>, set |-> << >>, to |-> 0]>>
<1>1. r.store \in Store /\ r.at = 1 /\ r.left = Paper.body[r.store][1].comms
  BY DEF PaperState, At
<1> QED
  BY <1>1, PaperPhases

\* No two channels are the same.
LEMMA ChannelsDiffer ==
  ASSUME NEW i, NEW j
  PROVE  /\ Left(i) = Left(j) => i = j
         /\ Right(i) = Right(j) => i = j
         /\ Left(i) # Right(j)
         /\ Left(i) \notin {Down, Up, ToPrint} /\ Right(i) \notin {Down, Up, ToPrint}
         /\ Down # Up /\ Down # ToPrint /\ Up # ToPrint
BY DEF Left, Right, Down, Up, ToPrint

-----------------------------------------------------------------------------
(* What a communication makes of each process.                             *)

\* A process whose phase is over goes to the phase it says, or to the next.
LEMMA DidTo ==
  ASSUME NEW p, NEW j, NEW vals, proc[p].one \/ DOMAIN proc[p].left = {j},
         NEW pr, Nets[net].procs[p] = pr,
         NEW s, Received(proc[p].store, proc[p].left[j], vals) = s,
         proc[p].left[j].to # 0
  PROVE  Did(p, j, vals) = At(pr, proc[p].left[j].to, s)
BY DEF Did

LEMMA DidNext ==
  ASSUME NEW p, NEW j, NEW vals, proc[p].one \/ DOMAIN proc[p].left = {j},
         NEW pr, Nets[net].procs[p] = pr,
         NEW s, Received(proc[p].store, proc[p].left[j], vals) = s,
         proc[p].left[j].to = 0
  PROVE  Did(p, j, vals) = At(pr, IF proc[p].at = Len(pr.body[s]) THEN pr.loop
                                  ELSE proc[p].at + 1, s)
BY DEF Did

LEMMA AtFields ==
  ASSUME NEW pr, NEW k, NEW s
  PROVE  At(pr, k, s).at = k /\ At(pr, k, s).store = s
BY DEF At

LEMMA ForkDid ==
  ASSUME Nets[net] = DiningPhil, NEW i \in 1..N, ForkState(i, proc[N + i]),
         NEW j \in DOMAIN proc[N + i].left, NEW v \in Int
  PROVE  LET d == Did(N + i, j, <<v>>) IN
         ForkState(i, d) /\ d.at = proc[N + i].left[j].to
<1> DEFINE r == proc[N + i]
           s == Received(r.store, r.left[j], <<v>>)
<1>1. PICK x, k : k \in 1..3 /\ r.left[j] = Reading(x, k)
  <2>1. r.at \in 1..3
    BY DEF ForkState
  <2>2. CASE r.at = 1
    BY <2>2, ForkOffers
  <2>3. CASE r.at = 2
    BY <2>3, ForkOffers
  <2>4. CASE r.at = 3
    BY <2>4, ForkOffers
  <2> QED
    BY <2>1, <2>2, <2>3, <2>4
<1>2. /\ r.left[j].kind = "in" /\ r.left[j].vars = <<"x">> /\ r.left[j].set = << >>
      /\ r.left[j].to = k /\ k # 0
  BY <1>1 DEF Reading
<1>3. r.store \in Store
  BY DEF ForkState
<1>5. s \in Store
  BY <1>2, <1>3, ReceivedX, Zenon
<1>6. r.one \/ DOMAIN r.left = {j}
  BY ForkOffers
<1>7. Nets[net].procs[N + i] = ForkOf(i)
  BY Table
<1> HIDE DEF s
<1>8. Did(N + i, j, <<v>>) = At(ForkOf(i), k, s)
  BY <1>2, <1>6, <1>7, DidTo DEF s
<1> DEFINE d == Did(N + i, j, <<v>>)
<1>9. d.at = k /\ d.store = s
  BY <1>8, AtFields
<1>10. d = At(ForkOf(i), d.at, d.store)
  BY <1>8, <1>9
<1> HIDE DEF d
<1> QED
  BY <1>1, <1>2, <1>5, <1>9, <1>10 DEF ForkState, d

LEMMA GuardDid ==
  ASSUME Nets[net] = DiningPhil, GuardState(proc[2 * N + 1]),
         NEW j \in DOMAIN proc[2 * N + 1].left, NEW v \in Int
  PROVE  LET r == proc[2 * N + 1]
             d == Did(2 * N + 1, j, <<v>>)
         IN  /\ GuardState(d)
             /\ \/ r.left[j].chan = Down /\ r.store.n < N - 1 /\ d.store.n = r.store.n + 1
                \/ r.left[j].chan = Up /\ d.store.n = r.store.n - 1
<1> DEFINE r == proc[2 * N + 1]
           s == Received(r.store, r.left[j], <<v>>)
<1>1. PICK x, m :
        /\ m \in Int /\ r.left[j] = [Reading(x, 0) EXCEPT !.set = [n |-> m]]
        /\ \/ x = Down /\ r.store.n < N - 1 /\ m = r.store.n + 1
           \/ x = Up /\ m = r.store.n - 1
  <2>1. CASE r.store.n < N - 1
    <3>1. r.left = << [Reading(Down, 0) EXCEPT !.set = [n |-> r.store.n + 1]],
                      [Reading(Up, 0) EXCEPT !.set = [n |-> r.store.n - 1]] >>
          /\ r.store.n \in Int
      BY <2>1, GuardOffers
    <3>2. r.store.n + 1 \in Int /\ r.store.n - 1 \in Int /\ (j = 1 \/ j = 2)
      BY <3>1
    <3>3. CASE j = 1
      BY <2>1, <3>1, <3>2, <3>3
    <3>4. CASE j = 2
      BY <2>1, <3>1, <3>2, <3>4
    <3> QED
      BY <3>2, <3>3, <3>4
  <2>2. CASE ~(r.store.n < N - 1)
    <3>1. r.left = << [Reading(Up, 0) EXCEPT !.set = [n |-> r.store.n - 1]] >>
          /\ r.store.n \in Int
      BY <2>2, GuardOffers
    <3>2. j = 1 /\ r.store.n - 1 \in Int
      BY <3>1
    <3> QED
      BY <3>1, <3>2
  <2> QED
    BY <2>1, <2>2
<1>2. /\ r.left[j].kind = "in" /\ r.left[j].vars = <<"x">> /\ r.left[j].set = [n |-> m]
      /\ r.left[j].to = 0 /\ r.left[j].chan = x
  BY <1>1 DEF Reading
<1>3. r.store \in Store /\ r.at = 1 /\ r.one = TRUE
  BY GuardOffers DEF GuardState
<1>4. m \in Int
  BY <1>1
<1>5. s \in Store /\ s.n = m
  <2>1. ASSUME NEW c, c = r.left[j], NEW z, z = r.store
        PROVE  Received(z, c, <<v>>) \in Store /\ Received(z, c, <<v>>).n = m
    BY <1>2, <1>3, <1>4, <2>1, ReceivedXN
  <2> QED
    BY <2>1
<1>6. Nets[net].procs[2 * N + 1] = Guard
  BY Table
<1> HIDE DEF s
<1>7. Guard.loop = 1 /\ Len(Guard.body[s]) = 1
  BY <1>5, GuardPhases
<1>8. Did(2 * N + 1, j, <<v>>) = At(Guard, 1, s)
  <2>1. Did(2 * N + 1, j, <<v>>) =
          At(Guard, IF r.at = Len(Guard.body[s]) THEN Guard.loop ELSE r.at + 1, s)
    <3>1. r.one
      BY <1>3
    <3>2. Received(r.store, r.left[j], <<v>>) = s
      BY DEF s
    <3> QED
      <4> DEFINE p == 2 * N + 1
      <4>1. /\ proc[p].one /\ Nets[net].procs[p] = Guard /\ proc[p].left[j].to = 0
            /\ Received(proc[p].store, proc[p].left[j], <<v>>) = s
        BY <1>2, <3>1, <3>2, <1>6
      <4> HIDE DEF p
      <4>2. Did(p, j, <<v>>) = At(Guard, IF proc[p].at = Len(Guard.body[s]) THEN Guard.loop
                                         ELSE proc[p].at + 1, s)
        BY <4>1, DidNext
      <4> QED
        BY <4>2 DEF p
  <2> QED
    BY <1>3, <1>7, <2>1
<1> QED
  BY <1>1, <1>2, <1>5, <1>8, AtFields DEF GuardState

LEMMA PaperDid ==
  ASSUME Nets[net] = DiningPhil, PaperState(proc[2 * N + 2]),
         NEW j \in DOMAIN proc[2 * N + 2].left, NEW vals
  PROVE  PaperState(Did(2 * N + 2, j, vals))
<1> DEFINE r == proc[2 * N + 2]
           s == Received(r.store, r.left[j], vals)
<1>1. r.left = <<[kind |-> "in", chan |-> ToPrint, vars |-> << >>, set |-> << >>, to |-> 0]>>
  BY PaperOffers
<1>2. /\ DOMAIN r.left = {j} /\ r.left[j].vars = << >> /\ r.left[j].set = << >> /\ r.left[j].to = 0
  BY <1>1
<1>3. r.store \in Store /\ r.at = 1
  BY PaperOffers DEF PaperState
<1>4. s = r.store
  BY <1>2, <1>3, ReceivedNothing
<1>5. Nets[net].procs[2 * N + 2] = Paper
  BY Table
<1> HIDE DEF s
<1>6. Paper.loop = 1 /\ Len(Paper.body[s]) = 1
  BY <1>3, <1>4, PaperPhases
<1>7. Did(2 * N + 2, j, vals) = At(Paper, 1, s)
  <2>1. Did(2 * N + 2, j, vals) =
          At(Paper, IF r.at = Len(Paper.body[s]) THEN Paper.loop ELSE r.at + 1, s)
    BY <1>2, <1>5, DidNext DEF s
  <2> QED
    BY <1>3, <1>6, <2>1
<1> QED
  BY <1>3, <1>4, <1>7, AtFields DEF PaperState

LEMMA PhilDid ==
  ASSUME Nets[net] = DiningPhil, NEW i \in 1..N, PhilState(i, proc[i]),
         NEW j \in DOMAIN proc[i].left
  PROVE  LET r == proc[i]
             d == Did(i, j, << >>)
         IN  /\ PhilState(i, d)
             /\ DOMAIN r.left = {j} =>
                   /\ d.at = IF r.at = 11 THEN 1 ELSE r.at + 1
                   /\ d.at \in {6, 10} => DOMAIN d.left = {1, 2}
             /\ DOMAIN r.left # {j} => d.at = r.at /\ DOMAIN d.left = DOMAIN r.left \ {j}
<1> DEFINE r == proc[i]
           s == Received(r.store, r.left[j], << >>)
           d == Did(i, j, << >>)
<1>1. r.left[j].kind # "in" /\ r.left[j].set = << >> /\ r.left[j].to = 0
  <2>1. /\ r.left[j].set = << >> /\ r.left[j].to = 0
        /\ r.left[j].kind = "tau" \/ r.left[j].kind = "out"
    BY PhilOffers
  <2> QED
    BY <2>1
<1>2. r.store = Zero /\ r.at \in 1..11 /\ r.one = FALSE
  BY DEF PhilState
<1>3. s = Zero
  BY <1>1, <1>2, ZeroStored, ReceivedNothing
<1>4. Nets[net].procs[i] = PhilOf(i)
  BY Table
<1> HIDE DEF s
<1>5. PhilOf(i).loop = 1 /\ Len(PhilOf(i).body[s]) = 11
  BY <1>3, <1>2, PhilPhases
<1>6. CASE DOMAIN r.left = {j}
  <2> DEFINE k == IF r.at = 11 THEN 1 ELSE r.at + 1
  <2>1. d = At(PhilOf(i), k, Zero)
    <3>1. d = At(PhilOf(i), IF r.at = Len(PhilOf(i).body[s]) THEN PhilOf(i).loop
                            ELSE r.at + 1, s)
      BY <1>1, <1>4, <1>6, DidNext DEF s
    <3> QED
      BY <1>3, <1>5, <3>1
  <2>2. k \in 1..11
    BY <1>2
  <2> HIDE DEF k, d
  <2>3. d = [at |-> k, store |-> Zero, one |-> FALSE, left |-> PhilComms(i, k)]
    BY <2>1, <2>2, PhilPhases DEF At, PhilComms
  <2>4. DOMAIN PhilComms(i, k) # {} /\ (k \in {6, 10} => DOMAIN PhilComms(i, k) = {1, 2})
    <3>1. CASE k \in {6, 10}
      <4>1. PhilComms(i, k) = <<Writing(Left(i), <<i>>), Writing(Right(i), <<i>>)>>
        BY <2>2, <3>1, PhilPhases
      <4> QED
        BY <4>1
    <3>2. CASE k \notin {6, 10}
      <4>1. \E w : PhilComms(i, k) = <<w>>
        <5>1. k \in {1, 3, 5, 7, 9} \/ k \in {2, 8} \/ k = 4 \/ k = 11
          BY <2>2, <3>2
        <5> QED
          BY <2>2, <5>1, PhilPhases
      <4> QED
        BY <3>2, <4>1
    <3> QED
      BY <3>1, <3>2
  <2>5. PhilState(i, d)
    BY <2>2, <2>3, <2>4 DEF PhilState
  <2> QED
    BY <1>6, <2>3, <2>4, <2>5 DEF k, d
<1>7. CASE DOMAIN r.left # {j}
  <2>1. d = [r EXCEPT !.store = s, !.left = [k \in DOMAIN r.left \ {j} |-> r.left[k]]]
    BY <1>2, <1>7 DEF Did, s
  <2>2. d = [at |-> r.at, store |-> Zero, one |-> FALSE,
             left |-> [k \in DOMAIN r.left \ {j} |-> r.left[k]]]
    <3>2. r = [at |-> r.at, store |-> Zero, one |-> FALSE, left |-> r.left]
      BY DEF PhilState
    <3> HIDE DEF r
    <3>3. ASSUME NEW f
          PROVE  [r EXCEPT !.store = Zero, !.left = f]
                   = [at |-> r.at, store |-> Zero, one |-> FALSE, left |-> f]
      <4>1. [r EXCEPT !.store = Zero] = r
        BY <3>2
      <4>2. [r EXCEPT !.left = f] = [at |-> r.at, store |-> Zero, one |-> FALSE, left |-> f]
        <5>1. PICK a, o, e : /\ r = [at |-> a, store |-> Zero, one |-> o, left |-> e]
                             /\ a = r.at /\ o = FALSE
          BY <3>2, Zenon
        <5>2. [r EXCEPT !.left = f] = [at |-> a, store |-> Zero, one |-> o, left |-> f]
          BY <5>1
        <5> QED
          BY <5>1, <5>2
      <4>3. [r EXCEPT !.store = Zero, !.left = f] = [[r EXCEPT !.store = Zero] EXCEPT !.left = f]
        OBVIOUS
      <4> QED
        BY <4>1, <4>2, <4>3, Zenon
    <3> QED
      BY <2>1, <1>3, <3>3
  <2> HIDE DEF d
  <2>3. PhilState(i, d)
    BY <1>7, <2>2 DEF PhilState
  <2> QED
    BY <1>7, <2>2, <2>3 DEF d
<1> QED
  BY <1>6, <1>7

-----------------------------------------------------------------------------
(* One step of a philosopher.                                              *)

\* Picking up and putting down happen in the phases that write to both forks,
\* sitting down and getting up in the phases that write to SECURITY.
LEMMA PhilMoves ==
  ASSUME Nets[net] = DiningPhil, NEW p \in 1..N, PhilState(p, proc[p]),
         NEW i \in DOMAIN proc[p].left, NEW d, d = Did(p, i, << >>)
  PROVE  LET r == proc[p] IN
         /\ PhilState(p, d)
         /\ \A m \in {1, 2} :
               IF r.at \in {6, 10} /\ m = i THEN Holds(r, m) <=> r.at = 10
               ELSE Holds(d, m) <=> Holds(r, m)
         /\ r.at \in {6, 10} => i \in {1, 2} /\ (Holds(d, i) <=> r.at = 6)
         /\ d.at \in 5..11 <=> (r.at = 4 \/ (r.at # 11 /\ r.at \in 5..11))
<1> DEFINE r == proc[p]
<1>1. /\ PhilState(p, d)
      /\ DOMAIN r.left = {i} =>
            /\ d.at = IF r.at = 11 THEN 1 ELSE r.at + 1
            /\ d.at \in {6, 10} => DOMAIN d.left = {1, 2}
      /\ DOMAIN r.left # {i} => d.at = r.at /\ DOMAIN d.left = DOMAIN r.left \ {i}
  BY PhilDid
<1>2. r.at \in 1..11 /\ i \in DOMAIN r.left
  BY DEF PhilState
<1>3. /\ r.at \notin {6, 10} => DOMAIN r.left = {1}
      /\ r.at \in {6, 10} => DOMAIN r.left \subseteq {1, 2}
  BY PhilOffers
<1> SUFFICES /\ \A m \in {1, 2} :
                  IF r.at \in {6, 10} /\ m = i THEN Holds(r, m) <=> r.at = 10
                  ELSE Holds(d, m) <=> Holds(r, m)
             /\ r.at \in {6, 10} => i \in {1, 2} /\ (Holds(d, i) <=> r.at = 6)
             /\ d.at \in 5..11 <=> (r.at = 4 \/ (r.at # 11 /\ r.at \in 5..11))
  BY <1>1
<1> HIDE DEF r
<1>4. CASE DOMAIN r.left = {i}
  <2>1. d.at = IF r.at = 11 THEN 1 ELSE r.at + 1
    BY <1>1, <1>4
  <2>2. d.at \in {6, 10} => DOMAIN d.left = {1, 2}
    BY <1>1, <1>4
  <2>3. r.at \in {6, 10} => i \in {1, 2}
    BY <1>2, <1>3
  <2>4. CASE r.at = 6
    BY <1>4, <2>1, <2>3, <2>4 DEF Holds, Eating
  <2>5. CASE r.at = 10
    BY <1>4, <2>1, <2>3, <2>5 DEF Holds, Eating
  <2>6. CASE r.at = 5 \/ r.at = 9
    BY <1>4, <2>1, <2>2, <2>6 DEF Holds, Eating
  <2>7. CASE r.at \in {1, 2, 3, 4, 7, 8, 11}
    <3>0. <<r.at, d.at>> \in {<<1, 2>>, <<2, 3>>, <<3, 4>>, <<4, 5>>, <<7, 8>>, <<8, 9>>, <<11, 1>>}
      BY <2>1, <2>7
    <3>1. /\ r.at \notin {6, 10} /\ d.at \notin {6, 10} /\ (d.at \in Eating <=> r.at \in Eating)
          /\ d.at \in 5..11 <=> (r.at = 4 \/ (r.at # 11 /\ r.at \in 5..11))
      BY <3>0 DEF Eating
    <3> QED
      BY <3>1 DEF Holds
  <2>8. r.at = 6 \/ r.at = 10 \/ (r.at = 5 \/ r.at = 9) \/ r.at \in {1, 2, 3, 4, 7, 8, 11}
    BY <1>2
  <2> QED
    BY <2>4, <2>5, <2>6, <2>7, <2>8
<1>5. CASE DOMAIN r.left # {i}
  <2>1. d.at = r.at /\ DOMAIN d.left = DOMAIN r.left \ {i}
    BY <1>1, <1>5
  <2>2. r.at \in {6, 10}
    BY <1>2, <1>3, <1>5
  <2>3. i \in {1, 2}
    BY <1>2, <1>3, <2>2
  <2>4. CASE r.at = 6
    BY <1>2, <2>1, <2>3, <2>4 DEF Holds, Eating
  <2>5. CASE r.at = 10
    BY <1>2, <2>1, <2>3, <2>5 DEF Holds, Eating
  <2> QED
    BY <2>2, <2>4, <2>5
<1> QED
  BY <1>4, <1>5

\* Only a philosopher writes or sleeps.
LEMMA OnlyPhilsAct ==
  ASSUME States, NEW p \in Procs, NEW i \in DOMAIN proc[p].left, proc[p].left[i].kind # "in"
  PROVE  p \in 1..N
<1>0. N \in Nat /\ N >= 2
  BY TableAssumption DEF N
<1>1. p \in 1..(2 * N + 2)
  BY DEF States, Procs
<1>2. ASSUME p \in (N + 1)..(2 * N) PROVE FALSE
  <2>1. PICK f \in 1..N : p = N + f
    <3>1. p - N \in 1..N /\ p = N + (p - N)
      BY <1>0, <1>2
    <3> QED
      BY <3>1
  <2>2. ForkState(f, proc[N + f])
    BY DEF States
  <2> QED
    BY <2>1, <2>2, ForkReads
<1>3. ASSUME p = 2 * N + 1 PROVE FALSE
  <2> DEFINE g == proc[2 * N + 1]
  <2>1. \/ g.left = << [Reading(Down, 0) EXCEPT !.set = [n |-> g.store.n + 1]],
                      [Reading(Up, 0) EXCEPT !.set = [n |-> g.store.n - 1]] >>
        \/ g.left = << [Reading(Up, 0) EXCEPT !.set = [n |-> g.store.n - 1]] >>
    BY GuardOffers DEF States
  <2>2. \A m \in DOMAIN g.left : g.left[m].kind = "in"
    BY <2>1 DEF Reading
  <2> QED
    BY <1>3, <2>2
<1>4. ASSUME p = 2 * N + 2 PROVE FALSE
  <2>1. proc[2 * N + 2].left
          = <<[kind |-> "in", chan |-> ToPrint, vars |-> << >>, set |-> << >>, to |-> 0]>>
    BY PaperOffers DEF States
  <2> QED
    BY <1>4, <2>1
<1> QED
  BY <1>0, <1>1, <1>2, <1>3, <1>4

\* Who communicates with whom.
LEMMA Partners ==
  ASSUME States, NEW p \in Procs, NEW q \in Procs,
         NEW i \in DOMAIN proc[p].left, NEW j \in DOMAIN proc[q].left,
         Meet(proc[p].left[i], proc[q].left[j])
  PROVE  LET c == proc[p].left[i]
             r == proc[p]
         IN  /\ p \in 1..N
             /\ \/ q = 2 * N + 2 /\ r.at \in {1, 3, 5, 7, 9}
                \/ q = 2 * N + 1 /\ r.at \in {4, 11} /\ c.vals = <<p>>
                   /\ proc[q].left[j].chan = IF r.at = 4 THEN Down ELSE Up
                \/ \E f \in 1..N :
                      /\ q = N + f /\ r.at \in {6, 10} /\ c.vals = <<p>>
                      /\ \/ i = 1 /\ f = p /\ proc[q].left[j].chan = Left(f)
                         \/ i = 2 /\ Beside(f) = p /\ proc[q].left[j].chan = Right(p)
<1>0. N \in Nat /\ N >= 2
  BY TableAssumption DEF N
<1> DEFINE c == proc[p].left[i]
           e == proc[q].left[j]
           r == proc[p]
<1>1. c.kind = "out" /\ e.kind = "in" /\ c.chan = e.chan
  BY DEF Meet
<1>2. ASSUME NEW k \in Procs
      PROVE  \/ k \in 1..N \/ k = 2 * N + 1 \/ k = 2 * N + 2
             \/ \E f \in 1..N : k = N + f
  <2>1. k \in 1..(2 * N + 2)
    BY DEF States, Procs
  <2>2. CASE k \in (N + 1)..(2 * N)
    <3>1. k - N \in 1..N /\ k = N + (k - N)
      BY <1>0, <2>2
    <3> QED
      BY <3>1
  <2> QED
    BY <1>0, <2>1, <2>2
<1>3. ASSUME NEW f \in 1..N, NEW m \in DOMAIN proc[N + f].left
      PROVE  LET a == proc[N + f].left[m] IN
             a.kind = "in" /\ (a.chan = Left(f) \/ a.chan = Right(Beside(f)))
  <2>1. ForkState(f, proc[N + f])
    BY DEF States
  <2> QED
    BY <2>1, ForkReads
<1>4. ASSUME NEW m \in DOMAIN proc[2 * N + 1].left
      PROVE  LET a == proc[2 * N + 1].left[m] IN a.kind = "in" /\ (a.chan = Down \/ a.chan = Up)
  <2> DEFINE g == proc[2 * N + 1]
  <2>1. \/ g.left = << [Reading(Down, 0) EXCEPT !.set = [n |-> g.store.n + 1]],
                      [Reading(Up, 0) EXCEPT !.set = [n |-> g.store.n - 1]] >>
        \/ g.left = << [Reading(Up, 0) EXCEPT !.set = [n |-> g.store.n - 1]] >>
    BY GuardOffers DEF States
  <2> QED
    BY <2>1 DEF Reading
<1>5. ASSUME NEW m \in DOMAIN proc[2 * N + 2].left
      PROVE  LET a == proc[2 * N + 2].left[m] IN a.kind = "in" /\ a.chan = ToPrint
  <2>1. proc[2 * N + 2].left
          = <<[kind |-> "in", chan |-> ToPrint, vars |-> << >>, set |-> << >>, to |-> 0]>>
    BY PaperOffers DEF States
  <2> QED
    BY <2>1
<1>6. p \in 1..N
  BY <1>1, <1>2, <1>3, <1>4, <1>5
<1>7. PhilState(p, r)
  BY <1>6 DEF States
<1>8. q \notin 1..N
  <2> SUFFICES ASSUME q \in 1..N PROVE FALSE
    OBVIOUS
  <2>1. PhilState(q, proc[q])
    BY DEF States
  <2>2. e.kind = "tau" \/ e.kind = "out"
    BY <2>1, PhilOffers
  <2> QED
    BY <1>1, <2>2
<1>9. r.at \in 1..11
  BY <1>7 DEF PhilState
<1>10. /\ r.at \notin {2, 8}
       /\ r.at \in {1, 3, 5, 7, 9} => c.chan = ToPrint
       /\ r.at = 4 => c.chan = Down /\ c.vals = <<p>>
       /\ r.at = 11 => c.chan = Up /\ c.vals = <<p>>
       /\ r.at \in {6, 10} => /\ c.vals = <<p>>
                              /\ (i = 1 /\ c.chan = Left(p)) \/ (i = 2 /\ c.chan = Right(p))
  <2>1. r.at \in {2, 8} => c.kind = "tau"
    BY <1>7, PhilOffers
  <2>2. r.at \notin {2, 8}
    BY <1>1, <2>1
  <2> QED
    BY <1>7, <2>2, PhilOffers
<1>11. r.at \in {1, 3, 5, 7, 9} \/ r.at = 4 \/ r.at = 11 \/ r.at \in {6, 10}
  BY <1>9, <1>10
<1>12. CASE q = 2 * N + 2
  <2>1. e.chan = ToPrint
    BY <1>5, <1>12
  <2> QED
    BY <1>1, <1>6, <1>10, <1>11, <1>12, <2>1, ChannelsDiffer, Zenon
<1>13. CASE q = 2 * N + 1
  <2>1. e.chan = Down \/ e.chan = Up
    BY <1>4, <1>13
  <2>2. r.at \in {4, 11}
    <3>1. ToPrint \notin {Down, Up} /\ Left(p) \notin {Down, Up} /\ Right(p) \notin {Down, Up}
      BY ChannelsDiffer
    <3> QED
      BY <1>1, <1>10, <1>11, <2>1, <3>1
  <2>3. c.vals = <<p>> /\ e.chan = IF r.at = 4 THEN Down ELSE Up
    BY <1>1, <1>10, <2>2
  <2> QED
    BY <1>6, <1>13, <2>2, <2>3
<1>14. ASSUME NEW f \in 1..N, q = N + f
       PROVE  /\ r.at \in {6, 10} /\ c.vals = <<p>>
              /\ \/ i = 1 /\ f = p /\ e.chan = Left(f)
                 \/ i = 2 /\ Beside(f) = p /\ e.chan = Right(p)
  <2>1. e.chan = Left(f) \/ e.chan = Right(Beside(f))
    BY <1>3, <1>14
  <2>2. \A x \in {ToPrint, Down, Up} : x # Left(f) /\ x # Right(Beside(f))
    BY ChannelsDiffer
  <2>3. r.at \in {6, 10}
    BY <1>1, <1>10, <1>11, <2>1, <2>2
  <2>4. CASE e.chan = Left(f)
    <3>1. i = 1 /\ Left(p) = Left(f)
      BY <1>1, <1>10, <2>3, <2>4, ChannelsDiffer
    <3> QED
      BY <1>10, <2>3, <2>4, <3>1, ChannelsDiffer
  <2>5. CASE e.chan = Right(Beside(f))
    <3>1. i = 2 /\ Right(p) = Right(Beside(f))
      BY <1>1, <1>10, <2>3, <2>5, ChannelsDiffer
    <3>2. Beside(f) = p
      BY <3>1, ChannelsDiffer
    <3> QED
      BY <1>10, <2>3, <2>5, <3>1, <3>2
  <2> QED
    BY <2>1, <2>4, <2>5
<1> QED
  BY <1>2, <1>6, <1>8, <1>12, <1>13, <1>14

-----------------------------------------------------------------------------
(* The invariant is inductive.                                             *)

LEMMA SeatsFinite == IsFiniteSet(Seated) /\ Cardinality(Seated) \in Nat
<1>1. N \in Nat
  BY TableAssumption DEF N
<1>2. IsFiniteSet(1..N)
  BY <1>1, FS_Interval
<1>3. Seated \in SUBSET (1..N)
  BY DEF Seated
<1>4. IsFiniteSet(Seated)
  BY <1>2, <1>3, FS_Subset
<1> QED
  BY <1>4, FS_CardinalityType

LEMMA Start ==
  ASSUME Nets["diningphil"] = DiningPhil, Init
  PROVE  IInv
<1> SUFFICES ASSUME net = "diningphil" PROVE States /\ ForksHeld /\ SeatsCounted
  BY DEF IInv
<1>0. N \in Nat /\ N >= 2
  BY TableAssumption DEF N
<1>1. proc = [p \in DOMAIN DiningPhil.procs |-> At(DiningPhil.procs[p], 1, Zero)]
  BY DEF Init, Zero
<1>2. DOMAIN got = {}
  BY Table DEF Init
<1>3. DOMAIN proc = 1..(2 * N + 2)
  BY <1>1, Table
<1>4. \A k \in 1..(2 * N + 2) : proc[k] = At(DiningPhil.procs[k], 1, Zero)
  BY <1>1, <1>3
<1>5. ASSUME NEW i \in 1..N
      PROVE  proc[i] = At(PhilOf(i), 1, Zero) /\ proc[N + i] = At(ForkOf(i), 1, Zero)
  <2>1. i \in 1..(2 * N + 2) /\ N + i \in 1..(2 * N + 2)
    BY <1>0
  <2> QED
    BY <1>4, <2>1, Table
<1>6. proc[2 * N + 1] = At(Guard, 1, Zero) /\ proc[2 * N + 2] = At(Paper, 1, Zero)
  <2>1. 2 * N + 1 \in 1..(2 * N + 2) /\ 2 * N + 2 \in 1..(2 * N + 2)
    BY <1>0
  <2> QED
    BY <1>4, <2>1, Table
<1>7. ASSUME NEW i \in 1..N PROVE PhilState(i, proc[i]) /\ proc[i].at = 1
  <2>0. 1 \in 1..11 /\ 1 \in {1, 3, 5, 7, 9}
    OBVIOUS
  <2>1. PICK w : PhilComms(i, 1) = <<Writing(ToPrint, <<i, w>>)>>
    BY <2>0, PhilPhases, Zenon
  <2>2. PhilOf(i).body[Zero][1].one = FALSE
    BY <2>0, PhilPhases, Zenon
  <2>3. proc[i] = [at |-> 1, store |-> Zero, one |-> FALSE, left |-> PhilComms(i, 1)]
    BY <1>5, <2>2 DEF At, PhilComms
  <2>4. DOMAIN PhilComms(i, 1) # {}
    BY <2>1
  <2> QED
    BY <2>3, <2>4 DEF PhilState
<1>8. ASSUME NEW i \in 1..N PROVE ForkState(i, proc[N + i]) /\ proc[N + i].at = 1
  BY <1>5, AtFields, ZeroStored DEF ForkState
<1>9. GuardState(proc[2 * N + 1]) /\ PaperState(proc[2 * N + 2]) /\ proc[2 * N + 1].store = Zero
  BY <1>6, AtFields, ZeroStored DEF GuardState, PaperState
<1>10. States
  BY <1>2, <1>3, <1>7, <1>8, <1>9 DEF States
<1>11. ForksHeld
  <2>1. ASSUME NEW i \in 1..N PROVE Beside(i) \in 1..N
    BY <1>0, BesideIs
  <2>2. ASSUME NEW i \in 1..N, NEW m PROVE ~Holds(proc[i], m)
    BY <1>7 DEF Holds, Eating
  <2> QED
    BY <1>8, <2>1, <2>2 DEF ForksHeld
<1>12. SeatsCounted
  <2>1. Seated = {}
    BY <1>7 DEF Seated
  <2>2. Cardinality(Seated) = 0
    BY <2>1, FS_EmptySet
  <2>3. proc[2 * N + 1].store.n = 0
    BY <1>9 DEF Zero
  <2> QED
    BY <1>0, <2>2, <2>3 DEF SeatsCounted
<1> QED
  BY <1>10, <1>11, <1>12

\* One philosopher moves, and the others of its kind do not.
LEMMA StatesKept ==
  ASSUME States, DOMAIN proc' = DOMAIN proc, got' = got,
         \A k \in 1..N : PhilState(k, proc'[k]),
         \A k \in 1..N : ForkState(k, proc'[N + k]),
         GuardState(proc'[2 * N + 1]), PaperState(proc'[2 * N + 2])
  PROVE  States'
BY DEF States

\* No fork changes hands.
LEMMA ForksKept ==
  ASSUME ForksHeld, \A k \in 1..N : proc'[N + k] = proc[N + k],
         \A k \in 1..N : \A m \in {1, 2} : Holds(proc'[k], m) <=> Holds(proc[k], m)
  PROVE  ForksHeld'
<1>0. N \in Nat /\ N >= 2
  BY TableAssumption DEF N
<1> SUFFICES ASSUME NEW i \in 1..N
             PROVE  /\ proc'[N + i].at = 2 <=> Holds(proc'[i], 1)
                    /\ proc'[N + i].at = 3 <=> Holds(proc'[Beside(i)], 2)
  BY DEF ForksHeld, Holds
<1>1. Beside(i) \in 1..N
  BY <1>0, BesideIs
<1>2. /\ proc[N + i].at = 2 <=> Holds(proc[i], 1)
      /\ proc[N + i].at = 3 <=> Holds(proc[Beside(i)], 2)
  BY DEF ForksHeld
<1> QED
  BY <1>1, <1>2

\* Nobody sits down or gets up.
LEMMA SeatsKept ==
  ASSUME SeatsCounted, proc'[2 * N + 1] = proc[2 * N + 1],
         \A k \in 1..N : proc'[k].at \in 5..11 <=> proc[k].at \in 5..11
  PROVE  SeatsCounted'
<1>1. Seated' = Seated
  BY DEF Seated
<1> QED
  BY <1>1 DEF SeatsCounted

\* Fork f is taken or put down by its philosopher p, with message i to it.
LEMMA ForkStep ==
  ASSUME ForksHeld, NEW f \in 1..N, NEW p \in 1..N, NEW i \in {1, 2},
         \/ /\ i = 1 /\ f = p
            /\ \/ (proc[N + f].at = 1 /\ proc'[N + f].at = 2)
               \/ (proc[N + f].at = 2 /\ proc'[N + f].at = 1)
         \/ /\ i = 2 /\ Beside(f) = p
            /\ \/ (proc[N + f].at = 1 /\ proc'[N + f].at = 3)
               \/ (proc[N + f].at = 3 /\ proc'[N + f].at = 1),
         \A k \in 1..N : k # f => proc'[N + k] = proc[N + k],
         \A k \in 1..N : \A m \in {1, 2} :
            Holds(proc'[k], m) <=> IF k = p /\ m = i THEN ~Holds(proc[k], m) ELSE Holds(proc[k], m)
  PROVE  ForksHeld'
<1>0. N \in Nat /\ N >= 2
  BY TableAssumption DEF N
<1> SUFFICES ASSUME NEW k \in 1..N
             PROVE  /\ proc'[N + k].at = 2 <=> Holds(proc'[k], 1)
                    /\ proc'[N + k].at = 3 <=> Holds(proc'[Beside(k)], 2)
  BY DEF ForksHeld, Holds
<1>1. Beside(k) \in 1..N
  BY <1>0, BesideIs
<1>2. /\ proc[N + k].at = 2 <=> Holds(proc[k], 1)
      /\ proc[N + k].at = 3 <=> Holds(proc[Beside(k)], 2)
  BY DEF ForksHeld
<1>3. Beside(k) = Beside(f) => k = f
  BY <1>0, BesideIs
<1>4. CASE i = 1
  <2>1. Holds(proc'[k], 1) <=> IF k = f THEN ~Holds(proc[k], 1) ELSE Holds(proc[k], 1)
    BY <1>4
  <2>2. Holds(proc'[Beside(k)], 2) <=> Holds(proc[Beside(k)], 2)
    BY <1>1, <1>4
  <2> QED
    BY <1>2, <1>4, <2>1, <2>2
<1>5. CASE i = 2
  <2>1. Holds(proc'[k], 1) <=> Holds(proc[k], 1)
    BY <1>5
  <2>2. Holds(proc'[Beside(k)], 2)
          <=> IF k = f THEN ~Holds(proc[Beside(k)], 2) ELSE Holds(proc[Beside(k)], 2)
    BY <1>1, <1>3, <1>5
  <2> QED
    BY <1>2, <1>5, <2>1, <2>2
<1> QED
  BY <1>4, <1>5

\* Process p writes what process q reads.
Exchange(p, q, i, j) ==
    LET c == proc[p].left[i] IN
    /\ Meet(c, proc[q].left[j])
    /\ proc' = [proc EXCEPT ![p] = Did(p, i, << >>), ![q] = Did(q, j, c.vals)]
    /\ got' = Recorded(c.chan, c.vals)
    /\ UNCHANGED net

LEMMA SomeExchange ==
  ASSUME Communicate
  PROVE  \E p, q \in Procs :
            \E i \in DOMAIN proc[p].left, j \in DOMAIN proc[q].left : Exchange(p, q, i, j)
BY Zenon DEF Communicate, Exchange

\* A communication.
LEMMA CommunicateStep ==
  ASSUME Nets[net] = DiningPhil, States, ForksHeld, SeatsCounted, Communicate
  PROVE  States' /\ ForksHeld' /\ SeatsCounted'
<1>0. N \in Nat /\ N >= 2
  BY TableAssumption DEF N
<1>1. PICK p, q \in Procs :
         \E i \in DOMAIN proc[p].left, j \in DOMAIN proc[q].left : Exchange(p, q, i, j)
  BY SomeExchange, Zenon
<1>2. PICK i \in DOMAIN proc[p].left, j \in DOMAIN proc[q].left :
          /\ Meet(proc[p].left[i], proc[q].left[j])
          /\ proc' = [proc EXCEPT ![p] = Did(p, i, << >>), ![q] = Did(q, j, proc[p].left[i].vals)]
          /\ proc[p].left[i].chan \notin Watch => got' = got
  <2>1. PICK i \in DOMAIN proc[p].left, j \in DOMAIN proc[q].left : Exchange(p, q, i, j)
    BY <1>1, Zenon
  <2> QED
    BY <2>1 DEF Exchange, Recorded
<1> DEFINE r == proc[p]
           c == proc[p].left[i]
           d == Did(p, i, << >>)
           e == Did(q, j, c.vals)
<1>3. /\ p \in 1..N
      /\ \/ q = 2 * N + 2 /\ r.at \in {1, 3, 5, 7, 9}
         \/ q = 2 * N + 1 /\ r.at \in {4, 11} /\ c.vals = <<p>>
            /\ proc[q].left[j].chan = IF r.at = 4 THEN Down ELSE Up
         \/ \E f \in 1..N :
               /\ q = N + f /\ r.at \in {6, 10} /\ c.vals = <<p>>
               /\ \/ i = 1 /\ f = p /\ proc[q].left[j].chan = Left(f)
                  \/ i = 2 /\ Beside(f) = p /\ proc[q].left[j].chan = Right(p)
  BY <1>2, Partners
<1>4. q \notin 1..N
  BY <1>0, <1>3
<1>5. got' = got
  BY <1>2 DEF States, Watch
<1>6. PhilState(p, r) /\ p \in Int
  BY <1>3 DEF States
<1>7. /\ PhilState(p, d)
      /\ \A m \in {1, 2} :
            IF r.at \in {6, 10} /\ m = i THEN Holds(r, m) <=> r.at = 10
            ELSE Holds(d, m) <=> Holds(r, m)
      /\ r.at \in {6, 10} => i \in {1, 2} /\ (Holds(d, i) <=> r.at = 6)
      /\ d.at \in 5..11 <=> (r.at = 4 \/ (r.at # 11 /\ r.at \in 5..11))
  BY <1>3, <1>6, PhilMoves
<1> HIDE DEF d, e
<1>8. /\ DOMAIN proc' = DOMAIN proc /\ proc'[p] = d /\ proc'[q] = e
      /\ \A k \in DOMAIN proc : k # p /\ k # q => proc'[k] = proc[k]
  BY <1>2, <1>3, <1>4 DEF d, e, Procs
<1>9. \A k \in 1..N : k \in DOMAIN proc /\ N + k \in DOMAIN proc
  BY <1>0 DEF States
<1>10. 2 * N + 1 \in DOMAIN proc /\ 2 * N + 2 \in DOMAIN proc
  BY <1>0 DEF States
<1>11. \A k \in 1..N : k # p => proc'[k] = proc[k]
  BY <1>4, <1>8, <1>9
<1>12. \A k \in 1..N : PhilState(k, proc'[k])
  BY <1>7, <1>8, <1>11 DEF States
<1>13. \A k \in 1..N : N + k # p /\ 2 * N + 1 # p /\ 2 * N + 2 # p
  BY <1>0, <1>3
<1>14. r.at \notin {6, 10} => \A k \in 1..N : \A m \in {1, 2} : Holds(proc'[k], m) <=> Holds(proc[k], m)
  BY <1>7, <1>8, <1>11
<1>15. r.at \notin {4, 11} => \A k \in 1..N : proc'[k].at \in 5..11 <=> proc[k].at \in 5..11
  BY <1>7, <1>8, <1>11
<1>16. CASE q = 2 * N + 2 /\ r.at \in {1, 3, 5, 7, 9}
  <2>1. PaperState(proc'[2 * N + 2])
    BY <1>8, <1>16, PaperDid DEF States, e
  <2>2. \A k \in 1..N : proc'[N + k] = proc[N + k]
    <3>1. \A k \in 1..N : N + k # q
      BY <1>0, <1>16
    <3> QED
      BY <1>8, <1>9, <1>13, <3>1
  <2>3. proc'[2 * N + 1] = proc[2 * N + 1]
    <3>1. 2 * N + 1 # q /\ 2 * N + 1 # p
      BY <1>0, <1>3, <1>16
    <3> QED
      BY <1>8, <1>10, <3>1
  <2>4. r.at \notin {6, 10} /\ r.at \notin {4, 11}
    BY <1>16
  <2>5. (\A k \in 1..N : ForkState(k, proc'[N + k])) /\ GuardState(proc'[2 * N + 1])
    BY <2>2, <2>3 DEF States
  <2>6. States'
    BY <1>5, <1>8, <1>12, <2>1, <2>5, StatesKept
  <2>7. ForksHeld'
    BY <1>14, <2>2, <2>4, ForksKept
  <2>8. SeatsCounted'
    BY <1>15, <2>3, <2>4, SeatsKept
  <2> QED
    BY <2>6, <2>7, <2>8
<1>17. CASE /\ q = 2 * N + 1 /\ r.at \in {4, 11} /\ c.vals = <<p>>
            /\ proc[q].left[j].chan = IF r.at = 4 THEN Down ELSE Up
  <2> DEFINE g == proc[2 * N + 1]
             h == proc'[2 * N + 1]
  <2>0. j \in DOMAIN g.left /\ GuardState(g) /\ e = Did(2 * N + 1, j, <<p>>) /\ h = e
    BY <1>2, <1>8, <1>17 DEF e, States
  <2>1. /\ GuardState(h)
        /\ \/ g.left[j].chan = Down /\ g.store.n < N - 1 /\ h.store.n = g.store.n + 1
           \/ g.left[j].chan = Up /\ h.store.n = g.store.n - 1
    BY <1>6, <2>0, GuardDid
  <2>2. /\ r.at = 4 => g.store.n < N - 1 /\ h.store.n = g.store.n + 1
        /\ r.at = 11 => h.store.n = g.store.n - 1
    <3>1. g.left[j].chan = IF r.at = 4 THEN Down ELSE Up
      BY <1>17
    <3> QED
      BY <2>1, <3>1, ChannelsDiffer
  <2>3. \A k \in 1..N : proc'[N + k] = proc[N + k]
    <3>1. \A k \in 1..N : N + k # q
      BY <1>0, <1>17
    <3> QED
      BY <1>8, <1>9, <1>13, <3>1
  <2>4. proc'[2 * N + 2] = proc[2 * N + 2]
    <3>1. 2 * N + 2 # q /\ 2 * N + 2 # p
      BY <1>0, <1>3, <1>17
    <3> QED
      BY <1>8, <1>10, <3>1
  <2>5. (\A k \in 1..N : ForkState(k, proc'[N + k])) /\ PaperState(proc'[2 * N + 2])
    BY <2>3, <2>4 DEF States
  <2>6. States'
    BY <1>5, <1>8, <1>12, <2>1, <2>5, StatesKept
  <2>7. ForksHeld'
    BY <1>14, <1>17, <2>3, ForksKept
  <2>8. SeatsCounted'
    <3>0. IsFiniteSet(Seated) /\ Cardinality(Seated) \in Nat
      BY SeatsFinite
    <3>1. g.store.n = Cardinality(Seated) /\ g.store.n <= N - 1
      BY DEF SeatsCounted
    <3> HIDE DEF g, h
    <3>2. CASE r.at = 4
      <4>1. Seated' = Seated \cup {p} /\ p \notin Seated
        BY <1>3, <1>7, <1>8, <1>11, <3>2 DEF Seated
      <4>2. Cardinality(Seated') = Cardinality(Seated) + 1
        BY <3>0, <4>1, FS_AddElement
      <4>3. h.store.n = Cardinality(Seated') /\ h.store.n <= N - 1
        BY <1>0, <2>2, <3>0, <3>1, <3>2, <4>2
      <4> QED
        BY <4>3 DEF SeatsCounted, h
    <3>3. CASE r.at = 11
      <4>1. Seated' = Seated \ {p} /\ p \in Seated
        BY <1>3, <1>7, <1>8, <1>11, <3>3 DEF Seated
      <4>2. Cardinality(Seated') = Cardinality(Seated) - 1
        BY <3>0, <4>1, FS_RemoveElement
      <4>3. h.store.n = Cardinality(Seated') /\ h.store.n <= N - 1
        BY <1>0, <2>2, <3>0, <3>1, <3>3, <4>2
      <4> QED
        BY <4>3 DEF SeatsCounted, h
    <3> QED
      BY <1>17, <3>2, <3>3
  <2> QED
    BY <2>6, <2>7, <2>8
<1>18. ASSUME NEW f \in 1..N, q = N + f, r.at \in {6, 10}, c.vals = <<p>>,
              \/ (i = 1 /\ f = p /\ proc[q].left[j].chan = Left(f))
              \/ (i = 2 /\ Beside(f) = p /\ proc[q].left[j].chan = Right(p))
       PROVE  States' /\ ForksHeld' /\ SeatsCounted'
  <2> DEFINE g == proc[N + f]
             h == proc'[N + f]
  <2>0. j \in DOMAIN g.left /\ ForkState(f, g) /\ e = Did(N + f, j, <<p>>) /\ h = e
    BY <1>2, <1>8, <1>18 DEF e, States
  <2>1. ForkState(f, h) /\ h.at = g.left[j].to
    BY <1>6, <2>0, ForkDid
  <2>2. \A k \in 1..N : k # f => proc'[N + k] = proc[N + k]
    <3>1. \A k \in 1..N : k # f => N + k # q
      BY <1>0, <1>18
    <3> QED
      BY <1>8, <1>9, <1>13, <3>1
  <2>3. proc'[2 * N + 1] = proc[2 * N + 1] /\ proc'[2 * N + 2] = proc[2 * N + 2]
    <3>1. 2 * N + 2 # q /\ 2 * N + 2 # p /\ 2 * N + 1 # q /\ 2 * N + 1 # p
      BY <1>0, <1>3, <1>18
    <3> QED
      BY <1>8, <1>10, <3>1
  <2>4. /\ \A k \in 1..N : ForkState(k, proc'[N + k])
        /\ GuardState(proc'[2 * N + 1]) /\ PaperState(proc'[2 * N + 2])
    BY <2>1, <2>2, <2>3 DEF States
  <2>5. States'
    BY <1>5, <1>8, <1>12, <2>4, StatesKept
  <2>6. ForksHeld'
    <3>1. i \in {1, 2}
      BY <1>18
    <3>2. \/ g.at = 1 /\ g.left[j].chan = Left(f) /\ h.at = 2
          \/ g.at = 1 /\ g.left[j].chan = Right(Beside(f)) /\ h.at = 3
          \/ g.at = 2 /\ g.left[j].chan = Left(f) /\ h.at = 1
          \/ g.at = 3 /\ g.left[j].chan = Right(Beside(f)) /\ h.at = 1
      BY <2>0, <2>1, ForkReads
    <3>3. \/ (i = 1 /\ f = p /\ g.left[j].chan = Left(f))
          \/ (i = 2 /\ Beside(f) = p /\ g.left[j].chan = Right(Beside(f)))
      BY <1>18
    <3>4. Left(f) # Right(Beside(f))
      BY ChannelsDiffer
    <3> HIDE DEF g, h
    <3>5. \/ i = 1 /\ f = p /\ ((g.at = 1 /\ h.at = 2) \/ (g.at = 2 /\ h.at = 1))
          \/ i = 2 /\ Beside(f) = p /\ ((g.at = 1 /\ h.at = 3) \/ (g.at = 3 /\ h.at = 1))
      BY <3>2, <3>3, <3>4
    <3>6. \A k \in 1..N : \A m \in {1, 2} :
             Holds(proc'[k], m) <=> IF k = p /\ m = i THEN ~Holds(proc[k], m) ELSE Holds(proc[k], m)
      BY <1>7, <1>8, <1>11, <1>18
    <3> QED
      BY <1>3, <2>2, <3>1, <3>5, <3>6, ForkStep DEF g, h
  <2>7. SeatsCounted'
    BY <1>15, <1>18, <2>3, SeatsKept
  <2> QED
    BY <2>5, <2>6, <2>7
<1> QED
  BY <1>3, <1>16, <1>17, <1>18

\* A sleep.
LEMMA InternalStep ==
  ASSUME Nets[net] = DiningPhil, States, ForksHeld, SeatsCounted, Internal
  PROVE  States' /\ ForksHeld' /\ SeatsCounted'
<1>0. N \in Nat /\ N >= 2
  BY TableAssumption DEF N
<1>1. PICK p \in Procs : \E i \in DOMAIN proc[p].left :
        /\ proc[p].left[i].kind = "tau"
        /\ proc' = [proc EXCEPT ![p] = Did(p, i, << >>)]
        /\ got' = got
  BY DEF Internal
<1>2. PICK i \in DOMAIN proc[p].left :
        /\ proc[p].left[i].kind = "tau"
        /\ proc' = [proc EXCEPT ![p] = Did(p, i, << >>)]
        /\ got' = got
  BY <1>1
<1> DEFINE r == proc[p]
           d == Did(p, i, << >>)
<1>3. p \in 1..N
  BY <1>2, OnlyPhilsAct
<1>4. PhilState(p, r)
  BY <1>3 DEF States
<1>5. r.at \in {2, 8}
  <2>1. r.at \notin {2, 8} => r.left[i].kind = "out"
    BY <1>4, PhilOffers
  <2> QED
    BY <1>2, <2>1
<1>6. /\ PhilState(p, d)
      /\ \A m \in {1, 2} : Holds(d, m) <=> Holds(r, m)
      /\ d.at \in 5..11 <=> r.at \in 5..11
  BY <1>3, <1>4, <1>5, PhilMoves
<1> HIDE DEF d
<1>7. /\ DOMAIN proc' = DOMAIN proc /\ proc'[p] = d
      /\ \A k \in DOMAIN proc : k # p => proc'[k] = proc[k]
  BY <1>2 DEF d, Procs
<1>8. \A k \in 1..N : k \in DOMAIN proc /\ N + k \in DOMAIN proc /\ N + k # p
  BY <1>0, <1>3 DEF States
<1>9. /\ 2 * N + 1 \in DOMAIN proc /\ 2 * N + 2 \in DOMAIN proc
      /\ 2 * N + 1 # p /\ 2 * N + 2 # p
  BY <1>0, <1>3 DEF States
<1>10. /\ \A k \in 1..N : proc'[N + k] = proc[N + k]
       /\ proc'[2 * N + 1] = proc[2 * N + 1] /\ proc'[2 * N + 2] = proc[2 * N + 2]
       /\ \A k \in 1..N : k # p => proc'[k] = proc[k]
  BY <1>7, <1>8, <1>9
<1>11. States'
  <2>1. \A k \in 1..N : PhilState(k, proc'[k])
    BY <1>6, <1>7, <1>10 DEF States
  <2>2. /\ \A k \in 1..N : ForkState(k, proc'[N + k])
        /\ GuardState(proc'[2 * N + 1]) /\ PaperState(proc'[2 * N + 2])
    BY <1>10 DEF States
  <2> QED
    BY <1>2, <1>7, <2>1, <2>2, StatesKept
<1>12. ForksHeld'
  <2>1. \A k \in 1..N : \A m \in {1, 2} : Holds(proc'[k], m) <=> Holds(proc[k], m)
    BY <1>6, <1>7, <1>10
  <2> QED
    BY <1>10, <2>1, ForksKept
<1>13. SeatsCounted'
  <2>1. \A k \in 1..N : proc'[k].at \in 5..11 <=> proc[k].at \in 5..11
    BY <1>6, <1>7, <1>10
  <2> QED
    BY <1>10, <2>1, SeatsKept
<1> QED
  BY <1>11, <1>12, <1>13

\* The philosophers, the forks, SECURITY and the printer keep to their runs;
\* a fork waits for a second message of whoever holds it, and SECURITY counts
\* those who sit.
THEOREM Inductive ==
  ASSUME Nets["diningphil"] = DiningPhil
  PROVE  Spec => []IInv
<1>1. Init => IInv
  BY Start
<1>2. IInv /\ [Next]_vars => IInv'
  <2> SUFFICES ASSUME IInv, [Next]_vars, net' = "diningphil"
               PROVE  States' /\ ForksHeld' /\ SeatsCounted'
    BY DEF IInv
  <2>1. net' = net
    BY DEF Next, Communicate, Internal, Rest, vars
  <2>2. Nets[net] = DiningPhil /\ States /\ ForksHeld /\ SeatsCounted
    BY <2>1 DEF IInv
  <2>3. CASE Communicate
    BY <2>2, <2>3, CommunicateStep
  <2>4. CASE Internal
    BY <2>2, <2>4, InternalStep
  <2>5. CASE UNCHANGED vars
    BY <2>2, <2>5 DEF vars, States, ForksHeld, SeatsCounted, Seated
  <2> QED
    BY <2>3, <2>4, <2>5 DEF Next, Rest
<1> QED
  BY <1>1, <1>2, PTL DEF Spec

\* Neighbours never eat at the same time, whatever the size of the table.
THEOREM Exclusion ==
  ASSUME Nets["diningphil"] = DiningPhil
  PROVE  Spec => []NeighboursExclude
<1>1. IInv => NeighboursExclude
  <2> SUFFICES ASSUME IInv, net = "diningphil", NEW i \in 1..N,
                      proc[i].at \in Eating, proc[Beside(i)].at \in Eating
               PROVE  FALSE
    BY DEF NeighboursExclude, N, Beside
  <2>1. Holds(proc[i], 1) /\ Holds(proc[Beside(i)], 2)
    BY DEF Holds
  <2>2. proc[N + i].at = 2 /\ proc[N + i].at = 3
    BY <2>1 DEF IInv, ForksHeld
  <2> QED
    BY <2>2
<1> QED
  BY <1>1, Inductive, PTL

-----------------------------------------------------------------------------
(* Somebody can always go on.                                              *)

LEMMA ForkTakes ==
  ASSUME NEW i, NEW r, ForkState(i, r)
  PROVE  /\ r.at # 3 => \E m \in DOMAIN r.left : r.left[m].kind = "in" /\ r.left[m].chan = Left(i)
         /\ r.at # 2 => \E m \in DOMAIN r.left :
                           r.left[m].kind = "in" /\ r.left[m].chan = Right(Beside(i))
<1>0. ASSUME NEW x, NEW k PROVE Reading(x, k).kind = "in" /\ Reading(x, k).chan = x
  BY DEF Reading
<1>1. r.at = 1 \/ r.at = 2 \/ r.at = 3
  BY DEF ForkState
<1>2. CASE r.at = 1
  <2>1. 1 \in DOMAIN r.left /\ 2 \in DOMAIN r.left
    BY <1>2, ForkOffers
  <2>2. r.left[1] = Reading(Left(i), 2) /\ r.left[2] = Reading(Right(Beside(i)), 3)
    BY <1>2, ForkOffers
  <2> QED
    BY <1>0, <2>1, <2>2
<1>3. CASE r.at = 2
  <2>1. 1 \in DOMAIN r.left /\ r.left[1] = Reading(Left(i), 1)
    BY <1>3, ForkOffers
  <2> QED
    BY <1>0, <1>3, <2>1
<1>4. CASE r.at = 3
  <2>1. 1 \in DOMAIN r.left /\ r.left[1] = Reading(Right(Beside(i)), 1)
    BY <1>4, ForkOffers
  <2> QED
    BY <1>0, <1>4, <2>1
<1> QED
  BY <1>1, <1>2, <1>3, <1>4

LEMMA GuardTakes ==
  ASSUME NEW r, GuardState(r)
  PROVE  /\ \E m \in DOMAIN r.left : r.left[m].kind = "in" /\ r.left[m].chan = Up
         /\ r.store.n < N - 1 =>
               \E m \in DOMAIN r.left : r.left[m].kind = "in" /\ r.left[m].chan = Down
<1> DEFINE down == [Reading(Down, 0) EXCEPT !.set = [n |-> r.store.n + 1]]
           up == [Reading(Up, 0) EXCEPT !.set = [n |-> r.store.n - 1]]
<1>1. down.kind = "in" /\ down.chan = Down /\ up.kind = "in" /\ up.chan = Up
  BY DEF Reading
<1>2. /\ r.store.n < N - 1 => r.left = <<down, up>>
      /\ ~(r.store.n < N - 1) => r.left = <<up>>
  BY GuardOffers
<1> HIDE DEF down, up
<1>3. CASE r.store.n < N - 1
  <2>1. r.left = <<down, up>>
    BY <1>2, <1>3
  <2>2. 1 \in DOMAIN r.left /\ r.left[1] = down /\ 2 \in DOMAIN r.left /\ r.left[2] = up
    BY <2>1
  <2> QED
    BY <1>1, <2>2
<1>4. CASE ~(r.store.n < N - 1)
  <2>1. r.left = <<up>>
    BY <1>2, <1>4
  <2>2. 1 \in DOMAIN r.left /\ r.left[1] = up
    BY <2>1
  <2> QED
    BY <1>1, <1>4, <2>2
<1> QED
  BY <1>3, <1>4

\* With a seat empty there is a fork that nobody holds, unless somebody has
\* both of his: the others hold one each at most.
LEMMA ForkFreeOrBoth ==
  ASSUME ForksHeld, Cardinality(Seated) < N,
         \A f \in 1..N : proc[N + f].at \in {2, 3},
         \A k \in 1..N : \A m \in {1, 2} : Holds(proc[k], m) => k \in Seated
  PROVE  \E k \in 1..N : Holds(proc[k], 1) /\ Holds(proc[k], 2)
<1>0. N \in Nat /\ N >= 2
  BY TableAssumption DEF N
<1> DEFINE holder == [f \in 1..N |-> IF proc[N + f].at = 2 THEN f ELSE Beside(f)]
<1>1. ASSUME NEW f \in 1..N
      PROVE  /\ Beside(f) \in 1..N
             /\ \/ holder[f] = f /\ Holds(proc[f], 1)
                \/ holder[f] = Beside(f) /\ Holds(proc[Beside(f)], 2)
             /\ holder[f] \in Seated
  <2>1. Beside(f) \in 1..N
    BY <1>0, BesideIs
  <2>2. CASE proc[N + f].at = 2
    <3>1. holder[f] = f /\ Holds(proc[f], 1)
      BY <2>2 DEF ForksHeld
    <3> QED
      BY <2>1, <3>1
  <2>3. CASE proc[N + f].at = 3
    <3>1. holder[f] = Beside(f) /\ Holds(proc[Beside(f)], 2)
      BY <2>3 DEF ForksHeld
    <3> QED
      BY <2>1, <3>1
  <2> QED
    BY <2>2, <2>3
<1>2. holder \in [1..N -> Seated]
  BY <1>1
<1>3. IsFiniteSet(1..N) /\ Cardinality(1..N) = N
  BY <1>0, FS_Interval
<1>4. IsFiniteSet(Seated) /\ Cardinality(Seated) < Cardinality(1..N)
  BY <1>3, SeatsFinite
<1> HIDE DEF holder
<1>5. PICK x \in 1..N, y \in 1..N : x # y /\ holder[x] = holder[y]
  <2> DEFINE R == 1..N
             T == Seated
  <2>1. /\ IsFiniteSet(R) /\ IsFiniteSet(T) /\ Cardinality(T) < Cardinality(R)
        /\ holder \in [R -> T]
    BY <1>2, <1>3, <1>4, Zenon
  <2> HIDE DEF R, T
  <2>2. \E x, y \in R : x # y /\ holder[x] = holder[y]
    BY <2>1, FS_PigeonHole
  <2> QED
    BY <2>2, Zenon DEF R
<1>6. Beside(x) # Beside(y)
  BY <1>0, <1>5, BesideIs
<1> QED
  BY <1>1, <1>5, <1>6

\* A philosopher who can neither pick up nor put down a fork waits for one.
LEMMA GoesOn ==
  ASSUME States, ForksHeld, SeatsCounted
  PROVE  DeadlockFree
<1> SUFFICES ASSUME ~DeadlockFree PROVE FALSE
  OBVIOUS
<1>0. N \in Nat /\ N >= 2
  BY TableAssumption DEF N
<1>1. ASSUME NEW p \in 1..N, NEW i \in DOMAIN proc[p].left
      PROVE  /\ proc[p].left[i].kind = "out"
             /\ \A q \in Procs : \A j \in DOMAIN proc[q].left :
                  ~(proc[q].left[j].kind = "in" /\ proc[q].left[j].chan = proc[p].left[i].chan)
  <2>1. p \in Procs /\ PhilState(p, proc[p])
    BY <1>0 DEF States, Procs
  <2>2. proc[p].left[i].kind = "tau" \/ proc[p].left[i].kind = "out"
    BY <2>1, PhilOffers
  <2>3. proc[p].left[i].kind # "tau"
    BY <2>1 DEF DeadlockFree
  <2> QED
    BY <2>1, <2>2, <2>3 DEF DeadlockFree, Meet
<1>2. ASSUME NEW k \in 1..N
      PROVE  /\ PhilState(k, proc[k]) /\ ForkState(k, proc[N + k]) /\ N + k \in Procs
             /\ Beside(k) \in 1..N /\ Beside(k) # k
  BY <1>0, BesideIs DEF States, Procs
<1>3. /\ GuardState(proc[2 * N + 1]) /\ 2 * N + 1 \in Procs
      /\ PaperState(proc[2 * N + 2]) /\ 2 * N + 2 \in Procs
  BY <1>0 DEF States, Procs
<1>4. \A k \in 1..N : \E f \in 1..N : Beside(f) = k
  <2> TAKE k \in 1..N
  <2>1. CASE k = 1
    <3>1. N \in 1..N /\ Beside(N) = 1
      BY <1>0, BesideIs
    <3> QED
      BY <2>1, <3>1
  <2>2. CASE k # 1
    <3>1. k - 1 \in 1..N /\ k - 1 # N
      BY <1>0, <2>2
    <3>2. Beside(k - 1) = k
      BY <3>1, BesideIs
    <3> QED
      BY <3>1, <3>2
  <2> QED
    BY <2>1, <2>2
<1>5. ASSUME NEW k \in 1..N
      PROVE  proc[k].at \in {4, 6}
  <2>0. PICK i : i \in DOMAIN proc[k].left
    BY <1>2 DEF PhilState
  <2>1. proc[k].at \in 1..11
    BY <1>2 DEF PhilState
  <2>2. proc[k].at \notin {2, 8}
    <3>1. proc[k].at \in {2, 8} => proc[k].left[i].kind = "tau"
      BY <1>2, <2>0, PhilOffers
    <3> QED
      BY <1>1, <2>0, <3>1
  <2>3. proc[k].at \notin {1, 3, 5, 7, 9}
    <3>1. proc[k].at \in {1, 3, 5, 7, 9} => proc[k].left[i].chan = ToPrint
      BY <1>2, <2>0, PhilOffers
    <3>2. proc[2 * N + 2].left
            = <<[kind |-> "in", chan |-> ToPrint, vars |-> << >>, set |-> << >>, to |-> 0]>>
      BY <1>3, PaperOffers
    <3>3. 1 \in DOMAIN proc[2 * N + 2].left /\ proc[2 * N + 2].left[1].kind = "in"
          /\ proc[2 * N + 2].left[1].chan = ToPrint
      BY <3>2
    <3> QED
      BY <1>1, <1>3, <2>0, <3>1, <3>3
  <2>4. proc[k].at # 11
    <3>1. proc[k].at = 11 => proc[k].left[i].chan = Up
      BY <1>2, <2>0, PhilOffers
    <3> QED
      BY <1>1, <1>3, <2>0, <3>1, GuardTakes
  <2>5. proc[k].at # 10
    <3> SUFFICES ASSUME proc[k].at = 10 PROVE FALSE
      OBVIOUS
    <3>1. (i = 1 /\ proc[k].left[i].chan = Left(k)) \/ (i = 2 /\ proc[k].left[i].chan = Right(k))
      BY <1>2, <2>0, PhilOffers
    <3>2. Holds(proc[k], i)
      BY <2>0 DEF Holds
    <3>3. CASE i = 1 /\ proc[k].left[i].chan = Left(k)
      <4>1. proc[N + k].at # 3
        BY <3>2, <3>3 DEF ForksHeld
      <4> QED
        BY <1>1, <1>2, <2>0, <3>3, <4>1, ForkTakes
    <3>4. CASE i = 2 /\ proc[k].left[i].chan = Right(k)
      <4>1. PICK f \in 1..N : Beside(f) = k
        BY <1>4
      <4>2. proc[N + f].at # 2
        BY <3>2, <3>4, <4>1 DEF ForksHeld
      <4>3. \E m \in DOMAIN proc[N + f].left :
               proc[N + f].left[m].kind = "in" /\ proc[N + f].left[m].chan = Right(k)
        BY <1>2, <4>1, <4>2, ForkTakes
      <4> QED
        BY <1>1, <1>2, <2>0, <3>4, <4>3
    <3> QED
      BY <3>1, <3>3, <3>4
  <2> QED
    BY <2>1, <2>2, <2>3, <2>4, <2>5
<1>6. ASSUME NEW k \in 1..N, NEW m \in {1, 2}, Holds(proc[k], m)
      PROVE  proc[k].at = 6 /\ m \notin DOMAIN proc[k].left /\ k \in Seated
  BY <1>5, <1>6 DEF Holds, Eating, Seated
<1>7. ASSUME NEW k \in 1..N PROVE ~(Holds(proc[k], 1) /\ Holds(proc[k], 2))
  <2>1. proc[k].at \in {6, 10} => DOMAIN proc[k].left \subseteq {1, 2}
    BY <1>2, PhilOffers
  <2>2. DOMAIN proc[k].left # {}
    BY <1>2 DEF PhilState
  <2> QED
    BY <1>6, <2>1, <2>2
<1>8. Cardinality(Seated) \in Nat /\ Cardinality(Seated) < N
  BY <1>0, SeatsFinite DEF SeatsCounted
<1>9. PICK f \in 1..N : proc[N + f].at = 1
  <2>1. \E f \in 1..N : proc[N + f].at \notin {2, 3}
    BY <1>6, <1>7, <1>8, ForkFreeOrBoth
  <2>2. \A f \in 1..N : proc[N + f].at \in 1..3
    BY <1>2 DEF ForkState
  <2> QED
    BY <2>1, <2>2
<1>10. ~Holds(proc[f], 1) /\ ~Holds(proc[Beside(f)], 2)
  BY <1>9 DEF ForksHeld
<1>11. proc[f].at = 4
  <2> SUFFICES ASSUME proc[f].at = 6 PROVE FALSE
    BY <1>5
  <2>1. 1 \in DOMAIN proc[f].left
    BY <1>10 DEF Holds
  <2>2. proc[f].left[1].chan = Left(f)
    BY <1>2, <2>1, PhilOffers
  <2> QED
    BY <1>1, <1>2, <1>9, <2>1, <2>2, ForkTakes
<1>12. proc[Beside(f)].at = 4
  <2> SUFFICES ASSUME proc[Beside(f)].at = 6 PROVE FALSE
    BY <1>2, <1>5
  <2>1. 2 \in DOMAIN proc[Beside(f)].left
    BY <1>10 DEF Holds
  <2>2. proc[Beside(f)].left[2].chan = Right(Beside(f))
    BY <1>2, <2>1, PhilOffers
  <2> QED
    BY <1>1, <1>2, <1>9, <2>1, <2>2, ForkTakes
<1>13. proc[2 * N + 1].store.n < N - 1
  <2> DEFINE S == Seated \cup {f}
  <2>1. IsFiniteSet(S) /\ Cardinality(S) = Cardinality(Seated) + 1
    <3>1. f \notin Seated
      BY <1>11 DEF Seated
    <3> QED
      BY <3>1, SeatsFinite, FS_AddElement
  <2>2. S \in SUBSET (1..N) /\ S # 1..N
    BY <1>2, <1>12, <1>9 DEF Seated
  <2>3. IsFiniteSet(1..N) /\ Cardinality(1..N) = N
    BY <1>0, FS_Interval
  <2>4. Cardinality(S) <= N /\ Cardinality(S) # N
    BY <2>2, <2>3, FS_Subset
  <2> QED
    BY <1>0, <1>8, <2>1, <2>4 DEF SeatsCounted
<1>14. PICK i : i \in DOMAIN proc[f].left
  BY <1>2 DEF PhilState
<1>15. proc[f].left[i].chan = Down
  BY <1>2, <1>11, <1>14, PhilOffers
<1> QED
  BY <1>1, <1>3, <1>13, <1>14, <1>15, GuardTakes

\* The philosophers never deadlock, whatever the size of the table: there is a
\* step for a process of the network in every state it reaches.
THEOREM PhilosophersGoOn ==
  ASSUME Nets["diningphil"] = DiningPhil
  PROVE  Spec => [](net = "diningphil" => DeadlockFree)
<1>1. IInv => (net = "diningphil" => DeadlockFree)
  BY GoesOn DEF IInv
<1> QED
  BY <1>1, Inductive, PTL

-----------------------------------------------------------------------------
(* The farm, for every number of workers and lines.                        *)

Data  == <<"data">>
Orders == <<"lines">>

ProducerOf == Producer(Orders, Lines, Workers)
ConsumerOf == Consumer(Data, Lines)
WorkerOf   == Mandelbrot(Orders, Data)

\* A process that is at the beginning of one of its phases K.
Runs(pr, K, r) == r.at \in K /\ r.store \in Store /\ r = At(pr, r.at, r.store)

\* The end markers and lines that the producer has written, what the consumer
\* has read, and the line that worker w has read last.
Sent    == proc[1].store.n
Picture == got[Data]
Line(w) == proc[2 + w].store.x

\* The workers that have a line, and those that have an end marker.
Busy    == {w \in 1..Workers : proc[2 + w].at = 2 /\ Line(w) # -1}
Stopped == {w \in 1..Workers : proc[2 + w].at = 2 /\ Line(w) = -1}

FarmStates ==
    /\ DOMAIN proc = 1..(2 + Workers) /\ DOMAIN got = {Data} /\ Picture \in Streams
    /\ Runs(ProducerOf, {1}, proc[1]) /\ Runs(ConsumerOf, {1}, proc[2])
    /\ \A w \in 1..Workers : Runs(WorkerOf, {1, 2}, proc[2 + w])

\* A line that has been written is with one worker or in one place of the
\* picture.
LinesOnce ==
    /\ \A i \in DOMAIN Picture :
          \E l \in 0..(Lines - 1) : l < Sent /\ Picture[i] = <<l>>
    /\ \A i, j \in DOMAIN Picture : i # j => Picture[i] # Picture[j]
    /\ \A w \in Busy :
          /\ Line(w) \in 0..(Lines - 1) /\ Line(w) < Sent
          /\ \A i \in DOMAIN Picture : Picture[i] # <<Line(w)>>
    /\ \A w, v \in Busy : w # v => Line(w) # Line(v)

\* No line is lost, and every end marker stops a worker.
LinesCounted ==
    /\ Sent \in 0..(Lines + Workers) /\ Len(Picture) = proc[2].store.n
    /\ Len(Picture) + Cardinality(Busy) = IF Sent <= Lines THEN Sent ELSE Lines
    /\ Cardinality(Stopped) = IF Sent <= Lines THEN 0 ELSE Sent - Lines

FarmInv == net = "farm" => FarmStates /\ LinesOnce /\ LinesCounted

LEMMA FarmTable ==
  /\ Farm.watch = [c \in {Data} |-> DistinctLines] /\ Farm.ends = 1..(2 + Workers)
  /\ DOMAIN Farm.procs = 1..(2 + Workers)
  /\ Farm.procs[1] = ProducerOf /\ Farm.procs[2] = ConsumerOf
  /\ \A w \in 1..Workers : Farm.procs[2 + w] = WorkerOf
<1> DEFINE ws == [w \in 1..Workers |-> WorkerOf]
<1>0. Workers \in Nat
  BY FarmAssumption
<1>1. /\ Farm.watch = [c \in {Data} |-> DistinctLines] /\ Farm.ends = 1..(2 + Workers)
      /\ Farm.procs = <<ProducerOf, ConsumerOf>> \o ws
  BY DEF Farm, Ending, Watched, On, ProducerOf, ConsumerOf, WorkerOf, Data, Orders
<1>2. Len(ws) = Workers
  BY <1>0
<1> QED
  BY <1>0, <1>1, <1>2

Order(n) == [kind |-> "out", chan |-> Orders, vals |-> <<IF n < Lines THEN n ELSE -1>>,
             set |-> [n |-> n + 1], to |-> 0]
Take(n)  == [kind |-> "in", chan |-> Data, vars |-> <<"x">>, set |-> [n |-> n + 1], to |-> 0]

LEMMA Assigned ==
  ASSUME NEW f, NEW c
  PROVE  Assign(f, All(<<c>>)) = [one |-> FALSE, comms |-> <<[c EXCEPT !.set = f]>>]
<1> DEFINE ph == [one |-> FALSE, comms |-> <<c>>]
           cs == [j \in DOMAIN ph.comms |-> [ph.comms[j] EXCEPT !.set = f]]
<1>1. All(<<c>>) = ph
  BY DEF All
<1>2. cs = <<[c EXCEPT !.set = f]>>
  OBVIOUS
<1>3. Assign(f, ph) = [ph EXCEPT !.comms = cs]
  BY DEF Assign
<1>4. Assign(f, ph) = [ph EXCEPT !.comms = <<[c EXCEPT !.set = f]>>]
  BY <1>2, <1>3
<1> QED
  BY <1>1, <1>4

\* producer.
LEMMA ProducerPhases ==
  ASSUME NEW s \in Store
  PROVE  LET b == ProducerOf.body[s] IN
         /\ ProducerOf.loop = 1 /\ Len(b) = 1
         /\ b[1] = [one |-> FALSE, comms |-> IF s.n = Lines + Workers THEN << >> ELSE <<Order(s.n)>>]
<1> DEFINE v == IF s.n < Lines THEN s.n ELSE -1
           ph == IF s.n = Lines + Workers THEN End ELSE Assign([n |-> s.n + 1], Write(Orders, v))
<1>1. ProducerOf.loop = 1 /\ ProducerOf.body[s] = <<ph>>
  BY DEF ProducerOf, Producer, Loop, LoopFrom
<1>2. End = [one |-> FALSE, comms |-> << >>]
  BY DEF End, All
<1>3. Write(Orders, v) = All(<<Out(Orders, <<v>>)>>)
  BY DEF Write
<1>4. [Out(Orders, <<v>>) EXCEPT !.set = [n |-> s.n + 1]] = Order(s.n)
  BY DEF Out, Order
<1>5. Assign([n |-> s.n + 1], Write(Orders, v)) = [one |-> FALSE, comms |-> <<Order(s.n)>>]
  BY <1>3, <1>4, Assigned
<1>6. ph = [one |-> FALSE, comms |-> IF s.n = Lines + Workers THEN << >> ELSE <<Order(s.n)>>]
  BY <1>2, <1>5
<1> HIDE DEF ph
<1> QED
  BY <1>1, <1>6

\* consumer.
LEMMA ConsumerPhases ==
  ASSUME NEW s \in Store
  PROVE  LET b == ConsumerOf.body[s] IN
         /\ ConsumerOf.loop = 1 /\ Len(b) = 1
         /\ b[1] = [one |-> FALSE, comms |-> IF s.n = Lines THEN << >> ELSE <<Take(s.n)>>]
<1> DEFINE ph == IF s.n = Lines THEN End ELSE Assign([n |-> s.n + 1], Read(Data, "x"))
<1>1. ConsumerOf.loop = 1 /\ ConsumerOf.body[s] = <<ph>>
  BY DEF ConsumerOf, Consumer, Loop, LoopFrom
<1>2. End = [one |-> FALSE, comms |-> << >>]
  BY DEF End, All
<1>3. Read(Data, "x") = All(<<In(Data, <<"x">>)>>)
  BY DEF Read
<1>4. [In(Data, <<"x">>) EXCEPT !.set = [n |-> s.n + 1]] = Take(s.n)
  BY DEF In, Take
<1>5. Assign([n |-> s.n + 1], Read(Data, "x")) = [one |-> FALSE, comms |-> <<Take(s.n)>>]
  BY <1>3, <1>4, Assigned
<1>6. ph = [one |-> FALSE, comms |-> IF s.n = Lines THEN << >> ELSE <<Take(s.n)>>]
  BY <1>2, <1>5
<1> HIDE DEF ph
<1> QED
  BY <1>1, <1>6

\* mandelbrot.
LEMMA WorkerPhases ==
  ASSUME NEW s \in Store
  PROVE  LET b == WorkerOf.body[s] IN
         /\ WorkerOf.loop = 1 /\ Len(b) = 2
         /\ b[1] = [one |-> FALSE, comms |-> <<Reading(Orders, 0)>>]
         /\ b[2] = [one |-> FALSE, comms |-> IF s.x = -1 THEN << >> ELSE <<Writing(Data, <<s.x>>)>>]
<1> DEFINE ph == IF s.x = -1 THEN End ELSE Write(Data, s.x)
<1>1. WorkerOf.loop = 1 /\ WorkerOf.body[s] = <<Read(Orders, "x"), ph>>
  BY DEF WorkerOf, Mandelbrot, Loop, LoopFrom
<1>2. End = [one |-> FALSE, comms |-> << >>]
  BY DEF End, All
<1>3. Read(Orders, "x") = [one |-> FALSE, comms |-> <<Reading(Orders, 0)>>]
  BY DEF Read, All, In, Reading
<1>4. Write(Data, s.x) = [one |-> FALSE, comms |-> <<Writing(Data, <<s.x>>)>>]
  BY DEF Write, All, Out, Writing
<1>5. ph = [one |-> FALSE, comms |-> IF s.x = -1 THEN << >> ELSE <<Writing(Data, <<s.x>>)>>]
  BY <1>2, <1>4
<1> HIDE DEF ph
<1> QED
  BY <1>1, <1>3, <1>5

LEMMA RunsAt ==
  ASSUME NEW pr, NEW K, NEW r, Runs(pr, K, r)
  PROVE  /\ r.at \in K /\ r.store \in Store /\ r.store.n \in Int /\ r.store.x \in Int
         /\ r.left = pr.body[r.store][r.at].comms
BY DEF Runs, At, Store

LEMMA ProducerOffers ==
  ASSUME NEW r, Runs(ProducerOf, {1}, r)
  PROVE  /\ r.store.n = Lines + Workers => r.left = << >>
         /\ r.store.n # Lines + Workers => r.left = <<Order(r.store.n)>>
         /\ \A i \in DOMAIN r.left : i = 1 /\ r.store.n # Lines + Workers
<1>1. r.at = 1 /\ r.store \in Store /\ r.left = ProducerOf.body[r.store][1].comms
  BY RunsAt
<1>2. ProducerOf.body[r.store][1] =
        [one |-> FALSE,
         comms |-> IF r.store.n = Lines + Workers THEN << >> ELSE <<Order(r.store.n)>>]
  BY <1>1, ProducerPhases
<1>3. r.left = IF r.store.n = Lines + Workers THEN << >> ELSE <<Order(r.store.n)>>
  BY <1>1, <1>2
<1>4. CASE r.store.n = Lines + Workers
  BY <1>3, <1>4
<1>5. CASE r.store.n # Lines + Workers
  BY <1>3, <1>5
<1> QED
  BY <1>4, <1>5

LEMMA ConsumerOffers ==
  ASSUME NEW r, Runs(ConsumerOf, {1}, r)
  PROVE  /\ r.store.n = Lines => r.left = << >>
         /\ r.store.n # Lines => r.left = <<Take(r.store.n)>>
         /\ \A i \in DOMAIN r.left : i = 1 /\ r.store.n # Lines
<1>1. r.at = 1 /\ r.store \in Store /\ r.left = ConsumerOf.body[r.store][1].comms
  BY RunsAt
<1>2. ConsumerOf.body[r.store][1] =
        [one |-> FALSE, comms |-> IF r.store.n = Lines THEN << >> ELSE <<Take(r.store.n)>>]
  BY <1>1, ConsumerPhases
<1>3. r.left = IF r.store.n = Lines THEN << >> ELSE <<Take(r.store.n)>>
  BY <1>1, <1>2
<1>4. CASE r.store.n = Lines
  BY <1>3, <1>4
<1>5. CASE r.store.n # Lines
  BY <1>3, <1>5
<1> QED
  BY <1>4, <1>5

LEMMA WorkerOffers ==
  ASSUME NEW r, Runs(WorkerOf, {1, 2}, r)
  PROVE  /\ r.at = 1 => r.left = <<Reading(Orders, 0)>>
         /\ r.at = 2 /\ r.store.x = -1 => r.left = << >>
         /\ r.at = 2 /\ r.store.x # -1 => r.left = <<Writing(Data, <<r.store.x>>)>>
         /\ \A i \in DOMAIN r.left : i = 1 /\ (r.at = 1 \/ (r.at = 2 /\ r.store.x # -1))
<1>1. r.at \in {1, 2} /\ r.store \in Store /\ r.left = WorkerOf.body[r.store][r.at].comms
  BY RunsAt
<1>2. /\ WorkerOf.body[r.store][1] = [one |-> FALSE, comms |-> <<Reading(Orders, 0)>>]
      /\ WorkerOf.body[r.store][2] =
           [one |-> FALSE, comms |-> IF r.store.x = -1 THEN << >> ELSE <<Writing(Data, <<r.store.x>>)>>]
  BY <1>1, WorkerPhases
<1>3. CASE r.at = 1
  <2>1. r.left = <<Reading(Orders, 0)>>
    BY <1>1, <1>2, <1>3
  <2> QED
    BY <1>3, <2>1
<1>4. CASE r.at = 2
  <2>1. r.left = IF r.store.x = -1 THEN << >> ELSE <<Writing(Data, <<r.store.x>>)>>
    BY <1>1, <1>2, <1>4
  <2>2. CASE r.store.x = -1
    BY <1>4, <2>1, <2>2
  <2>3. CASE r.store.x # -1
    BY <1>4, <2>1, <2>3
  <2> QED
    BY <2>2, <2>3
<1> QED
  BY <1>1, <1>3, <1>4

\* A writer that counts.
LEMMA ReceivedN ==
  ASSUME NEW s \in Store, NEW c, NEW vals, NEW m \in Int, c.kind = "out", c.set = [n |-> m]
  PROVE  Received(s, c, vals) \in Store /\ Received(s, c, vals).n = m
<1> DEFINE t == Received(s, c, vals)
           read(u) == {k \in IF c.kind = "in" THEN DOMAIN c.vars ELSE {} : c.vars[k] = u}
<1>1. t = [u \in DOMAIN s |->
            IF u \in DOMAIN c.set THEN c.set[u]
            ELSE IF read(u) # {} THEN vals[CHOOSE k \in read(u) : TRUE] ELSE s[u]]
  BY DEF Received
<1>2. \A u : read(u) = {}
  OBVIOUS
<1>3. DOMAIN c.set = {"n"} /\ c.set["n"] = m
  OBVIOUS
<1>4. DOMAIN s = {"x", "y", "i", "n"} /\ s["x"] \in Int /\ s["y"] \in Int /\ s["i"] \in Int
  BY DEF Store
<1> HIDE DEF read
<1>5. t = [u \in DOMAIN s |-> IF u \in {"n"} THEN m ELSE s[u]]
  BY <1>1, <1>2, <1>3
<1> HIDE DEF t
<1>6. /\ DOMAIN t = {"x", "y", "i", "n"} /\ t = [w \in DOMAIN t |-> t[w]]
      /\ t["x"] = s["x"] /\ t["y"] = s["y"] /\ t["i"] = s["i"] /\ t["n"] = m
  BY <1>4, <1>5
<1>7. t \in Store
  BY <1>4, <1>6, IsStore
<1> QED
  BY <1>6, <1>7 DEF t

\* A process of the farm after its communication c, the only one of its phase.
LEMMA FarmDid ==
  ASSUME NEW p, NEW j, NEW vals, NEW pr, NEW c, NEW t,
         Nets[net].procs[p] = pr, proc[p].left = <<c>>, j \in DOMAIN proc[p].left, c.to = 0,
         Received(proc[p].store, c, vals) = t
  PROVE  Did(p, j, vals) =
           At(pr, IF proc[p].at = Len(pr.body[t]) THEN pr.loop ELSE proc[p].at + 1, t)
<1>1. DOMAIN proc[p].left = {j} /\ proc[p].left[j] = c
  OBVIOUS
<1> QED
  BY <1>1, DidNext

LEMMA ProducerDid ==
  ASSUME Nets[net] = Farm, Runs(ProducerOf, {1}, proc[1]), NEW j \in DOMAIN proc[1].left
  PROVE  LET d == Did(1, j, << >>) IN
         Runs(ProducerOf, {1}, d) /\ d.store.n = proc[1].store.n + 1
<1> DEFINE n == proc[1].store.n
           t == Received(proc[1].store, Order(n), << >>)
<1>0. proc[1].at = 1 /\ proc[1].store \in Store /\ n \in Int
  BY RunsAt
<1>1. proc[1].left = <<Order(n)>>
  BY ProducerOffers
<1>2. Order(n).kind = "out" /\ Order(n).set = [n |-> n + 1] /\ Order(n).to = 0
  BY DEF Order
<1>3. t \in Store /\ t.n = n + 1
  BY <1>0, <1>2, ReceivedN
<1>4. ProducerOf.loop = 1 /\ Len(ProducerOf.body[t]) = 1
  BY <1>3, ProducerPhases
<1>5. Nets[net].procs[1] = ProducerOf
  BY FarmTable
<1> HIDE DEF t
<1>6. Did(1, j, << >>) = At(ProducerOf, 1, t)
  <2>1. Did(1, j, << >>) =
          At(ProducerOf, IF proc[1].at = Len(ProducerOf.body[t]) THEN ProducerOf.loop
                         ELSE proc[1].at + 1, t)
    BY <1>1, <1>2, <1>5, FarmDid DEF t
  <2> QED
    BY <1>0, <1>4, <2>1
<1> QED
  BY <1>3, <1>6, AtFields DEF Runs

LEMMA ConsumerDid ==
  ASSUME Nets[net] = Farm, Runs(ConsumerOf, {1}, proc[2]), NEW j \in DOMAIN proc[2].left,
         NEW v \in Int
  PROVE  LET d == Did(2, j, <<v>>) IN
         Runs(ConsumerOf, {1}, d) /\ d.store.n = proc[2].store.n + 1
<1> DEFINE n == proc[2].store.n
           t == Received(proc[2].store, Take(n), <<v>>)
<1>0. proc[2].at = 1 /\ proc[2].store \in Store /\ n \in Int
  BY RunsAt
<1>1. proc[2].left = <<Take(n)>>
  BY ConsumerOffers
<1>2. Take(n).kind = "in" /\ Take(n).vars = <<"x">> /\ Take(n).set = [n |-> n + 1] /\ Take(n).to = 0
  BY DEF Take
<1>3. t \in Store /\ t.n = n + 1
  BY <1>0, <1>2, ReceivedXN
<1>4. ConsumerOf.loop = 1 /\ Len(ConsumerOf.body[t]) = 1
  BY <1>3, ConsumerPhases
<1>5. Nets[net].procs[2] = ConsumerOf
  BY FarmTable
<1> HIDE DEF t
<1>6. Did(2, j, <<v>>) = At(ConsumerOf, 1, t)
  <2>1. Did(2, j, <<v>>) =
          At(ConsumerOf, IF proc[2].at = Len(ConsumerOf.body[t]) THEN ConsumerOf.loop
                         ELSE proc[2].at + 1, t)
    BY <1>1, <1>2, <1>5, FarmDid DEF t
  <2> QED
    BY <1>0, <1>4, <2>1
<1> QED
  BY <1>3, <1>6, AtFields DEF Runs

LEMMA WorkerReads ==
  ASSUME Nets[net] = Farm, NEW w \in 1..Workers, Runs(WorkerOf, {1, 2}, proc[2 + w]),
         proc[2 + w].at = 1, NEW j \in DOMAIN proc[2 + w].left, NEW v \in Int
  PROVE  LET d == Did(2 + w, j, <<v>>) IN
         Runs(WorkerOf, {1, 2}, d) /\ d.at = 2 /\ d.store.x = v
<1> DEFINE p == 2 + w
           c == Reading(Orders, 0)
           t == Received(proc[p].store, c, <<v>>)
<1>0. proc[p].store \in Store
  BY RunsAt
<1>1. proc[p].left = <<c>>
  BY WorkerOffers
<1>2. c.kind = "in" /\ c.vars = <<"x">> /\ c.set = << >> /\ c.to = 0
  BY DEF Reading
<1>3. Nets[net].procs[p] = WorkerOf
  BY FarmTable
<1>4. j \in DOMAIN proc[p].left /\ proc[p].at = 1
  OBVIOUS
<1> HIDE DEF p, c
<1>5. t \in Store /\ t.x = v
  BY <1>0, <1>2, ReceivedX
<1>6. WorkerOf.loop = 1 /\ Len(WorkerOf.body[t]) = 2
  BY <1>5, WorkerPhases
<1> HIDE DEF t
<1>7. Did(p, j, <<v>>) = At(WorkerOf, 2, t)
  <2>1. Did(p, j, <<v>>) =
          At(WorkerOf, IF proc[p].at = Len(WorkerOf.body[t]) THEN WorkerOf.loop
                       ELSE proc[p].at + 1, t)
    <3>1. DOMAIN proc[p].left = {j} /\ proc[p].left[j] = c
      BY <1>1, <1>4
    <3>2. Received(proc[p].store, proc[p].left[j], <<v>>) = t /\ proc[p].left[j].to = 0
      BY <1>2, <3>1 DEF t
    <3> QED
      BY <1>3, <3>1, <3>2, DidNext
  <2> QED
    BY <1>4, <1>6, <2>1
<1> QED
  BY <1>5, <1>7, AtFields DEF Runs, p

LEMMA WorkerWrites ==
  ASSUME Nets[net] = Farm, NEW w \in 1..Workers, Runs(WorkerOf, {1, 2}, proc[2 + w]),
         proc[2 + w].at = 2, NEW j \in DOMAIN proc[2 + w].left
  PROVE  LET d == Did(2 + w, j, << >>) IN Runs(WorkerOf, {1, 2}, d) /\ d.at = 1
<1> DEFINE p == 2 + w
           c == Writing(Data, <<proc[p].store.x>>)
<1>0. proc[p].store \in Store
  BY RunsAt
<1>1. proc[p].left = <<c>>
  BY WorkerOffers
<1>2. c.kind # "in" /\ c.set = << >> /\ c.to = 0
  BY DEF Writing
<1>3. Nets[net].procs[p] = WorkerOf
  BY FarmTable
<1>4. j \in DOMAIN proc[p].left /\ proc[p].at = 2
  OBVIOUS
<1> HIDE DEF p, c
<1>5. Received(proc[p].store, c, << >>) = proc[p].store
  BY <1>0, <1>2, ReceivedNothing
<1>6. WorkerOf.loop = 1 /\ Len(WorkerOf.body[proc[p].store]) = 2
  BY <1>0, WorkerPhases
<1>7. Did(p, j, << >>) = At(WorkerOf, 1, proc[p].store)
  <2>1. Did(p, j, << >>) =
          At(WorkerOf, IF proc[p].at = Len(WorkerOf.body[proc[p].store]) THEN WorkerOf.loop
                       ELSE proc[p].at + 1, proc[p].store)
    <3>1. DOMAIN proc[p].left = {j} /\ proc[p].left[j] = c
      BY <1>1, <1>4
    <3>2. /\ Received(proc[p].store, proc[p].left[j], << >>) = proc[p].store
          /\ proc[p].left[j].to = 0
      BY <1>2, <1>5, <3>1
    <3> QED
      BY <1>3, <3>1, <3>2, DidNext
  <2> QED
    BY <1>4, <1>6, <2>1
<1> QED
  BY <1>0, <1>7, AtFields DEF Runs, p

\* What is offered: who writes, who reads.
LEMMA FarmOffers ==
  ASSUME FarmStates, NEW p \in Procs, NEW i \in DOMAIN proc[p].left
  PROVE  LET c == proc[p].left[i] IN
         \/ p = 1 /\ c = Order(Sent) /\ Sent # Lines + Workers
         \/ p = 2 /\ c = Take(proc[2].store.n) /\ proc[2].store.n # Lines
         \/ \E w \in 1..Workers :
               /\ p = 2 + w
               /\ \/ proc[p].at = 1 /\ c = Reading(Orders, 0)
                  \/ proc[p].at = 2 /\ Line(w) # -1 /\ c = Writing(Data, <<Line(w)>>)
<1>0. Workers \in Nat
  BY FarmAssumption
<1>1. p = 1 \/ p = 2 \/ \E w \in 1..Workers : p = 2 + w
  <2>1. p \in 1..(2 + Workers)
    BY DEF FarmStates, Procs
  <2>2. CASE p # 1 /\ p # 2
    <3>1. p - 2 \in 1..Workers /\ p = 2 + (p - 2)
      BY <1>0, <2>1, <2>2
    <3> QED
      BY <3>1
  <2> QED
    BY <2>2
<1>2. CASE p = 1
  <2>1. Runs(ProducerOf, {1}, proc[1])
    BY DEF FarmStates
  <2> QED
    BY <1>2, <2>1, ProducerOffers DEF Sent
<1>3. CASE p = 2
  <2>1. Runs(ConsumerOf, {1}, proc[2])
    BY DEF FarmStates
  <2> QED
    BY <1>3, <2>1, ConsumerOffers
<1>4. ASSUME NEW w \in 1..Workers, p = 2 + w
      PROVE  \/ proc[p].at = 1 /\ proc[p].left[i] = Reading(Orders, 0)
             \/ proc[p].at = 2 /\ Line(w) # -1 /\ proc[p].left[i] = Writing(Data, <<Line(w)>>)
  <2>1. Runs(WorkerOf, {1, 2}, proc[p])
    BY <1>4 DEF FarmStates
  <2>2. proc[p].at \in {1, 2} /\ Line(w) = proc[p].store.x
    BY <1>4, <2>1, RunsAt DEF Line
  <2> QED
    BY <2>1, <2>2, WorkerOffers
<1> QED
  BY <1>1, <1>2, <1>3, <1>4

LEMMA FarmPartners ==
  ASSUME FarmStates, NEW p \in Procs, NEW q \in Procs,
         NEW i \in DOMAIN proc[p].left, NEW j \in DOMAIN proc[q].left,
         Meet(proc[p].left[i], proc[q].left[j])
  PROVE  \E w \in 1..Workers :
            \/ /\ p = 1 /\ q = 2 + w /\ proc[q].at = 1
               /\ proc[p].left[i] = Order(Sent) /\ Sent # Lines + Workers
            \/ /\ p = 2 + w /\ q = 2 /\ proc[p].at = 2 /\ Line(w) # -1
               /\ proc[p].left[i] = Writing(Data, <<Line(w)>>) /\ proc[2].store.n # Lines
<1> DEFINE c == proc[p].left[i]
           e == proc[q].left[j]
<1>1. c.kind = "out" /\ e.kind = "in" /\ c.chan = e.chan
  BY DEF Meet
<1>2. \A n : Take(n).kind = "in" /\ Take(n).chan = Data
  BY DEF Take
<1>3. \A n : Order(n).kind = "out" /\ Order(n).chan = Orders
  BY DEF Order
<1>4. Reading(Orders, 0).kind = "in" /\ Reading(Orders, 0).chan = Orders
  BY DEF Reading
<1>5. \A v : Writing(Data, v).kind = "out" /\ Writing(Data, v).chan = Data
  BY DEF Writing
<1>6. Orders # Data /\ "in" # "out"
  BY DEF Orders, Data
<1>7. \/ p = 1 /\ c = Order(Sent) /\ Sent # Lines + Workers
      \/ \E w \in 1..Workers :
            p = 2 + w /\ proc[p].at = 2 /\ Line(w) # -1 /\ c = Writing(Data, <<Line(w)>>)
  BY <1>1, <1>2, <1>4, <1>6, FarmOffers
<1>8. \/ q = 2 /\ e = Take(proc[2].store.n) /\ proc[2].store.n # Lines
      \/ \E w \in 1..Workers : q = 2 + w /\ proc[q].at = 1 /\ e = Reading(Orders, 0)
  BY <1>1, <1>3, <1>5, <1>6, FarmOffers
<1> HIDE DEF c, e
<1>9. CASE p = 1 /\ c = Order(Sent) /\ Sent # Lines + Workers
  <2>1. \E w \in 1..Workers : q = 2 + w /\ proc[q].at = 1
    BY <1>1, <1>2, <1>3, <1>6, <1>8, <1>9
  <2> QED
    BY <1>9, <2>1 DEF c
<1>10. ASSUME NEW w \in 1..Workers, p = 2 + w, proc[p].at = 2, Line(w) # -1,
              c = Writing(Data, <<Line(w)>>)
       PROVE  q = 2 /\ proc[2].store.n # Lines
  BY <1>1, <1>4, <1>5, <1>6, <1>8, <1>10
<1> QED
  BY <1>7, <1>9, <1>10 DEF c

LEMMA WorkersFinite ==
  /\ IsFiniteSet(Busy) /\ Cardinality(Busy) \in Nat
  /\ IsFiniteSet(Stopped) /\ Cardinality(Stopped) \in Nat
<1>1. Workers \in Nat
  BY FarmAssumption
<1>2. IsFiniteSet(1..Workers)
  BY <1>1, FS_Interval
<1>3. Busy \in SUBSET (1..Workers) /\ Stopped \in SUBSET (1..Workers)
  BY DEF Busy, Stopped
<1>4. IsFiniteSet(Busy) /\ IsFiniteSet(Stopped)
  BY <1>2, <1>3, FS_Subset
<1> QED
  BY <1>4, FS_CardinalityType

LEMMA FarmStart ==
  ASSUME Nets["farm"] = Farm, Init
  PROVE  FarmInv
<1> SUFFICES ASSUME net = "farm" PROVE FarmStates /\ LinesOnce /\ LinesCounted
  BY DEF FarmInv
<1>0. Workers \in Nat /\ Lines \in Nat
  BY FarmAssumption
<1>1. proc = [p \in DOMAIN Farm.procs |-> At(Farm.procs[p], 1, Zero)]
  BY DEF Init, Zero
<1>2. got = [c \in {Data} |-> << >>]
  BY FarmTable DEF Init
<1>3. DOMAIN proc = 1..(2 + Workers)
  BY <1>1, FarmTable
<1>4. \A k \in 1..(2 + Workers) : proc[k] = At(Farm.procs[k], 1, Zero)
  BY <1>1, <1>3
<1>5. proc[1] = At(ProducerOf, 1, Zero) /\ proc[2] = At(ConsumerOf, 1, Zero)
  <2>1. 1 \in 1..(2 + Workers) /\ 2 \in 1..(2 + Workers)
    BY <1>0
  <2> QED
    BY <1>4, <2>1, FarmTable
<1>6. \A w \in 1..Workers : proc[2 + w] = At(WorkerOf, 1, Zero)
  <2>1. \A w \in 1..Workers : 2 + w \in 1..(2 + Workers)
    BY <1>0
  <2> QED
    BY <1>4, <2>1, FarmTable
<1>7. Picture = << >> /\ DOMAIN got = {Data}
  BY <1>2 DEF Picture
<1>8. FarmStates
  <2>1. Runs(ProducerOf, {1}, proc[1]) /\ Runs(ConsumerOf, {1}, proc[2])
    BY <1>5, AtFields, ZeroStored DEF Runs
  <2>2. \A w \in 1..Workers : Runs(WorkerOf, {1, 2}, proc[2 + w])
    BY <1>6, AtFields, ZeroStored DEF Runs
  <2>3. Picture \in Streams
    BY <1>7 DEF Streams
  <2> QED
    BY <1>3, <1>7, <2>1, <2>2, <2>3 DEF FarmStates
<1>9. Busy = {} /\ Stopped = {}
  <2>1. \A w \in 1..Workers : proc[2 + w].at = 1
    BY <1>6, AtFields
  <2> QED
    BY <2>1 DEF Busy, Stopped
<1>10. LinesOnce
  BY <1>7, <1>9 DEF LinesOnce
<1>11. LinesCounted
  <2>1. Sent = 0 /\ proc[2].store.n = 0
    BY <1>5, AtFields DEF Sent, Zero
  <2>2. Cardinality(Busy) = 0 /\ Cardinality(Stopped) = 0
    BY <1>9, FS_EmptySet
  <2>3. Len(Picture) = 0
    BY <1>7
  <2> QED
    BY <1>0, <2>1, <2>2, <2>3 DEF LinesCounted
<1> QED
  BY <1>8, <1>10, <1>11

\* A worker reads a line or an end marker.
LEMMA OrderStep ==
  ASSUME FarmStates, LinesOnce, LinesCounted, NEW w \in 1..Workers, proc[2 + w].at = 1,
         Sent # Lines + Workers, proc'[1].store.n = Sent + 1, proc'[2] = proc[2], got' = got,
         proc'[2 + w].at = 2, proc'[2 + w].store.x = IF Sent < Lines THEN Sent ELSE -1,
         \A v \in 1..Workers : v # w => proc'[2 + v] = proc[2 + v]
  PROVE  LinesOnce' /\ LinesCounted'
<1>0. Workers \in Nat /\ Lines \in Nat /\ Sent \in 0..(Lines + Workers)
  BY FarmAssumption DEF LinesCounted
<1>1. Sent' = Sent + 1 /\ Picture' = Picture
  BY DEF Sent, Picture
<1>2. \A v \in 1..Workers : v # w => (Line(v)') = Line(v)
  BY DEF Line
<1>3. w \notin Busy /\ w \notin Stopped
  BY DEF Busy, Stopped
<1>4. \A v \in Busy : Line(v) \in Int /\ v # w /\ Line(v)' = Line(v)
  BY <1>2, <1>3 DEF LinesOnce, Busy
<1>5. CASE Sent < Lines
  <2>1. (Line(w)') = Sent
    BY <1>5 DEF Line
  <2>2. Sent # -1
    BY <1>0
  <2>3. Busy' = Busy \cup {w}
    BY <1>2, <2>1, <2>2 DEF Busy
  <2>4. Stopped' = Stopped
    BY <1>2, <1>3, <2>1, <2>2 DEF Stopped
  <2>5. LinesOnce'
    <3>1. \A i \in DOMAIN Picture : \E l \in 0..(Lines - 1) : l < Sent + 1 /\ Picture[i] = <<l>>
      BY <1>0 DEF LinesOnce
    <3>2. \A v \in Busy' :
             /\ (Line(v)') \in 0..(Lines - 1) /\ (Line(v)') < Sent + 1
             /\ \A i \in DOMAIN Picture : Picture[i] # <<(Line(v)')>>
      <4> SUFFICES ASSUME NEW v \in Busy'
                   PROVE  /\ (Line(v)') \in 0..(Lines - 1) /\ (Line(v)') < Sent + 1
                          /\ \A i \in DOMAIN Picture : Picture[i] # <<(Line(v)')>>
        OBVIOUS
      <4>1. CASE v = w
        <5>1. \A i \in DOMAIN Picture : Picture[i] # <<Sent>>
          BY <1>0 DEF LinesOnce
        <5> QED
          BY <1>0, <1>5, <2>1, <4>1, <5>1
      <4>2. CASE v # w
        <5>1. v \in Busy
          BY <2>3, <4>2
        <5>2. /\ Line(v) \in 0..(Lines - 1) /\ Line(v) < Sent
              /\ \A i \in DOMAIN Picture : Picture[i] # <<Line(v)>>
          BY <5>1 DEF LinesOnce
        <5> QED
          BY <1>0, <1>4, <5>1, <5>2
      <4> QED
        BY <4>1, <4>2
    <3>3. \A u, v \in Busy' : u # v => (Line(u)') # (Line(v)')
      <4>1. \A v \in Busy : Line(v) < Sent /\ Line(v) # Sent
        BY <1>0 DEF LinesOnce
      <4>2. \A u, v \in Busy : u # v => Line(u) # Line(v)
        BY DEF LinesOnce
      <4> QED
        BY <1>4, <2>1, <2>3, <4>1, <4>2
    <3>4. \A i, j \in DOMAIN Picture : i # j => Picture[i] # Picture[j]
      BY DEF LinesOnce
    <3> QED
      BY <1>1, <3>1, <3>2, <3>3, <3>4 DEF LinesOnce
  <2>6. LinesCounted'
    <3>1. Cardinality(Busy') = Cardinality(Busy) + 1
      BY <1>3, <2>3, WorkersFinite, FS_AddElement
    <3>2. /\ Len(Picture) = proc[2].store.n
          /\ Len(Picture) + Cardinality(Busy) = Sent /\ Cardinality(Stopped) = 0
      BY <1>0, <1>5 DEF LinesCounted
    <3>3. Len(Picture) \in Nat /\ Cardinality(Busy) \in Nat
      BY WorkersFinite DEF FarmStates, Streams
    <3>4. /\ Sent + 1 \in 0..(Lines + Workers) /\ Sent + 1 <= Lines
          /\ Len(Picture) + (Cardinality(Busy) + 1) = Sent + 1
      <4>1. Sent + 1 \in 0..(Lines + Workers) /\ Sent + 1 <= Lines
        BY <1>0, <1>5
      <4>2. Len(Picture) + (Cardinality(Busy) + 1) = Sent + 1
        <5>1. \A a, b \in Nat : a + (b + 1) = (a + b) + 1
          OBVIOUS
        <5> QED
          BY <3>2, <3>3, <5>1
      <4> QED
        BY <4>1, <4>2
    <3> QED
      BY <1>1, <2>4, <3>1, <3>2, <3>4 DEF LinesCounted
  <2> QED
    BY <2>5, <2>6
<1>6. CASE ~(Sent < Lines)
  <2>1. (Line(w)') = -1
    BY <1>6 DEF Line
  <2>2. Busy' = Busy
    BY <1>2, <1>3, <2>1 DEF Busy
  <2>3. Stopped' = Stopped \cup {w}
    BY <1>2, <2>1 DEF Stopped
  <2>4. LinesOnce'
    <3>1. \A i \in DOMAIN Picture : \E l \in 0..(Lines - 1) : l < Sent + 1 /\ Picture[i] = <<l>>
      BY <1>0 DEF LinesOnce
    <3>2. \A v \in Busy :
             /\ Line(v) \in 0..(Lines - 1) /\ Line(v) < Sent + 1
             /\ \A i \in DOMAIN Picture : Picture[i] # <<Line(v)>>
      BY <1>0 DEF LinesOnce
    <3>3. /\ \A u, v \in Busy : u # v => Line(u) # Line(v)
          /\ \A i, j \in DOMAIN Picture : i # j => Picture[i] # Picture[j]
      BY DEF LinesOnce
    <3> QED
      BY <1>1, <1>4, <2>2, <3>1, <3>2, <3>3 DEF LinesOnce
  <2>5. LinesCounted'
    <3>1. Cardinality(Stopped') = Cardinality(Stopped) + 1
      BY <1>3, <2>3, WorkersFinite, FS_AddElement
    <3>2. /\ Len(Picture) = proc[2].store.n
          /\ Len(Picture) + Cardinality(Busy) = Lines /\ Cardinality(Stopped) = Sent - Lines
      BY <1>0, <1>6 DEF LinesCounted
    <3>3. /\ Sent + 1 \in 0..(Lines + Workers) /\ ~(Sent + 1 <= Lines)
          /\ Cardinality(Stopped) + 1 = (Sent + 1) - Lines
      BY <1>0, <1>6, <3>2
    <3> QED
      BY <1>1, <2>2, <3>1, <3>2, <3>3 DEF LinesCounted
  <2> QED
    BY <2>4, <2>5
<1> QED
  BY <1>5, <1>6

\* The consumer reads a line.
LEMMA LineStep ==
  ASSUME FarmStates, LinesOnce, LinesCounted, NEW w \in 1..Workers, proc[2 + w].at = 2,
         Line(w) # -1, proc'[1] = proc[1], proc'[2].store.n = proc[2].store.n + 1,
         proc'[2 + w].at = 1, (Picture') = Append(Picture, <<Line(w)>>),
         \A v \in 1..Workers : v # w => proc'[2 + v] = proc[2 + v]
  PROVE  LinesOnce' /\ LinesCounted'
<1>0. Workers \in Nat /\ Lines \in Nat /\ Sent \in 0..(Lines + Workers)
  BY FarmAssumption DEF LinesCounted
<1>1. Sent' = Sent
  BY DEF Sent
<1>2. \A v \in 1..Workers : v # w => (Line(v)') = Line(v)
  BY DEF Line
<1>3. w \in Busy
  BY DEF Busy
<1>4. Busy' = Busy \ {w} /\ Stopped' = Stopped
  BY <1>2 DEF Busy, Stopped
<1>5. \A v \in Busy' : v \in Busy /\ v # w /\ (Line(v)') = Line(v)
  BY <1>2, <1>4 DEF Busy
<1>6. Picture \in Seq(Seq(Int)) /\ Len(Picture) \in Nat
  BY DEF FarmStates, Streams
<1>7. /\ DOMAIN (Picture') = 1..(Len(Picture) + 1) /\ Len(Picture') = Len(Picture) + 1
      /\ \A i \in DOMAIN Picture : (Picture')[i] = Picture[i]
      /\ (Picture')[Len(Picture) + 1] = <<Line(w)>>
      /\ DOMAIN Picture = 1..Len(Picture)
  BY <1>6
<1>8. \A i \in DOMAIN (Picture') : i \in DOMAIN Picture \/ i = Len(Picture) + 1
  BY <1>6, <1>7
<1>9. LinesOnce'
  <2>1. /\ Line(w) \in 0..(Lines - 1) /\ Line(w) < Sent
        /\ \A i \in DOMAIN Picture : Picture[i] # <<Line(w)>>
    BY <1>3 DEF LinesOnce
  <2>2. \A i \in DOMAIN (Picture') : \E l \in 0..(Lines - 1) : l < Sent /\ (Picture')[i] = <<l>>
    <3>1. \A i \in DOMAIN Picture : \E l \in 0..(Lines - 1) : l < Sent /\ Picture[i] = <<l>>
      BY DEF LinesOnce
    <3> QED
      BY <1>7, <1>8, <2>1, <3>1
  <2>3. \A i, j \in DOMAIN (Picture') : i # j => (Picture')[i] # (Picture')[j]
    <3>1. \A i, j \in DOMAIN Picture : i # j => Picture[i] # Picture[j]
      BY DEF LinesOnce
    <3> QED
      BY <1>7, <1>8, <2>1, <3>1
  <2>4. \A v \in Busy' :
           /\ (Line(v)') \in 0..(Lines - 1) /\ (Line(v)') < Sent
           /\ \A i \in DOMAIN (Picture') : (Picture')[i] # <<(Line(v)')>>
    <3> SUFFICES ASSUME NEW v \in Busy, v # w
                 PROVE  /\ Line(v) \in 0..(Lines - 1) /\ Line(v) < Sent
                        /\ \A i \in DOMAIN (Picture') : (Picture')[i] # <<Line(v)>>
      BY <1>5
    <3>1. /\ Line(v) \in 0..(Lines - 1) /\ Line(v) < Sent /\ Line(w) # Line(v)
          /\ \A i \in DOMAIN Picture : Picture[i] # <<Line(v)>>
      BY <1>3 DEF LinesOnce
    <3>2. <<Line(w)>> # <<Line(v)>>
      BY <3>1
    <3> QED
      BY <1>7, <1>8, <3>1, <3>2
  <2>5. \A u, v \in Busy' : u # v => (Line(u)') # (Line(v)')
    BY <1>5 DEF LinesOnce
  <2> QED
    BY <1>1, <2>2, <2>3, <2>4, <2>5 DEF LinesOnce
<1>10. LinesCounted'
  <2>1. Cardinality(Busy') = Cardinality(Busy) - 1
    BY <1>3, <1>4, WorkersFinite, FS_RemoveElement
  <2>2. /\ Len(Picture) = proc[2].store.n
        /\ Len(Picture) + Cardinality(Busy) = IF Sent <= Lines THEN Sent ELSE Lines
        /\ Cardinality(Stopped) = IF Sent <= Lines THEN 0 ELSE Sent - Lines
    BY DEF LinesCounted
  <2>3. (Len(Picture) + 1) + (Cardinality(Busy) - 1) = Len(Picture) + Cardinality(Busy)
    BY <1>6, WorkersFinite
  <2>4. Len(Picture') + Cardinality(Busy') = IF Sent <= Lines THEN Sent ELSE Lines
    BY <1>7, <2>1, <2>2, <2>3
  <2>5. Len(Picture') = (proc'[2]).store.n
    BY <1>7, <2>2
  <2> QED
    BY <1>0, <1>1, <1>4, <2>2, <2>4, <2>5 DEF LinesCounted
<1> QED
  BY <1>9, <1>10

LEMMA FarmCommunicate ==
  ASSUME Nets[net] = Farm, FarmStates, LinesOnce, LinesCounted, Communicate
  PROVE  FarmStates' /\ LinesOnce' /\ LinesCounted'
<1>0. Workers \in Nat /\ Lines \in Nat
  BY FarmAssumption
<1>1. PICK p, q \in Procs :
         \E i \in DOMAIN proc[p].left, j \in DOMAIN proc[q].left : Exchange(p, q, i, j)
  BY SomeExchange, Zenon
<1>2. PICK i \in DOMAIN proc[p].left, j \in DOMAIN proc[q].left : Exchange(p, q, i, j)
  BY <1>1, Zenon
<1>3. \E w \in 1..Workers :
            \/ /\ p = 1 /\ q = 2 + w /\ proc[q].at = 1
               /\ proc[p].left[i] = Order(Sent) /\ Sent # Lines + Workers
            \/ /\ p = 2 + w /\ q = 2 /\ proc[p].at = 2 /\ Line(w) # -1
               /\ proc[p].left[i] = Writing(Data, <<Line(w)>>) /\ proc[2].store.n # Lines
  <2>1. Meet(proc[p].left[i], proc[q].left[j])
    BY <1>2 DEF Exchange
  <2> QED
    BY <2>1, FarmPartners
<1> DEFINE c == proc[p].left[i]
           d == Did(p, i, << >>)
           e == Did(q, j, c.vals)
<1>4. /\ Meet(c, proc[q].left[j]) /\ proc' = [proc EXCEPT ![p] = d, ![q] = e]
      /\ c.chan \notin Watch => got' = got
      /\ c.chan \in Watch /\ ~Full(c.chan) =>
            got' = [got EXCEPT ![c.chan] = Append(got[c.chan], c.vals)]
  BY <1>2 DEF Exchange, Recorded
<1>5. PICK w \in 1..Workers :
         \/ /\ p = 1 /\ q = 2 + w /\ proc[q].at = 1 /\ c = Order(Sent) /\ Sent # Lines + Workers
         \/ /\ p = 2 + w /\ q = 2 /\ proc[p].at = 2 /\ Line(w) # -1
            /\ c = Writing(Data, <<Line(w)>>) /\ proc[2].store.n # Lines
  BY <1>3 DEF c
<1>6. /\ Runs(ProducerOf, {1}, proc[1]) /\ Runs(ConsumerOf, {1}, proc[2])
      /\ \A v \in 1..Workers : Runs(WorkerOf, {1, 2}, proc[2 + v])
      /\ Watch = {Data}
  BY DEF FarmStates, Watch
<1>7. Sent \in Int /\ Line(w) \in Int
  BY <1>6, RunsAt DEF Sent, Line
<1> HIDE DEF c, d, e
<1>8. /\ 1 \in DOMAIN proc /\ 2 \in DOMAIN proc /\ 1 # 2 + w /\ 2 # 2 + w
      /\ \A v \in 1..Workers : 2 + v \in DOMAIN proc /\ 2 + v # 1 /\ 2 + v # 2 /\ (v # w => 2 + v # 2 + w)
  BY <1>0 DEF FarmStates
<1>9. /\ DOMAIN proc' = DOMAIN proc /\ proc'[p] = d /\ proc'[q] = e
      /\ \A k \in DOMAIN proc : k # p /\ k # q => proc'[k] = proc[k]
  BY <1>4, <1>5, <1>8 DEF Procs
<1>10. CASE p = 1 /\ q = 2 + w /\ proc[q].at = 1 /\ c = Order(Sent) /\ Sent # Lines + Workers
  <2> DEFINE v == IF Sent < Lines THEN Sent ELSE -1
  <2>1. c.vals = <<v>> /\ c.chan = Orders /\ v \in Int
    BY <1>0, <1>7, <1>10 DEF Order
  <2> HIDE DEF v
  <2>2. got' = got
    BY <1>4, <1>6, <2>1 DEF Orders, Data
  <2>3. Runs(ProducerOf, {1}, proc'[1]) /\ proc'[1].store.n = Sent + 1
    BY <1>6, <1>9, <1>10, ProducerDid DEF d, Sent
  <2>4. Runs(WorkerOf, {1, 2}, proc'[2 + w]) /\ proc'[2 + w].at = 2 /\ proc'[2 + w].store.x = v
    <3>1. j \in DOMAIN proc[2 + w].left /\ proc[2 + w].at = 1 /\ e = Did(2 + w, j, <<v>>)
      BY <1>10, <2>1 DEF e
    <3> QED
      BY <1>6, <1>9, <1>10, <2>1, <3>1, WorkerReads
  <2>5. proc'[2] = proc[2] /\ \A u \in 1..Workers : u # w => proc'[2 + u] = proc[2 + u]
    BY <1>8, <1>9, <1>10
  <2>6. LinesOnce' /\ LinesCounted'
    BY <1>10, <2>2, <2>3, <2>4, <2>5, OrderStep DEF v
  <2>7. FarmStates'
    <3>1. \A u \in 1..Workers : Runs(WorkerOf, {1, 2}, proc'[2 + u])
      BY <1>6, <2>4, <2>5
    <3> QED
      BY <1>6, <1>9, <2>2, <2>3, <2>5, <3>1 DEF FarmStates, Picture
  <2> QED
    BY <2>6, <2>7
<1>11. CASE /\ p = 2 + w /\ q = 2 /\ proc[p].at = 2 /\ Line(w) # -1
            /\ c = Writing(Data, <<Line(w)>>) /\ proc[2].store.n # Lines
  <2>1. c.vals = <<Line(w)>> /\ c.chan = Data
    BY <1>11 DEF Writing
  <2>2. DOMAIN got' = DOMAIN got /\ (Picture') = Append(Picture, <<Line(w)>>)
    <3>1. /\ Len(Picture) \in Nat /\ Cardinality(Busy) \in Nat /\ Len(Picture) # Lines
          /\ Len(Picture) + Cardinality(Busy) <= Lines
      BY <1>0, <1>7, <1>11, WorkersFinite DEF LinesCounted, FarmStates, Streams
    <3>2. Len(Picture) < MaxReads
      BY <1>0, <3>1, RecordAssumption
    <3>3. ~Full(Data)
      BY <3>1, <3>2, RecordAssumption DEF Full, Picture
    <3> QED
      BY <1>4, <1>6, <2>1, <3>3 DEF Picture, Watch
  <2>3. Runs(ConsumerOf, {1}, proc'[2]) /\ proc'[2].store.n = proc[2].store.n + 1
    <3>1. j \in DOMAIN proc[2].left /\ e = Did(2, j, <<Line(w)>>)
      BY <1>11, <2>1 DEF e
    <3> QED
      BY <1>6, <1>7, <1>9, <1>11, <3>1, ConsumerDid
  <2>4. Runs(WorkerOf, {1, 2}, proc'[2 + w]) /\ proc'[2 + w].at = 1
    <3>1. i \in DOMAIN proc[2 + w].left /\ proc[2 + w].at = 2 /\ d = Did(2 + w, i, << >>)
      BY <1>11 DEF d
    <3> QED
      BY <1>6, <1>9, <1>11, <3>1, WorkerWrites
  <2>5. proc'[1] = proc[1] /\ \A u \in 1..Workers : u # w => proc'[2 + u] = proc[2 + u]
    BY <1>8, <1>9, <1>11
  <2>6. LinesOnce' /\ LinesCounted'
    BY <1>11, <2>2, <2>3, <2>4, <2>5, LineStep
  <2>7. FarmStates'
    <3>1. \A u \in 1..Workers : Runs(WorkerOf, {1, 2}, proc'[2 + u])
      BY <1>6, <2>4, <2>5
    <3>2. (Picture') \in Streams
      <4>1. Picture \in Seq(Seq(Int)) /\ <<Line(w)>> \in Seq(Int)
        BY <1>7 DEF FarmStates, Streams
      <4> QED
        BY <2>2, <4>1 DEF Streams
    <3>3. DOMAIN proc' = 1..(2 + Workers) /\ DOMAIN got' = {Data}
      BY <1>9, <2>2 DEF FarmStates
    <3> QED
      BY <1>6, <2>3, <2>5, <3>1, <3>2, <3>3 DEF FarmStates
  <2> QED
    BY <2>6, <2>7
<1> QED
  BY <1>5, <1>10, <1>11

\* Nobody in the farm waits for time to pass.
LEMMA FarmNoInternal ==
  ASSUME FarmStates, NEW p \in Procs, NEW i \in DOMAIN proc[p].left
  PROVE  proc[p].left[i].kind # "tau"
<1>1. \A n : Take(n).kind # "tau" /\ Order(n).kind # "tau"
  BY DEF Take, Order
<1>2. Reading(Orders, 0).kind # "tau" /\ \A v : Writing(Data, v).kind # "tau"
  BY DEF Reading, Writing
<1> QED
  BY <1>1, <1>2, FarmOffers

\* A line that has been written is with one worker or in one place of the
\* picture, and every end marker has stopped a worker.
THEOREM FarmInductive ==
  ASSUME Nets["farm"] = Farm
  PROVE  Spec => []FarmInv
<1>1. Init => FarmInv
  BY FarmStart
<1>2. FarmInv /\ [Next]_vars => FarmInv'
  <2> SUFFICES ASSUME FarmInv, [Next]_vars, net' = "farm"
               PROVE  FarmStates' /\ LinesOnce' /\ LinesCounted'
    BY DEF FarmInv
  <2>1. net' = net
    BY DEF Next, Communicate, Internal, Rest, vars
  <2>2. Nets[net] = Farm /\ FarmStates /\ LinesOnce /\ LinesCounted
    BY <2>1 DEF FarmInv
  <2>3. CASE Communicate
    BY <2>2, <2>3, FarmCommunicate
  <2>4. CASE Internal
    BY <2>2, <2>4, FarmNoInternal DEF Internal
  <2>5. CASE UNCHANGED vars
    BY <2>2, <2>5 DEF vars, FarmStates, LinesOnce, LinesCounted, Sent, Picture, Line, Busy, Stopped
  <2> QED
    BY <2>3, <2>4, <2>5 DEF Next, Rest
<1> QED
  BY <1>1, <1>2, PTL DEF Spec

\* The consumer of the farm gets every line at most once and nothing else, for
\* every number of lines and workers.
THEOREM FarmStreams ==
  ASSUME Nets["farm"] = Farm
  PROVE  Spec => [](net = "farm" => StreamsAreRight)
<1>1. FarmInv => (net = "farm" => StreamsAreRight)
  <2> SUFFICES ASSUME FarmInv, net = "farm" PROVE StreamsAreRight
    OBVIOUS
  <2>1. FarmStates /\ LinesOnce
    BY DEF FarmInv
  <2>2. Picture \in Streams /\ Watch = {Data}
    BY <2>1 DEF FarmStates, Watch
  <2>3. \A k \in DOMAIN Picture : Picture[k][1] \in 0..(Lines - 1)
    <3> TAKE k \in DOMAIN Picture
    <3>1. PICK l \in 0..(Lines - 1) : Picture[k] = <<l>>
      BY <2>1 DEF LinesOnce
    <3> QED
      BY <3>1
  <2>4. \A k, m \in DOMAIN Picture : k # m => Picture[k] # Picture[m]
    BY <2>1 DEF LinesOnce
  <2>5. DistinctLines[Picture]
    BY <2>2, <2>3, <2>4 DEF DistinctLines
  <2>6. Nets[net].watch[Data] = DistinctLines
    BY FarmTable
  <2> QED
    BY <2>2, <2>5, <2>6 DEF StreamsAreRight, Picture
<1> QED
  BY <1>1, FarmInductive, PTL

\* When the par of the farm returns, the picture has all its lines.
THEOREM FarmDelivers ==
  ASSUME Nets["farm"] = Farm
  PROVE  Spec => []PictureIsComplete
<1>1. FarmInv => PictureIsComplete
  <2> SUFFICES ASSUME FarmInv, net = "farm", Returned
               PROVE  {Picture[k][1] : k \in DOMAIN Picture} = 0..(Lines - 1)
    BY DEF PictureIsComplete, Picture, Data
  <2>0. Lines \in Nat
    BY FarmAssumption
  <2>1. FarmStates /\ LinesOnce /\ LinesCounted
    BY DEF FarmInv
  <2>2. proc[2].left = << >> /\ Runs(ConsumerOf, {1}, proc[2])
    <3>1. 2 \in Procs
      BY <2>1, FarmAssumption DEF FarmStates, Procs
    <3> QED
      BY <2>1, <3>1 DEF Returned, Ended, FarmStates
  <2>3. proc[2].store.n = Lines
    <3> SUFFICES ASSUME proc[2].store.n # Lines PROVE FALSE
      OBVIOUS
    <3>1. proc[2].left = <<Take(proc[2].store.n)>>
      BY <2>2, ConsumerOffers
    <3>2. Len(proc[2].left) = 1
      BY <3>1
    <3>3. Len(proc[2].left) = 0
      BY <2>2
    <3> QED
      BY <3>2, <3>3
  <2>4. Picture \in Seq(Seq(Int)) /\ DOMAIN Picture = 1..Lines
    BY <2>1, <2>3 DEF LinesCounted, FarmStates, Streams
  <2> DEFINE f == [k \in 1..Lines |-> Picture[k][1]]
             T == 0..(Lines - 1)
  <2>5. \A k \in 1..Lines : f[k] \in T /\ Picture[k] = <<f[k]>>
    <3> TAKE k \in 1..Lines
    <3>1. PICK l \in 0..(Lines - 1) : Picture[k] = <<l>>
      BY <2>1, <2>4 DEF LinesOnce
    <3> QED
      BY <3>1
  <2>6. \A k, m \in 1..Lines : k # m => Picture[k] # Picture[m]
    BY <2>1, <2>4 DEF LinesOnce
  <2>7. f \in Injection(1..Lines, T)
    <3>1. f \in [1..Lines -> T]
      BY <2>5
    <3>2. \A k, m \in 1..Lines : f[k] = f[m] => k = m
      BY <2>5, <2>6
    <3> QED
      BY <3>1, <3>2 DEF Injection, IsInjective
  <2>8. /\ IsFiniteSet(T) /\ Cardinality(T) = Lines /\ Cardinality(1..Lines) = Lines
    BY <2>0, FS_Interval
  <2> HIDE DEF f, T
  <2>9. f \in Surjection(1..Lines, T)
    BY <2>7, <2>8, FS_Injection
  <2>10. {f[k] : k \in 1..Lines} = T
    BY <2>5, <2>9 DEF Surjection
  <2> QED
    BY <2>4, <2>10 DEF f, T
<1> QED
  BY <1>1, FarmInductive, PTL

\* A worker that is not stopped takes what the producer has, or has what the
\* consumer takes.
LEMMA FarmGoesOn ==
  ASSUME Nets[net] = Farm, FarmStates, LinesCounted
  PROVE  DeadlockFree
<1> SUFFICES ASSUME ~DeadlockFree PROVE FALSE
  OBVIOUS
<1>0. Workers \in Nat \ {0} /\ Lines \in Nat /\ Sent \in 0..(Lines + Workers)
  BY FarmAssumption DEF LinesCounted
<1>1. ASSUME NEW p \in Procs, NEW i \in DOMAIN proc[p].left,
             NEW q \in Procs, NEW j \in DOMAIN proc[q].left
      PROVE  ~Meet(proc[p].left[i], proc[q].left[j])
  BY DEF DeadlockFree
<1>2. ~Done
  BY DEF DeadlockFree
<1>3. /\ Runs(ProducerOf, {1}, proc[1]) /\ Runs(ConsumerOf, {1}, proc[2])
      /\ 1 \in Procs /\ 2 \in Procs
      /\ \A w \in 1..Workers :
            /\ Runs(WorkerOf, {1, 2}, proc[2 + w]) /\ 2 + w \in Procs
            /\ proc[2 + w].at \in {1, 2} /\ Line(w) = proc[2 + w].store.x
  BY <1>0, RunsAt DEF FarmStates, Procs, Line
<1>4. IsFiniteSet(1..Workers) /\ Cardinality(1..Workers) = Workers
  BY <1>0, FS_Interval
<1>5. /\ Len(Picture) \in Nat /\ Cardinality(Busy) \in Nat /\ IsFiniteSet(Busy)
      /\ Cardinality(Stopped) \in Nat /\ IsFiniteSet(Stopped)
      /\ Len(Picture) = proc[2].store.n
      /\ Len(Picture) + Cardinality(Busy) = IF Sent <= Lines THEN Sent ELSE Lines
      /\ Cardinality(Stopped) = IF Sent <= Lines THEN 0 ELSE Sent - Lines
  BY WorkersFinite DEF LinesCounted, FarmStates, Streams
<1>6. Busy = {}
  <2> SUFFICES ASSUME NEW w \in Busy PROVE FALSE
    OBVIOUS
  <2>1. w \in 1..Workers /\ proc[2 + w].at = 2 /\ Line(w) # -1
    BY DEF Busy
  <2>2. Cardinality(Busy) # 0
    BY <1>5, FS_EmptySet
  <2>3. proc[2].store.n # Lines
    BY <1>0, <1>5, <2>2
  <2>4. proc[2].left = <<Take(proc[2].store.n)>>
    BY <1>3, <2>3, ConsumerOffers
  <2>5. proc[2 + w].left = <<Writing(Data, <<Line(w)>>)>>
    BY <1>3, <2>1, WorkerOffers
  <2>6. 1 \in DOMAIN proc[2].left /\ proc[2].left[1] = Take(proc[2].store.n)
    BY <2>4
  <2>7. 1 \in DOMAIN proc[2 + w].left /\ proc[2 + w].left[1] = Writing(Data, <<Line(w)>>)
    BY <2>5
  <2>8. Meet(Writing(Data, <<Line(w)>>), Take(proc[2].store.n))
    BY DEF Meet, Writing, Take
  <2> QED
    BY <1>1, <1>3, <2>1, <2>6, <2>7, <2>8
<1>7. Cardinality(Busy) = 0
  BY <1>6, FS_EmptySet
<1>8. CASE Sent # Lines + Workers
  <2>1. proc[1].left = <<Order(Sent)>>
    BY <1>3, <1>8, ProducerOffers DEF Sent
  <2>2. 1 \in DOMAIN proc[1].left /\ proc[1].left[1] = Order(Sent)
    BY <2>1
  <2>3. Meet(Order(Sent), Reading(Orders, 0))
    BY DEF Meet, Order, Reading
  <2>4. ASSUME NEW w \in 1..Workers PROVE w \in Stopped
    <3>1. proc[2 + w].at # 1
      <4> SUFFICES ASSUME proc[2 + w].at = 1 PROVE FALSE
        OBVIOUS
      <4>1. proc[2 + w].left = <<Reading(Orders, 0)>>
        BY <1>3, WorkerOffers
      <4>2. 1 \in DOMAIN proc[2 + w].left /\ proc[2 + w].left[1] = Reading(Orders, 0)
        BY <4>1
      <4> QED
        BY <1>1, <1>3, <2>2, <2>3, <4>2
    <3> QED
      BY <1>3, <1>6, <3>1 DEF Busy, Stopped
  <2>5. Stopped = 1..Workers
    BY <2>4 DEF Stopped
  <2>6. Cardinality(Stopped) = Workers
    BY <1>4, <2>5
  <2> QED
    BY <1>0, <1>5, <1>8, <2>6
<1>9. CASE Sent = Lines + Workers
  <2>1. Cardinality(Stopped) = Workers /\ Len(Picture) = Lines
    BY <1>0, <1>5, <1>7, <1>9
  <2>2. Stopped = 1..Workers
    <3>1. Stopped \in SUBSET (1..Workers)
      BY DEF Stopped
    <3> QED
      BY <1>4, <2>1, <3>1, FS_Subset
  <2>3. proc[1].left = << >>
    BY <1>3, <1>9, ProducerOffers DEF Sent
  <2>4. proc[2].left = << >>
    BY <1>3, <1>5, <2>1, ConsumerOffers
  <2>5. \A w \in 1..Workers : proc[2 + w].left = << >>
    <3> TAKE w \in 1..Workers
    <3>1. proc[2 + w].at = 2 /\ proc[2 + w].store.x = -1
      BY <2>2 DEF Stopped, Line
    <3> QED
      BY <1>3, <3>1, WorkerOffers
  <2>6. \A p \in Procs : proc[p].left = << >>
    <3> TAKE p \in Procs
    <3>1. p \in 1..(2 + Workers)
      BY DEF FarmStates, Procs
    <3>2. CASE p # 1 /\ p # 2
      <4>1. p - 2 \in 1..Workers /\ 2 + (p - 2) = p
        BY <1>0, <3>1, <3>2
      <4> QED
        BY <2>5, <4>1
    <3> QED
      BY <2>3, <2>4, <3>2
  <2>7. Nets[net].ends = Procs /\ Procs # {}
    BY <1>3, FarmTable DEF FarmStates, Procs
  <2>8. Done
    BY <2>6, <2>7 DEF Done, Ended
  <2> QED
    BY <1>2, <2>8
<1> QED
  BY <1>8, <1>9

\* The farm never deadlocks: until the par returns a line or an end marker can
\* be handed on, for every number of lines and workers.
THEOREM FarmNeverStops ==
  ASSUME Nets["farm"] = Farm
  PROVE  Spec => [](net = "farm" => DeadlockFree)
<1>1. FarmInv => (net = "farm" => DeadlockFree)
  <2> SUFFICES ASSUME FarmInv, net = "farm" PROVE DeadlockFree
    OBVIOUS
  <2>1. Nets[net] = Farm /\ FarmStates /\ LinesCounted
    BY DEF FarmInv
  <2> QED
    BY <2>1, FarmGoesOn
<1> QED
  BY <1>1, FarmInductive, PTL
=============================================================================
