-------------------------------- MODULE Demos --------------------------------
(***************************************************************************)
(* The demos (src/demos).                                                  *)
(* A network is a sequence of processes, the set of those that end, and    *)
(* for each channel that is watched what may have gone through it.         *)
(***************************************************************************)
EXTENDS Processes

CONSTANTS
    Philosophers,   \* N of diningphil
    Lines,          \* DIM of mandelbrot: the lines of the picture
    Workers,        \* NUM_WORKERS of mandelbrot and montecarlopi
    MaxReads        \* bound: the values that are recorded of a watched channel,
                    \* and read by a process that stops after very many

\* Somebody does the work.
ASSUME FarmAssumption == Lines \in Nat /\ Workers \in Nat \ {0}

\* The record holds the whole picture.
ASSUME RecordAssumption == MaxReads \in Nat /\ Lines <= MaxReads

\* Nobody is his own neighbour.
ASSUME TableAssumption == Philosophers \in Nat /\ Philosophers >= 2

\* A network of processes ps that do not end, with nothing watched.
Network(ps) == [procs |-> ps, ends |-> {}, watch |-> << >>]

\* A network in which the sequences that arrive on each channel satisfy ok.
Watched(ps, watch) == [procs |-> ps, ends |-> {}, watch |-> watch]

\* The network whose processes in S end.
Ending(S, nw) == [nw EXCEPT !.ends = S]

\* Channel c is watched for ok.
On(c, ok) == [d \in {c} |-> ok]

Streams == Seq(Seq(Int))

\* The i-th value is f[i].
Exactly(f) == [q \in Streams |-> \A i \in DOMAIN q : q[i] = <<f[i]>>]

Naturals0 == Exactly([i \in Nat |-> Wrap(i - 1)])

-----------------------------------------------------------------------------
(* commstime: prefix, delta, successor and a consumer that ends.  The      *)
(* others loop for ever, so delta is left with a value for the consumer.   *)

\* consumer reads k values.
Consumer(in, k) ==
    Loop([s \in Store |->
        <<IF s.n = k THEN End ELSE Assign([n |-> s.n + 1], Read(in, "x"))>>])

\* Channels of a network that need no other name.
A == <<"a">>
B == <<"b">>
C == <<"c">>
D == <<"d">>
E == <<"e">>
F == <<"f">>

\* commstime1 and, with SeqDelta, commstime2.
Commstime(delta) ==
    Ending({4},
        Watched(<<Prefix(0, C, A), delta, Successor(B, C), Consumer(D, MaxReads)>>,
                On(D, Naturals0)))

-----------------------------------------------------------------------------
(* diningphil.                                                             *)

\* Mutant: a fork is free again as soon as it is taken.
ForkFree(left, right) ==
    Loop([s \in Store |-> <<One(<<In(left, <<"x">>), In(right, <<"x">>)>>)>>])

\* FORK is taken by the philosopher whose message it reads first, and put
\* down by the second message of the same philosopher.
Fork(left, right) ==
    Loop([s \in Store |->
        << One(<<[In(left, <<"x">>) EXCEPT !.to = 2], [In(right, <<"x">>) EXCEPT !.to = 3]>>),
           Goto(1, Read(left, "x")),
           Goto(1, Read(right, "x")) >>])

\* PHIL number i; a report is the number and what it says.
Phil(i, left, right, down, up, report) ==
    LET Report(what) == All(<<Out(report, <<i, what>>)>>)
        Both == ParWrite(<<left, right>>, <<i, i>>)
    IN  Loop([s \in Store |->
            << Report(0), Sleep, Report(1), Write(down, i), Report(2), Both,
               Report(3), Sleep, Report(4), Both, Write(up, i) >>])

\* The phases in which a philosopher has both forks.
Eating == {7, 8, 9}

\* Mutant: security lets everybody sit down.
SecurityLax(down, up) ==
    Loop([s \in Store |->
        <<One(<<[In(up, <<"x">>) EXCEPT !.set = [n |-> s.n - 1]],
                [In(down, <<"x">>) EXCEPT !.set = [n |-> s.n + 1]]>>)>>])

\* SECURITY lets all but one sit down.
Security(down, up) ==
    LET Up(s) == [In(up, <<"x">>) EXCEPT !.set = [n |-> s.n - 1]]
        Down(s) == [In(down, <<"x">>) EXCEPT !.set = [n |-> s.n + 1]]
    IN  Loop([s \in Store |->
            <<One(IF s.n < Philosophers - 1 THEN <<Down(s), Up(s)>> ELSE <<Up(s)>>)>>])

DiningPhil ==
    LET left(i)  == <<"left", i>>
        right(i) == <<"right", i>>
    IN  Network(
            [i \in 1..Philosophers |->
                Phil(i, left(i), right(i), <<"down">>, <<"up">>, <<"report">>)]
            \o [i \in 1..Philosophers |->
                Fork(left(i), right((i % Philosophers) + 1))]
            \o <<Security(<<"down">>, <<"up">>), Printer(<<"report">>)>>)

-----------------------------------------------------------------------------
(* mandelbrot: a farm of workers between a producer and a consumer.        *)

\* mandelbrot: a worker; the picture of a line is the line.
Mandelbrot(in, out) ==
    Loop([s \in Store |-> <<Read(in, "x"), IF s.x = -1 THEN End ELSE Write(out, s.x)>>])

\* Mutant: one end marker for all the workers.
ProducerOnePill(out, lines, workers) ==
    Loop([s \in Store |->
        <<IF s.n = lines + 1 THEN End
          ELSE Assign([n |-> s.n + 1], Write(out, IF s.n < lines THEN s.n ELSE -1))>>])

\* Mutant: the lines are counted from one.
ProducerFromOne(out, lines, workers) ==
    Loop([s \in Store |->
        <<IF s.n = lines + workers THEN End
          ELSE Assign([n |-> s.n + 1], Write(out, IF s.n < lines THEN s.n + 1 ELSE -1))>>])

\* producer writes the lines and then an end marker per worker.
Producer(out, lines, workers) ==
    Loop([s \in Store |->
        <<IF s.n = lines + workers THEN End
          ELSE Assign([n |-> s.n + 1], Write(out, IF s.n < lines THEN s.n ELSE -1))>>])

\* Every line at most once.
DistinctLines ==
    [q \in Streams |-> /\ \A i \in DOMAIN q : q[i][1] \in 0..(Lines - 1)
                       /\ \A i, j \in DOMAIN q : i # j => q[i] # q[j]]

Farm ==
    Ending(1..(2 + Workers),
        Watched(<<Producer(<<"lines">>, Lines, Workers), Consumer(<<"data">>, Lines)>>
                \o [w \in 1..Workers |-> Mandelbrot(<<"lines">>, <<"data">>)],
                On(<<"data">>, DistinctLines)))

-----------------------------------------------------------------------------
(* montecarlopi: every worker writes one estimate, calculate reads all.    *)

MonteCarloPi(out, estimate) ==
    LoopFrom(2, [s \in Store |-> <<Write(out, estimate), End>>])

MonteCarlo ==
    Ending(1..(1 + Workers),
        Network(<<Consumer(A, Workers)>> \o [w \in 1..Workers |-> MonteCarloPi(A, w)]))

-----------------------------------------------------------------------------
(* stressedalt: two writers on each of two channels, and a reader that     *)
(* ends and leaves them behind.                                            *)

\* stressed_writer numbers its packets.
StressedWriter(out, w) ==
    Loop([s \in Store |-> <<Assign([n |-> Wrap(s.n + 1)], All(<<Out(out, <<w, s.n>>)>>))>>])

\* stressed_reader reads as many packets from each channel as it has writers,
\* then selects k times.
StressedReader(cs, writers, k) ==
    LET first == Len(cs) * writers
        Packet(s) == IF s.n < first THEN All(<<In(cs[(s.n \div writers) + 1], <<"x", "y">>)>>)
                     ELSE One([j \in DOMAIN cs |-> In(cs[j], <<"x", "y">>)])
    IN  Loop([s \in Store |->
            <<IF s.n = first + k THEN End ELSE Assign([n |-> s.n + 1], Packet(s))>>])

\* The packets of each writer arrive in order, none lost.
InWriterOrder ==
    [q \in Streams |->
        \A i \in DOMAIN q :
            q[i][2] = Len(SelectSeq(SubSeq(q, 1, i - 1), LAMBDA p : p[1] = q[i][1]))]

StressedAlt ==
    Ending({1},
        Watched(<<StressedReader(<<A, B>>, 2, MaxReads), StressedWriter(A, 0),
                  StressedWriter(A, 1), StressedWriter(B, 0), StressedWriter(B, 1)>>,
                A :> InWriterOrder @@ B :> InWriterOrder))

=============================================================================
