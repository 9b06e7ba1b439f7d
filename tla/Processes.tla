------------------------------ MODULE Processes ------------------------------
(***************************************************************************)
(* The plug and play processes (src/csp/plugnplay) as what they offer on   *)
(* their channels.  Those that work on bits, and the tree of merges, are   *)
(* in PlugNPlay.                                                           *)
(*                                                                         *)
(* A process is a sequence of phases, run from the first and, after the    *)
(* last, from phase loop again.  The phases depend on the values of the    *)
(* process's variables, its store.  A phase is a set of communications, of *)
(* which either all happen, in any order (the runs of a par behind         *)
(* par_read, par_write and par_for; a single read or write), or one does   *)
(* (a select and the read of what it selected).  A channel carries tuples. *)
(***************************************************************************)
EXTENDS Integers, Sequences, TLC

CONSTANT Width    \* the bits of the unsigned type the processes work on

Wrap(n) == n % (2 ^ Width)

\* The variables of a process.
Store == [x : Int, y : Int, i : Int, n : Int]

-----------------------------------------------------------------------------
(* Communications and phases.  After a communication the variables in set  *)
(* have their new values and the process is at phase to (0: the next).     *)

In(c, vars) ==
    [kind |-> "in", chan |-> c, vars |-> vars, set |-> << >>, to |-> 0]

Out(c, vals) ==
    [kind |-> "out", chan |-> c, vals |-> vals, set |-> << >>, to |-> 0]

\* Nothing but time passes.
Tau == [kind |-> "tau", chan |-> << >>, set |-> << >>, to |-> 0]

All(comms) == [one |-> FALSE, comms |-> comms]
One(comms) == [one |-> TRUE, comms |-> comms]

Read(c, x)  == All(<<In(c, <<x>>)>>)
Write(c, v) == All(<<Out(c, <<v>>)>>)

\* timer::sleep and timer::after.
Sleep == All(<<Tau>>)

\* The process has returned.
End == All(<< >>)

\* The phase with a jump, or with an assignment, at its end.
Goto(k, phase) ==
    [phase EXCEPT !.comms = [j \in DOMAIN @ |-> [@[j] EXCEPT !.to = k]]]
Assign(f, phase) ==
    [phase EXCEPT !.comms = [j \in DOMAIN @ |-> [@[j] EXCEPT !.set = f]]]

\* An empty par returns at once.
ParFor(outs, v) ==
    IF outs = << >> THEN Sleep
    ELSE All([j \in DOMAIN outs |-> Out(outs[j], <<v>>)])

ParRead(c, d) == All(<<In(c, <<"x">>), In(d, <<"y">>)>>)

ParWrite(outs, vals) == All([j \in DOMAIN outs |-> Out(outs[j], <<vals[j]>>)])

\* An alt on the channels, and the read of the one it selects; i is its index.
SelectRead(ins) ==
    One([j \in DOMAIN ins |-> [In(ins[j], <<"x">>) EXCEPT !.set = [i |-> j - 1]]])

LoopFrom(k, body) == [loop |-> k, body |-> body]
Loop(body) == LoopFrom(1, body)

-----------------------------------------------------------------------------
(* One operator per class: what its run does.                              *)

Identity(in, out) == Loop([s \in Store |-> <<Read(in, "x"), Write(out, s.x)>>])

Successor(in, out) ==
    Loop([s \in Store |-> <<Read(in, "x"), Write(out, Wrap(s.x + 1))>>])

Prefix(v, in, out) ==
    LoopFrom(2, [s \in Store |-> <<Write(out, v)>> \o Identity(in, out).body[s]])

Tail1(in, out) ==
    LoopFrom(2, [s \in Store |-> <<Read(in, "x")>> \o Identity(in, out).body[s]])

Delta(in, outs) ==
    Loop([s \in Store |-> <<Read(in, "x"), ParFor(outs, s.x)>>])

\* delta with SEQUENTIAL set.
SeqDelta(in, outs) ==
    Loop([s \in Store |->
        <<Read(in, "x")>> \o [j \in DOMAIN outs |-> Write(outs[j], s.x)]])

\* merge of two streams.  When the second has the smaller value the next one
\* is read from the first ("v2 = _ins[0]()").
Merge2(in1, in2, out) ==
    LoopFrom(3, [s \in Store |->
        << Read(in1, "x"), Read(in2, "y"),
           Write(out, IF s.x > s.y THEN s.y ELSE s.x),
           IF s.x < s.y THEN Goto(3, Read(in1, "x"))
           ELSE IF s.x > s.y THEN Goto(3, Read(in1, "y"))
           ELSE Read(in1, "x"),
           Read(in2, "y") >>])

\* Mutant: every packet has the index of the first channel.
MultiplexNoIndex(ins, out) ==
    Loop([s \in Store |-> <<SelectRead(ins), All(<<Out(out, <<0, s.x>>)>>)>>])

Multiplex(ins, out) ==
    Loop([s \in Store |-> <<SelectRead(ins), All(<<Out(out, <<s.i, s.x>>)>>)>>])

Demultiplex(in, outs) ==
    Loop([s \in Store |-> <<All(<<In(in, <<"i", "x">>)>>), Write(outs[s.i + 1], s.x)>>])

Deparaplex(in, outs) ==
    Loop([s \in Store |-> <<All(<<In(in, <<"x", "y">>)>>), ParWrite(outs, <<s.x, s.y>>)>>])

Plex(ins, out) == Loop([s \in Store |-> <<SelectRead(ins), Write(out, s.x)>>])

\* regulate takes a value, and outputs it when the timer fires; n tells
\* whether it has one.  The interval is not modelled, time is Tau.
Regulate(in, reset, out) ==
    Loop([s \in Store |->
        << One(<< [In(reset, <<"y">>) EXCEPT !.to = 1],
                  IF s.n = 0 THEN [In(in, <<"x">>) EXCEPT !.set = [n |-> 1], !.to = 1]
                  ELSE Tau >>),
           Assign([n |-> 0], Write(out, s.x)) >>])

Plus(in1, in2, out) ==
    Loop([s \in Store |-> <<ParRead(in1, in2), Write(out, Wrap(s.x + s.y))>>])

Times(in1, in2, out) ==
    Loop([s \in Store |-> <<ParRead(in1, in2), Write(out, Wrap(s.x * s.y))>>])

Mult(n, in, out) ==
    Loop([s \in Store |-> <<Read(in, "x"), Write(out, Wrap(n * s.x))>>])

\* The item with the sign before it.
Sign(in, out, sign) ==
    Loop([s \in Store |-> <<Read(in, "x"), All(<<Out(out, <<sign, s.x>>)>>)>>])

Substitute(in, out, v) ==
    Loop([s \in Store |-> <<Read(in, "x"), Write(out, v)>>])

\* fun maps a number to a tuple.
Transform(in, out, fun) ==
    Loop([s \in Store |-> <<Read(in, "x"), All(<<Out(out, fun[s.x])>>)>>])

Generate(out, v) == Loop([s \in Store |-> <<Write(out, v)>>])

FixedDelay(in, out) ==
    Loop([s \in Store |-> <<Read(in, "x"), Sleep, Write(out, s.x)>>])

Regular(out, v) == Loop([s \in Store |-> <<Write(out, v), Sleep>>])

Printer(in) == Loop([s \in Store |-> <<All(<<In(in, << >>)>>)>>])

BlackHole(in) == Printer(in)

\* The network of pairs: the sum of every value and the one after it.
Pairs(n, in, out) ==
    LET a == Append(n, "a")  b == Append(n, "b")  c == Append(n, "c")
    IN  <<Delta(in, <<a, b>>), Plus(a, c, out), Tail1(b, c)>>

\* The network of numbers: 0, 1, 2, ...
Numbers(n, out) ==
    LET a == Append(n, "a")  b == Append(n, "b")  c == Append(n, "c")
    IN  <<Delta(a, <<b, out>>), Successor(b, c), Prefix(0, c, a)>>
=============================================================================
