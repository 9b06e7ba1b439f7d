------------------------------ MODULE PlugNPlay ------------------------------
(***************************************************************************)
(* The plug and play processes that work on bits, the tree of merges, and  *)
(* networks of the processes that no demo uses.                            *)
(***************************************************************************)
EXTENDS Demos, Bitwise

\* ~n
Complement(n) == 2 ^ Width - 1 - n

\* dynamic_delta that is configured with channels of outs.  A configured
\* channel is removed if it is there and added if not.  Sets of channels are
\* bits, channel c is bit c: first are there at the start, n have changed.
DynamicDelta(in, config, outs, first) ==
    Loop([s \in Store |->
        LET present(j) == ((s.n ^^ first) \div (2 ^ (j - 1))) % 2 = 1
            now == SelectSeq([j \in DOMAIN outs |-> j], present)
        IN  << One(<<In(config, <<"y">>), [In(in, <<"x">>) EXCEPT !.to = 3]>>),
               Goto(1, Assign([n |-> s.n ^^ (2 ^ s.y)], Sleep)),
               ParFor([k \in DOMAIN now |-> outs[now[k]]], s.x) >>])

\* merge of two or more: a tree of merges, its channels named after n.
RECURSIVE Merge(_, _, _)
Merge(n, ins, out) ==
    LET half == Len(ins) \div 2
        c == Append(n, "bottom")
        d == Append(n, "top")
    IN  CASE Len(ins) = 2 -> <<Merge2(ins[1], ins[2], out)>>
          [] Len(ins) = 3 -> <<Merge2(ins[1], ins[2], c), Merge2(c, ins[3], out)>>
          [] OTHER -> Merge(c, SubSeq(ins, 1, half), c)
                      \o Merge(d, SubSeq(ins, half + 1, Len(ins)), d)
                      \o <<Merge2(c, d, out)>>

OrProc(in1, in2, out) ==
    Loop([s \in Store |-> <<ParRead(in1, in2), Write(out, s.x | s.y)>>])

XorProc(in1, in2, out) ==
    Loop([s \in Store |-> <<ParRead(in1, in2), Write(out, s.x ^^ s.y)>>])

Nand(in1, in2, out) ==
    Loop([s \in Store |-> <<ParRead(in1, in2), Write(out, Complement(s.x & s.y))>>])

Nor(in1, in2, out) ==
    Loop([s \in Store |-> <<ParRead(in1, in2), Write(out, Complement(s.x | s.y))>>])

-----------------------------------------------------------------------------
(* Networks of the other plug and play processes.                          *)

\* numbers through pairs: 0+1, 1+2, ...
PairsNet ==
    Watched(Numbers(A, B) \o Pairs(B, B, C) \o <<Printer(C)>>,
            C :> Exactly([i \in Nat |-> Wrap(2 * i - 1)]))

\* Two streams through one channel and apart again.
MultiplexNet ==
    Watched(Numbers(A, A) \o
            << Generate(B, 5), Multiplex(<<A, B>>, C), Demultiplex(C, <<D, E>>),
               Printer(D), Printer(E) >>,
            D :> Naturals0 @@ E :> Exactly([i \in Nat |-> 5]))

\* Two streams on one channel: the second can only add its 7s.
PlexNet ==
    Watched(Numbers(A, A) \o <<Regular(B, 7), Plex(<<A, B>>, C), Printer(C)>>,
            C :> [q \in Streams |->
                    LET p == SelectSeq(q, LAMBDA v : v # <<7>>)
                    IN  \A i \in DOMAIN p : p[i] = <<i - 1>>])

\* A value and its successor, apart, into a gate of each kind.
GatesNet(gate, f) ==
    Watched(Numbers(A, A) \o
            << Transform(A, B, [v \in Int |-> <<v, Wrap(v + 1)>>]),
               Deparaplex(B, <<C, D>>), gate, Printer(E) >>,
            E :> Exactly([i \in Nat |-> f[Wrap(i - 1)]]))

\* What takes a stream through unchanged, or multiplied, or replaced: n, a
\* regulator that is reset once, a delay, 3 * n, and at last a sign.
ChainNet ==
    Watched(Numbers(A, A) \o
            << Prefix(1, <<"nobody">>, B), Regulate(A, B, C), FixedDelay(C, D),
               Mult(3, D, E), Sign(E, F, 9), Printer(F) >>,
            F :> [q \in Streams |-> \A i \in DOMAIN q : q[i] = <<9, Wrap(3 * (i - 1))>>])

SubstituteNet ==
    Watched(Numbers(A, A) \o <<Substitute(A, B, 4), Delta(B, <<C, D>>), BlackHole(C), Printer(D)>>,
            D :> Exactly([i \in Nat |-> 4]))

\* A channel that is added to a delta gets all the values from then on.
DynamicNet ==
    Watched(Numbers(A, A) \o
            << Prefix(1, <<"nobody">>, B), DynamicDelta(A, B, <<C, D>>, 1),
               Printer(C), Printer(D) >>,
            C :> Naturals0
            @@ D :> [q \in Streams |-> \A i \in DOMAIN q : q[i] = <<Wrap(q[1][1] + i - 1)>>])

\* Four streams into a tree of merges: evens, all, and two of 7s.  A merge of
\* two reads on from its first stream where it should from its second
\* (Merge2), whose values are lost: nothing is said of what arrives.
MergeNet ==
    Watched(Numbers(A, A) \o <<Mult(2, A, B)>> \o Numbers(C, C)
            \o <<Generate(D, 7), Generate(E, 7)>>
            \o Merge(<<"m">>, <<B, C, D, E>>, F) \o <<Printer(F)>>,
            F :> [q \in Streams |-> TRUE])
=============================================================================
