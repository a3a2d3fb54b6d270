---------------------------- MODULE MCScanCycle ----------------------------
(***************************************************************************)
(* ScanCycle with the configurations of the demos and of their comments,   *)
(* and small tables the parser has to see through.                         *)
(***************************************************************************)
EXTENDS ScanCycle, TLC

CONSTANTS Chaser, vitrine, cif

None == <<>>
Row(a, w, b) == [from |-> a, weight |-> w, to |-> b]
Synch(rows, start, turns) ==
  [synch |-> rows, start |-> start, place |-> <<>>, transition |-> <<>>, arc |-> <<>>,
   beg |-> None, end |-> None, turns |-> turns]
Net(places, arcs, beg, end, turns) ==
  [synch |-> <<>>, start |-> <<>>, place |-> places,
   transition |-> << <<"Cb">>, <<"Ce">>, <<"Vb">>, <<"Ve">> >>, arc |-> arcs,
   beg |-> beg, end |-> end, turns |-> turns]

\* demo/basic_synch/matplc.conf.simple
Ring == Synch(<<Row(Chaser, 1, vitrine), Row(vitrine, 1, Chaser)>>, << <<Chaser>> >>,
              {Chaser, vitrine})
\* demo/oven/matplc.conf, with three modules
Ring3 == Synch(<<Row(vitrine, 1, Chaser), Row(Chaser, 1, cif), Row(cif, 1, vitrine)>>,
               << <<vitrine, cif>> >>, {Chaser, vitrine, cif})
\* the comment of matplc.conf.simple: two scans of the vitrine for one
Paced == Synch(<<Row(Chaser, 2, vitrine), Row(Chaser, 1, Chaser)>>, << <<Chaser>> >>, {})
\* demo/basic_cif/matplc.conf
Star == Synch(<<Row(Chaser, 1, cif), Row(Chaser, 1, vitrine), Row(Chaser, 1, Chaser)>>,
              << <<Chaser>> >>, {})
\* arrows without weight or sense, and a pair of modules given twice
Odd == Synch(<<Row(Chaser, 0, vitrine), Row(Chaser, 2, vitrine), Row(cif, -1, Chaser),
               Row(vitrine, 1, Chaser), Row(Chaser, 1, vitrine)>>,
             << <<Chaser>>, <<Chaser>> >>, {Chaser, vitrine})
\* no synchronisation at all, and a start of a module no row names
Free == Synch(<<>>, <<>>, {})
Refused == Synch(<<Row(Chaser, 1, Chaser)>>, << <<cif>> >>, {})

P(n, k) == [name |-> <<n>>, tokens |-> k]
A(a, w, b) == Row(<<a>>, w, <<b>>)
Begs == Chaser :> <<"Cb">> @@ vitrine :> <<"Vb">>
Ends == Chaser :> <<"Ce">> @@ vitrine :> <<"Ve">>
\* demo/basic_synch/matplc.conf.complex, and its comment with weights of 2
Complex == Net(<<P("C", 1), P("V", 0)>>,
               <<A("C", 1, "Cb"), A("Ce", 1, "V"), A("V", 1, "Vb"), A("Ve", 1, "C")>>,
               Begs, Ends, {Chaser, vitrine})
Pair == Net(<<P("C", 2), P("V", 0)>>,
            <<A("C", 2, "Cb"), A("Ce", 2, "V"), A("V", 1, "Vb"), A("Ve", 1, "C")>>,
            Begs, Ends, {Chaser, vitrine})
\* a null arc: the vitrine only while P is empty, and Chaser fills P for its scan
NullArc == Net(<<P("P", 0), P("C", 1)>>,
               <<A("C", 1, "Cb"), A("Cb", 1, "P"), A("P", 1, "Ce"), A("Ce", 1, "C"),
                 A("P", 0, "Vb"), A("Ce", 0, "P"), A("P", 1, "C"), A("X", 1, "P")>>,
               Begs, Ends, {})
Clash == Net(<<P("C", 1)>>, <<A("C", 1, "Cb"), A("C", 0, "Cb")>>, Begs, Ends, {})

Demos == {Ring, Ring3, Paced, Star, Odd, Free, Refused, Complex, Pair, NullArc, Clash}
StarOnly == {Star}

DemoNames == { <<n>> : n \in {"C", "V", "P", "X", "Cb", "Ce", "Vb", "Ve"} }

\* What the demos and the other configurations above are to run one after the
\* other, their tables make take turns.
DemosTakeTurns == config.turns # {} => TakeTurns
=============================================================================
