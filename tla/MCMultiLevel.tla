---------------------------- MODULE MCMultiLevel ----------------------------
(* Four villages 0..2, 3..5, 6..8 and 9..11 from west to east, each a one-way *)
(* ring; two-way roads join neighbours, a second one the outer pairs, one-way *)
(* roads lead from the last to the first; 12 is a dead end and nothing leads  *)
(* to 13 -> 14.  In one of the towns a street is closed to some *)
(* vehicles.                                                                  *)
EXTENDS MultiLevelRouting

At(n) == IF n < 12 THEN <<30 * (n \div 3) + 5 * (n % 3), n>> ELSE <<<<107, 12>>, <<0, 90>>, <<10, 90>>>>[n - 11]
Street(a, b, f, r) == [from |-> a, to |-> b, forward |-> f, backward |-> r]
Streets == {Street(i, IF i % 3 = 2 THEN i - 2 ELSE i + 1, i, None) : i \in 0..11}
           \cup {Street(2, 3, 12, 13), Street(5, 6, 14, 15), Street(8, 9, 16, 17), Street(1, 4, 18, None),
                 Street(10, 7, 19, None), Street(10, 0, 20, None), Street(11, 12, 21, 22), Street(13, 14, 23, None)}
Size == 24

\* Every direction of every street: from, to, node.
Ways == UNION {{<<s.from, s.to, s.forward>>} \cup (IF s.backward = None THEN {} ELSE {<<s.to, s.from, s.backward>>}) :
               s \in Streets}
Weight(w, n) == 2 + ((n * w) % 5)
Pen(n, m) == (n + 2 * m) % 3
Opposite(a, b) == a[1] = b[2] /\ a[2] = b[1]
Pairs == {p \in Ways \X Ways : p[1][2] = p[2][1] /\ (Opposite(p[1], p[2]) => p[1][2] = 12)}
Turns(w) == {[source |-> p[1][3], target |-> p[2][3], id |-> p[1][3] * 30 + p[2][3],
              penalty |-> Pen(p[1][3], p[2][3]),
              weight |-> Weight(w, p[1][3]) + Pen(p[1][3], p[2][3])] : p \in Pairs}

Town(w, closed) ==
    [count |-> 15, coordinate |-> [n \in 0..14 |-> At(n)], streets |-> Streets, turns |-> Turns(w), size |-> Size,
     weight |-> [n \in 0..Size - 1 |-> Weight(w, n)],
     filters |-> IF closed = {} THEN <<0..Size - 1>> ELSE <<0..Size - 1, (0..Size - 1) \ closed>>]
MCInputs == {Town(1, {4})}
MCOrigins == {0, 4, 8, 14, 20, 21}
MCSizes == <<5, 12>>
=============================================================================
