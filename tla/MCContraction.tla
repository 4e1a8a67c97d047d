---------------------------- MODULE MCContraction ----------------------------
(* Graphs of four streets: a ring 0 1 2 with a detour over 3, every subset of *)
(* four more turns, all one-way or only street 0; with every class allowed,   *)
(* or with an excluded street 3 that is never the cheaper way.                *)
EXTENDS ContractedRouting

Turn(i, s, t, w) == [source |-> s, target |-> t, weight |-> w, id |-> i,
                     forward |-> TRUE, backward |-> FALSE]
Ring(w)   == <<Turn(1, 0, 1, 1), Turn(2, 1, 2, 1), Turn(3, 2, 0, 2), Turn(4, 1, 3, w + 1)>>
Chords(w) == <<Turn(5, 3, 2, w), Turn(6, 2, 3, w), Turn(7, 3, 1, w), Turn(8, 0, 3, w + 2),
               Turn(9, 2, 1, 0)>>
Graphs(w) == {Ring(w) \o SelectSeq(Chords(w), LAMBDA e : e.id \in S) : S \in SUBSET (5..9)}

Weights == {[n \in Nodes |-> Invalid], [n \in Nodes |-> IF n = 0 THEN Invalid ELSE 1]}

AllAllowed == [turns : Graphs(1), weight : Weights, filters : {<<Nodes>>}]
Toll       == [turns : Graphs(5), weight : Weights, filters : {<<Nodes, Nodes \ {3}>>}]
MCInputs   == AllAllowed \cup Toll

\* The excluded street is the cheaper way.
CheapToll  == [turns : {Ring(1) \o <<Turn(7, 3, 1, 1), Turn(6, 2, 3, 1)>>}, weight : Weights,
               filters : {<<Nodes, Nodes \ {3}>>}]
MCHash == [n \in Nodes |-> n % 2]
TollHash == [n \in Nodes |-> (n * 3) % 4]
=============================================================================
