----------------------------- MODULE MCExtraction -----------------------------
(* A main road 1-2-3-4-5 in three ways with signals at 3 and 4, a lane 2-6,   *)
(* a one-way lane 4->7, and a lane 6-8-7 whose directions differ, with a      *)
(* barrier at 9 on its dead end; a slower way and a faster one-way way lie    *)
(* between 2 and 3.                                                           *)
EXTENDS LawfulWalks

Way(id, nodes, forward, backward, name) ==
    [id |-> id, nodes |-> nodes, forward |-> forward, backward |-> backward, name |-> name, differs |-> FALSE]
Ways == <<Way(10, <<1, 2>>, 2, 2, 1), Way(11, <<2, 3, 4>>, 3, 3, 1), Way(12, <<4, 5>>, 2, 2, 1),
          Way(13, <<2, 6>>, 1, 1, 2), Way(14, <<4, 7>>, 4, 0, 2), Way(15, <<6, 8, 7>>, 2, 5, 3),
          Way(16, <<7, 9, 10>>, 1, 1, 0), Way(17, <<2, 3>>, 1, 0, 4), Way(18, <<11, 12>>, 1, 0, 0),
          Way(19, <<11>>, 1, 1, 0)>>

Law(from, ways, node, to, only, conditional) ==
    [from |-> from, ways |-> ways, node |-> node, to |-> to, only |-> only, conditional |-> conditional]
Pool == {Law(10, <<11>>, 0, 12, FALSE, FALSE),      \* not straight on
         Law(13, <<11>>, 0, 14, TRUE, FALSE),       \* from the lane into the other one only
         Law(10, <<11, 14>>, 0, 15, FALSE, FALSE),  \* over two ways
         Law(11, <<>>, 4, 14, FALSE, TRUE),         \* at times not right
         Law(10, <<>>, 2, 11, TRUE, TRUE),          \* at times straight only
         Law(15, <<13>>, 0, 10, FALSE, TRUE),       \* at times not left
         Law(12, <<14>>, 0, 15, TRUE, FALSE),
         Law(11, <<>>, 2, 13, FALSE, FALSE)}

Map(laws, signals, broken) ==
    [nodes |-> 1..12 \ broken, barriers |-> {9}, signals |-> signals,
     restrictions |-> SetToSeq(laws), ways |-> Ways]
OneMap == {Map({Law(10, <<11>>, 0, 12, FALSE, FALSE), Law(11, <<>>, 4, 14, FALSE, TRUE)}, {}, {5, 12})}
Few == {l \in SUBSET Pool : Cardinality(l) \in 2..4}
MCMaps == {Map(l, {<<3, "all">>, <<4, "forward">>, <<8, "reverse">>}, {}) : l \in Few}
          \cup OneMap

\* New traffic: a file over another, later runs over what the first one wrote, with and
\* without lines of their own for its streets, lines of one key in one file, a negative turn
\* penalty, and two tasks at neighbouring segments.
Line(a, b, value) == [key |-> <<a, b>>, value |-> value]
Bend(a, b, c, value) == [key |-> <<a, b, c>>, value |-> value]
Run(segments, turns, now, tasks) == [segments |-> segments, turns |-> turns, now |-> now, tasks |-> tasks]
Jam == Run(<<<<Line(2, 3, 9), Line(8, 7, 2)>>, <<Line(2, 3, 6), Line(3, 2, Stopped), Line(6, 8, Blank)>>>>,
           <<>>, FALSE, 1)
Cleared == Run(<<<<Line(2, 3, Blank), Line(3, 2, 4), Line(8, 7, 40), Line(6, 8, 0)>>>>,
               <<<<Bend(1, 2, 6, 5), Bend(3, 4, 7, -9)>>>>, TRUE, 1)
Twice == Run(<<<<Line(1, 2, 4), Line(1, 2, 8), Line(3, 3, 5)>>>>,
             <<<<Bend(2, 6, 8, 1)>>, <<Bend(2, 6, 8, -1)>>>>, FALSE, 1)
Lane == Run(<<<<Line(6, 8, 3)>>>>, <<<<Bend(6, 8, 7, 2)>>>>, FALSE, 1)
Rush == Run(<<<<Line(4, 5, 21), Line(4, 7, 10), Line(6, 8, 31), Line(3, 2, 3)>>>>, <<>>, TRUE, 2)

CommandsFor(m) ==
    LET count == Len(m.restrictions)
    IN IF count = 2 THEN {<<Jam, Cleared>>, <<Cleared, Jam, Lane>>, <<Twice>>}
       ELSE IF ToSet(m.restrictions) = {Law(11, <<>>, 4, 14, FALSE, TRUE), Law(10, <<>>, 2, 11, TRUE, TRUE),
                                        Law(15, <<13>>, 0, 10, FALSE, TRUE)} THEN {<<Rush>>}
       ELSE {<<>>}
MCCommands == [m \in MCMaps |-> CommandsFor(m)]

\* One file with two lines of a key.
TwoLines == [m \in OneMap |-> {<<Twice>>}]
=============================================================================
