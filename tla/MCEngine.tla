------------------------------- MODULE MCEngine -------------------------------
(* A town: a two-way road a-b-c to the south, c-d and e-a one-way, a two-way  *)
(* road d-h-e to the north, and an island f-g of its own. From c to b the road  *)
(* is closed; d-e is tolled; nothing starts on c-d.  Who comes from d-h-e     *)
(* must go on from e-a to a-b, on a copy of e-a.                              *)
EXTENDS Engine

TownLocation == [a |-> <<0, 0>>, b |-> <<4, 0>>, c |-> <<8, 0>>, d |-> <<8, 4>>, e |-> <<0, 4>>,
                 f |-> <<4, 2>>, g |-> <<6, 2>>, h |-> <<4, 4>>]

TownGeometry == <<[nodes |-> <<"a", "b", "c">>, forward |-> <<8, 4>>, reverse |-> <<1000, 8>>],
                  [nodes |-> <<"c", "d">>, forward |-> <<4>>, reverse |-> <<4>>],
                  [nodes |-> <<"d", "h", "e">>, forward |-> <<8, 8>>, reverse |-> <<4, 4>>],
                  [nodes |-> <<"e", "a">>, forward |-> <<4>>, reverse |-> <<4>>],
                  [nodes |-> <<"f", "g">>, forward |-> <<2>>, reverse |-> <<2>>]>>

\* The edge-based nodes: 0 a-c, 1 c-a, 2 c-d, 3 d-e, 4 e-d, 5 e-a, 6 f-g, 7 g-f; 8 copies 5.
TownGeometryIndex == [n \in 0..8 |-> [id |-> <<1, 1, 2, 3, 3, 4, 5, 5, 4>>[n + 1], forward |-> n \in {0, 2, 3, 5, 6, 8}]]
TownComponents == [n \in 0..8 |-> [id |-> IF n \in {6, 7} THEN 2 ELSE 1, is_tiny |-> n \in {6, 7}]]
TownTurns == {<<0, 2>>, <<1, 0>>, <<2, 3>>, <<3, 8>>, <<8, 0>>, <<3, 4>>, <<4, 3>>, <<5, 0>>, <<6, 7>>, <<7, 6>>}

Street(u, v, forward, reverse, position, startpoint) ==
    [u |-> u, v |-> v, forward |-> [id |-> forward, enabled |-> TRUE],
     reverse |-> [id |-> reverse, enabled |-> reverse # SPECIAL_SEGMENTID],
     position |-> position, is_startpoint |-> startpoint]

TownSegments == <<Street("a", "b", 0, 1, 0, TRUE), Street("e", "a", 5, 1000, 0, TRUE), Street("b", "c", 0, 1, 1, TRUE),
                  Street("f", "g", 6, 7, 0, TRUE), Street("h", "e", 3, 4, 1, TRUE),
                  Street("d", "h", 3, 4, 0, TRUE), Street("c", "d", 2, 1000, 0, FALSE),
                  Street("e", "a", 8, 1000, 0, TRUE)>>

TownTree == Tree(TownSegments)

Default == [service |-> "route", version |-> 1, connection |-> "keep-alive", parsable |-> TRUE, well_formed |-> TRUE,
            coordinates |-> <<>>, bearings |-> <<>>,
            radiuses |-> <<>>, approaches |-> <<>>, exclude |-> "none", snapping_any |-> FALSE, number |-> 1,
            sources |-> <<>>, destinations |-> <<>>, fallback_speed |-> INVALID_FALLBACK_SPEED, scale_factor |-> 1,
            fallback_coordinate |-> "input", waypoints |-> <<>>, number_of_alternatives |-> 0,
            roundtrip |-> TRUE, fixed_start |-> FALSE, fixed_end |-> FALSE,
            timestamps |-> <<>>, tidy |-> FALSE, gaps_split |-> TRUE]

Center == <<4, 1>>       \* between the island and the road to the south
Corner == <<2, 3>>
South == <<7, 0>>        \* on the half of the road that is closed in one direction
West == <<0, 2>>
Island == <<5, 2>>

Alike(more) == more @@ Default

\* A trace along the road to the south and up.
Trace == <<<<1, 0>>, <<5, 0>>, <<8, 0>>>>

Nearest3 ==
    {Alike([service |-> "nearest", coordinates |-> <<p>>, number |-> n]) : p \in {Center, Corner, Island}, n \in {1, 3}}
    \union {Alike(more @@ [service |-> "nearest", coordinates |-> <<Center>>]) : more \in
               {[number |-> 0], [number |-> 4], [bearings |-> <<<<270, 20>>>>], [bearings |-> <<<<400, 0>>>>],
                [approaches |-> <<"curb">>], [approaches |-> <<"opposite">>], [exclude |-> "toll"], [exclude |-> "ferry"],
                [connection |-> "close"], [radiuses |-> <<0>>], [coordinates |-> <<<<0, 91>>>>], [coordinates |-> <<Center, West>>]}}

Tables ==
    {Alike(more @@ [service |-> "table", coordinates |-> <<Center, Corner, South>>]) : more \in
        {[sources |-> <<0, 2>>, destinations |-> <<1>>], [exclude |-> "toll", fallback_speed |-> 2],
         [exclude |-> "toll", fallback_speed |-> 1, fallback_coordinate |-> "snapped", scale_factor |-> 3],
         [scale_factor |-> 50000], [snapping_any |-> TRUE], [sources |-> <<3>>], [radiuses |-> <<2, 1, 1>>],
         [radiuses |-> <<1, -1, 0>>], [coordinates |-> <<Center, Corner, South, West>>]}}

Routes ==
    {Alike(more @@ [service |-> "route", coordinates |-> <<Center, South>>]) : more \in
        {[version |-> 1], [waypoints |-> <<0, 1>>], [waypoints |-> <<0>>], [number_of_alternatives |-> 2],
         [coordinates |-> <<Center, Island>>], [coordinates |-> <<Island, South>>, exclude |-> "toll"],
         [coordinates |-> <<West, Corner, South>>], [coordinates |-> <<Center, South, West, Corner>>],
         [version |-> 2, connection |-> "close"], [service |-> "tile"], [well_formed |-> FALSE], [parsable |-> FALSE]}}

Trips ==
    {Alike([service |-> "trip", coordinates |-> c, roundtrip |-> r, fixed_start |-> s, fixed_end |-> e]) :
        c \in {<<Center, West, South>>, <<Corner, South, Center, West>>}, r \in BOOLEAN, s \in BOOLEAN, e \in BOOLEAN}
    \union {Alike([service |-> "trip", coordinates |-> <<Center, South>>, exclude |-> "toll"])}

Matches ==
    {Alike(more @@ [service |-> "match", coordinates |-> Trace]) : more \in
        {[version |-> 1], [timestamps |-> <<0, 1, 2>>], [timestamps |-> <<0, 9, 10>>, gaps_split |-> TRUE],
         [timestamps |-> <<0, 2, 1>>], [waypoints |-> <<0, 2>>], [waypoints |-> <<0, 1>>],
         [radiuses |-> <<2, 1, 1>>], [radiuses |-> <<4, 1, 1>>],
         [coordinates |-> <<<<1, 0>>, <<2, 0>>, <<5, 0>>, <<8, 0>>, <<8, 3>>>>, tidy |-> TRUE, waypoints |-> <<0, 1, 4>>],
         [coordinates |-> <<<<0, 3>>, <<0, 1>>, <<3, 1>>, <<6, 1>>, <<8, 1>>>>],
         [coordinates |-> <<<<1, 0>>, <<4, 0>>, <<4, 9>>, <<5, 2>>, <<6, 2>>>>],
         [coordinates |-> <<<<2, 4>>, <<4, 4>>, <<7, 4>>>>], [coordinates |-> <<<<9, 9>>, <<12, 9>>>>]}}

Town == Nearest3 \union Tables \union Routes \union Trips \union Matches

-----------------------------------------------------------------------------
(* A crossing: two roads, a-b and d-e, as near to a point between them, and a *)
(* one-way spur b-s that nobody comes back from.                              *)

CrossingLocation == [a |-> <<0, 0>>, b |-> <<4, 0>>, s |-> <<4, -2>>, d |-> <<0, 2>>, e |-> <<8, 2>>]
CrossingGeometry == <<[nodes |-> <<"a", "b">>, forward |-> <<4>>, reverse |-> <<4>>],
                      [nodes |-> <<"d", "e">>, forward |-> <<8>>, reverse |-> <<8>>],
                      [nodes |-> <<"b", "s">>, forward |-> <<2>>, reverse |-> <<2>>],
                      [nodes |-> <<"a", "d">>, forward |-> <<2>>, reverse |-> <<2>>]>>
CrossingGeometryIndex == [n \in 0..6 |-> [id |-> <<1, 1, 2, 2, 3, 4, 4>>[n + 1], forward |-> n \in {0, 2, 4, 5}]]
CrossingComponents == [n \in 0..6 |-> [id |-> IF n = 4 THEN 2 ELSE 1, is_tiny |-> n = 4]]
CrossingTurns == {<<0, 1>>, <<1, 5>>, <<2, 3>>, <<3, 6>>, <<5, 2>>, <<6, 0>>, <<0, 4>>}
CrossingSegments == <<Street("a", "b", 0, 1, 0, TRUE), Street("d", "e", 2, 3, 0, TRUE), Street("b", "s", 4, 1000, 0, TRUE),
                      Street("a", "d", 5, 6, 0, TRUE)>>
CrossingTree == Tree(CrossingSegments)
Crossing == {Alike([service |-> "route", coordinates |-> <<<<4, 1>>, <<0, 1>>>>])}
=============================================================================
