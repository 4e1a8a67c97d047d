--------------------------- MODULE GeospatialQuery ---------------------------
(* Snapping a coordinate to the road network (geospatial_query.hpp): the best *)
(* first search over the tree (static_rtree.hpp, Nearest) with the filters    *)
(* and the end each kind of query gives it, and the phantom nodes made of the *)
(* segments it finds.                                                         *)
(* Lengths are compared by their squares. Durations equal weights.            *)
EXTENDS StaticRTree

CONSTANTS Geometry,         \* geometry |-> [nodes, forward weights, reverse weights (last segment first)]
          GetGeometryIndex, \* edge-based node |-> [id: its geometry, forward: whether it runs along it]
          GetComponentID,   \* edge-based node |-> [id, is_tiny]
          ExcludeNode,      \* the edge-based nodes an excluding facade hides
          LeftHandDriving,  \* the edge-based nodes where one drives on the left
          RTree             \* Tree(...) over segments [u, v, forward, reverse, position, is_startpoint]

VARIABLE search             \* the query under way, or the last one

INVALID_SEGMENT_WEIGHT == 1000
SPECIAL_SEGMENTID == 1000
Unset == -1                 \* an optional number that was not given
Nowhere == <<>>

Both == <<TRUE, TRUE>>
Neither == <<FALSE, FALSE>>
And(a, b) == <<a[1] /\ b[1], a[2] /\ b[2]>>

\* What the extraction leaves: segments between two places, each the only one of its
\* edge-based node at its position; the copies of a street that restrictions over several
\* ways lead through have segments of their own in the same places.  The tree is packed
\* over all of them.
ASSUME MapAssumption ==
    /\ Location \in [DOMAIN Location -> Int \X Int]
    /\ \A n \in DOMAIN GetComponentID : GetComponentID[n].is_tiny \in BOOLEAN
    /\ RTree.objects \in [DOMAIN RTree.objects ->
           [u : DOMAIN Location, v : DOMAIN Location, forward : [id : DOMAIN GetComponentID, enabled : BOOLEAN],
            reverse : [id : DOMAIN GetComponentID \union {SPECIAL_SEGMENTID}, enabled : BOOLEAN],
            position : Nat, is_startpoint : BOOLEAN]]
    /\ \A i, j \in DOMAIN RTree.objects :
           /\ RTree.objects[i].forward.id = RTree.objects[j].forward.id
           /\ RTree.objects[i].position = RTree.objects[j].position
           => i = j
    /\ Packed(RTree)

-----------------------------------------------------------------------------
(* What makes a segment unfit: each check answers for both directions.        *)

Weights(segment) == Geometry[GetGeometryIndex[segment.forward.id].id]

ForwardWeight(segment) == Weights(segment).forward[segment.position + 1]
ReverseWeight(segment) == Weights(segment).reverse[Len(Weights(segment).reverse) - segment.position]

CheckSegmentExclude(segment, ask) ==
    LET Open(direction) == ~(ask.exclude /\ direction.enabled /\ direction.id \in ExcludeNode)
    IN <<Open(segment.forward), Open(segment.reverse)>>

HasValidEdge(segment, ask) ==
    LET start == segment.is_startpoint \/ ask.use_all_edges
    IN <<ForwardWeight(segment) # INVALID_SEGMENT_WEIGHT /\ segment.forward.enabled /\ start,
         ReverseWeight(segment) # INVALID_SEGMENT_WEIGHT /\ segment.reverse.enabled /\ start>>

\* util::coordinate_calculation::isCCW.
isCCW(p, q, r) == (q[1] - p[1]) * (r[2] - p[2]) - (q[2] - p[2]) * (r[1] - p[1]) > 0

CheckApproach(segment, ask) ==
    IF ~(segment.forward.enabled /\ segment.reverse.enabled) \/ ask.approach = "unrestricted" THEN Both
    ELSE LET right == ~isCCW(Location[segment.u], Location[segment.v], ask.point)
             curb == IF segment.forward.id \in LeftHandDriving THEN ~right ELSE right
             wanted == IF ask.approach = "opposite" THEN ~curb ELSE curb
         IN <<wanted, ~wanted>>

\* util::bearing::CheckInBounds.
CheckInBounds(A, B, range) ==
    LET a == A % 360
        b == B % 360
    IN \/ range >= 180
       \/ /\ range >= 0
          /\ IF b - range < 0 THEN b - range + 360 <= a \/ a <= b + range
             ELSE IF b + range > 360 THEN b - range <= a \/ a <= b + range - 360
             ELSE b - range <= a /\ a <= b + range

\* util::coordinate_calculation::bearing of a segment that runs along an axis.
Bearing(p, q) ==
    CASE q[2] > p[2] -> 0
      [] q[1] > p[1] -> 90
      [] q[2] < p[2] -> 180
      [] q[1] < p[1] -> 270
      [] OTHER -> 0

CheckSegmentBearing(segment, filter) ==
    LET ahead == Bearing(Location[segment.u], Location[segment.v])
        back == IF ahead + 180 > 360 THEN ahead - 180 ELSE ahead + 180
    IN <<CheckInBounds(ahead, filter[1], filter[2]) /\ segment.forward.enabled,
         CheckInBounds(back, filter[1], filter[2]) /\ segment.reverse.enabled>>

IsTinyComponent(segment) == GetComponentID[segment.forward.id].is_tiny

\* The checks every query makes.
UseSegment(segment, ask) ==
    And(And(CheckSegmentExclude(segment, ask), CheckApproach(segment, ask)),
        And(HasValidEdge(segment, ask),
            IF ask.bearing = <<>> THEN Both ELSE CheckSegmentBearing(segment, ask.bearing)))

-----------------------------------------------------------------------------
(* Phantom nodes.                                                             *)

Length(p, q) == Max({p[1], q[1]}) - Min({p[1], q[1]}) + Max({p[2], q[2]}) - Min({p[2], q[2]})

SumOver(S, Op(_)) == FoldSet(LAMBDA x, sum : sum + Op(x), 0, S)

Unclosed(weights, indexes) == \A i \in indexes : weights[i] # INVALID_SEGMENT_WEIGHT

\* MakePhantomNode: in each direction, how far the phantom is along its edge, and
\* whether a route may start and end there. The weight forward rounds down.
MakePhantomNode(input, segment) ==
    LET geometry == Weights(segment)
        pos == segment.position
        size == Len(geometry.forward)
        from == Location[segment.u]
        at == NearestIn(Around(segment), input)
        Piece(i) == Length(Location[geometry.nodes[i]], Location[geometry.nodes[i + 1]])
        along == Length(from, at)
        whole == Length(from, Location[segment.v])
        Part(id, weight) == IF id = SPECIAL_SEGMENTID THEN weight ELSE (weight * along) \div whole
    IN [forward |->
            [id |-> segment.forward.id, enabled |-> segment.forward.enabled,
             weight |-> Part(segment.forward.id, ForwardWeight(segment))
                        + SumOver(1..pos, LAMBDA i : geometry.forward[i]),
             distance |-> along + SumOver(1..pos, Piece),
             source |-> Unclosed(geometry.forward, 1..size),
             target |-> Unclosed(geometry.forward, 1..pos + 1)],
        reverse |->
            [id |-> segment.reverse.id, enabled |-> segment.reverse.enabled,
             weight |-> ReverseWeight(segment)
                        - (IF segment.reverse.id = SPECIAL_SEGMENTID THEN 0
                           ELSE Part(segment.reverse.id, ReverseWeight(segment)))
                        + SumOver(1..size - pos - 1, LAMBDA i : geometry.reverse[i]),
             distance |-> whole - along + SumOver(pos + 2..size, Piece),
             source |-> Unclosed(geometry.reverse, 1..size),
             target |-> Unclosed(geometry.reverse, 1..size - pos)],
        component |-> GetComponentID[segment.forward.id],
        position |-> pos, location |-> at, input_location |-> input, distance |-> Squared(input, at)]

\* Of two phantoms on neighbouring segments of one edge, the first unless the
\* second can be driven in more directions (add_to_candidates).
add_to_candidates(candidates, input, segment) ==
    LET same == {i \in DOMAIN candidates : /\ candidates[i].forward.id = segment.forward.id
                                           /\ candidates[i].reverse.id = segment.reverse.id}
        new == MakePhantomNode(input, segment)
        twoWay == segment.forward.enabled /\ segment.reverse.enabled
        Replaces(old) ==
            LET oldTwoWay == old.forward.enabled /\ old.reverse.enabled
            IN IF old.position < segment.position THEN twoWay /\ ~oldTwoWay ELSE ~oldTwoWay \/ twoWay
    IN IF same = {} THEN Append(candidates, new)
       ELSE [candidates EXCEPT ![Min(same)] = IF Replaces(@) THEN new ELSE @]

MakePhantomNodes(input, results) == [i \in DOMAIN results |-> MakePhantomNode(input, results[i].data)]

\* A segment is added to the candidates at the nearest place, or else to those of the
\* nearest big component.
AddSegment(input, nearest, pair, r) ==
    IF r.at = nearest THEN [pair EXCEPT !.first = add_to_candidates(@, input, r.data)]
    ELSE [pair EXCEPT !.second = add_to_candidates(@, input, r.data)]

NoCandidates == [first |-> <<>>, second |-> <<>>]

MakeAlternativeBigCandidates(input, nearest, results) ==
    IterateOver(LAMBDA pair, r : AddSegment(input, nearest, pair, r), NoCandidates, results)

-----------------------------------------------------------------------------
(* The search. Candidates of equal distance leave the heap in any order.      *)

Idle == [ask |-> <<>>, queue |-> {}, results |-> <<>>, nearest |-> Nowhere, big |-> Nowhere, phase |-> "idle"]

Begun(ask) ==
    [Idle EXCEPT !.ask = ask, !.phase = "running",
                 !.queue = {[dist |-> 0, index |-> Root, segment |-> NoSegment, at |-> ask.point]}]

Closest(queue) == {c \in queue : \A d \in queue : c.dist <= d.dist}

\* A tree node on top: its children take its place.
ExploreNode ==
    /\ search.phase = "running"
    /\ \E c \in Closest(search.queue) :
           /\ c.segment = NoSegment
           /\ search' = [search EXCEPT !.queue = (@ \ {c}) \union
                            (IF is_leaf(RTree, c.index) THEN ExploreLeafNode(RTree, c.index, search.ask.point)
                             ELSE ExploreTreeNode(RTree, c.index, search.ask.point))]

TooFar(c) == search.ask.max_distance # Unset /\ c.dist > search.ask.max_distance

\* A slip no specification uses: the search ends with the first segment of a big component.
StopsAtBig(c) ==
    \/ TooFar(c)
    \/ IF search.ask.alternatives THEN search.big # Nowhere
       ELSE search.ask.max_results # Unset /\ Len(search.results) >= search.ask.max_results

\* The terminators of the two kinds of query.
Terminates(c) ==
    \/ TooFar(c)
    \/ IF search.ask.alternatives THEN search.big # Nowhere /\ c.dist > Squared(search.ask.point, search.big)
       ELSE search.ask.max_results # Unset /\ Len(search.results) >= search.ask.max_results

Terminate ==
    /\ search.phase = "running"
    /\ \/ search.queue = {}
       \/ \E c \in Closest(search.queue) : c.segment # NoSegment /\ Terminates(c)
    /\ search' = [search EXCEPT !.phase = "done", !.queue = {}]

\* The filter: a query for alternatives wants one place of each sort only.
Filter(c, segment) ==
    LET tiny == IsTinyComponent(segment)
        elsewhere == IF tiny THEN search.nearest \notin {Nowhere, c.at} ELSE search.big \notin {Nowhere, c.at}
    IN IF search.ask.alternatives /\ elsewhere THEN Neither ELSE UseSegment(segment, search.ask)

\* A segment on top: passed over, or taken with the directions that may be used.
VisitSegment ==
    /\ search.phase = "running"
    /\ \E c \in Closest(search.queue) :
           /\ c.segment # NoSegment /\ ~Terminates(c)
           /\ \E segment \in {RTree.objects[c.segment]} : \E use \in {Filter(c, segment)} :
                  search' = [search EXCEPT
                      !.queue = @ \ {c},
                      !.results = IF use = Neither THEN @
                                  ELSE Append(@, [at |-> c.at, dist |-> c.dist,
                                                  data |-> [segment EXCEPT !.forward.enabled = @ /\ use[1],
                                                                           !.reverse.enabled = @ /\ use[2]]]),
                      !.nearest = IF use # Neither /\ @ = Nowhere THEN c.at ELSE @,
                      !.big = IF use # Neither /\ @ = Nowhere /\ ~IsTinyComponent(segment) THEN c.at ELSE @]

SearchStep == ExploreNode \/ Terminate \/ VisitSegment

\* NearestPhantomNodes and NearestCandidatesWithAlternativeFromBigComponent.
Found ==
    IF search.ask.alternatives THEN MakeAlternativeBigCandidates(search.ask.point, search.nearest, search.results)
    ELSE MakePhantomNodes(search.ask.point, search.results)

-----------------------------------------------------------------------------
(* What a search finds.                                                       *)

\* The segments that a query may use, found by looking at all.
Fit(ask) ==
    UNION {{[edge |-> segment.forward.id, position |-> segment.position, at |-> at,
             dist |-> Squared(ask.point, at), tiny |-> IsTinyComponent(segment)] : at \in {NearestIn(Around(segment), ask.point)}} :
           segment \in {o \in {RTree.objects[i] : i \in DOMAIN RTree.objects} :
                           \A use \in {UseSegment(o, ask)} : use # Neither}}

WithinReach(ask) == {s \in Fit(ask) : ask.max_distance = Unset \/ s.dist <= ask.max_distance}

Nearest(seen) == {s.at : s \in {t \in seen : \A o \in seen : t.dist <= o.dist}}

\* The segments found, as they are seen in a look at all.
Taken(fit) ==
    {s \in fit : \E k \in DOMAIN search.results :
        s.edge = search.results[k].data.forward.id /\ s.position = search.results[k].data.position}

\* What the filter keeps: of the nearest place all segments of islands, and of the nearest
\* place on the big component all of its segments.  Of places that are as near the search
\* takes any for either; the two differ only if the first has an island.
BothSorts(fit, taken) ==
    LET big == {s \in fit : ~s.tiny}
    IN IF big = {} THEN IF fit = {} THEN taken = {} ELSE \E near \in Nearest(fit) : taken = {s \in fit : s.at = near}
       ELSE \E near \in Nearest(fit), place \in Nearest(big) :
                /\ near # place => \E s \in fit : s.tiny /\ s.at = near
                /\ taken = {s \in fit : s.at = IF s.tiny THEN near ELSE place}

\* The asked number of the nearest usable segments in order of distance, or for a
\* query with alternatives the nearest place and the nearest on the main network, be
\* there as many copies of a street in a place as there may.
SearchExact ==
    search.phase = "done" =>
        \A fit \in {WithinReach(search.ask)} : \A taken \in {Taken(fit)} :
            /\ Cardinality(taken) = Len(search.results)
            /\ \A k \in 1..Len(search.results) - 1 : search.results[k].dist <= search.results[k + 1].dist
            /\ IF search.ask.alternatives THEN BothSorts(fit, taken)
               ELSE /\ Len(search.results) = IF search.ask.max_results = Unset THEN Cardinality(fit)
                                             ELSE Min({search.ask.max_results, Cardinality(fit)})
                    /\ \A s \in taken, o \in fit \ taken : s.dist <= o.dist

\* The comment over the query (geospatial_query.hpp:81-85): the candidates are those of the
\* nearest location, "if there is tie between equidistant locations, we only pick
\* candidates from one location", and others come only if none of them is of the big
\* component.
OneLocation ==
    search.phase = "done" /\ search.ask.alternatives =>
        \A fit \in {WithinReach(search.ask)} : \A taken \in {Taken(fit)} :
            fit # {} => \E near \in Nearest(fit) : \A here \in {{s \in fit : s.at = near}} :
                            /\ here \subseteq taken
                            /\ (\E s \in here : ~s.tiny) => taken = here
=============================================================================
