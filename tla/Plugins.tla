------------------------------- MODULE Plugins -------------------------------
(* The services that answer a query (server/service, engine/plugins): what    *)
(* each refuses and in which order, how the coordinates are snapped, and how  *)
(* nearest, table, route and trip make their answer of the snapped phantoms.  *)
(* The routing algorithms are external here: they return what the shortest    *)
(* path over the edge-based graph gives (ContractedRouting and                *)
(* MultiLevelRouting model them). Parameters are records; a list that was not *)
(* given is empty.                                                            *)
EXTENDS GeospatialQuery

CONSTANTS Turns,                     \* pairs of edge-based nodes: one may turn from the first into the second
          MaxNearest, MaxRoute, MaxTable, MaxTrip, MaxMatch, MaxAlternatives, MaxRadiusMatch,
          BF_MAX_FEASIBLE            \* trips of fewer locations are solved exactly

ASSUME FeasibleAssumption == BF_MAX_FEASIBLE \in Nat

VARIABLE job                         \* the request under way: [asked, request, found, stage, reply]

INVALID_EDGE_WEIGHT == 100000
MAXIMAL_EDGE_DURATION == INVALID_EDGE_WEIGHT
INVALID_FALLBACK_SPEED == 100000
Error(code) == [code |-> code, body |-> <<>>]
Ok(body) == [code |-> "Ok", body |-> body]

-----------------------------------------------------------------------------
(* Routing between phantoms.                                                  *)

EdgeBasedNodes == DOMAIN GetGeometryIndex

NodeWeight(node) ==
    LET geometry == Geometry[GetGeometryIndex[node].id]
        weights == IF GetGeometryIndex[node].forward THEN geometry.forward ELSE geometry.reverse
    IN IF \E i \in DOMAIN weights : weights[i] = INVALID_SEGMENT_WEIGHT THEN INVALID_EDGE_WEIGHT
       ELSE SumOver(DOMAIN weights, LAMBDA i : weights[i])

NodeDistance(node) ==
    LET nodes == Geometry[GetGeometryIndex[node].id].nodes
    IN SumOver(1..Len(nodes) - 1, LAMBDA i : Length(Location[nodes[i]], Location[nodes[i + 1]]))

Cheaper(a, b) == a.weight < b.weight \/ (a.weight = b.weight /\ a.distance <= b.distance)
Best(costs) == CHOOSE c \in costs : \A d \in costs : Cheaper(c, d)
Added(a, b) == [weight |-> Min({a.weight + b.weight, INVALID_EDGE_WEIGHT}), distance |-> a.distance + b.distance]
NoCost == [weight |-> INVALID_EDGE_WEIGHT, distance |-> INVALID_EDGE_WEIGHT]

\* From the start of one edge-based node to the start of another, over at least one turn.
Between(excluded) ==
    LET Direct == [m \in EdgeBasedNodes |-> [n \in EdgeBasedNodes |->
                      IF <<m, n>> \in Turns /\ {m, n} \cap excluded = {}
                      THEN [weight |-> NodeWeight(m), distance |-> NodeDistance(m)] ELSE NoCost]]
        Via(table, k) ==
            Computed([m \in EdgeBasedNodes |-> Computed([n \in EdgeBasedNodes |->
                Best({table[m][n], Added(table[m][k - 1], table[k - 1][n])})])])
    IN Iterate(Via, Direct, Cardinality(EdgeBasedNodes))

Network == Between({})
ExcludingNetwork == Between(ExcludeNode)

\* The directions a route may leave from, and arrive in (insertSourceInHeap, insertTargetInHeap).
Sources(p) == {d \in {p.forward, p.reverse} : d.enabled /\ d.source}
Targets(p) == {d \in {p.forward, p.reverse} : d.enabled /\ d.target}

\* The shortest path between candidates; one that would end behind its start goes round.
Travel(network, from, to) ==
    LET Minus(cost, s) == [weight |-> cost.weight - s.weight, distance |-> cost.distance - s.distance]
        Straight(s, t) == IF s.id = t.id /\ s.weight <= t.weight THEN Minus(t, s) ELSE NoCost
        Round(s, t) == IF network[s.id][t.id].weight < INVALID_EDGE_WEIGHT
                       THEN Minus(Added(network[s.id][t.id], t), s) ELSE NoCost
    IN Best({NoCost} \union
            UNION {{Straight(s, t), Round(s, t)} : s \in UNION {Sources(p) : p \in from},
                                                   t \in UNION {Targets(p) : p \in to}})

NetworkOf(request) == IF request.exclude = "toll" THEN ExcludingNetwork ELSE Network

Candidates(list) == {list[i] : i \in DOMAIN list}

\* ManyToManySearch over all waypoints: indexes count from 0.
ManyToManySearch(network, snapped) ==
    LET places == 0..Len(snapped) - 1
    IN Computed([i \in places |-> Computed([j \in places |->
           Travel(network, Candidates(snapped[i + 1]), Candidates(snapped[j + 1]))])])

\* ShortestPathSearch without continue_straight: from waypoint to waypoint through one candidate of each.
ShortestPathSearch(network, snapped) ==
    LET Reach(costs, list) ==
            Computed([p \in Candidates(list) |->
                Best({Added(costs[q], Travel(network, {q}, {p})) : q \in DOMAIN costs})])
        start == [p \in Candidates(Head(snapped)) |-> [weight |-> 0, distance |-> 0]]
        ends == IterateOver(Reach, start, Tail(snapped))
    IN Best({ends[p] : p \in DOMAIN ends})

-----------------------------------------------------------------------------
(* What a request must be (the IsValid of its parameters).                    *)

Fits(list, request) == list = <<>> \/ Len(list) = Len(request.coordinates)

BaseIsValid(request) ==
    /\ Fits(request.bearings, request) /\ Fits(request.radiuses, request) /\ Fits(request.approaches, request)
    /\ \A i \in DOMAIN request.bearings :
           request.bearings[i] # <<>> => request.bearings[i][1] \in 0..360 /\ request.bearings[i][2] \in 0..180

IsValid(request) ==
    LET n == Len(request.coordinates)
        Indexes(list) == \A i \in DOMAIN list : list[i] < n
    IN /\ BaseIsValid(request)
       /\ CASE request.service = "nearest" -> request.number >= 1
            [] request.service = "table" ->
                   /\ n >= 2 /\ Indexes(request.sources) /\ Indexes(request.destinations)
                   /\ request.fallback_speed > 0 /\ request.scale_factor > 0
            [] request.service = "match" ->
                   n >= 2 /\ Indexes(request.waypoints) /\ Fits(request.timestamps, request)
            [] OTHER -> n >= 2 /\ Indexes(request.waypoints)

CoordinateIsValid(p) == p[1] \in -180..180 /\ p[2] \in -90..90
CheckAllCoordinates(request) == \A i \in DOMAIN request.coordinates : CoordinateIsValid(request.coordinates[i])

\* Only the listed combinations of excluded classes have a facade.
CheckAlgorithms(request) == request.exclude \in {"none", "toll"}

EndsAreWaypoints(waypoints, count) == Head(waypoints) = 0 /\ Last(waypoints) = count - 1

-----------------------------------------------------------------------------
(* What a plugin refuses before it looks at the map, in the order of its code.*)

FirstFailing(checks) ==
    LET failing == {i \in DOMAIN checks : ~checks[i][1]}
    IN IF failing = {} THEN "" ELSE checks[Min(failing)][2]

NearestChecks(request) ==
    <<<<CheckAlgorithms(request), "InvalidValue">>,
      <<request.number <= MaxNearest, "TooBig">>,
      <<CheckAllCoordinates(request), "InvalidOptions">>,
      <<Len(request.coordinates) = 1, "InvalidOptions">>>>

\* The indexes a list names, or all of them.
Chosen(list, request) ==
    IF list = <<>> THEN [i \in DOMAIN request.coordinates |-> i - 1] ELSE list

TableChecks(request) ==
    <<<<CheckAllCoordinates(request), "InvalidOptions">>,
      <<Len(Chosen(request.sources, request)) * Len(Chosen(request.destinations, request)) <= MaxTable * MaxTable,
        "TooBig">>,
      <<CheckAlgorithms(request), "InvalidValue">>>>

ViaRouteChecks(request) ==
    <<<<Len(request.coordinates) <= MaxRoute, "TooBig">>,
      <<request.number_of_alternatives <= MaxAlternatives, "TooBig">>,
      <<CheckAllCoordinates(request), "InvalidValue">>,
      <<request.waypoints = <<>> \/ EndsAreWaypoints(request.waypoints, Len(request.coordinates)), "InvalidValue">>,
      <<CheckAlgorithms(request), "InvalidValue">>>>

TripChecks(request) ==
    <<<<request.roundtrip \/ request.fixed_start \/ request.fixed_end, "NotImplemented">>,
      <<Len(request.coordinates) <= MaxTrip, "TooBig">>,
      <<CheckAllCoordinates(request), "InvalidValue">>,
      <<CheckAlgorithms(request), "InvalidValue">>>>

MatchChecks(request) ==
    <<<<CheckAlgorithms(request), "InvalidValue">>,
      <<Len(request.coordinates) <= MaxMatch, "TooBig">>,
      <<CheckAllCoordinates(request), "InvalidValue">>,
      <<\A i \in DOMAIN request.radiuses : request.radiuses[i] <= MaxRadiusMatch, "TooBig">>,
      <<\A i \in 1..Len(request.timestamps) - 1 : request.timestamps[i] <= request.timestamps[i + 1],
        "InvalidValue">>>>

\* RunQuery of the service handler and of the service, then the plugin.
Refusal(request) ==
    IF request.service \notin {"nearest", "table", "route", "trip", "match"} THEN "InvalidService"
    ELSE IF request.version # 1 THEN "InvalidVersion"
    ELSE IF ~request.well_formed THEN "InvalidQuery"
    ELSE IF ~IsValid(request) THEN "InvalidOptions"
    ELSE FirstFailing(CASE request.service = "nearest" -> NearestChecks(request)
                        [] request.service = "table" -> TableChecks(request)
                        [] request.service = "route" -> ViaRouteChecks(request)
                        [] request.service = "trip" -> TripChecks(request)
                        [] request.service = "match" -> MatchChecks(request))

-----------------------------------------------------------------------------
(* Snapping all the coordinates of a request (plugin_base.hpp).               *)

DefaultRadius == Unset
RADIUS_MULTIPLIER == 3
CONSTANT DEFAULT_GPS_PRECISION

ASSUME PrecisionAssumption == DEFAULT_GPS_PRECISION \in Nat

Nth(list, i, default) == IF list = <<>> THEN default ELSE list[i]

\* The query for coordinate i: GetPhantomNodes and GetPhantomNodesInRange.
Ask(request, i) ==
    LET radius == Nth(request.radiuses, i, DefaultRadius)
        inRange == request.service = "match"
        range == IF radius = Unset THEN DEFAULT_GPS_PRECISION * RADIUS_MULTIPLIER ELSE radius * RADIUS_MULTIPLIER
    IN [point |-> request.coordinates[i],
        approach |-> Nth(request.approaches, i, "unrestricted"),
        bearing |-> Nth(request.bearings, i, <<>>),
        exclude |-> request.exclude = "toll",
        use_all_edges |-> inRange \/ (request.service # "nearest" /\ request.snapping_any),
        alternatives |-> request.service \in {"table", "route", "trip"},
        max_results |-> IF request.service = "nearest" THEN request.number ELSE Unset,
        max_distance |-> IF inRange THEN range * range ELSE IF radius = Unset THEN Unset ELSE radius * radius]

HaveComponent(list, id) == \E i \in DOMAIN list : list[i].component.id = id

\* The nearest phantoms if they share a tiny component, those of big components otherwise.
SnapPhantomNodes(found) ==
    LET noAlternatives == \A i \in DOMAIN found : found[i].second = <<>>
        sameTiny == \E i \in DOMAIN found[1].first :
                        /\ found[1].first[i].component.is_tiny
                        /\ \A j \in 2..Len(found) : HaveComponent(found[j].first, found[1].first[i].component.id)
    IN [i \in DOMAIN found |->
           IF noAlternatives \/ sameTiny \/ found[i].second = <<>> THEN found[i].first ELSE found[i].second]

NoJob == [asked |-> <<>>, request |-> <<>>, found |-> <<>>, stage |-> "idle", reply |-> <<>>]

Refuse(request, code) ==
    /\ job' = [NoJob EXCEPT !.asked = request, !.stage = "answered", !.reply = Error(code)]
    /\ search' = Idle

\* The first search, for a request as asked or as tidied.
StartSnapping(request, tidied) ==
    /\ job' = [NoJob EXCEPT !.asked = request, !.request = tidied, !.stage = "snapping"]
    /\ search' = Begun(Ask(tidied, 1))

Nothing(found) == IF job.request.service \in {"nearest", "match"} THEN found = <<>> ELSE found.first = <<>>

\* One coordinate is snapped: an error if nothing was found, or the next one.
\* Map matching goes on without.
Snap ==
    /\ job.stage = "snapping" /\ search.phase = "done"
    /\ \E list \in {Append(job.found, Found)} :
           IF Nothing(Last(list)) /\ job.request.service # "match"
           THEN /\ job' = [job EXCEPT !.stage = "answered", !.reply = Error("NoSegment")]
                /\ search' = Idle
           ELSE IF Len(list) < Len(job.request.coordinates)
           THEN /\ job' = [job EXCEPT !.found = list]
                /\ search' = Begun(Ask(job.request, Len(list) + 1))
           ELSE /\ job' = [job EXCEPT !.found = list, !.stage = "snapped"]
                /\ search' = Idle

-----------------------------------------------------------------------------
(* Trips: the order in which to visit all places, over a table of durations   *)
(* indexed from 0. Places, and positions in a route, count from 0 and 1.      *)

Overwritten(table, Changed(_, _), Value(_, _)) ==
    [i \in DOMAIN table |-> [j \in DOMAIN table |-> IF Changed(i, j) THEN Value(i, j) ELSE table[i][j]]]

\* Source and destination become one place: only the way back from the one to the other is free.
ManipulateTableForFSE(source, destination, table) ==
    Overwritten(table, LAMBDA i, j : (j = source /\ i # source) \/ (i = destination /\ j # destination)
                                     \/ (i = source /\ j = destination),
                       LAMBDA i, j : IF i = destination /\ j = source THEN 0 ELSE MAXIMAL_EDGE_DURATION)

ManipulateTableForNonRoundtripFS(source, table) == Overwritten(table, LAMBDA i, j : j = source, LAMBDA i, j : 0)
ManipulateTableForNonRoundtripFE(destination, table) ==
    Overwritten(table, LAMBDA i, j : i = destination, LAMBDA i, j : 0)

Successor(route, k) == route[IF k = Len(route) THEN 1 ELSE k + 1]

\* ReturnDistance without its early end: a tour over a closed way is not one.
ReturnDistance(table, order) ==
    IF \E k \in DOMAIN order : table[order[k]][Successor(order, k)] = MAXIMAL_EDGE_DURATION THEN MAXIMAL_EDGE_DURATION
    ELSE SumOver(DOMAIN order, LAMBDA k : table[order[k]][Successor(order, k)])

Before(a, b) == \E k \in DOMAIN a : a[k] < b[k] /\ \A l \in 1..k - 1 : a[l] = b[l]

Orders(places) == {order \in [1..Cardinality(places) -> places] : Cardinality({order[k] : k \in DOMAIN order}) = Cardinality(places)}

\* The first of the shortest orders, in the order of next_permutation.
BruteForceTrip(table) ==
    LET lengths == Computed([order \in Orders(DOMAIN table) |-> ReturnDistance(table, order)])
    IN CHOOSE a \in DOMAIN lengths : \A b \in DOMAIN lengths :
           lengths[a] < lengths[b] \/ (lengths[a] = lengths[b] /\ (a = b \/ Before(a, b)))

\* GetShortestRoundTrip: what the detour by a place costs, and before which stop of the route to make it.
GetShortestRoundTrip(place, table, route) ==
    LET Detour(k) == table[route[k]][place] + table[place][Successor(route, k)] - table[route[k]][Successor(route, k)]
        possible == {k \in DOMAIN route : /\ table[route[k]][place] # MAXIMAL_EDGE_DURATION
                                          /\ table[place][Successor(route, k)] # MAXIMAL_EDGE_DURATION}
        best == CHOOSE k \in possible : \A l \in possible :
                    Detour(k) < Detour(l) \/ (Detour(k) = Detour(l) /\ k <= l)
    IN [place |-> place, cost |-> Detour(best), before |-> IF best = Len(route) THEN 1 ELSE best + 1]

\* FarthestInsertionTrip: from the longest way on (the first of these, but for the
\* very first entry), the place of the longest detour is next.
FarthestInsertionTrip(table) ==
    LET count == Cardinality(DOMAIN table)
        Entry(x) == table[x \div count][x % count]
        farthest == CHOOSE x \in 1..count * count - 1 : \A y \in 1..count * count - 1 :
                        Entry(x) > Entry(y) \/ (Entry(x) = Entry(y) /\ x <= y)
        Inserted(route, step) ==
            LET detours == {GetShortestRoundTrip(place, table, route) :
                                place \in DOMAIN table \ {route[k] : k \in DOMAIN route}}
                next == CHOOSE d \in detours : \A e \in detours :
                            d.cost > e.cost \/ (d.cost = e.cost /\ d.place <= e.place)
            IN InsertAt(route, next.before, next.place)
    IN Iterate(Inserted, <<farthest \div count, farthest % count>>, count - 2)

Rotated(route, k) == SubSeq(route, k, Len(route)) \o SubSeq(route, 1, k - 1)
PositionOf(route, place) == CHOOSE k \in DOMAIN route : route[k] = place

\* The tour is turned so that it starts at the first place, ends at the last one, or starts there.
Turned(request, route) ==
    LET last == Len(route) - 1
        at == PositionOf(route, last)
    IN IF ~request.fixed_end \/ request.fixed_start THEN Rotated(route, PositionOf(route, 0))
       ELSE IF request.roundtrip THEN Rotated(route, at)
       ELSE Rotated(route, IF at = Len(route) THEN 1 ELSE at + 1)

\* A slip no specification uses: the table is left as it is when both ends are fixed.
RoundTripTable(request, table) ==
    LET last == Cardinality(DOMAIN table) - 1
    IN IF ~request.roundtrip /\ request.fixed_start /\ ~request.fixed_end THEN ManipulateTableForNonRoundtripFS(0, table)
       ELSE IF ~request.roundtrip /\ request.fixed_end THEN ManipulateTableForNonRoundtripFE(last, table)
       ELSE table

TripTable(request, table) ==
    LET last == Cardinality(DOMAIN table) - 1
    IN IF request.fixed_start /\ request.fixed_end THEN ManipulateTableForFSE(0, last, table)
       ELSE IF ~request.roundtrip /\ request.fixed_start THEN ManipulateTableForNonRoundtripFS(0, table)
       ELSE IF ~request.roundtrip /\ request.fixed_end THEN ManipulateTableForNonRoundtripFE(last, table)
       ELSE table

Durations(network, snapped) ==
    LET table == ManyToManySearch(network, snapped)
    IN Computed([i \in DOMAIN table |-> [j \in DOMAIN table |-> table[i][j].weight]])

TripOver(request, table) ==
    Turned(request, IF Cardinality(DOMAIN table) < BF_MAX_FEASIBLE THEN BruteForceTrip(table)
                    ELSE FarthestInsertionTrip(table))

TripReply(request, network, snapped, durations) ==
    IF \E i, j \in DOMAIN durations : durations[i][j] = MAXIMAL_EDGE_DURATION THEN Error("NoTrips")
    ELSE CHOOSE reply \in
             {Ok([trip |-> trip,
                  weight |-> ShortestPathSearch(network,
                      [k \in 1..Len(trip) + (IF request.roundtrip THEN 1 ELSE 0) |->
                          snapped[trip[IF k > Len(trip) THEN 1 ELSE k] + 1]]).weight]) :
                  trip \in {TripOver(request, TripTable(request, durations))}} : TRUE

-----------------------------------------------------------------------------
(* The answers.                                                               *)

NearestReply(found) == Ok([k \in DOMAIN found |-> [location |-> found[k].location, distance |-> found[k].distance]])

\* A cell of a table: where no route is, an estimate if the request has a
\* speed for it; then the scale, kept below the value that says "no route".
FillCell(request, duration, from, to) ==
    LET Place(list) == IF request.fallback_coordinate = "input" THEN list[1].input_location ELSE list[1].location
        estimated == request.fallback_speed # INVALID_FALLBACK_SPEED /\ duration = MAXIMAL_EDGE_DURATION
        value == IF estimated THEN Length(Place(from), Place(to)) \div request.fallback_speed ELSE duration
    IN [duration |-> IF request.scale_factor = 1 \/ value \in {0, MAXIMAL_EDGE_DURATION} THEN value
                     ELSE IF request.scale_factor >= MAXIMAL_EDGE_DURATION \div value THEN MAXIMAL_EDGE_DURATION - 1
                     ELSE value * request.scale_factor,
        estimated |-> estimated]

TableReply(request, snapped, durations) ==
    LET sources == Chosen(request.sources, request)
        destinations == Chosen(request.destinations, request)
    IN Ok([i \in DOMAIN sources |-> [j \in DOMAIN destinations |->
              FillCell(request, durations[sources[i]][destinations[j]],
                       snapped[sources[i] + 1], snapped[destinations[j] + 1])]])

\* Legs end at every coordinate, or at the waypoints only.
ViaRouteReply(request, snapped, cost) ==
    IF cost.weight >= INVALID_EDGE_WEIGHT THEN Error("NoRoute")
    ELSE Ok([weight |-> cost.weight,
             legs |-> IF request.waypoints = <<>> THEN Len(snapped) - 1
                      ELSE Cardinality({request.waypoints[k] : k \in DOMAIN request.waypoints}) - 1])

ReplyFor(request, network, found) ==
    IF request.service = "nearest" THEN NearestReply(found[1])
    ELSE CHOOSE reply \in
             {CASE request.service = "table" -> TableReply(request, snapped, Durations(network, snapped))
                [] request.service = "route" -> ViaRouteReply(request, snapped, ShortestPathSearch(network, snapped))
                [] request.service = "trip" -> TripReply(request, network, snapped, Durations(network, snapped)) :
              snapped \in {SnapPhantomNodes(found)}} : TRUE

Answer ==
    /\ job.stage = "snapped" /\ job.request.service # "match"
    /\ \E network \in {NetworkOf(job.request)} :
           job' = [job EXCEPT !.stage = "answered", !.reply = ReplyFor(job.request, network, job.found)]
    /\ UNCHANGED search
=============================================================================
