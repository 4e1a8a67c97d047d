--------------------------- MODULE MultiLevelRouting ---------------------------
(* Queries on the overlay (routing_base_mld, many_to_many_mld): the searches  *)
(* climb to the highest cells that hold none of the ends, take the cliques    *)
(* there, and unpack a clique arc by a search inside its cell one level down. *)
(* f is the filter whose metric is used.  where says what a search may use:   *)
(* free of cells (ends: the nodes of the phantoms), or inside the cell        *)
(* `parent` with the cliques of a fixed level below it (ends = {}).           *)
EXTENDS MultiLevel

CONSTANT Origins          \* nodes of the input from which the properties ask for routes

FreeOf(ends) == [ends |-> ends, level |-> NumberOfLevels, parent |-> 0]
Inside(l, c) == [ends |-> {}, level |-> l, parent |-> c]

\* A slip no specification uses: the highest level at which some end lies in another cell.
HighestLevel(where, n) ==
    IF where.ends = {} THEN where.level
    ELSE Max({GetHighestDifferentLevel(mlp, e, n) : e \in where.ends})

\* getNodeQueryLevel: the lowest level at which the node shares no cell with an end.
QueryLevel(where, n) ==
    Min({where.level} \cup {GetHighestDifferentLevel(mlp, e, n) : e \in where.ends})

\* checkParentCellRestriction
MayEnter(where, l, n) == where.ends # {} \/ GetCell(mlp, l + 1, n) = where.parent

EdgeAlong(e, dir) == IF dir = "forward" THEN e.forward ELSE e.backward

ArcWeights(f, l, n, dir) ==
    {a \in IF dir = "forward" THEN OutWeights(metrics[f], l, n) ELSE InWeights(metrics[f], l, n) :
        a.weight < Invalid /\ a.node # n}

\* An edge weighs what the street it leaves weighs, and the turn.
EdgeWeight(e, n, dir) == NodeWeight(IF dir = "forward" THEN n ELSE e.target) + Penalty(e.id)

BorderTargets(f, l, n, dir) ==
    {e \in BorderEdges(l, n) : EdgeAlong(e, dir) /\ e.target \in Allowed(f)}

RelaxOutgoingEdges(f, where, h, n, dir) ==
    LET Arc(a, r)  == Reach(r, a.node, h.weight[n] + a.weight, n, TRUE)
        Turn(e, r) == Reach(r, e.target, h.weight[n] + EdgeWeight(e, n, dir), n, FALSE)
        Relax(l) == FoldSet(Turn, FoldSet(Arc, h, IF l = 0 \/ h.clique[n] THEN {} ELSE ArcWeights(f, l, n, dir)),
                            {e \in BorderTargets(f, l, n, dir) : MayEnter(where, l, e.target)})
    IN Relax(QueryLevel(where, n))

-----------------------------------------------------------------------------
(* The bidirectional search.                                                  *)

Other(dir) == IF dir = "forward" THEN "reverse" ELSE "forward"

\* A meeting at a node where a loop is forced, or behind the target, does not count.
Meets(s, dir, n, loops, otherLoops) ==
    LET total == s[dir].weight[n] + s[Other(dir)].weight[n]
    IN /\ WasInserted(s[Other(dir)], n) /\ 0 <= total /\ total < s.weight
       /\ ~ForceLoop(loops, s[dir], n) /\ ~ForceLoop(otherLoops, s[dir], n)

\* Node n is settled: `relaxed` is the heap after its edges were relaxed.  The last
\* key of an exhausted heap is kept.
Settled(s, dir, n, relaxed, meets) ==
    [s EXCEPT ![dir] = relaxed,
              !.weight = IF meets THEN s[dir].weight[n] + s[Other(dir)].weight[n] ELSE @,
              !.middle = IF meets THEN n ELSE @,
              !.min[dir] = IF relaxed.queue = {} THEN @ ELSE MinKey(relaxed)]

RoutingStep(f, where, s, dir, loops, otherLoops) ==
    LET Step(n) == Settled(s, dir, n, RelaxOutgoingEdges(f, where, [s[dir] EXCEPT !.queue = @ \ {n}], n, dir),
                          Meets(s, dir, n, loops, otherLoops))
    IN IF s[dir].queue = {} THEN s ELSE Step(MinNode(s[dir]))

\* Both directions in turn until they cannot find a lighter meeting.
SearchHeaps(f, where, fwd, bwd, fwdLoops, bwdLoops) ==
    LET Both(s, i) ==
            IF s.forward.queue \cup s.reverse.queue = {} \/ s.min.forward + s.min.reverse >= s.weight THEN s
            ELSE RoutingStep(f, where, RoutingStep(f, where, s, "forward", fwdLoops, bwdLoops),
                             "reverse", bwdLoops, fwdLoops)
    IN Iterate(Both, [forward |-> fwd, reverse |-> bwd, weight |-> Invalid, middle |-> None,
                      min |-> [forward |-> MinKey(fwd), reverse |-> MinKey(bwd)]], input.size)

\* FindEdge: the first edge between the nodes, whatever its direction.
FindEdge(n, t) ==
    overlay.edges[n][Min({i \in DOMAIN overlay.edges[n] : overlay.edges[n][i].target = t})]

\* From the source to the middle and on to the target: [from, to, clique].
PackedPath(s) ==
    LET up   == Reverse(ParentsUp(s.forward, s.middle))
        down == ParentsUp(s.reverse, s.middle)
    IN [i \in 1..Len(up) - 1 |-> [from |-> up[i], to |-> up[i + 1], clique |-> s.forward.clique[up[i + 1]]]]
       \o [i \in 1..Len(down) - 1 |-> [from |-> down[i], to |-> down[i + 1], clique |-> s.reverse.clique[down[i]]]]

RECURSIVE Search(_, _, _, _, _, _)

\* A clique arc is searched again between its ends, in its cell, one level down.
Unpacked(f, where, arc, fwdLoops, bwdLoops) ==
    LET Below(l) == Search(f, Inside(l - 1, GetCell(mlp, l, arc.from)),
                           InsertNode(MLDHeap, arc.from, 0, arc.from), InsertNode(MLDHeap, arc.to, 0, arc.to),
                           fwdLoops, bwdLoops)
        Interior(found) == [nodes |-> Tail(found.path), edges |-> found.edges]
    IN IF arc.clique THEN Interior(Below(QueryLevel(where, arc.from)))
       ELSE [nodes |-> <<arc.to>>, edges |-> <<FindEdge(arc.from, arc.to).id>>]

NotFound == [weight |-> Invalid, path |-> <<>>, edges |-> <<>>]

\* The route over the unpacked parts of a packed path from `first`.
Joined(weight, first, parts) ==
    [weight |-> weight,
     path |-> <<first>> \o FlattenSeq([i \in DOMAIN parts |-> parts[i].nodes]),
     edges |-> FlattenSeq([i \in DOMAIN parts |-> parts[i].edges])]

Search(f, where, fwd, bwd, fwdLoops, bwdLoops) ==
    LET Parts(packed) == [i \in DOMAIN packed |-> Unpacked(f, where, packed[i], fwdLoops, bwdLoops)]
        Route(s, packed) == Joined(s.weight, IF packed = <<>> THEN s.middle ELSE packed[1].from, Parts(packed))
        Found(s) == IF s.weight >= Invalid \/ s.middle = None THEN NotFound ELSE Route(s, PackedPath(s))
    IN IF fwd.queue = {} \/ bwd.queue = {} THEN NotFound
       ELSE Found(SearchHeaps(f, where, fwd, bwd, fwdLoops, bwdLoops))

DirectShortestPath(f, sources, targets) ==
    Search(f, FreeOf(EndNodes(sources) \cup EndNodes(targets)),
           InsertEnds(MLDHeap, Ends(sources), -1), InsertEnds(MLDHeap, Ends(targets), 1), {}, {})

\* The search of routes over waypoints is free of cells.
SearchFree(f, fwd, bwd, fwdLoops, bwdLoops, ends) == Search(f, FreeOf(ends), fwd, bwd, fwdLoops, bwdLoops)

-----------------------------------------------------------------------------
(* Routes over several waypoints (shortest_path_impl.hpp).                    *)

NoRoute == [weight |-> Invalid, legs |-> <<>>]

\* One leg, from the weight of the route so far, into either direction of the target.
LegWithUTurn(f, sources, targets, weight) ==
    LET from == {[e EXCEPT !.offset = @ - weight] : e \in Ends(sources)}
    IN SearchFree(f, InsertEnds(MLDHeap, from, -1), InsertEnds(MLDHeap, Ends(targets), 1),
              LoopNodes(sources, targets, "forward"), LoopNodes(sources, targets, "reverse"),
              EndNodes(sources) \cup EndNodes(targets))

\* Turning round is allowed: every leg is searched for itself.
RouteWithUTurns(f, waypoints) ==
    LET Leg(route, i) ==
            LET found == LegWithUTurn(f, waypoints[i], waypoints[i + 1], route.weight)
            IN IF route.weight = Invalid \/ found.weight = Invalid THEN NoRoute
               ELSE [weight |-> found.weight, legs |-> Append(route.legs, found.path)]
    IN Iterate(Leg, [weight |-> 0, legs |-> <<>>], Len(waypoints) - 1)

-----------------------------------------------------------------------------
(* Going straight on: a route is kept to each direction of each candidate.    *)
(* last[i][d] is the best route so far that arrives at candidate i in         *)
(* direction d: [weight, nodes, legs].                                        *)

Unreached == [weight |-> Invalid, nodes |-> 0, legs |-> <<>>]

\* A slip no specification uses: a leg may start in either direction, however the waypoint was reached.
AnyStart(sources, last) ==
    FoldSet(LAMBDA s, h : InsertNode(h, s.node, s.weight, s.node), MLDHeap,
            {[node |-> sources[s.at][s.d].node,
              weight |-> Min({last[s.at][d].weight : d \in DOMAIN sources[s.at]}) - sources[s.at][s.d].offset] :
                s \in UNION {{[at |-> i, d |-> d] : d \in DOMAIN sources[i]} : i \in DOMAIN sources}})

\* Only where the route so far arrives, with its weight.
ReachedStarts(sources, last) ==
    LET starts == UNION {{[at |-> i, d |-> d] : d \in {e \in DOMAIN sources[i] : last[i][e].weight < Invalid}} :
                         i \in DOMAIN sources}
    IN FoldSet(LAMBDA s, h : LET e == sources[s.at][s.d]
                             IN InsertNode(h, e.node, last[s.at][s.d].weight - e.offset, e.node),
               MLDHeap, starts)

\* The leg to one direction d of one target.
DirectedLeg(f, sources, last, target, d) ==
    IF d \notin DOMAIN target THEN [weight |-> Invalid, path |-> <<>>]
    ELSE SearchFree(f, ReachedStarts(sources, last), InsertEnds(MLDHeap, {target[d]}, 1),
                IF d = "forward" THEN LoopNodes(sources, <<target>>, d) ELSE {},
                IF d = "reverse" THEN LoopNodes(sources, <<target>>, d) ELSE {},
                EndNodes(sources) \cup EndNodes(<<target>>))

\* getLegConnections: the candidates and directions at which a leg may begin.
LegConnections(sources, found) ==
    IF found.weight = Invalid THEN {}
    ELSE {s \in {<<i, e>> \in (DOMAIN sources) \X {"forward", "reverse"} : e \in DOMAIN sources[i]} :
             sources[s[1]][s[2]].node = Head(found.path)}

\* addSearchResult: the leg goes on from the route that ends where it begins.
AddSearchResult(last, found, connections) ==
    IF connections = {} THEN Unreached
    ELSE LET s == CHOOSE b \in connections : TRUE
             before == last[s[1]][s[2]]
         IN [weight |-> found.weight, nodes |-> before.nodes + Len(found.path),
             legs |-> Append(before.legs, found.path)]

LegTo(f, sources, last, target, d) ==
    LET found == DirectedLeg(f, sources, last, target, d)
    IN AddSearchResult(last, found, LegConnections(sources, found))

\* getMinRoute: the lightest, then the one of fewer nodes; forward only if strictly better.
BestRoute(last) ==
    LET Less(a, b) == a.weight < b.weight \/ (a.weight = b.weight /\ a.nodes < b.nodes)
        Best(d) == LET S == {last[i][d] : i \in DOMAIN last}
                   IN CHOOSE r \in S : \A o \in S : ~Less(o, r)
    IN IF Less(Best("forward"), Best("reverse")) THEN Best("forward") ELSE Best("reverse")

RouteStraightOn(f, waypoints) ==
    LET first == [i \in DOMAIN waypoints[1] |-> [d \in {"forward", "reverse"} |->
                     [weight |-> IF d \in DOMAIN waypoints[1][i] THEN 0 ELSE Invalid,
                      nodes |-> 0, legs |-> <<>>]]]
        Reached(last) == \E i \in DOMAIN last : \E d \in DOMAIN last[i] : last[i][d].weight < Invalid
        Extend(last, k) ==
            IF ~Reached(last) THEN last
            ELSE [i \in DOMAIN waypoints[k + 1] |-> [d \in {"forward", "reverse"} |->
                     LegTo(f, waypoints[k], last, waypoints[k + 1][i], d)]]
        last == Iterate(Extend, first, Len(waypoints) - 1)
    IN IF ~Reached(last) THEN NoRoute
       ELSE [weight |-> BestRoute(last).weight, legs |-> BestRoute(last).legs]

ShortestPath(f, waypoints, straightOn) ==
    IF straightOn THEN RouteStraightOn(f, waypoints) ELSE RouteWithUTurns(f, waypoints)

-----------------------------------------------------------------------------
(* Tables.  sources and targets are lists of waypoints; in the reverse        *)
(* direction they change roles and signs.                                     *)

Sign(dir) == IF dir = "forward" THEN -1 ELSE 1

\* Lighter, or as light from a smaller node.
ReachTie(h, to, w, parent, clique) ==
    IF w < h.weight[to] \/ (w = h.weight[to] /\ parent < h.parent[to])
    THEN [InsertNode(h, to, w, parent) EXCEPT !.clique[to] = clique] ELSE h

RelaxBorderEdges(f, l, h, n, w, dir) ==
    FoldSet(LAMBDA e, r : ReachTie(r, e.target, w + EdgeWeight(e, n, dir), n, FALSE),
            h, BorderTargets(f, l, n, dir))

RelaxTable(f, l, h, n, dir) ==
    LET arcs == IF l = 0 \/ h.clique[n] THEN {} ELSE ArcWeights(f, l, n, dir)
        cliques == FoldSet(LAMBDA a, r : ReachTie(r, a.node, h.weight[n] + a.weight, n, TRUE), h, arcs)
    IN RelaxBorderEdges(f, l, cliques, n, h.weight[n], dir)

\* A slip no specification uses: a target is struck off whether or not it lies behind the source.
StrikeOffFirst(s, n, w) ==
    LET hits == {t \in s.open : t.node = n}
        Best(i) == Min({s.table[i]} \cup {w + t.offset : t \in {u \in hits : u.index = i /\ w + u.offset >= 0}})
    IN [s EXCEPT !.table = Computed([i \in DOMAIN @ |-> Best(i)]), !.open = @ \ hits]

\* update_values: a target is struck off when it is reached from before it.
UpdateValues(s, n, w) ==
    LET hits == {t \in s.open : t.node = n /\ w + t.offset >= 0}
        Best(i) == Min({s.table[i]} \cup {w + t.offset : t \in {u \in hits : u.index = i}})
    IN [s EXCEPT !.table = Computed([i \in DOMAIN @ |-> Best(i)]), !.open = @ \ hits]

\* insert_node: a source on the street of a target is relaxed at once and not inserted,
\* so that the street can be reached again.  A second insertion leaves both entries in
\* the heap, of which the lighter one decides.
InsertSource(f, s, e, dir) ==
    IF \E t \in s.open : t.node = e.node
    THEN [UpdateValues(s, e.node, e.weight) EXCEPT
             !.heap = RelaxBorderEdges(f, 0, @, e.node, e.weight, dir)]
    ELSE IF e.weight < s.heap.weight[e.node]
    THEN [s EXCEPT !.heap = [InsertNode(@, e.node, e.weight, e.node) EXCEPT !.clique[e.node] = FALSE]]
    ELSE s

\* One source, every target; the level of a node is free of all of them.
OneToMany(f, source, targets, dir) ==
    LET open == UNION {{[index |-> i, node |-> e.node, offset |-> -Sign(dir) * e.offset] : e \in Ends(targets[i])} :
                       i \in DOMAIN targets}
        where == FreeOf(EndNodes(source) \cup {t.node : t \in open})
        first == FoldSet(LAMBDA e, s : InsertSource(f, s, [node |-> e.node, weight |-> Sign(dir) * e.offset], dir),
                         [heap |-> MLDHeap, open |-> open, table |-> [i \in DOMAIN targets |-> Invalid]],
                         Ends(source))
        Settle(s, i) ==
            LET n == MinNode(s.heap)
                reached == UpdateValues(s, n, s.heap.weight[n])
            IN IF s.heap.queue = {} \/ s.open = {} THEN s
               ELSE [reached EXCEPT !.heap = RelaxTable(f, QueryLevel(where, n), [@ EXCEPT !.queue = @ \ {n}], n, dir)]
    IN Iterate(Settle, first, input.size).table

\* A whole search space from one waypoint; towards the targets it ends below the top level.
Explore(f, waypoint, dir, sign, capped) ==
    LET where == FreeOf(EndNodes(waypoint))
        Settle(h, i) ==
            LET n == MinNode(h)
                l == QueryLevel(where, n)
                popped == [h EXCEPT !.queue = @ \ {n}]
            IN IF h.queue = {} THEN h
               ELSE IF capped /\ l >= Len(MaxCellSizes) THEN popped
               ELSE RelaxTable(f, l, popped, n, dir)
    IN Iterate(Settle, InsertEnds(MLDHeap, Ends(waypoint), sign), input.size)

\* A search space against a bucket: the lightest meeting that is not behind the target.
ReadBucket(h, b) ==
    Min({Invalid} \cup
        {w \in {h.weight[n] + b.weight[n] : n \in {m \in EdgeNodes : WasInserted(h, m) /\ WasInserted(b, m)}} : w >= 0})

\* Buckets from the targets, then one search per source.
ManyToMany(f, sources, targets, dir) ==
    LET buckets == [j \in DOMAIN targets |->
                       Explore(f, targets[j], IF dir = "forward" THEN "reverse" ELSE "forward", -Sign(dir), TRUE)]
    IN [i \in DOMAIN sources |->
           LET h == Explore(f, sources[i], dir, Sign(dir), FALSE)
           IN [j \in DOMAIN targets |-> ReadBucket(h, buckets[j])]]

Transposed(t, m, n) == [i \in 1..m |-> [j \in 1..n |-> t[j][i]]]

\* The dispatcher: the search that explores least.
Table(f, sources, targets) ==
    IF Len(sources) = 1 THEN <<OneToMany(f, sources[1], targets, "forward")>>
    ELSE IF Len(targets) = 1
    THEN LET column == OneToMany(f, targets[1], sources, "reverse") IN [i \in DOMAIN sources |-> <<column[i]>>]
    ELSE IF Len(targets) < Len(sources)
    THEN Transposed(ManyToMany(f, targets, sources, "reverse"), Len(sources), Len(targets))
    ELSE ManyToMany(f, sources, targets, "forward")

-----------------------------------------------------------------------------
(* Reference: shortest walks of at least one turn through the allowed streets.*)

\* The turns that a filter allows, by the new numbers.
TurnsOf(f) == {[u EXCEPT !.source = permutation[@], !.target = permutation[@]] :
                  u \in {v \in input.turns : {v.source, v.target} \subseteq Filters[f]}}

Distances(f) ==
    LET turns == TurnsOf(f)
        Direct(s, t) == Min({Invalid} \cup {u.weight : u \in {v \in turns : v.source = s /\ v.target = t}})
        Via(d, i) == Computed([s, t \in EdgeNodes |-> Min({d[s, t], d[s, i - 1] + d[i - 1, t]})])
    IN Iterate(Via, Computed([s, t \in EdgeNodes |-> Direct(s, t)]), input.size)

\* From an end of one phantom to an end of another.
Leg(ref, s, t) ==
    IF s.node = t.node /\ s.offset <= t.offset THEN t.offset - s.offset
    ELSE IF ref[s.node, t.node] >= Invalid THEN Invalid
    ELSE ref[s.node, t.node] + t.offset - s.offset

Shortest(ref, sources, targets) ==
    Min({Leg(ref, s, t) : s \in Ends(sources), t \in Ends(targets)} \cup {Invalid})

-----------------------------------------------------------------------------
(* Properties.                                                                *)

Crossing(nodes, side) == Cardinality({x \in side \X (nodes \ side) : x[2] \in AdjacentTo(x[1])})

\* A cut of Dinic's algorithm separates the ends of the sweep, and no cut that does
\* crosses fewer streets.
CutsMinimal ==
    \A view \in forest, r \in 0..Cuts - 1 : \A o \in SpatialOrders(view.nodes, r) :
        LET cut == MinCut(view.nodes, o.sources, o.sinks)
        IN /\ o.sources \subseteq cut.side /\ cut.side \cap o.sinks = {}
           /\ cut.edges = Crossing(view.nodes, cut.side)
           /\ \A S \in SUBSET (view.nodes \ (o.sources \cup o.sinks)) :
                 cut.edges <= Crossing(view.nodes, S \cup o.sources)

From(f) == {permutation[n] : n \in Origins \cap Filters[f]}

OneWay(n, w) == [forward |-> [node |-> n, offset |-> w]]
Streets2 == {s \in input.streets : s.backward # None}
\* Both directions of a street.
Both(s, w) == [forward |-> [node |-> permutation[s.forward], offset |-> w],
               reverse |-> [node |-> permutation[s.backward], offset |-> 1]]

\* A route weighs what a shortest one does, round trips included, and unpacks into
\* turns that lead from its source to its target and add up to it.
RoutesShortest ==
    stage = "done" =>
    \A f \in DOMAIN Filters :
        LET ref == Distances(f)
            turns == TurnsOf(f)
        IN
        \A n \in From(f), m \in Allowed(f), w \in {0, 1} :
            LET s == [node |-> n, offset |-> w]
                t == [node |-> m, offset |-> 0]
                Taken(found, k) == {u \in turns : <<u.id, u.source, u.target>> =
                                         <<found.edges[k], found.path[k], found.path[k + 1]>>}
            IN \A found \in {DirectShortestPath(f, <<[forward |-> s]>>, <<[reverse |-> t]>>)} :
               /\ found.weight = Leg(ref, s, t)
               /\ found.weight < Invalid =>
                     /\ Head(found.path) = n /\ Last(found.path) = m
                     /\ \A k \in DOMAIN found.edges : Taken(found, k) # {}
                     /\ found.weight = FoldLeft(LAMBDA sum, k : sum + (CHOOSE u \in Taken(found, k) : TRUE).weight,
                                                -w, [k \in DOMAIN found.edges |-> k])

\* Every way the table is computed gives the weights of the shortest routes.
TablesAgree ==
    stage = "done" =>
    \A f \in DOMAIN Filters :
        LET ref == Distances(f)
            open == {s \in Streets2 : {permutation[s.forward], permutation[s.backward]} \subseteq Allowed(f)}
        IN \A a \in open : \A b \in open \ {a} : \A c \in From(f) :
            LET S == <<<<Both(a, 2)>>, <<Both(b, 1)>>, <<OneWay(c, 1)>>>>
                T == <<<<Both(a, 1)>>, <<OneWay(c, 0)>>>>
                Agrees(table, from, to) == \A i \in DOMAIN from, j \in DOMAIN to :
                                              table[i][j] = Shortest(ref, from[i], to[j])
                Check(from, to) == Agrees(Table(f, from, to), from, to)
            IN Check(<<S[1]>>, T) /\ Check(S, <<T[1]>>) /\ Check(S, T) /\ Check(T, S)

\* A route over waypoints is the shortest of its kind: leg by leg if it may turn round
\* at a waypoint, and else among those that go on in the direction they came.
WaypointsOptimal ==
    stage = "done" =>
    \A f \in DOMAIN Filters :
        LET ref == Distances(f)
            open == {s \in Streets2 : {permutation[s.forward], permutation[s.backward]} \subseteq Allowed(f)}
        IN \A a \in {s \in open : s.forward \in Origins}, b, c \in open :
            LET W == <<<<Both(a, 2)>>, <<Both(b, 1)>>, <<Both(c, 0)>>>>
                first == Shortest(ref, W[1], W[2])
                Through(v) == Shortest(ref, W[1], <<[forward |-> v]>>) + Shortest(ref, <<[forward |-> v]>>, W[3])
            IN /\ ShortestPath(f, W, FALSE).weight = Min({Invalid, first + Shortest(ref, W[2], W[3])})
               /\ ShortestPath(f, W, TRUE).weight = Min({Invalid} \cup {Through(v) : v \in Ends(W[2])})
=============================================================================
