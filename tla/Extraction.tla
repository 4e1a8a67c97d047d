------------------------------ MODULE Extraction ------------------------------
(* osrm-extract from a map to the edge-based graph (extractor.cpp,            *)
(* edge_based_graph_factory.cpp): the node-based graph is compressed node by  *)
(* node, the restrictions become a graph, every driven edge becomes a node,   *)
(* once more for every via node of the restriction graph, and intersection by *)
(* intersection every allowed turn becomes an edge.                           *)
(* Roundabouts, u-turn lanes and maneuver overrides are left out; the profile *)
(* gives turns the penalty of a signal and of a u-turn.                       *)
EXTENDS NodeBasedGraph, RestrictionGraph, Components

CONSTANTS Maps,                \* the maps to extract
          UTurnPenalty,        \* weight that the profile gives a u-turn
          SmallComponentSize

VARIABLES map, phase, next, g, geometries, rg, ebg
vars == <<map, phase, next, g, geometries, rg, ebg>>

-----------------------------------------------------------------------------
(* Edge-based nodes.                                                          *)

\* LabelEdgeBasedNodes: the driven edges get the numbers from 0.
LabelEdgeBasedNodes(h) ==
    LET driven == {id \in DOMAIN h.edges : ~h.edges[id].reversed}
        Before(a, b) == a[1] < b[1] \/ (a[1] = b[1] /\ a[2] < b[2])
    IN Computed([id \in driven |-> Cardinality({o \in driven : Before(o, id)})])

\* The segments of an edge by their places in its geometry; penalties are none.
SegmentsOf(h, id, forward, reverse) ==
    LET bucket == h.buckets[id]
        Source(i) == IF i = 1 THEN id[1] ELSE bucket[i - 1].node
    IN {[forward |-> forward, reverse |-> reverse, u |-> Source(i), v |-> bucket[i].node, at |-> i] :
            i \in {k \in DOMAIN bucket : bucket[k].node # Source(k)}}

\* InsertEdgeBasedNode: both directions share the segments; a street with one is marked.
InsertEdgeBasedNode(h, ebn, pair) ==
    LET there == FindEdge(h, pair[1], pair[2])
        back == FindEdge(h, pair[2], pair[1])
        two_way == back \in DOMAIN ebn
    IN [segments |-> SegmentsOf(h, there, ebn[there], IF two_way THEN ebn[back] ELSE Special),
        one_way |-> IF two_way THEN {} ELSE {ebn[there]}]

\* GenerateEdgeExpandedNodes: the streets along their driven direction, and then a copy
\* of an edge for every via node on it, with segments of its own.
GenerateEdgeExpandedNodes(h, ebn, r, labelled) ==
    LET inserted == {InsertEdgeBasedNode(h, ebn, pair) : pair \in DOMAIN geometries}
        one_way == UNION {i.one_way : i \in inserted}
        EdgeOf(n) == CHOOSE id \in labelled : ebn[id] = n
        ViaEdge(n) == LET edge == (CHOOSE v \in r.via : v[2] = n)[1] IN FindEdge(h, edge[1], edge[2])
        Entry(id, copy) == [edge |-> id, weight |-> h.edges[id].weight, one_way |-> ebn[id] \in one_way, copy |-> copy]
        first == Cardinality(labelled)
    IN [count |-> first + r.vias, first |-> first, ebn |-> ebn,
        nodes |-> Computed([n \in 0..first + r.vias - 1 |->
                      IF n < first THEN Entry(EdgeOf(n), FALSE) ELSE Entry(ViaEdge(n - first), TRUE)]),
        segments |-> UNION {i.segments : i \in inserted}
                     \cup UNION {SegmentsOf(h, ViaEdge(d), first + d, Special) : d \in 0..r.vias - 1},
        edges |-> <<>>, delayed |-> <<>>, conditionals |-> {}, components |-> <<>>]

-----------------------------------------------------------------------------
(* Turns at an intersection n, from the edge `from` to the edge `to`.         *)

getIncomingEdges(h, n) ==
    {id \in {FindEdge(h, h.edges[o].target, n) : o \in Adjacent(h, n)} : ~h.edges[id].reversed}

isTurnRestricted(restrictions, to) == \E r \in restrictions : Restricts(r, to)

isTurnAllowed(h, r, n, from, to) ==
    LET adjacent == Adjacent(h, n)
        restrictions == NodeRestrictions(r, from[1], n, FALSE)
        destination == h.edges[to].target
        exits == {id \in adjacent : ~h.edges[id].reversed /\ ~isTurnRestricted(restrictions, h.edges[id].target)}
        is_barrier_node == n \in h.barriers
    IN /\ ~h.edges[to].reversed
       /\ ~isTurnRestricted(restrictions, destination)
       /\ IF from[1] = destination
          THEN \/ is_barrier_node
               \/ Cardinality(adjacent) = 1
               \/ Cardinality(exits) = 1
               \/ Cardinality(getIncomingEdges(h, n)) <= 1
          ELSE ~is_barrier_node

\* The penalty that the profile gives a turn.
ProcessTurn(h, n, from, to) ==
    (IF HasSignal(h.signals, from[1], n) THEN SignalPenalty ELSE 0)
    + (IF from[1] = h.edges[to].target THEN UTurnPenalty ELSE 0)

\* generate_edge: the turn is known outside by the nodes next to its own.
Turn(h, source, target, n, from, to) ==
    LET bucket == h.buckets[from]
        trivial == Len(bucket) = 1
        penalty == ProcessTurn(h, n, from, to)
    IN [source |-> source, target |-> target, weight |-> h.edges[from].weight + penalty, penalty |-> penalty,
        index |-> <<IF trivial THEN from[1] ELSE bucket[Len(bucket) - 1].node, n, h.buckets[to][1].node>>]

\* The turn from the node of the edge: to the copy of the target if a path begins so.
NormalTurn(h, r, e, n, from, to) ==
    LET destination == h.edges[to].target
        target == RemapIfRestrictionStart(r, e.ebn[to], from[1], n, destination, e.first)
        conditional == {c \in NodeRestrictions(r, from[1], n, TRUE) : Restricts(c, destination)}
    IN [turn |-> Turn(h, e.ebn[from], target, n, from, to), conditional |-> conditional # {}]

\* The turns from the copies of the edge, unless a path that ends here forbids them.
CopiedTurns(h, r, e, n, from, to) ==
    LET destination == h.edges[to].target
        Forbidding(d) == WayRestrictions(r, d, destination)
        open == {d \in Duplicates(r, from[1], n) : \A c \in Forbidding(d) : c.conditional}
        Target(d) == RemapIfRestrictionVia(r, e.ebn[to], d, destination, e.first)
    IN [i \in 1..Cardinality(open) |->
           LET d == CHOOSE c \in open : Cardinality({o \in open : o < c}) = i - 1
           IN [turn |-> Turn(h, e.first + d, Target(d), n, from, to), conditional |-> Forbidding(d) # {}]]

AddTurn(h, r, n, e, pair) ==
    LET Pairs(turns) == {<<t.turn.source, t.turn.target>> : t \in {x \in turns : x.conditional}}
        Added(normal, copied) ==
            [e EXCEPT !.edges = Append(@, normal.turn),
                      !.delayed = @ \o [i \in DOMAIN copied |-> copied[i].turn],
                      !.conditionals = @ \cup Pairs({normal} \cup ToSet(copied))]
    IN IF ~isTurnAllowed(h, r, n, pair[1], pair[2]) THEN e
       ELSE Added(NormalTurn(h, r, e, n, pair[1], pair[2]), CopiedTurns(h, r, e, n, pair[1], pair[2]))

\* The processor stage, for one intersection.
ExpandIntersection(h, r, n, e) ==
    LET Lower(a, b) == a[1] < b[1] \/ (a[1] = b[1] /\ a[2] < b[2])
        incoming == SetToSortSeq(getIncomingEdges(h, n), Lower)
        outgoing == SetToSortSeq(Adjacent(h, n), Lower)
        m == Len(outgoing)
        Pair(i) == <<incoming[((i - 1) \div m) + 1], outgoing[((i - 1) % m) + 1]>>
    IN IterateOver(LAMBDA x, p : AddTurn(h, r, n, x, p), e, [i \in 1..Len(incoming) * m |-> Pair(i)])

-----------------------------------------------------------------------------
(* Behind the pipeline: the delayed turns, the conditional ones by their      *)
(* place, and the components.                                                 *)

IndexConditionals(edges, conditionals) ==
    {i \in DOMAIN edges : <<edges[i].source, edges[i].target>> \in conditionals}

\* FindComponents: both directions of a street are one component.
FindComponents(e, edges) ==
    LET turns == {<<t.source, t.target>> : t \in ToSet(edges)}
        streets == {s \in e.segments : s.reverse # Special}
        joined == turns \cup {<<s.forward, s.reverse>> : s \in streets} \cup {<<s.reverse, s.forward>> : s \in streets}
        Targets2(n) == SetToSortSeq({p[2] : p \in {q \in joined : q[1] = n}}, LAMBDA a, b : a < b)
        Marked(scc) ==
            [n \in 0..e.count - 1 |->
                [id |-> 1 + GetComponentID(scc, n),
                 is_tiny |-> GetComponentSize(scc, GetComponentID(scc, n)) < SmallComponentSize]]
        Searched(targets) == Marked(Tarjan(e.count, targets))
    IN Computed(Searched(Computed([n \in 0..e.count - 1 |-> Targets2(n)])))

-----------------------------------------------------------------------------
(* Extractor::run.                                                            *)

Init ==
    /\ map \in Maps
    /\ phase = "parse" /\ next = 0
    /\ g = <<>> /\ geometries = <<>> /\ rg = <<>> /\ ebg = <<>>

\* ParseOSMData and the load of the node-based graph.
LoadGraph ==
    /\ phase = "parse"
    /\ g' = LoadedGraph(Prepared(map))
    /\ phase' = "compress"
    /\ UNCHANGED <<map, next, geometries, rg, ebg>>

\* GraphCompressor::Compress, one node.
Compress ==
    /\ phase = "compress" /\ next < g.count
    /\ g' = CompressNode(g, next, Incompressible(g))
    /\ next' = next + 1
    /\ UNCHANGED <<map, phase, geometries, rg, ebg>>

\* The geometries, and the restrictions that are left.
CompressGeometry ==
    /\ phase = "compress" /\ next = g.count
    /\ \E full \in {[g EXCEPT !.buckets = AllBuckets(g), !.restrictions = ValidTurnPaths(g)]} :
          /\ g' = full
          /\ geometries' = Zipped(full)
    /\ phase' = "restrict"
    /\ UNCHANGED <<map, next, rg, ebg>>

BuildRestrictionGraph ==
    /\ phase = "restrict"
    /\ rg' = constructRestrictionGraph(g.restrictions)
    /\ phase' = "label"
    /\ UNCHANGED <<map, next, g, geometries, ebg>>

GenerateNodes ==
    /\ phase = "label"
    /\ \E ebn \in {LabelEdgeBasedNodes(g)} : ebg' = GenerateEdgeExpandedNodes(g, ebn, rg, DOMAIN ebn)
    /\ phase' = "expand" /\ next' = 0
    /\ UNCHANGED <<map, g, geometries, rg>>

GenerateEdges ==
    /\ phase = "expand" /\ next < g.count
    /\ ebg' = ExpandIntersection(g, rg, next, ebg)
    /\ next' = next + 1
    /\ UNCHANGED <<map, phase, g, geometries, rg>>

Finish ==
    /\ phase = "expand" /\ next = g.count
    /\ \E edges \in {ebg.edges \o ebg.delayed} :
          ebg' = [ebg EXCEPT !.edges = edges, !.delayed = <<>>,
                             !.conditionals = IndexConditionals(edges, @),
                             !.components = FindComponents(ebg, edges)]
    /\ phase' = "done"
    /\ UNCHANGED <<map, next, g, geometries, rg>>

Next == LoadGraph \/ Compress \/ CompressGeometry \/ BuildRestrictionGraph \/ GenerateNodes \/ GenerateEdges \/ Finish
Spec == Init /\ [][Next]_vars
=============================================================================
