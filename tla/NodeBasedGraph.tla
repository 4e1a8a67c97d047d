---------------------------- MODULE NodeBasedGraph ----------------------------
(* The node-based graph and its compression: a node between two edges that    *)
(* could be one is taken out, and what refers to it (geometries, turn paths,  *)
(* signals) is moved to what remains.                                         *)
(* A graph g has the directed edges by id, <<from, original target>>, each    *)
(* [target, reversed, weight, flags, name]; the buckets of the edges: the     *)
(* nodes [node, weight] they pass; restrictions, signals and barriers.        *)
EXTENDS ExtractionContainers

CONSTANTS SignalPenalty,       \* weight that the profile gives a turn at a signal
          MaxSegmentWeight     \* MAX_SEGMENT_WEIGHT

NoPenalty == -1                \* INVALID_EDGE_WEIGHT

\* directedEdgesFromCompressed: without an edge of its own the other direction gets
\* one too, reversed if it must not be driven.
Directed(e) ==
    LET Data(target, reversed) == [target |-> target, reversed |-> reversed, weight |-> e.weight, name |-> e.name,
                                   flags |-> <<e.forward, e.backward, e.split>>]
    IN <<e.source, e.target>> :> Data(e.target, FALSE)
       @@ IF e.split THEN <<>> ELSE <<e.target, e.source>> :> Data(e.source, ~e.backward)

LoadedGraph(data) ==
    [count |-> data.count, edges |-> FoldSet(LAMBDA e, edges : edges @@ Directed(e), <<>>, data.edges),
     buckets |-> <<>>, restrictions |-> data.restrictions, signals |-> data.signals,
     barriers |-> data.barriers]

Adjacent(g, n) == {id \in DOMAIN g.edges : id[1] = n}
HasEdge(g, n, m) == \E id \in Adjacent(g, n) : g.edges[id].target = m
FindEdge(g, n, m) == CHOOSE id \in Adjacent(g, n) : g.edges[id].target = m
HasSignal(signals, from, to) == to \in signals.bidirectional \/ <<from, to>> \in signals.unidirectional

-----------------------------------------------------------------------------
(* CompressedEdgeContainer.                                                   *)

Clip(weight) == Min({weight, MaxSegmentWeight})
Node(n, weight) == [node |-> n, weight |-> Clip(weight)]

\* Edge e2 behind e1: via is the node between them, a penalty there an entry of its own.
CompressEdge(buckets, e1, e2, via, target, weight1, weight2, penalty) ==
    LET first == IF e1 \in DOMAIN buckets THEN buckets[e1] ELSE <<Node(via, weight1)>>
        between == IF penalty = NoPenalty THEN <<>> ELSE <<Node(via, penalty)>>
        second == IF e2 \in DOMAIN buckets THEN buckets[e2] ELSE <<Node(target, weight2)>>
    IN [id \in (DOMAIN buckets \cup {e1}) \ {e2} |-> IF id = e1 THEN first \o between \o second ELSE buckets[id]]

\* AddUncompressedEdge, for every edge that was never compressed.
AllBuckets(g) ==
    [id \in DOMAIN g.edges |->
        IF id \in DOMAIN g.buckets THEN g.buckets[id] ELSE <<Node(g.edges[id].target, g.edges[id].weight)>>]

\* ZipEdges: one list for both directions; the weights stand at the node a segment
\* leads to, None where there is none.
ZipEdges(forward, reverse) ==
    LET n == Len(forward)
        Entry(node, f, r) == [node |-> node, forward |-> f, reverse |-> r]
    IN <<Entry(Last(reverse).node, NoPenalty, Last(reverse).weight)>>
       \o [i \in 1..n - 1 |-> Entry(forward[i].node, forward[i].weight, reverse[n - i].weight)]
       \o <<Entry(forward[n].node, forward[n].weight, NoPenalty)>>

\* CompressGeometry: one zipped list for every pair of nodes, along the edge that is driven.
Zipped(g) ==
    LET Along(u, v) == IF g.edges[FindEdge(g, u, v)].reversed THEN <<v, u>> ELSE <<u, v>>
        pairs == {Along(id[1], g.edges[id].target) : id \in {x \in DOMAIN g.edges : x[1] < g.edges[x].target}}
    IN [p \in pairs |-> ZipEdges(g.buckets[FindEdge(g, p[1], p[2])], g.buckets[FindEdge(g, p[2], p[1])])]

-----------------------------------------------------------------------------
(* What refers to a node via that is taken out between from and to.           *)

\* TurnPathCompressor: a path that begins or ends at the node does so at the one
\* behind it; nodes on its way vanish.
CompressTurnPath(path, from, via, to) ==
    [path EXCEPT !.from = IF @ # via THEN @ ELSE IF path.via[1] = to THEN from ELSE to,
                 !.to = IF @ # via THEN @ ELSE IF Last(path.via) = from THEN to ELSE from,
                 !.via = SelectSeq(@, LAMBDA n : n # via)]

\* TrafficSignals::Compress: segments that lead away from the node begin behind it.
CompressSignals(signals, from, via, to) ==
    LET Moved(s) == IF s = <<via, to>> THEN <<from, to>> ELSE IF s = <<via, from>> THEN <<to, from>> ELSE s
    IN [bidirectional |-> signals.bidirectional \ {via},
        unidirectional |-> {Moved(s) : s \in signals.unidirectional}]

-----------------------------------------------------------------------------
(* GraphCompressor.                                                           *)

\* Nodes at which a restriction is obeyed stay.
Incompressible(g) ==
    g.barriers \cup UNION {{Head(r.via), Last(r.via)} : r \in ToSet(g.restrictions)}

\* The edge out of v that is driven; the first if both are.
ForwardEdge(g, v) ==
    LET first == CHOOSE id \in Adjacent(g, v) : \A o \in Adjacent(g, v) : id[2] <= o[2]
        second == CHOOSE id \in Adjacent(g, v) : id # first
    IN IF g.edges[first].reversed THEN second ELSE first

\* u -> v -> w and back, by the edges e1, e2 and r1, r2.
Around(g, v) ==
    LET e2 == ForwardEdge(g, v)
        r2 == CHOOSE id \in Adjacent(g, v) : id # e2
    IN [u |-> g.edges[r2].target, v |-> v, w |-> g.edges[e2].target, e2 |-> e2, r2 |-> r2,
        e1 |-> FindEdge(g, g.edges[r2].target, v), r1 |-> FindEdge(g, g.edges[e2].target, v)]

Combine(a, b) == a.flags = b.flags /\ a.reversed = b.reversed /\ a.name = b.name

\* The edges on both sides are alike, and none joins the ends.
Compressible(g, at) ==
    /\ ~HasEdge(g, at.u, at.w) /\ ~HasEdge(g, at.w, at.u)
    /\ g.edges[at.e1].name = g.edges[at.r1].name /\ g.edges[at.e2].name = g.edges[at.r2].name
    /\ Combine(g.edges[at.e1], g.edges[at.e2]) /\ Combine(g.edges[at.r1], g.edges[at.r2])

\* A slip no specification uses: a penalty is recorded for the direction that has the signal alone.
OneSidedPenalties(g, at) ==
    LET Own(from) == IF HasSignal(g.signals, from, at.v) THEN SignalPenalty ELSE NoPenalty
    IN [forward |-> Own(at.u), reverse |-> Own(at.w)]

\* The penalty of each direction; if the other direction alone has one it is zero, so
\* that both geometries have the same length.
Penalties(g, at) ==
    LET signals == {from \in {at.u, at.w} : HasSignal(g.signals, from, at.v)}
        Own(from) == IF from \in signals THEN SignalPenalty ELSE IF signals = {} THEN NoPenalty ELSE 0
    IN [forward |-> Own(at.u), reverse |-> Own(at.w)]

\* The second edge and the penalty are added to the first, which then leads to the target.
Extended(g, e1, e2, target, penalty) ==
    [g.edges[e1] EXCEPT !.target = target, !.weight = @ + g.edges[e2].weight + Max({0, penalty})]

TakeOut(g, at, penalty) ==
    [g EXCEPT
        !.edges = [id \in DOMAIN @ \ {at.e2, at.r2} |->
                      IF id = at.e1 THEN Extended(g, at.e1, at.e2, at.w, penalty.forward)
                      ELSE IF id = at.r1 THEN Extended(g, at.r1, at.r2, at.u, penalty.reverse) ELSE @[id]],
        !.restrictions = [i \in DOMAIN @ |-> CompressTurnPath(@[i], at.u, at.v, at.w)],
        !.signals = CompressSignals(@, at.u, at.v, at.w),
        !.buckets = CompressEdge(
                        CompressEdge(@, at.e1, at.e2, at.v, at.w, g.edges[at.e1].weight, g.edges[at.e2].weight,
                                     penalty.forward),
                        at.r1, at.r2, at.v, at.u, g.edges[at.r1].weight, g.edges[at.r2].weight, penalty.reverse)]

\* One turn of the loop over the nodes; kept are the nodes that must stay.
CompressNode(g, v, kept) ==
    IF Cardinality(Adjacent(g, v)) # 2 \/ v \in kept THEN g
    ELSE LET Taken(at) == IF Compressible(g, at) THEN TakeOut(g, at, Penalties(g, at)) ELSE g
         IN Taken(Around(g, v))

-----------------------------------------------------------------------------

\* removeInvalidTurnPaths: restrictions on a path that cannot be driven go.
ValidTurnPaths(g) ==
    LET Drivable(n, m) == HasEdge(g, n, m) /\ ~g.edges[FindEdge(g, n, m)].reversed
        Nodes(r) == <<r.from>> \o r.via \o <<r.to>>
    IN SelectSeq(g.restrictions, LAMBDA r : \A i \in 1..Len(r.via) + 1 : Drivable(Nodes(r)[i], Nodes(r)[i + 1]))
=============================================================================
