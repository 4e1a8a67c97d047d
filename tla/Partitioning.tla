----------------------------- MODULE Partitioning -----------------------------
(* osrm-partition: the streets are bisected recursively and in parallel, each *)
(* cut a minimum cut between the ends of a sweep over the map; the bits of    *)
(* the cuts become nested cells of streets, and the nodes of the edge-based   *)
(* graph are renumbered by cell and border level.                             *)
(*                                                                            *)
(* input: intersections 0..count-1 at coordinate; streets, from one of them   *)
(* to another, whose directions are nodes of the edge-based graph: forward    *)
(* and, unless it is None, backward; turns between these nodes.               *)
EXTENDS Components

CONSTANTS Inputs, None,
          BisectionBits,     \* width of a BisectionID (32)
          NodeBits,          \* width of a NodeID (32)
          PartitionBits,     \* NUM_PARTITION_BITS (64)
          MaxCellSizes,      \* per level, from the lowest
          SmallComponent,    \* components up to this size share one cell
          Cuts,              \* num_optimizing_cuts
          Ratio, Balance     \* boundary_factor and balance, in percent

ASSUME PartitioningAssumption ==
    /\ BisectionBits \in Nat \ {0} /\ Cuts \in Nat \ {0} /\ SmallComponent \in Nat
    /\ MaxCellSizes # <<>> /\ MaxCellSizes \in Seq(Nat \ {0, 1})
    /\ Ratio \in 0..50 /\ Balance \in Nat /\ Balance >= 100

PowerOfTwo[n \in 0..PartitionBits] == IF n = 0 THEN 1 ELSE 2 * PowerOfTwo[n - 1]

ASSUME NodesAssumption ==
    /\ PartitionBits \in Nat /\ NodeBits \in 1..PartitionBits
    /\ \A i \in Inputs : i.size \in 1..PowerOfTwo[NodeBits] - 1

VARIABLES input,
          stage,
          bisectionIds,      \* of the intersections
          forest,            \* views that are to be cut: [nodes, depth]
          graph,             \* edge-based graph: a list of edges at every node
          partitions,        \* per level: node of the edge-based graph -> cell
          permutation        \* node before -> node after renumbering

pvars == <<input, stage, bisectionIds, forest, graph, partitions, permutation>>

Intersections == 0..input.count - 1
Levels == 1..Len(MaxCellSizes)
Infinity == 1000000

AdjacentTo(n) == {s.to : s \in {r \in input.streets : r.from = n}}
               \cup {s.from : s \in {r \in input.streets : r.to = n}}
EdgesOf(n)  == SetToSortSeq(AdjacentTo(n), <)

-----------------------------------------------------------------------------
(* Dinic's algorithm on the part `nodes` of the map: unit flow on every pair. *)

Within(n, nodes) == SelectSeq(EdgesOf(n), LAMBDA m : m \in nodes)

\* Nodes of a blob that have a neighbour outside of it.
Border(blob, nodes) == {n \in blob : \E m \in ToSet(Within(n, nodes)) : m \notin blob}

\* Breadth first from the border of the sources, not over flow, not beyond a sink.
ComputeLevelGraph(nodes, sources, sinks, flow) ==
    LET border == Border(sources, nodes)
        start == [n \in nodes |-> IF n \in border \/ (n \in sources /\ \E b \in border : n \in AdjacentTo(b))
                                  THEN 0 ELSE Infinity]
        Layer(levels, k) ==
            LET front == {n \in nodes \ sinks : levels[n] = k - 1 /\ (k > 1 \/ n \in border)}
                reached == {m \in nodes : levels[m] = Infinity /\
                              \E n \in front : m \in AdjacentTo(n) /\ <<n, m>> \notin flow}
            IN Computed([n \in nodes |-> IF n \in reached THEN k ELSE levels[n]])
    IN Iterate(Layer, start, Cardinality(nodes))

\* The first path that a depth-first search from the sink down the levels finds; the
\* dead ends it removes from the level graph stay dead ends.
GetAugmentingPath(nodes, sources, flow, levels, sink) ==
    LET Down(x) == SelectSeq(Within(x, nodes), LAMBDA t : <<t, x>> \notin flow /\ levels[t] + 1 = levels[x])
        leads[x \in nodes] == x \in sources \/ \E t \in ToSet(Down(x)) : leads[t]
        rest[x \in nodes] ==
            IF x \in sources THEN <<x>>
            ELSE <<x>> \o rest[Down(x)[Min({i \in DOMAIN Down(x) : leads[Down(x)[i]]})]]
    IN IF levels[sink] < Infinity /\ leads[sink] THEN rest[sink] ELSE <<>>

\* path runs from the sink to the source.
AugmentFlow(flow, path) ==
    Iterate(LAMBDA f, i : IF <<path[i], path[i + 1]>> \in f THEN f \ {<<path[i], path[i + 1]>>}
                          ELSE f \cup {<<path[i + 1], path[i]>>},
            flow, Len(path) - 1)

BlockingFlow(nodes, sources, sinks, flow, levels) ==
    LET Augment(b, sink) ==
            LET path == GetAugmentingPath(nodes, sources, b.flow, levels, sink)
            IN IF path = <<>> THEN b ELSE [flow |-> AugmentFlow(b.flow, path), value |-> b.value + 1]
        All(b, sink) == Iterate(LAMBDA c, i : Augment(c, sink), b, Len(Within(sink, nodes)))
    IN IterateOver(All, [flow |-> flow, value |-> 0], SetToSortSeq(Border(sinks, nodes), <))

\* A slip no specification uses: one blocking flow is taken for a maximum flow.
OnePhase(nodes, sources, sinks) ==
    LET more == BlockingFlow(nodes, sources, sinks, {}, ComputeLevelGraph(nodes, sources, sinks, {}))
        levels == ComputeLevelGraph(nodes, sources, sinks, more.flow)
    IN [edges |-> more.value, side |-> sources \cup {n \in nodes : levels[n] < Infinity}]

\* Phases of a level graph and a blocking flow until the sinks are out of reach.
MinCut(nodes, sources, sinks) ==
    LET from[flow \in SUBSET (nodes \X nodes)] ==
            LET levels == ComputeLevelGraph(nodes, sources, sinks, flow)
                more   == BlockingFlow(nodes, sources, sinks, flow, levels)
            IN IF \A n \in Border(sinks, nodes) : levels[n] = Infinity
               THEN [edges |-> 0, side |-> sources \cup {n \in nodes : levels[n] < Infinity}]
               ELSE [from[more.flow] EXCEPT !.edges = @ + more.value]
    IN from[{}]

-----------------------------------------------------------------------------
(* Inertial flow: the best of several sweeps.                                 *)

\* Cuts times slope * lon + (1 - |slope|) * lat, slope = -1 + round * 2 / Cuts.
Projection(n, round) ==
    LET slope == 2 * round - Cuts
    IN slope * input.coordinate[n][1]
       + (Cuts - (IF slope < 0 THEN -slope ELSE slope)) * input.coordinate[n][2]

\* reorderFirstLast; among equal projections any may come first.
SpatialOrders(nodes, round) ==
    LET k == (Ratio * Cardinality(nodes)) \div 100
        First(S) == \A a \in S, b \in nodes \ S : Projection(a, round) <= Projection(b, round)
        Final(T, S) == \A a \in T, b \in (nodes \ S) \ T : Projection(a, round) >= Projection(b, round)
    IN UNION {{[sources |-> S, sinks |-> T] : T \in {U \in kSubset(k, nodes \ S) : Final(U, S)}} :
              S \in {U \in kSubset(k, nodes) : First(U)}}

Distance(a, b) == IF a < b THEN b - a ELSE a - b

\* Fewer edges, weighted by how far the bigger side is above its share; the weight
\* of the best so far is kept as an integer.  Equal cuts: the more even one.
BetterCut(nodes, cut, best) ==
    LET size == Cardinality(nodes)
        Bigger(c) == Max({Cardinality(c.side), size - Cardinality(c.side)})
        allowed == Balance * (size \div 2)
        Even(c) == 100 * Bigger(c) <= allowed
        Scaled(c) == IF Even(c) THEN c.edges * allowed ELSE c.edges * 100 * Bigger(c)
        Kept(c) == c.edges * allowed * (IF Even(c) THEN 1 ELSE (100 * Bigger(c)) \div allowed)
    IN \/ Scaled(cut) < Kept(best)
       \/ /\ cut.edges = best.edges
          /\ Distance(size \div 2, Cardinality(cut.side)) < Distance(size \div 2, Cardinality(best.side))

\* What the parallel rounds may leave as the best cut.
BestMinCuts(nodes) ==
    LET rounds == 0..Cuts - 1
        found == [r \in rounds |-> {MinCut(nodes, o.sources, o.sinks) : o \in SpatialOrders(nodes, r)}]
        Best(order, pick) ==
            IterateOver(LAMBDA b, r : IF BetterCut(nodes, pick[r], b) THEN pick[r] ELSE b,
                     pick[order[1]], order)
    IN {Best(order, pick) : order \in SetToSeqs(rounds),
                            pick \in {f \in [rounds -> UNION {found[r] : r \in rounds}] :
                                         \A r \in rounds : f[r] \in found[r]}}

-----------------------------------------------------------------------------
(* Recursive bisection.                                                       *)

\* ceil(log2(n))
BitsFor(n) == CHOOSE b \in 0..NodeBits : PowerOfTwo[b] >= n /\ (b = 0 \/ PowerOfTwo[b - 1] < n)

\* Big components one by one, all small ones together at the end (there may be none).
PrePartitionWithSCC ==
    /\ stage = "components"
    /\ LET scc   == Tarjan(input.count, [n \in Intersections |-> EdgesOf(n)])
           Size(n)  == GetComponentSize(scc, GetComponentID(scc, n))
           big   == {c \in ToSet([i \in DOMAIN scc.sizes |-> i - 1]) :
                        GetComponentSize(scc, c) > SmallComponent}
           order == SetToSortSeq(big, <)
           depth == BitsFor(Len(order) + 1)
           Rank(n) == IF Size(n) <= SmallComponent THEN Len(order)
                      ELSE (CHOOSE i \in DOMAIN order : order[i] = GetComponentID(scc, n)) - 1
       IN /\ bisectionIds' = [n \in Intersections |-> Rank(n) * 2^(BisectionBits - depth)]
          /\ forest' = {[nodes |-> {n \in Intersections : GetComponentID(scc, n) = c},
                         depth |-> depth] : c \in big}
    /\ stage' = "bisect"
    /\ UNCHANGED <<input, graph, partitions, permutation>>

Half(view, nodes) == [nodes |-> nodes, depth |-> view.depth + 1]

Terminal(view) == Cardinality(view.nodes) < MaxCellSizes[1] \/ view.depth >= BisectionBits

\* The body of the parallel loop: cut a view, set a bit on the source side, feed the halves.
Bisect(view) ==
    /\ stage = "bisect" /\ view \in forest
    /\ \E cut \in BestMinCuts(view.nodes) :
          /\ bisectionIds' = [n \in Intersections |->
                                 IF n \in cut.side THEN bisectionIds[n] + 2^(BisectionBits - view.depth - 1)
                                 ELSE bisectionIds[n]]
          /\ forest' = (forest \ {view}) \cup
                          {h \in {Half(view, view.nodes \ cut.side), Half(view, cut.side)} : ~Terminal(h)}
    /\ UNCHANGED <<input, stage, graph, partitions, permutation>>

-----------------------------------------------------------------------------
(* From bits to nested cells of the edge-based graph.                         *)

EdgeNodes == 0..input.size - 1

\* A street takes the bits of the intersection it starts from.
EdgeBisectionIds ==
    [e \in EdgeNodes |->
        LET s == CHOOSE r \in input.streets : e \in {r.forward, r.backward}
        IN bisectionIds[IF e = s.forward THEN s.from ELSE s.to]]

HasBit(id, b) == (id \div 2^b) % 2 = 1

\* Splits the i-th cell at its highest bit that somebody has.
SplitCell(ids, cells, i) ==
    LET cell == cells[i]
        set  == {b \in 0..cell.bit : \E n \in cell.nodes : HasBit(ids[n], b)}
        bit  == Max(set)
        left == {n \in cell.nodes : HasBit(ids[n], bit)}
        rest == [nodes |-> cell.nodes, bit |-> IF bit > 0 THEN bit - 1 ELSE cell.bit,
                 tabu |-> cell.tabu \/ bit = 0]
    IN IF set = {} THEN [cells EXCEPT ![i].tabu = TRUE]
       ELSE IF left = cell.nodes THEN [cells EXCEPT ![i] = rest]
       ELSE Append([cells EXCEPT ![i] = [rest EXCEPT !.nodes = left]],
                   [rest EXCEPT !.nodes = cell.nodes \ left])

\* Until no cell above the size can be split.
PartitionLevel(ids, size, cells) ==
    LET Large(cell) == ~cell.tabu /\ Cardinality(cell.nodes) > size
        Split(cs, i) == IF Large(cs[i]) THEN SplitCell(ids, cs, i) ELSE cs
        Pass(cs, k) == Iterate(Split, cs, Len(cs))
    IN Iterate(Pass, cells, BisectionBits + 1)

CellsToPartition(cells) ==
    [e \in EdgeNodes |-> (CHOOSE i \in DOMAIN cells : e \in cells[i].nodes) - 1]

\* From the top level down: every level goes on from the cells above it.
BisectionToPartition(ids) ==
    LET top == <<[nodes |-> EdgeNodes, bit |-> BisectionBits - 1, tabu |-> FALSE]>>
        Down(acc, l) == LET cells == PartitionLevel(ids, MaxCellSizes[l], acc.cells)
                        IN [cells |-> cells, levels |-> <<CellsToPartition(cells)>> \o acc.levels]
    IN IterateOver(Down, [cells |-> top, levels |-> <<>>], Reverse([l \in Levels |-> l])).levels

MakePartition ==
    /\ stage = "bisect" /\ forest = {}
    /\ partitions' = BisectionToPartition(EdgeBisectionIds)
    /\ stage' = "cells"
    /\ UNCHANGED <<input, bisectionIds, forest, graph, permutation>>

\* A slip no specification uses: the move ignores the cells above.
FixAnywhere(acc, level, node) ==
    LET edges   == graph[node]
        inside  == {i \in DOMAIN edges : acc[level][edges[i].target] = acc[level][node]}
        outside == {edges[i].target : i \in DOMAIN edges \ inside}
    IN IF outside = {} \/ inside # {} THEN acc
       ELSE [l \in Levels |-> IF l <= level THEN [acc[l] EXCEPT ![node] = acc[l][Min(outside)]] ELSE acc[l]]

\* A border node without an edge inside its cell moves to the cell of a neighbour,
\* with all the cells below; the cell above must be the same.
FixNode(acc, level, node) ==
    LET P(l, n) == acc[l][n]
        edges   == graph[node]
        inside  == {i \in DOMAIN edges : P(level, edges[i].target) = P(level, node)}
        connected == \E i \in inside : edges[i].forward \/ edges[i].backward
        outside == {edges[i].target : i \in DOMAIN edges \ inside}
        fitting == {w \in outside : level = Len(MaxCellSizes) \/ P(level + 1, w) = P(level + 1, node)}
        Induced(w) == Cardinality({x \in (DOMAIN edges) \X (1..level) :
                                       P(x[2], edges[x[1]].target) # P(x[2], w)})
        best == CHOOSE w \in fitting : \A o \in fitting :
                    Induced(w) < Induced(o) \/ (Induced(w) = Induced(o) /\ w <= o)
    IN IF outside = {} \/ connected \/ fitting = {} THEN acc
       ELSE [l \in Levels |-> IF l <= level THEN [acc[l] EXCEPT ![node] = acc[l][best]] ELSE acc[l]]

RemoveUnconnectedBoundaryNodes ==
    /\ stage = "cells"
    /\ partitions' = IterateOver(LAMBDA acc, l : Iterate(LAMBDA a, i : FixNode(a, l, i - 1), acc, input.size),
                                 partitions, Reverse([l \in Levels |-> l]))
    /\ stage' = "renumber"
    /\ UNCHANGED <<input, bisectionIds, forest, graph, permutation>>

\* The highest level at which an edge of the node leaves its cell.
HighestBorderLevel(n) ==
    LET Crosses(a, l) == \E i \in DOMAIN graph[a] :
                            /\ partitions[l][graph[a][i].target] # partitions[l][a]
                            /\ n \in {a, graph[a][i].target}
    IN Max({0} \cup {l \in Levels : \E a \in EdgeNodes : Crosses(a, l)})

\* By the cells of the top level, then of the next, and by number.
CellsBefore(parts, a, b) ==
    LET differ == {l \in Levels : parts[l][a] # parts[l][b]}
    IN IF differ = {} THEN a < b ELSE parts[Max(differ)][a] < parts[Max(differ)][b]

\* Border nodes of high levels first, else by cells: how many nodes come before one.
MakePermutation ==
    LET border == [n \in EdgeNodes |-> HighestBorderLevel(n)]
        Before(a, b) == IF border[a] # border[b] THEN border[a] > border[b] ELSE CellsBefore(partitions, a, b)
    IN [n \in EdgeNodes |-> Cardinality({m \in EdgeNodes : Before(m, n)})]

\* Nodes of the graph and of the cells get their new numbers.
RenumberGraph(g, perm) ==
    LET old == [n \in EdgeNodes |-> CHOOSE m \in EdgeNodes : perm[m] = n]
    IN [n \in EdgeNodes |-> [i \in DOMAIN g[old[n]] |-> [g[old[n]][i] EXCEPT !.target = perm[@]]]]

Renumber ==
    /\ stage = "renumber"
    /\ permutation' = MakePermutation
    /\ graph' = RenumberGraph(graph, permutation')
    /\ partitions' = [l \in Levels |-> [n \in EdgeNodes |->
                         partitions[l][CHOOSE m \in EdgeNodes : permutation'[m] = n]]]
    /\ stage' = "overlay"
    /\ UNCHANGED <<input, bisectionIds, forest>>

-----------------------------------------------------------------------------
(* LoadEdgeBasedGraph: every turn in both directions, parallel ones merged.   *)

\* The lightest edge of each direction; one edge for both if they weigh the same.
MergedEdges(turns, s, t) ==
    LET Ways(dir) == {u \in turns : <<u.source, u.target>> = IF dir = "forward" THEN <<s, t>> ELSE <<t, s>>}
        Best(dir) == CHOOSE u \in Ways(dir) : \A v \in Ways(dir) :
                        u.weight < v.weight \/ (u.weight = v.weight /\ u.id <= v.id)
        Edge(dir) == [target |-> t, weight |-> Max({1, Best(dir).weight}), id |-> Best(dir).id,
                      forward |-> dir = "forward", backward |-> dir = "backward"]
    IN IF s = t \/ Ways("forward") \cup Ways("backward") = {} THEN <<>>
       ELSE IF Ways("backward") = {} THEN <<Edge("forward")>>
       ELSE IF Ways("forward") = {} THEN <<Edge("backward")>>
       ELSE IF Edge("forward").weight = Edge("backward").weight
       THEN <<[Edge("forward") EXCEPT !.backward = TRUE]>>
       ELSE <<Edge("forward"), Edge("backward")>>

LoadEdgeBasedGraph(turns, size) ==
    [s \in 0..size - 1 |-> FlattenSeq([i \in 1..size |-> MergedEdges(turns, s, i - 1)])]

PartitioningInit ==
    /\ input \in Inputs
    /\ stage = "components"
    /\ bisectionIds = [n \in Intersections |-> 0]
    /\ forest = {}
    /\ graph = LoadEdgeBasedGraph(input.turns, input.size)
    /\ partitions = <<>>
    /\ permutation = [n \in EdgeNodes |-> n]

PartitioningNext ==
    \/ PrePartitionWithSCC
    \/ \E view \in forest : Bisect(view)
    \/ MakePartition \/ RemoveUnconnectedBoundaryNodes \/ Renumber
=============================================================================
