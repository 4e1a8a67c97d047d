------------------------------ MODULE MultiLevel ------------------------------
(* The overlay of the cells: the packed partition, the boundary nodes and     *)
(* clique weights of every cell, the edges sorted by the level they cross,    *)
(* customised cell by cell by osrm-customize; and the searches on it          *)
(* (routing_base_mld, many_to_many_mld).  Of weight, duration and distance    *)
(* only the weight is kept; a filter is the set of nodes it allows.           *)
EXTENDS Partitioning, QueryHeap

VARIABLES data,              \* by the new numbers: [weight, allowed] of nodes, [penalty] of turns
          mlp,               \* MultiLevelPartition: [ids, counts, offsets]
          cells,             \* CellStorage: level -> cell -> [sources, destinations]
          overlay,           \* MultiLevelGraph: [edges, offsets, borders]
          metrics,           \* per filter: <<level, cell, source, destination>> -> weight
          level, todo        \* the parallel loop of CellCustomizer::Customize

mvars == <<data, mlp, cells, overlay, metrics, level, todo>>
multiLevelVars  == <<pvars, mvars>>

NumberOfLevels == Len(MaxCellSizes) + 1
Filters == input.filters
Allowed(f)    == data.allowed[f]
NodeWeight(n) == data.weight[n]
Penalty(id)   == data.penalty[id]

\* What is stored by node is stored anew by the new numbers; a filter is a set of nodes.
RenumberedData ==
    [weight  |-> [n \in EdgeNodes |-> input.weight[CHOOSE m \in EdgeNodes : permutation[m] = n]],
     allowed |-> [f \in DOMAIN Filters |-> {permutation[n] : n \in Filters[f]}],
     penalty |-> [id \in {u.id : u \in input.turns} |-> (CHOOSE u \in input.turns : u.id = id).penalty]]

-----------------------------------------------------------------------------
(* MultiLevelPartition: the cells of a node in one integer.                   *)

\* MakeLevelOffsets: room for the number of cells of the bisection and the sentinel.
LevelOffsets ==
    LET parts == BisectionToPartition(EdgeBisectionIds)
        Width(l) == BitsFor(Cardinality({parts[l][n] : n \in EdgeNodes}) + 1)
    IN Iterate(LAMBDA o, l : Append(o, Last(o) + Width(l)), <<0>>, Len(MaxCellSizes))

\* Cells are numbered anew in the order of the cells above them; a cell that does not
\* lie together in that order gets more than one number.
RenumberCells(parts) ==
    LET places == [n \in EdgeNodes |-> Cardinality({m \in EdgeNodes : CellsBefore(parts, m, n)})]
        place == CHOOSE p \in {places} : p = places      \* TLC evaluates it here
        Starts(l, n) == \E m \in EdgeNodes : place[n] = place[m] + 1 /\ parts[l][m] # parts[l][n]
    IN [l \in Levels |-> [n \in EdgeNodes |->
           Cardinality({m \in EdgeNodes : place[m] <= place[n] /\ Starts(l, m)})]]

InitializePartitionIDs(parts) ==
    LET offsets == LevelOffsets
        new == RenumberCells(parts)
    IN [offsets |-> offsets,
        ids |-> [n \in EdgeNodes |-> Iterate(LAMBDA sum, l : sum + new[l][n] * PowerOfTwo[offsets[l]], 0, Len(MaxCellSizes))],
        counts |-> [l \in Levels |-> Max({new[l][n] : n \in EdgeNodes}) + 1]]

GetCell(p, l, n) == (p.ids[n] \div PowerOfTwo[p.offsets[l]]) % PowerOfTwo[p.offsets[l + 1] - p.offsets[l]]

\* The level the highest different bit belongs to.
GetHighestDifferentLevel(p, a, b) ==
    LET differ == {i \in 0..Last(p.offsets) - 1 : HasBit(p.ids[a], i) # HasBit(p.ids[b], i)}
    IN IF differ = {} THEN 0 ELSE Max({l \in Levels : p.offsets[l] <= Max(differ)})

-----------------------------------------------------------------------------
(* CellStorage: boundary nodes that the cell can be left from or entered to.  *)

\* An unconnected boundary node is kept as a destination that nothing reaches.
BoundaryNodes(p, g, l, c) ==
    LET Inside(n, e) == GetCell(p, l, e.target) = GetCell(p, l, n)
        boundary == {n \in EdgeNodes : GetCell(p, l, n) = c /\ \E e \in ToSet(g[n]) : ~Inside(n, e)}
        IsSource(n) == \E e \in ToSet(g[n]) : Inside(n, e) /\ e.forward
        IsDestination(n) == \E e \in ToSet(g[n]) : Inside(n, e) /\ e.backward
    IN [sources |-> {n \in boundary : IsSource(n)},
        destinations |-> {n \in boundary : IsDestination(n) \/ ~IsSource(n)}]

CellStorage(p, g) == [l \in Levels |-> [c \in 0..p.counts[l] - 1 |-> BoundaryNodes(p, g, l, c)]]

-----------------------------------------------------------------------------
(* MultiLevelGraph: at every node the edges in order of the highest level     *)
(* they cross, and for border nodes where each level begins.                  *)

SortEdgesByHighestLevel(p, edges, n) ==
    LET Key(e) == GetHighestDifferentLevel(p, n, e.target)
        Before(i, j) == \/ Key(edges[i]) < Key(edges[j])
                        \/ Key(edges[i]) = Key(edges[j]) /\ edges[i].target < edges[j].target
                        \/ Key(edges[i]) = Key(edges[j]) /\ edges[i].target = edges[j].target /\ i < j
        order == SortSeq([i \in DOMAIN edges |-> i], Before)
    IN [i \in DOMAIN edges |-> edges[order[i]]]

\* Nodes up to the highest border node: how many edges stay below each level.
OffsetsFromSortedEdges(p, edges, borders) ==
    [n \in 0..borders |-> [l \in 0..NumberOfLevels - 1 |->
        Cardinality({i \in DOMAIN edges[n] : GetHighestDifferentLevel(p, n, edges[n][i].target) < l})]]

MultiLevelGraph(p, g) ==
    LET edges == [n \in EdgeNodes |-> SortEdgesByHighestLevel(p, g[n], n)]
        Crossing(n) == {e \in ToSet(g[n]) : GetHighestDifferentLevel(p, n, e.target) > 0}
        border == UNION {UNION {{n, e.target} : e \in Crossing(n)} : n \in EdgeNodes}
        borders == Max(border \cup {0})
    IN [edges |-> edges, borders |-> borders, offsets |-> OffsetsFromSortedEdges(p, edges, borders)]

\* How many of the node's edges come before the border edges of the level.
BeginBorderEdges(l, n) ==
    IF n > overlay.borders THEN IF l = 0 THEN 0 ELSE Len(overlay.edges[n])
    ELSE overlay.offsets[n][l]

BorderEdges(l, n)   == {overlay.edges[n][i] : i \in BeginBorderEdges(l, n) + 1..Len(overlay.edges[n])}
InternalEdges(l, n) == {overlay.edges[n][i] : i \in 1..BeginBorderEdges(l, n)}

\* graphToEdges: only forward edges are written; reading them makes the others again.
GraphToEdges(g) ==
    UNION {{[source |-> n, target |-> e.target, weight |-> e.weight, id |-> e.id] :
               e \in {d \in ToSet(g[n]) : d.forward}} : n \in EdgeNodes}

\* The rest of Partitioner::Run, unless the cells do not fit into an integer, and what
\* Customizer::Run loads.
MakeOverlay ==
    /\ stage = "overlay" /\ Last(LevelOffsets) <= PartitionBits
    /\ data' = RenumberedData
    /\ mlp' = InitializePartitionIDs(partitions)
    /\ cells' = CellStorage(mlp', graph)
    /\ overlay' = MultiLevelGraph(mlp', LoadEdgeBasedGraph(GraphToEdges(graph), input.size))
    /\ level' = 1 /\ todo' = DOMAIN cells'[1] /\ metrics' = <<<<>>>>
    /\ stage' = "customize"
    /\ UNCHANGED <<input, bisectionIds, forest, graph, partitions, permutation>>

-----------------------------------------------------------------------------
(* CellCustomizer.                                                            *)

MLDHeap == EmptyHeap(EdgeNodes) @@ [clique |-> [n \in EdgeNodes |-> FALSE]]

\* The node is reached by a clique arc (or not) unless it was reached as cheaply.
Reach(h, to, w, parent, clique) ==
    IF w < h.weight[to] THEN [InsertNode(h, to, w, parent) EXCEPT !.clique[to] = clique] ELSE h

OutWeights(metric, l, n) ==
    LET c == GetCell(mlp, l, n)
    IN IF n \notin cells[l][c].sources THEN {}
       ELSE {[node |-> d, weight |-> metric[<<l, c, n, d>>]] : d \in cells[l][c].destinations}

InWeights(metric, l, n) ==
    LET c == GetCell(mlp, l, n)
    IN IF n \notin cells[l][c].destinations THEN {}
       ELSE {[node |-> s, weight |-> metric[<<l, c, s, n>>]] : s \in cells[l][c].sources}

\* Clique arcs of the cell below, unless one has just been taken; then the edges
\* that stay in this cell and leave the one below.
RelaxNode(metric, l, allowed, h, n) ==
    LET arcs == IF l = 1 \/ h.clique[n] THEN {}
                ELSE {a \in OutWeights(metric, l - 1, n) : a.weight < Invalid /\ a.node \in allowed}
        edges == {e \in InternalEdges(l, n) : e.forward /\ e.target \in allowed /\
                     (l = 1 \/ GetCell(mlp, l - 1, e.target) # GetCell(mlp, l - 1, n))}
        Arc(a, r)  == Reach(r, a.node, h.weight[n] + a.weight, n, TRUE)
        Edge(e, r) == Reach(r, e.target, h.weight[n] + e.weight, n, FALSE)
    IN FoldSet(Edge, FoldSet(Arc, h, arcs), edges)

\* A search from every source of the cell until its destinations are settled.
CustomizedCell(metric, l, allowed, c) ==
    LET cell == cells[l][c]
        Step(s, i) == IF s.heap.queue = {} \/ s.left = {} THEN s
                      ELSE LET n == MinNode(s.heap)
                           IN [heap |-> RelaxNode(metric, l, allowed, [s.heap EXCEPT !.queue = @ \ {n}], n),
                               left |-> s.left \ {n}]
        From(s) == IF s \notin allowed THEN MLDHeap
                   ELSE Iterate(Step, [heap |-> InsertNode(MLDHeap, s, 0, s),
                                       left |-> cell.destinations \cap allowed], input.size).heap
    IN [x \in {<<l, c, s, d>> : s \in cell.sources, d \in cell.destinations} |->
            From(x[3]).weight[x[4]]]

\* The body of the parallel loop over the cells of a level.
CustomizeCell(c) ==
    /\ stage = "customize" /\ c \in todo
    /\ metrics' = [metrics EXCEPT ![Len(metrics)] =
                       CustomizedCell(@, level, Allowed(Len(metrics)), c) @@ @]
    /\ todo' = todo \ {c}
    /\ UNCHANGED <<pvars, data, mlp, cells, overlay, level>>

\* The barrier: the next level, or the next filter from the lowest level.
NextLevel ==
    /\ stage = "customize" /\ todo = {}
    /\ \/ /\ level < Len(MaxCellSizes)
          /\ level' = level + 1 /\ todo' = DOMAIN cells[level + 1]
          /\ UNCHANGED <<metrics, stage>>
       \/ /\ level = Len(MaxCellSizes) /\ Len(metrics) < Len(Filters)
          /\ level' = 1 /\ todo' = DOMAIN cells[1] /\ metrics' = Append(metrics, <<>>)
          /\ UNCHANGED stage
       \/ /\ level = Len(MaxCellSizes) /\ Len(metrics) = Len(Filters)
          /\ stage' = "done" /\ UNCHANGED <<level, todo, metrics>>
    /\ UNCHANGED <<input, bisectionIds, forest, graph, partitions, permutation, data, mlp, cells, overlay>>

MultiLevelInit ==
    /\ PartitioningInit
    /\ data = <<>> /\ mlp = <<>> /\ cells = <<>> /\ overlay = <<>> /\ metrics = <<>> /\ level = 0 /\ todo = {}

Done == stage = "done" /\ UNCHANGED multiLevelVars

MultiLevelNext ==
    \/ PartitioningNext /\ UNCHANGED mvars
    \/ MakeOverlay
    \/ \E c \in todo : CustomizeCell(c)
    \/ NextLevel
    \/ Done

MultiLevelSpec == MultiLevelInit /\ [][MultiLevelNext]_multiLevelVars

-----------------------------------------------------------------------------
\* A cell lies in one cell of the level above, also after border nodes have moved and
\* after the cells have been packed into bits.
PartitionNested ==
    LET Nested(P(_, _)) == \A a, b \in EdgeNodes : \A l \in 1..Len(MaxCellSizes) - 1 :
                              P(l, a) = P(l, b) => P(l + 1, a) = P(l + 1, b)
        Part(l, n) == partitions[l][n]
        Packed(l, n) == GetCell(mlp, l, n)
    IN /\ stage \in {"cells", "renumber", "overlay"} => Nested(Part)
       /\ stage \in {"customize", "done"} => Nested(Packed)
=============================================================================
