---------------------------- MODULE Contraction ----------------------------
(* osrm-contract: the contraction hierarchy of an edge-expanded graph,       *)
(* contractExcludableGraph and the contractGraph it calls, round by round.   *)
(* A node is an edge-based node (a directed street), an edge a turn.  The    *)
(* bodies of the parallel loops run in any order and on any thread; what     *)
(* they share is the graph (read only inside a loop) and the node weights,   *)
(* which ContractNode also writes when it only simulates.  Durations and     *)
(* distances travel with the weights and are left out; the order in which    *)
(* DeleteEdgesTo leaves the rest of an adjacency list is not kept.           *)
EXTENDS QueryHeap, TLC

CONSTANTS N,               \* number of nodes
          Inputs,          \* edge-expanded graphs: [turns, weight, filters]
          Threads,
          Hash,            \* XORFastHash of an original node id
          CoreShare,       \* percent of the nodes the base contraction keeps (10)
          RenumberShare,   \* percent below which the nodes are renumbered (35)
          SimulationLimit, FullLimit    \* settled nodes of a witness search

Nodes   == 0..N-1

ASSUME ContractionAssumption ==
    /\ N \in Nat \ {0} /\ Threads # {} /\ Hash \in [Nodes -> Nat]
    /\ CoreShare \in 0..100 /\ RenumberShare \in 0..100
    /\ SimulationLimit \in Nat /\ FullLimit \in Nat

VARIABLES input,           \* the graph that is contracted
          pass,            \* 0: the shared contraction, k: the core of filter k
          phase,           \* which loop of contractGraph runs
          graph,           \* ContractorGraph: a list of edges at every node
          core, contractable, priority, weight, depth,     \* ContractorNodeData
          remaining,       \* remaining_nodes, in their order
          toOld,           \* new_to_old_node_id
          renumberAt,      \* next_renumbering
          todo,            \* nodes the running parallel loop has not done
          independent,     \* the nodes of this round
          inserted,        \* inserted_edges of every thread
          shared,          \* [graph, core] after the shared contraction
          container        \* edge of the query graph -> filters it is for

nodeData == <<core, contractable, priority, weight, depth>>
vars == <<input, pass, phase, graph, nodeData, remaining, toOld, renumberAt,
          todo, independent, inserted, shared, container>>

Phases == {"evaluate", "round", "contract", "update", "done"}

Lowest(S) == Min(S \cup {Invalid})
Places(s) == 1..Len(s)

-----------------------------------------------------------------------------
(* The contractor graph.                                                     *)

Edge(to, w, id, orig, short, fwd, bwd) ==
    [to |-> to, weight |-> w, id |-> id, orig |-> orig,
     shortcut |-> short, forward |-> fwd, backward |-> bwd]

\* The turns from s to t and, turned round, those from t to s.
Group(turns, s, t) ==
    LET Sided(e) == IF e.source = s /\ e.target = t
                    THEN <<[w |-> Max({e.weight, 1}), id |-> e.id, forward |-> TRUE, backward |-> FALSE]>>
                    ELSE IF e.source = t /\ e.target = s
                    THEN <<[w |-> Max({e.weight, 1}), id |-> e.id, forward |-> FALSE, backward |-> TRUE]>>
                    ELSE <<>>
    IN FlattenSeq([i \in Places(turns) |-> Sided(turns[i])])

\* Parallel edges are merged into the lightest, equal directions into one edge.
MergedGroup(turns, s, t) ==
    LET g   == Group(turns, s, t)
        fwd == Lowest({g[i].w : i \in {j \in Places(g) : g[j].forward}})
        bwd == Lowest({g[i].w : i \in {j \in Places(g) : g[j].backward}})
    IN IF s = t \/ g = <<>> THEN <<>>
       ELSE IF fwd = bwd THEN <<Edge(t, fwd, g[1].id, 1, FALSE, TRUE, TRUE)>>
       ELSE SelectSeq(<<Edge(t, fwd, g[1].id, 1, FALSE, TRUE, FALSE),
                        Edge(t, bwd, g[1].id, 1, FALSE, FALSE, TRUE)>>,
                      LAMBDA e : e.weight < Invalid)

ToContractorGraph(turns) ==
    [s \in Nodes |-> FlattenSeq([i \in 1..N |-> MergedGroup(turns, s, i - 1)])]

Filter(g, S) ==
    [n \in Nodes |-> IF n \in S THEN SelectSeq(g[n], LAMBDA e : e.to \in S) ELSE <<>>]

Neighbours(g, n) == {g[n][i].to : i \in Places(g[n])} \ {n}

\* The first edge from n to t is the one InsertEdges compares with.
FindEdge(g, n, t) == Lowest({i \in Places(g[n]) : g[n][i].to = t})

InsertEdge(g, e) ==
    LET i   == FindEdge(g, e.from, e.data.to)
        old == g[e.from][i]
    IN IF i < Invalid /\ old.shortcut /\ old.forward = e.data.forward /\ old.backward = e.data.backward
       THEN IF e.data.weight < old.weight THEN [g EXCEPT ![e.from][i] = e.data] ELSE g
       ELSE [g EXCEPT ![e.from] = Append(@, e.data)]

InsertAll(g, edges) ==
    FoldLeft(InsertEdge, g,
             SortSeq(edges, LAMBDA a, b : \/ a.from < b.from
                                          \/ a.from = b.from /\ a.data.to < b.data.to))

\* Only the neighbours of a node forget it: a node contracted before keeps its edges.
DeleteIncomingEdges(g, S) ==
    [u \in Nodes |-> SelectSeq(g[u], LAMBDA e : e.to \notin S \/ u \notin Neighbours(g, e.to))]

-----------------------------------------------------------------------------
(* Witness search: a Dijkstra that avoids `forbidden` and stops when all     *)
(* targets are settled, after `limit` nodes, or beyond the weight limit.     *)

\* A slip no specification uses: the search forgets the node it must avoid.
RelaxAnywhere(g, key, n, forbidden) ==
    [m \in Nodes |->
        Lowest({key[m]} \cup {key[n] + g[n][i].weight :
                 i \in {j \in Places(g[n]) : g[n][j].forward /\ g[n][j].to = m}})]

RelaxNode(g, key, n, forbidden) ==
    [m \in Nodes |->
        IF m = forbidden THEN key[m]
        ELSE Lowest({key[m]} \cup {key[n] + g[n][i].weight :
                 i \in {j \in Places(g[n]) : g[n][j].forward /\ g[n][j].to = m}})]

Search(g, source, targets, limit, maxWeight, forbidden) ==
    LET Settle(h, i) ==
            LET open == {m \in Nodes \ h.settled : h.key[m] < Invalid}
                n    == CHOOSE m \in open : \A o \in open : h.key[m] <= h.key[o]
            IN IF h.stop \/ open = {} THEN h
               ELSE IF \/ i > limit
                       \/ h.key[n] > maxWeight
                       \/ n \in targets /\ targets \subseteq h.settled \cup {n}
                    THEN [h EXCEPT !.stop = TRUE]
               ELSE [h EXCEPT !.settled = @ \cup {n},
                              !.key = RelaxNode(g, @, n, forbidden)]
        start == [key |-> [m \in Nodes |-> IF m = source THEN 0 ELSE Invalid],
                  settled |-> {}, stop |-> FALSE]
    IN Iterate(Settle, start, N).key

-----------------------------------------------------------------------------
(* ContractNode.  The same loop simulates (the loop weight it leaves at the  *)
(* source is one more than the loop) and contracts.                          *)

Shortcut(from, to, w, orig, node) ==
    <<[from |-> from, data |-> Edge(to, w, node, orig, TRUE, TRUE, FALSE)],
      [from |-> to,   data |-> Edge(from, w, node, orig, TRUE, FALSE, TRUE)]>>

\* "Make sure to prune better": the loop found at source replaces its node weight.
LoopWeight(path, simulation) == IF simulation THEN path + 1 ELSE path

\* One edge into the node against all edges out of it.
ContractIn(g, node, simulation, acc, in) ==
    LET outs    == SelectSeq(g[node], LAMBDA e : e.forward /\ e.to # node)
        Path(e) == in.weight + e.weight
        targets == {outs[i].to : i \in Places(outs)} \ {in.to}
        maxW    == Max({0} \cup {Path(outs[i]) : i \in {j \in Places(outs) : outs[j].to # in.to}})
        key     == Search(g, in.to, targets, IF simulation THEN SimulationLimit ELSE FullLimit,
                          maxW, node)
        loops   == SelectSeq(outs, LAMBDA e : e.to = in.to /\ Path(e) < acc.weight[node])
        cuts    == SelectSeq(outs, LAMBDA e : Path(e) < key[e.to])
        new     == loops \o cuts
        counted == [acc EXCEPT !.deleted = @ + 1, !.deletedOrig = @ + in.orig]
    IN IF in.to = node THEN acc
       ELSE IF ~in.backward THEN counted
       ELSE [counted EXCEPT
               !.weight[in.to] = IF loops = <<>> THEN @ ELSE LoopWeight(Path(Last(loops)), simulation),
               !.added = @ + 2 * Len(new),
               !.addedOrig = @ + FoldLeft(LAMBDA n, e : n + 2 * (e.orig + in.orig), 0, new),
               !.edges = @ \o FlattenSeq([i \in Places(new) |->
                                 Shortcut(in.to, new[i].to, Path(new[i]), new[i].orig + in.orig, node)])]

\* Edges between the same nodes with the same weight become one, with both directions.
MergeInserted(edges) ==
    LET Same(i, j) == /\ edges[i].from = edges[j].from
                      /\ edges[i].data.to = edges[j].data.to
                      /\ edges[i].data.weight = edges[j].data.weight
        Merge(i) == [edges[i] EXCEPT
                       !.data.forward  = \E j \in 1..i : Same(i, j) /\ edges[j].data.forward,
                       !.data.backward = \E j \in 1..i : Same(i, j) /\ edges[j].data.backward]
        kept == SetToSortSeq({i \in Places(edges) : ~\E j \in Places(edges) : j > i /\ Same(i, j)}, <)
    IN [k \in Places(kept) |-> Merge(kept[k])]

ContractNode(g, node, w, simulation) ==
    FoldLeft(LAMBDA acc, in : ContractIn(g, node, simulation, acc, in),
             [edges |-> <<>>, weight |-> w, deleted |-> 0, deletedOrig |-> 0, added |-> 0, addedOrig |-> 0],
             g[node])

\* In thousandths, for a float.
EvaluateNodePriority(stats, d) ==
    IF stats.deleted * stats.deletedOrig = 0 THEN 1000 * d
    ELSE (2000 * stats.added) \div stats.deleted
         + (4000 * stats.addedOrig) \div stats.deletedOrig + 1000 * d

\* A slip no specification uses: equal hashes yield on both sides.
BiasTies(a, b) == Hash[a] <= Hash[b]

Bias(a, b) == \/ Hash[a] < Hash[b]
              \/ Hash[a] = Hash[b] /\ a < b

\* No node at one or two hops has a lower priority, or the same and a larger hash.
IsNodeIndependent(n) ==
    LET near == Neighbours(graph, n)
        far  == UNION {{graph[u][i].to : i \in Places(graph[u])} : u \in near}
    IN \A t \in (near \cup far) \ {n} :
          /\ priority[n] <= priority[t]
          /\ ~(priority[n] = priority[t] /\ Bias(toOld[n], toOld[t]))

-----------------------------------------------------------------------------
(* contractGraph.                                                            *)

Never == 1000 * Invalid     \* numeric_limits<NodePriority>::max()

\* Enters contractGraph with graph g, uncontracted nodes S and contractable nodes C.
Enter(g, S, C) ==
    /\ graph' = g /\ core' = S /\ contractable' = C
    /\ weight' = input.weight
    /\ depth' = [n \in Nodes |-> 0]
    /\ priority' = [n \in Nodes |-> IF n \in S \ C THEN Never ELSE 0]
    /\ remaining' = SetToSortSeq(S \cap C, <)
    /\ todo' = S \cap C
    /\ toOld' = [n \in Nodes |-> n]
    /\ renumberAt' = (N * RenumberShare) \div 100
    /\ phase' = "evaluate"
    /\ independent' = {}
    /\ inserted' = [t \in Threads |-> <<>>]

Filters     == input.filters
AlwaysAllowed == {n \in Nodes : \A i \in Places(Filters) : n \in Filters[i]}
FullGraph   == Len(Filters) = 1 /\ AlwaysAllowed = Nodes

\* number_of_core_nodes: only the shared contraction of an excludable graph keeps any.
CoreNodes == IF pass = 0 /\ ~FullGraph THEN (N * CoreShare) \div 100 ELSE 0

Init ==
    /\ input \in Inputs
    /\ pass = 0 /\ phase = "evaluate"
    /\ graph = ToContractorGraph(input.turns)
    /\ core = Nodes /\ contractable = AlwaysAllowed
    /\ priority = [n \in Nodes |-> IF n \in AlwaysAllowed THEN 0 ELSE Never]
    /\ weight = input.weight
    /\ depth = [n \in Nodes |-> 0]
    /\ remaining = SetToSortSeq(AlwaysAllowed, <)
    /\ toOld = [n \in Nodes |-> n]
    /\ renumberAt = (N * RenumberShare) \div 100
    /\ todo = AlwaysAllowed /\ independent = {}
    /\ inserted = [t \in Threads |-> <<>>]
    /\ shared = [graph |-> graph, core |-> {}]
    /\ container = {}

\* The body of the first parallel loop.
InitialPriority(n) ==
    /\ phase = "evaluate" /\ n \in todo
    /\ LET s == ContractNode(graph, n, weight, TRUE) IN
       /\ weight' = s.weight
       /\ priority' = [priority EXCEPT ![n] = EvaluateNodePriority(s, depth[n])]
    /\ todo' = todo \ {n}
    /\ phase' = IF todo' = {} THEN "round" ELSE phase
    /\ UNCHANGED <<input, pass, graph, core, contractable, depth, remaining, toOld,
                   renumberAt, independent, inserted, shared, container>>

\* A slip no specification uses: the middle nodes of shortcuts keep their old numbers.
RenumberTargets(g, old2new) ==
    LET new2old == [n \in Nodes |-> CHOOSE o \in Nodes : old2new[o] = n]
        Moved(e) == [e EXCEPT !.to = old2new[@]]
    IN [n \in Nodes |-> [i \in Places(g[new2old[n]]) |-> Moved(g[new2old[n]][i])]]

\* Every number moves: the list of nodes, the targets and the middle nodes of shortcuts.
RenumberGraph(g, old2new) ==
    LET new2old == [n \in Nodes |-> CHOOSE o \in Nodes : old2new[o] = n]
        Moved(e) == [e EXCEPT !.to = old2new[@], !.id = IF e.shortcut THEN old2new[@] ELSE @]
    IN [n \in Nodes |-> [i \in Places(g[new2old[n]]) |-> Moved(g[new2old[n]][i])]]

MustContract == Len(remaining) > CoreNodes

RenumberData ==
    /\ phase = "round" /\ MustContract /\ Len(remaining) < renumberAt
    /\ LET left    == ToSet(remaining)
           order   == remaining \o SetToSortSeq(Nodes \ left, <)
           old2new == [n \in Nodes |-> (CHOOSE i \in 1..N : order[i] = n) - 1]
           Moved(f) == [n \in Nodes |-> f[order[n + 1]]]
       IN /\ graph' = RenumberGraph(graph, old2new)
          /\ toOld' = Moved(toOld)
          /\ core' = {old2new[n] : n \in core}
          /\ contractable' = {old2new[n] : n \in contractable}
          /\ priority' = Moved(priority) /\ weight' = Moved(weight) /\ depth' = Moved(depth)
          /\ remaining' = [i \in Places(remaining) |-> i - 1]
    /\ renumberAt' = 0
    /\ UNCHANGED <<input, pass, phase, todo, independent, inserted, shared, container>>

\* The independent nodes go to the end of the list.
FindIndependent ==
    /\ phase = "round" /\ MustContract /\ Len(remaining) >= renumberAt
    /\ independent' = {n \in ToSet(remaining) : IsNodeIndependent(n)}
    /\ remaining' = SelectSeq(remaining, LAMBDA n : n \notin independent')
                    \o SelectSeq(remaining, LAMBDA n : n \in independent')
    /\ todo' = independent'
    /\ phase' = "contract"
    /\ UNCHANGED <<input, pass, graph, nodeData, toOld, renumberAt, inserted, shared, container>>

\* The body of the contraction loop, on thread t.
Contract(n, t) ==
    /\ phase = "contract" /\ n \in todo
    /\ LET c == ContractNode(graph, n, weight, FALSE) IN
       /\ weight' = c.weight
       /\ inserted' = [inserted EXCEPT ![t] = @ \o MergeInserted(c.edges)]
    /\ todo' = todo \ {n}
    /\ UNCHANGED <<input, pass, phase, graph, core, contractable, priority, depth, remaining,
                   toOld, renumberAt, independent, shared, container>>

\* After the loop: the nodes leave the core, their incoming edges go, the new edges come.
InsertShortcuts ==
    /\ phase = "contract" /\ todo = {}
    /\ core' = core \ independent
    /\ \E order \in SetToSeqs(Threads) :
          graph' = FoldLeft(LAMBDA g, t : InsertAll(g, inserted[t]),
                            DeleteIncomingEdges(graph, independent), order)
    /\ inserted' = [t \in Threads |-> <<>>]
    /\ todo' = independent
    /\ phase' = IF independent = {} THEN "round" ELSE "update"
    /\ UNCHANGED <<input, pass, contractable, priority, weight, depth, remaining, toOld,
                   renumberAt, independent, shared, container>>

\* The body of the last loop: deeper neighbours, evaluated again one after the other.
UpdateNodeNeighbours(n) ==
    /\ phase = "update" /\ n \in todo
    /\ LET near == Neighbours(graph, n)
           deep == [u \in Nodes |-> IF u \in near THEN Max({depth[n] + 1, depth[u]}) ELSE depth[u]]
           Again(acc, u) ==
               LET s == ContractNode(graph, u, acc.weight, TRUE)
               IN [weight |-> s.weight,
                   priority |-> [acc.priority EXCEPT ![u] = EvaluateNodePriority(s, deep[u])]]
           r == FoldLeft(Again, [weight |-> weight, priority |-> priority],
                         SetToSortSeq(near \cap contractable, <))
       IN depth' = deep /\ weight' = r.weight /\ priority' = r.priority
    /\ todo' = todo \ {n}
    /\ IF todo' = {}
       THEN /\ remaining' = SubSeq(remaining, 1, Len(remaining) - Cardinality(independent))
            /\ independent' = {} /\ phase' = "round"
       ELSE UNCHANGED <<remaining, independent, phase>>
    /\ UNCHANGED <<input, pass, graph, core, contractable, toOld, renumberAt, inserted, shared, container>>

-----------------------------------------------------------------------------
(* The end of a contraction, back in the numbers of the input, and what      *)
(* contractExcludableGraph does with it.                                     *)

ToEdges(g) ==
    UNION {{[source |-> n, target |-> g[n][i].to, weight |-> g[n][i].weight, id |-> g[n][i].id,
             shortcut |-> g[n][i].shortcut, forward |-> g[n][i].forward,
             backward |-> g[n][i].backward] : i \in Places(g[n])} : n \in Nodes}

PassOver == phase = "round" /\ ~MustContract
Original == RenumberGraph(graph, toOld)
OriginalCore == {toOld[n] : n \in core}

\* contractFullGraph: one filter that allows every node.
FinishFull ==
    /\ PassOver /\ FullGraph
    /\ container' = {[edge |-> e, filters |-> {1}] : e \in ToEdges(Original)}
    /\ phase' = "done"
    /\ UNCHANGED <<input, pass, graph, nodeData, remaining, toOld, renumberAt, todo,
                   independent, inserted, shared>>

\* Flags of the shared edges: the filters that allow both ends.
Allowed(e) == {i \in Places(Filters) : {e.source, e.target} \subseteq Filters[i]}

CoreOf(g, S, i) == Filter(Filter(g, S), Filters[i])

FinishShared ==
    /\ PassOver /\ ~FullGraph /\ pass = 0
    /\ container' = {[edge |-> e, filters |-> Allowed(e)] :
                        e \in {d \in ToEdges(Original) : ~{d.source, d.target} \subseteq OriginalCore}}
    /\ shared' = [graph |-> Filter(Original, OriginalCore), core |-> OriginalCore]
    /\ pass' = 1
    /\ Enter(CoreOf(Original, OriginalCore, 1), OriginalCore, OriginalCore)
    /\ UNCHANGED input

\* An edge the container has already gets one more flag.
Merge(old, new, i) ==
    {IF c.edge \in new THEN [c EXCEPT !.filters = @ \cup {i}] ELSE c : c \in old}
    \cup {[edge |-> e, filters |-> {i}] : e \in new \ {c.edge : c \in old}}

FinishFilter ==
    /\ PassOver /\ ~FullGraph /\ pass > 0
    /\ container' = Merge(container, ToEdges(Original), pass)
    /\ IF pass < Len(Filters)
       THEN /\ pass' = pass + 1
            /\ Enter(CoreOf(shared.graph, shared.core, pass + 1), shared.core, shared.core)
       ELSE /\ phase' = "done"
            /\ UNCHANGED <<pass, graph, nodeData, remaining, toOld, renumberAt, todo,
                           independent, inserted>>
    /\ UNCHANGED <<input, shared>>

Contracted == phase = "done" /\ UNCHANGED vars

Next ==
    \/ \E n \in Nodes : InitialPriority(n) \/ UpdateNodeNeighbours(n)
    \/ \E n \in Nodes, t \in Threads : Contract(n, t)
    \/ RenumberData \/ FindIndependent \/ InsertShortcuts
    \/ FinishFull \/ FinishShared \/ FinishFilter
    \/ Contracted

Spec == Init /\ [][Next]_vars
=============================================================================
