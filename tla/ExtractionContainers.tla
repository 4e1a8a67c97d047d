------------------------- MODULE ExtractionContainers -------------------------
(* What osrm-extract collects from a map and makes of it: edges between       *)
(* consecutive internal nodes, turn restrictions as node paths, signals as    *)
(* nodes and segments.                                                        *)
(* A map has nodes (ids), barriers, signals <<node, direction>>, restrictions *)
(* and ways [id, nodes, forward, backward, name, differs]: forward and        *)
(* backward are the weight of a segment, 0 if the profile gives none; differs *)
(* says that the directions differ in another tag.                            *)
EXTENDS Iteration, FiniteSets, FiniteSetsExt, SequencesExt

Special == -1                                   \* SPECIAL_NODEID

-----------------------------------------------------------------------------
(* ExtractorCallbacks.                                                        *)

\* The segments of a way, with the flags and the weight of one of its directions.
Segments(way, forward, backward, split, weight) ==
    [i \in 1..Len(way.nodes) - 1 |->
        [source |-> way.nodes[i], target |-> way.nodes[i + 1], weight |-> weight, name |-> way.name,
         forward |-> forward, backward |-> backward, split |-> split]]

\* A direction that is not just the other one reversed gets edges of its own.
ProcessWay(found, way) ==
    LET in_forward_direction  == way.forward > 0
        in_backward_direction == way.backward > 0
        split_edge == /\ in_forward_direction /\ in_backward_direction
                      /\ way.forward # way.backward \/ way.differs
        forwards == IF ~in_forward_direction THEN <<>>
                    ELSE Segments(way, TRUE, in_backward_direction /\ ~split_edge, split_edge, way.forward)
        backwards == IF ~in_backward_direction \/ (in_forward_direction /\ ~split_edge) THEN <<>>
                     ELSE Segments(way, FALSE, TRUE, split_edge, way.backward)
    IN IF Len(way.nodes) <= 1 \/ ~(in_forward_direction \/ in_backward_direction) THEN found
       ELSE [found EXCEPT !.edges = @ \o forwards \o backwards, !.ways = Append(@, way)]

Collected(map) == IterateOver(ProcessWay, [edges |-> <<>>, ways |-> <<>>], map.ways)

-----------------------------------------------------------------------------
(* Nodes and edges.                                                           *)

\* PrepareNodes: the nodes of ways that the map has, ascending.
UsedNodes(map, ways) ==
    LET used == UNION {ToSet(w.nodes) : w \in ToSet(ways)} \cap map.nodes
    IN [i \in 1..Cardinality(used) |-> CHOOSE n \in used : Cardinality({m \in used : m < n}) = i - 1]

mapExternalToInternalNodeID(used, osm) ==
    IF osm \in ToSet(used) THEN (CHOOSE i \in DOMAIN used : used[i] = osm) - 1 ELSE Special

\* Edges point from the smaller to the larger node.
Oriented(used, e) ==
    LET s == mapExternalToInternalNodeID(used, e.source)
        t == mapExternalToInternalNodeID(used, e.target)
        weighed == [e EXCEPT !.weight = Max({1, @})]
    IN IF s < t THEN [weighed EXCEPT !.source = s, !.target = t]
       ELSE [weighed EXCEPT !.source = t, !.target = s, !.forward = e.backward, !.backward = e.forward]

\* The first of the lightest edges in a direction of a pair of nodes, 0 if there is none.
Lightest(group, direction) ==
    LET usable == {i \in DOMAIN group : group[i][direction]}
    IN IF usable = {} THEN 0
       ELSE CHOOSE i \in usable : \A j \in usable : \/ group[i].weight < group[j].weight
                                                    \/ group[i].weight = group[j].weight /\ i <= j

\* A slip no specification uses: the lightest edge whatever its direction stands for both.
OneForBoth(group) ==
    LET i == CHOOSE k \in DOMAIN group : \A j \in DOMAIN group : group[k].weight <= group[j].weight
    IN <<[group[i] EXCEPT !.split = FALSE]>>

\* Of the edges between two nodes one remains for each direction, or one for both;
\* what remains points forward.
KeepLightest(group) ==
    LET f == Lightest(group, "forward")
        b == Lightest(group, "backward")
        OneWay(e, split) == [e EXCEPT !.forward = TRUE, !.backward = FALSE, !.split = split]
        Swapped(e) == [e EXCEPT !.source = e.target, !.target = e.source]
    IN IF f = b THEN <<[group[f] EXCEPT !.split = FALSE, !.forward = TRUE, !.backward = TRUE]>>
       ELSE (IF f = 0 THEN <<>> ELSE <<OneWay(group[f], b # 0)>>)
            \o (IF b = 0 THEN <<>> ELSE <<OneWay(Swapped(group[b]), f # 0)>>)

\* PrepareEdges: loops and edges to missing nodes are dropped.  The parallel edges of
\* one name come in any order; here they keep that of the ways.
PreparedEdges(used, edges) ==
    LET whole == SelectSeq(edges, LAMBDA e : /\ e.source # e.target
                                             /\ {e.source, e.target} \subseteq ToSet(used))
        oriented == [i \in DOMAIN whole |-> Oriented(used, whole[i])]
        Key(e) == <<e.source, e.target, IF e.name = 0 THEN 99 ELSE e.name>>   \* without a name: last
        Before(i, j) ==
            LET a == Key(oriented[i])
                b == Key(oriented[j])
            IN \/ a[1] < b[1] \/ (a[1] = b[1] /\ a[2] < b[2])
               \/ (a[1] = b[1] /\ a[2] = b[2] /\ a[3] < b[3]) \/ (a = b /\ i < j)
        order == SortSeq([i \in DOMAIN oriented |-> i], Before)
        Group(s, t) == SelectSeq([i \in DOMAIN order |-> oriented[order[i]]],
                                 LAMBDA e : e.source = s /\ e.target = t)
    IN UNION {ToSet(KeepLightest(Group(p[1], p[2]))) : p \in {<<e.source, e.target>> : e \in ToSet(oriented)}}

-----------------------------------------------------------------------------
(* Turn paths: from, the nodes in between, to.                                *)

NoPath == [from |-> Special, via |-> <<>>, to |-> Special]
NoTurn == <<Special, Special, Special>>

\* find_turn_nodes: the node before the common end of two ways, that end, and the
\* node after it.  `at` names the end if the map does (Special: any).
find_turn_nodes(from, via, at) ==
    LET m == Len(from)
        n == Len(via)
        first == at \in {Special, from[1]}
        last == at \in {Special, from[m]}
    IN IF first /\ from[1] = via[1] THEN <<from[2], via[1], via[2]>>
       ELSE IF first /\ from[1] = via[n] THEN <<from[2], via[n], via[n - 1]>>
       ELSE IF last /\ from[m] = via[1] THEN <<from[m - 1], via[1], via[2]>>
       ELSE IF last /\ from[m] = via[n] THEN <<from[m - 1], via[n], via[n - 1]>>
       ELSE NoTurn

\* The nodes of a way read from the end `at`; none if it is no end of the way.
ReadFrom(way, at) ==
    IF at = way[1] THEN way ELSE IF at = Last(way) THEN Reverse(way) ELSE <<>>

\* find_via_node_path
ViaNodePath(from, to, node) ==
    LET turn == find_turn_nodes(from, to, node)
    IN IF turn[2] = Special THEN NoPath ELSE [from |-> turn[1], via |-> <<turn[2]>>, to |-> turn[3]]

\* find_via_way_path: way by way, each from the node where the one before ends.
ViaWayPath(from, vias, to) ==
    LET turn == find_turn_nodes(from, vias[1], Special)
        Extend(path, way) ==
            IF path = <<>> \/ ReadFrom(way, Last(path)) = <<>> THEN <<>>
            ELSE path \o Tail(ReadFrom(way, Last(path)))
        path == IterateOver(Extend, <<turn[2]>>, vias)
    IN IF turn[2] = Special \/ path = <<>> THEN NoPath
       ELSE IF ReadFrom(to, Last(path)) = <<>> THEN NoPath
       ELSE [from |-> turn[1], via |-> path, to |-> ReadFrom(to, Last(path))[2]]

NamedWays(r) == {r.from, r.to} \cup ToSet(r.ways)

\* IdentifyRestrictionWays: the nodes of the ways that restrictions name, as far as
\* they were collected.
IdentifyRestrictionWays(restrictions, ways) ==
    LET named == UNION {NamedWays(r) : r \in ToSet(restrictions)}
    IN [id \in named \cap {w.id : w \in ToSet(ways)} |-> (CHOOSE w \in ToSet(ways) : w.id = id).nodes]

\* A restriction with a way that was not collected has no path.
OsmPath(referenced, r) ==
    IF ~(NamedWays(r) \subseteq DOMAIN referenced) THEN NoPath
    ELSE IF r.ways = <<>> THEN ViaNodePath(referenced[r.from], referenced[r.to], r.node)
    ELSE ViaWayPath(referenced[r.from], [i \in DOMAIN r.ways |-> referenced[r.ways[i]]], referenced[r.to])

ResolvedPath(used, referenced, r) ==
    LET Internal(osm) == mapExternalToInternalNodeID(used, osm)
        Inner(path) == [from |-> Internal(path.from), to |-> Internal(path.to),
                        via |-> [i \in DOMAIN path.via |-> Internal(path.via[i])]]
    IN Inner(OsmPath(referenced, r))

\* All nodes are used ones; via ways have two nodes at least.
PathValid(r, p) == /\ Special \notin {p.from, p.to} \cup ToSet(p.via)
                   /\ Len(p.via) >= IF r.ways = <<>> THEN 1 ELSE 2

\* PrepareRestrictions: those with a valid path, in order.
PreparedRestrictions(map, used, ways) ==
    LET Path(r) == ResolvedPath(used, IdentifyRestrictionWays(map.restrictions, ways), r)
        valid == SelectSeq(map.restrictions, LAMBDA r : PathValid(r, Path(r)))
    IN [i \in DOMAIN valid |-> Path(valid[i]) @@ [only |-> valid[i].only, conditional |-> valid[i].conditional]]

-----------------------------------------------------------------------------
(* Signals.                                                                   *)

\* IdentifyTrafficSignals: a signal for one direction stands at the segments that
\* lead to it in that direction of any way.
SignalSegments(map, ways) ==
    {s \in UNION {{<<w.nodes[i], w.nodes[i + 1]>> : i \in 1..Len(w.nodes) - 1} : w \in ToSet(ways)} :
        <<s[2], "forward">> \in map.signals}
    \cup {s \in UNION {{<<w.nodes[i + 1], w.nodes[i]>> : i \in 1..Len(w.nodes) - 1} : w \in ToSet(ways)} :
        <<s[2], "reverse">> \in map.signals}

\* PrepareTrafficSignals
PreparedSignals(map, used, ways) ==
    LET Internal(osm) == mapExternalToInternalNodeID(used, osm)
    IN [bidirectional |-> {Internal(s[1]) : s \in {x \in map.signals : x[2] = "all"}} \ {Special},
        unidirectional |-> {p \in {<<Internal(s[1]), Internal(s[2])>> : s \in SignalSegments(map, ways)} :
                            Special \notin ToSet(p)}]

\* PrepareData
Prepared(map) ==
    LET found == Collected(map)
        used == UsedNodes(map, found.ways)
    IN [count |-> Len(used), used |-> used, edges |-> PreparedEdges(used, found.edges),
        restrictions |-> PreparedRestrictions(map, used, found.ways),
        signals |-> PreparedSignals(map, used, found.ways),
        barriers |-> {mapExternalToInternalNodeID(used, n) : n \in map.barriers} \ {Special}]
=============================================================================
