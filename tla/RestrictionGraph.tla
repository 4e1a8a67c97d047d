--------------------------- MODULE RestrictionGraph ---------------------------
(* The restrictions as a graph (restriction_graph.cpp): from the start node   *)
(* of the edge a restriction begins with, one via node for every further edge *)
(* of its path.  A path that deviates towards a later restriction changes     *)
(* over by a transfer edge, and a via node holds the restrictions of every    *)
(* path that ends in the same edges.                                          *)
(* A node is [edges, restrictions]; an edge [to, target, transfer] leads to a *)
(* node when the turn goes to the node-based node `to`.  The vectors that the *)
(* nodes share are lists of their own here.                                   *)
EXTENDS Iteration, FiniteSets, FiniteSetsExt, SequencesExt

NoEdges == [edges |-> <<>>, restrictions |-> <<>>]
EmptyGraph == [nodes |-> <<>>, start |-> <<>>, via |-> {}]

\* IsTurnRestricted
Restricts(r, to) == IF r.only THEN r.to # to ELSE r.to = to

Targets(rg, n) == {e.to : e \in ToSet(rg.nodes[n].edges)}
NextNode(rg, n, to) == (CHOOSE e \in ToSet(rg.nodes[n].edges) : e.to = to).target

insertEdge(rg, n, to, target, transfer) ==
    [rg EXCEPT !.nodes[n].edges = Append(@, [to |-> to, target |-> target, transfer |-> transfer])]

\* insertRestriction, one by one
InsertRestrictions(rg, n, restrictions) == [rg EXCEPT !.nodes[n].restrictions = @ \o restrictions]

getOrInsertStartNode(rg, edge) ==
    IF edge \in DOMAIN rg.start THEN rg
    ELSE [rg EXCEPT !.nodes = Append(@, NoEdges), !.start = @ @@ (edge :> Len(rg.nodes) + 1)]

insertViaNode(rg, edge) ==
    [rg EXCEPT !.nodes = Append(@, NoEdges), !.via = @ \cup {<<edge, Len(rg.nodes) + 1>>}]

-----------------------------------------------------------------------------
(* pathBuilder: the paths as trees.                                           *)

\* b has the graph rg and the node `at` to which the path has come.
PathStart(rg, r) ==
    LET Begin(started) == [rg |-> started, at |-> started.start[<<r.from, r.via[1]>>]]
    IN Begin(getOrInsertStartNode(rg, <<r.from, r.via[1]>>))

PathNext(b, edge) ==
    IF edge[2] \in Targets(b.rg, b.at) THEN [b EXCEPT !.at = NextNode(b.rg, b.at, edge[2])]
    ELSE LET new == Len(b.rg.nodes) + 1
         IN [rg |-> insertEdge(insertViaNode(b.rg, edge), b.at, edge[2], new, FALSE), at |-> new]

\* The edges between the via nodes of a path.
ViaEdges(r) == [i \in 1..Len(r.via) - 1 |-> <<r.via[i], r.via[i + 1]>>]

AddPath(rg, r) ==
    LET End(b) == InsertRestrictions(b.rg, b.at, <<r>>)
    IN End(IterateOver(PathNext, PathStart(rg, r), ViaEdges(r)))

-----------------------------------------------------------------------------
(* transferBuilder: the same paths again; `suffixes` are the nodes of paths   *)
(* that end in the same edges, those of the longest first.                    *)

\* next_suffixes: the suffixes that go on along the edge, and the one that begins with it.
NextSuffixes(rg, suffixes, edge) ==
    LET Own(n) == {e \in ToSet(rg.nodes[n].edges) : e.to = edge[2] /\ ~e.transfer}
        along == SelectSeq(suffixes, LAMBDA n : Own(n) # {})
    IN [i \in DOMAIN along |-> (CHOOSE e \in Own(along[i]) : TRUE).target]
       \o IF edge \in DOMAIN rg.start THEN <<rg.start[edge]>> ELSE <<>>

\* add_suffix_transfer: where the suffix goes and the path does not, unless that is
\* restricted there anyway.
AddTransfers(rg, at, suffix) ==
    LET Forbidden(to) == \E r \in ToSet(rg.nodes[at].restrictions) : ~r.conditional /\ Restricts(r, to)
        Add(g, e) == IF e.transfer \/ Forbidden(e.to) \/ e.to \in Targets(g, at) THEN g
                     ELSE insertEdge(g, at, e.to, e.target, TRUE)
    IN IterateOver(Add, rg, rg.nodes[suffix].edges)

\* A slip no specification uses: the restrictions of the suffixes are not taken over.
TransfersOnly(b, edge) ==
    LET at == NextNode(b.rg, b.at, edge[2])
        suffixes == NextSuffixes(b.rg, b.suffixes, edge)
    IN [at |-> at, suffixes |-> suffixes,
        rg |-> IterateOver(LAMBDA g, s : AddTransfers(g, at, s), b.rg, suffixes)]

\* All the transfers, and then all the restrictions, of the suffixes.
TransferNext(b, edge) ==
    LET Transfers(at, suffixes) == IterateOver(LAMBDA g, s : AddTransfers(g, at, s), b.rg, suffixes)
        Inherit(at, g, s) == InsertRestrictions(g, at, g.nodes[s].restrictions)
        Arrive(at, suffixes) ==
            [at |-> at, suffixes |-> suffixes,
             rg |-> IterateOver(LAMBDA g, s : Inherit(at, g, s), Transfers(at, suffixes), suffixes)]
    IN Arrive(NextNode(b.rg, b.at, edge[2]), NextSuffixes(b.rg, b.suffixes, edge))

AddTransfersOf(rg, r) ==
    IterateOver(TransferNext, [rg |-> rg, at |-> rg.start[<<r.from, r.via[1]>>], suffixes |-> <<>>], ViaEdges(r)).rg

-----------------------------------------------------------------------------

\* Via nodes to the front, so that they number the duplicated edge-based nodes from 0;
\* the code leaves their order open.
Renumbered(rg) ==
    LET vias == {v[2] : v \in rg.via}
        New(n) == IF n \in vias THEN Cardinality({v \in vias : v < n})
                  ELSE Cardinality(vias) + Cardinality({m \in 1..n - 1 : m \notin vias})
        Moved(n) == [n EXCEPT !.edges = [i \in DOMAIN @ |-> [@[i] EXCEPT !.target = New(@)]]]
    IN [nodes |-> [i \in {New(n) : n \in DOMAIN rg.nodes} |->
                      Moved(rg.nodes[CHOOSE n \in DOMAIN rg.nodes : New(n) = i])],
        start |-> [e \in DOMAIN rg.start |-> New(rg.start[e])],
        via |-> {<<v[1], New(v[2])>> : v \in rg.via}, vias |-> Cardinality(vias)]

constructRestrictionGraph(restrictions) ==
    LET trees == IterateOver(AddPath, EmptyGraph, restrictions)
        full == IterateOver(AddTransfersOf, trees, restrictions)
    IN Computed(Renumbered(full))

-----------------------------------------------------------------------------
(* NodeRestrictionMap and WayRestrictionMap.                                  *)

\* The restrictions at the end of an edge that begin with it.
NodeRestrictions(rg, from, via, conditional) ==
    IF <<from, via>> \notin DOMAIN rg.start THEN {}
    ELSE {r \in ToSet(rg.nodes[rg.start[<<from, via>>]].restrictions) : r.conditional = conditional}

Duplicates(rg, from, via) == {v[2] : v \in {x \in rg.via : x[1] = <<from, via>>}}

\* GetRestrictions of a duplicate
WayRestrictions(rg, duplicate, to) == {r \in ToSet(rg.nodes[duplicate].restrictions) : Restricts(r, to)}

\* RemapIfRestrictionVia: the duplicate that the turn leads to, if it is on a path.
RemapIfRestrictionVia(rg, node, n, to, duplicatesFrom) ==
    IF to \in Targets(rg, n) THEN duplicatesFrom + NextNode(rg, n, to) ELSE node

RemapIfRestrictionStart(rg, node, from, via, to, duplicatesFrom) ==
    IF <<from, via>> \in DOMAIN rg.start
    THEN RemapIfRestrictionVia(rg, node, rg.start[<<from, via>>], to, duplicatesFrom) ELSE node
=============================================================================
