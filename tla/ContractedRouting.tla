-------------------------- MODULE ContractedRouting --------------------------
(* Queries on a contracted graph (routing_algorithms/*_ch): the bidirectional *)
(* search with stalling and loops, the packed path, its unpacking, and the    *)
(* buckets of the table service; and what they and the contraction promise.   *)
(* q is the set of edges of the query graph that one filter shows.  A phantom *)
(* is a set of [node, offset], one per direction of its street; GetForward-   *)
(* WeightPlusOffset is the offset.                                            *)
EXTENDS Contraction

QueryGraph(i) == {c.edge : c \in {d \in container : i \in d.filters}}

Leaving(q, n)  == {e \in q : e.source = n}
Along(e, dir)  == IF dir = "forward" THEN e.forward ELSE e.backward
Other(dir)     == IF dir = "forward" THEN "backward" ELSE "forward"

-----------------------------------------------------------------------------
(* The search on the query graph.                                             *)

InsertPhantom(phantom, sign) == InsertEnds(EmptyHeap(Nodes), phantom, sign)

\* A slip no specification uses: the first way to a node is kept.
RelaxNewNodes(q, h, n, dir) ==
    LET edges == {e \in Leaving(q, n) : Along(e, dir)}
        Relax(e, heap) ==
            IF ~WasInserted(heap, e.target)
            THEN InsertNode(heap, e.target, h.weight[n] + e.weight, n) ELSE heap
    IN FoldSet(Relax, h, edges)

RelaxOutgoingEdges(q, h, n, dir) ==
    LET edges == {e \in Leaving(q, n) : Along(e, dir)}
        Relax(e, heap) ==
            IF h.weight[n] + e.weight < heap.weight[e.target]
            THEN InsertNode(heap, e.target, h.weight[n] + e.weight, n) ELSE heap
    IN FoldSet(Relax, h, edges)

\* A node that is reached more cheaply from above is not on a shortest path.
StallAtNode(q, h, n, dir) ==
    \E e \in Leaving(q, n) :
        /\ Along(e, Other(dir)) /\ WasInserted(h, e.target)
        /\ h.weight[e.target] + e.weight < h.weight[n]

\* At a node both searches reached: the meeting, or the cheapest loop if one is needed.
Meetings(q, n, total, dir, forced) ==
    IF forced \/ total < 0
    THEN {w \in {total + e.weight : e \in {d \in Leaving(q, n) : d.target = n /\ Along(d, dir)}} : w >= 0}
    ELSE {total}

\* One step of the search in direction dir; s.up is upper_bound.
RoutingStep(q, s, dir, minOffset, fwdLoops, bwdLoops) ==
    LET h == s[dir]
        o == s[Other(dir)]
        n == MinNode(h)
        popped == [h EXCEPT !.queue = @ \ {n}]
        met == IF ~WasInserted(o, n) \/ h.weight[n] + o.weight[n] >= s.up THEN {}
               ELSE Meetings(q, n, h.weight[n] + o.weight[n], dir,
                             ForceLoop(fwdLoops, h, n) \/ ForceLoop(bwdLoops, h, n))
        better == Min(met \cup {s.up}) < s.up
        up == Min(met \cup {s.up})
    IN IF h.queue = {} THEN s
       ELSE [s EXCEPT !.up = up, !.middle = IF better THEN n ELSE @,
                      ![dir] = IF h.weight[n] + minOffset > up THEN [h EXCEPT !.queue = {}]
                               ELSE IF StallAtNode(q, popped, n, dir) THEN popped
                               ELSE RelaxOutgoingEdges(q, popped, n, dir)]

\* Both heaps take turns until both are empty.
SearchHeaps(q, fwd, bwd, fwdLoops, bwdLoops) ==
    LET minOffset == Min({0, MinKey(fwd)})
        Turn(s, i) == RoutingStep(q, RoutingStep(q, s, "forward", minOffset, fwdLoops, bwdLoops),
                                  "backward", minOffset, bwdLoops, fwdLoops)
        start == [forward |-> fwd, backward |-> bwd, up |-> Invalid, middle |-> -1]
        end == Iterate(Turn, start, 2 * N)
        m == end.middle
    IN IF fwd.queue = {} \/ bwd.queue = {} \/ m = -1 THEN [weight |-> Invalid, path |-> <<>>]
       ELSE IF end.up # end.forward.weight[m] + end.backward.weight[m]
       THEN [weight |-> end.up, path |-> <<m, m>>]        \* the loop is the whole path
       ELSE [weight |-> end.up,
             path |-> Reverse(ParentsUp(end.forward, m)) \o Tail(ParentsUp(end.backward, m))]

DirectShortestPath(q, source, target) ==
    SearchHeaps(q, InsertPhantom(source, -1), InsertPhantom(target, 1), {}, {})

-----------------------------------------------------------------------------
(* Unpacking: a shortcut is replaced by its two halves until none is left.    *)

SmallestEdge(q, a, b, dir) ==
    LET fit == {e \in Leaving(q, a) : e.target = b /\ Along(e, dir)}
    IN IF fit = {} THEN {} ELSE {CHOOSE e \in fit : \A f \in fit : e.weight <= f.weight}

EdgeOf(q, a, b) ==
    LET up == SmallestEdge(q, a, b, "forward")
    IN IF up # {} THEN up ELSE SmallestEdge(q, b, a, "backward")

\* Each pass unpacks every shortcut of the path once; their nesting is below N.
UnpackPath(q, path) ==
    LET Halves(a, b) ==
            LET found == EdgeOf(q, a, b) IN
            IF found = {} THEN <<a>>
            ELSE LET e == CHOOSE f \in found : TRUE
                 IN IF e.shortcut THEN <<a, e.id>> ELSE <<a>>
        Once(p, i) == FlattenSeq([k \in 1..Len(p) - 1 |-> Halves(p[k], p[k + 1])]) \o <<Last(p)>>
    IN Iterate(Once, path, N)

-----------------------------------------------------------------------------
(* The table service: one exhaustive search per target fills the buckets,     *)
(* one per source reads them.                                                 *)

SettleAll(q, phantom, sign, dir) ==
    LET Step(h, i) ==
            IF h.queue = {} THEN h
            ELSE LET n == MinNode(h)
                     popped == [h EXCEPT !.queue = @ \ {n}]
                 IN IF StallAtNode(q, popped, n, dir) THEN popped
                    ELSE RelaxOutgoingEdges(q, popped, n, dir)
    IN Iterate(Step, InsertPhantom(phantom, sign), 2 * N)

\* A slip no specification uses: a negative meeting is dropped, loop or not.
NoLoopWeight(q, n, total) == {}

\* addLoopWeight: the smallest forward loop, if it lifts the weight to zero.
AddLoopWeight(q, n, total) ==
    LET loop == Lowest({e.weight : e \in {d \in Leaving(q, n) : d.target = n /\ d.forward}})
    IN IF loop < Invalid /\ total + loop >= 0 THEN {total + loop} ELSE {}

TableEntry(q, source, target) ==
    LET fwd == SettleAll(q, source, -1, "forward")
        bwd == SettleAll(q, target, 1, "backward")
        At(n) == LET w == fwd.weight[n] + bwd.weight[n]
                 IN IF w < 0 THEN AddLoopWeight(q, n, w) ELSE {w}
    IN Lowest(UNION {At(n) : n \in {m \in Nodes : WasInserted(fwd, m) /\ WasInserted(bwd, m)}})

-----------------------------------------------------------------------------
(* Reference: shortest paths by the definition.                               *)

TurnWeight(turns, S, s, t) ==
    IF {s, t} \subseteq S
    THEN Lowest({Max({turns[i].weight, 1}) : i \in {j \in Places(turns) :
                    \/ turns[j].forward  /\ turns[j].source = s /\ turns[j].target = t
                    \/ turns[j].backward /\ turns[j].source = t /\ turns[j].target = s}})
    ELSE Invalid

\* Walks of at least one edge through the nodes S.
Distances(turns, S) ==
    LET direct == [s, t \in Nodes |-> TurnWeight(turns, S, s, t)]
        Via(d, v) == [s, t \in Nodes |-> Min({d[s, t], d[s, v] + d[v, t]})]
    IN FoldLeft(Via, direct, [i \in 1..N |-> i - 1])

-----------------------------------------------------------------------------

\* Every round finds somebody to contract (the assertion at the end of the loop),
\* whatever ties there are: else the loop would never end.
RoundContracts == phase = "contract" => independent # {}

\* Between rounds the rest of the graph keeps every distance of the whole.
DistancesKept ==
    phase = "round" =>
    LET S    == IF pass = 0 THEN Nodes ELSE Filters[pass]
        ref  == Distances(input.turns, S)
        left == {toOld[n] : n \in core}
        g    == RenumberGraph(graph, toOld)
        turns == FlattenSeq([i \in 1..N |-> IF i - 1 \notin left THEN <<>> ELSE
                    [k \in Places(g[i - 1]) |-> [source |-> i - 1, target |-> g[i - 1][k].to,
                        weight |-> g[i - 1][k].weight, forward |-> g[i - 1][k].forward,
                        backward |-> g[i - 1][k].backward]]])
        now  == Distances(turns, left)
    IN \A s, t \in left \cap S : s # t => now[s, t] = Min({ref[s, t], Invalid})

\* The reference for one leg.
Expected(ref, s, t) ==
    IF s.node = t.node /\ s.offset <= t.offset THEN t.offset - s.offset
    ELSE IF ref[s.node, t.node] >= Invalid THEN Invalid
    ELSE ref[s.node, t.node] + t.offset - s.offset

\* A leg round a street: the target lies behind the source.
RoundTrip(s, t) == s.node = t.node /\ s.offset > t.offset

Legs == [node : Nodes, offset : {0, 1}]

\* A route has the weight of a shortest path.
RoutesShortest ==
    phase = "done" =>
    \A i \in Places(Filters) :
        LET ref == Distances(input.turns, Filters[i])
            q   == QueryGraph(i)
        IN \A s, t \in Legs : {s.node, t.node} \subseteq Filters[i] /\ ~RoundTrip(s, t) =>
               DirectShortestPath(q, {s}, {t}).weight = Expected(ref, s, t)

\* An unpacked route, loops included, runs over turns of the input from end to
\* end, they add up to its weight, and no cheaper turn was at hand.
RoutesUnpack ==
    phase = "done" =>
    \A i \in Places(Filters) :
        LET q == QueryGraph(i) IN
        \A s, t \in Legs :
            LET found == DirectShortestPath(q, {s}, {t})
                path  == UnpackPath(q, found.path)
                Step(k) == TurnWeight(input.turns, Filters[i], path[k], path[k + 1])
            IN {s.node, t.node} \subseteq Filters[i] /\ found.weight < Invalid =>
                   /\ Head(path) = s.node /\ Last(path) = t.node
                   /\ found.weight = t.offset - s.offset
                        + FoldLeft(LAMBDA sum, k : sum + Step(k), 0, [k \in 1..Len(path) - 1 |-> k])

\* The table service and the route service agree; a phantom on a two-way street has two ends.
TablesAgree ==
    phase = "done" =>
    \A i \in Places(Filters) :
        LET q == QueryGraph(i) IN
        \A n, m \in Filters[i] :
            LET s == {[node |-> n, offset |-> 1]}
                t == {[node |-> m, offset |-> 0], [node |-> Max(Filters[i]), offset |-> 1]}
            IN TableEntry(q, s, t) = DirectShortestPath(q, s, t).weight
=============================================================================
