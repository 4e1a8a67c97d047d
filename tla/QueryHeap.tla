------------------------------ MODULE QueryHeap ------------------------------
(* The heap of a Dijkstra search (util::QueryHeap) and what the searches of   *)
(* every algorithm put into it (routing_base): what was inserted, with weight *)
(* and parent, and what is still queued.                                      *)
(* A phantom maps the directions "forward" and "reverse" of its street that   *)
(* may be used to [node, offset]: a node of the edge-based graph and the      *)
(* weight of the street up to the phantom.  A waypoint is a list of phantoms. *)
EXTENDS Iteration, FiniteSets, FiniteSetsExt, SequencesExt

Invalid == 1000            \* INVALID_EDGE_WEIGHT, and the priority of what is never contracted

EmptyHeap(nodes) ==
    [weight |-> [n \in nodes |-> Invalid], parent |-> [n \in nodes |-> n], queue |-> {}]

WasInserted(h, n) == h.weight[n] < Invalid

InsertNode(h, n, w, parent) ==
    [h EXCEPT !.weight[n] = w, !.parent[n] = parent, !.queue = @ \cup {n}]

MinNode(h) == CHOOSE n \in h.queue : \A m \in h.queue : h.weight[n] <= h.weight[m]
MinKey(h)  == h.weight[MinNode(h)]

\* The ends of phantoms are their own parents; the source counts from its offset
\* backwards (sign -1), the target up to it.
InsertEnds(heap, ends, sign) ==
    FoldSet(LAMBDA p, h : InsertNode(h, p.node, sign * p.offset, p.node), heap, ends)

ParentsUp(h, n) ==      \* retrievePackedPathFromSingleHeap
    LET Up(p, i) == IF h.parent[Last(p)] = Last(p) THEN p ELSE Append(p, h.parent[Last(p)])
    IN Iterate(Up, <<n>>, Cardinality(DOMAIN h.parent))

-----------------------------------------------------------------------------

Ends(candidates) == UNION {{p[d] : d \in DOMAIN p} : p \in ToSet(candidates)}
EndNodes(candidates) == {e.node : e \in Ends(candidates)}

\* Streets the route has to leave and come back to: the target lies behind the source.
LoopNodes(sources, targets, d) ==
    {s[d].node : s \in {p \in ToSet(sources) :
        d \in DOMAIN p /\ \E t \in ToSet(targets) :
            d \in DOMAIN t /\ t[d].node = p[d].node /\ p[d].offset > t[d].offset}}

\* If loops are forced, they are so at the source.
ForceLoop(loopNodes, h, n) == n \in loopNodes /\ h.parent[n] = n
=============================================================================
