------------------------------ MODULE Components ------------------------------
(* Strongly connected components as TarjanSCC::Run finds them: the recursion  *)
(* is a stack of frames <<node, parent>>, a node is entered on its first      *)
(* frame and left on its second.  osrm-extract marks the small components of  *)
(* the edge-based graph with it, osrm-partition separates the components of   *)
(* the node-based graph.                                                      *)
EXTENDS Iteration, FiniteSets, FiniteSetsExt, SequencesExt

Unseen == -1

TarjanStart(nodes) ==
    [frames |-> <<>>, stack |-> <<>>, next |-> 0, sizes |-> <<>>,
     index |-> [n \in nodes |-> Unseen], low |-> [n \in nodes |-> Unseen],
     before |-> [n \in nodes |-> TRUE], component |-> [n \in nodes |-> Unseen]]

OnStack(s, n) == n \in ToSet(s.stack)

\* First visit: an index, the reach back into the stack, a frame for every new neighbour.
EnterNode(targets, s, v, parent) ==
    LET fresh == SelectSeq(targets[v], LAMBDA w : w # v /\ s.index[w] = Unseen)
        back  == {s.index[w] : w \in {x \in ToSet(targets[v]) : OnStack(s, x)}}
    IN [s EXCEPT !.frames = Front(@) \o <<<<v, parent>>>> \o [i \in DOMAIN fresh |-> <<fresh[i], v>>],
                 !.before[v] = FALSE,
                 !.index[v] = s.next, !.low[v] = Min(back \cup {s.next}),
                 !.stack = Append(@, v), !.next = @ + 1]

\* A slip no specification uses: the tail of the recursion does not hand its low link to the parent.
LeaveAlone(s, v, parent) ==
    LET popped == [s EXCEPT !.frames = Front(@), !.before[v] = TRUE]
        at == CHOOSE i \in DOMAIN s.stack : s.stack[i] = v
        top == ToSet(SubSeq(s.stack, at, Len(s.stack)))
    IN IF popped.low[v] # popped.index[v] THEN popped
       ELSE [popped EXCEPT !.stack = SubSeq(@, 1, at - 1),
                           !.component = [n \in DOMAIN @ |-> IF n \in top THEN Len(s.sizes) ELSE @[n]],
                           !.sizes = Append(@, Cardinality(top))]

\* After the recursion: a node that reaches nothing before it closes its component.
LeaveNode(s, v, parent) ==
    LET popped == [s EXCEPT !.frames = Front(@), !.before[v] = TRUE,
                            !.low[parent] = Min({@, s.low[v]})]
        at == CHOOSE i \in DOMAIN s.stack : s.stack[i] = v
        top == ToSet(SubSeq(s.stack, at, Len(s.stack)))
    IN IF popped.low[v] # popped.index[v] THEN popped
       ELSE [popped EXCEPT !.stack = SubSeq(@, 1, at - 1),
                           !.component = [n \in DOMAIN @ |-> IF n \in top THEN Len(s.sizes) ELSE @[n]],
                           !.sizes = Append(@, Cardinality(top))]

TarjanStep(targets, s) ==
    IF s.frames = <<>> THEN s
    ELSE LET v == Last(s.frames)[1]
             parent == Last(s.frames)[2]
         IN IF ~s.before[v] THEN LeaveNode(s, v, parent)
            ELSE IF s.index[v] # Unseen THEN [s EXCEPT !.frames = Front(@)]
            ELSE EnterNode(targets, s, v, parent)

\* Nodes are 0 .. count-1, targets their adjacency lists; one frame for every
\* node and edge, and one more for every node that is left, is a bound.
Tarjan(count, targets) ==
    LET nodes == 0..count - 1
        steps == 2 * count + FoldSet(LAMBDA n, sum : sum + Len(targets[n]), 0, nodes)
        From(s, n) == IF s.component[n] # Unseen THEN s
                      ELSE Iterate(LAMBDA r, i : TarjanStep(targets, r),
                                   [s EXCEPT !.frames = <<<<n, n>>>>], steps)
    IN Iterate(LAMBDA s, i : From(s, i - 1), TarjanStart(nodes), count)

GetComponentID(scc, n)   == scc.component[n]
GetComponentSize(scc, c) == scc.sizes[c + 1]
=============================================================================
