----------------------------- MODULE LawfulWalks -----------------------------
(* What a map allows, read off the map alone, and the edge-based graph        *)
(* against it: a walk is a sequence of street segments, its memory how far it *)
(* has come on the paths of the restrictions.                                 *)
EXTENDS Updater

\* The graph as osrm-extract leaves it.
Expanded == phase = "done" /\ files = <<>>

-----------------------------------------------------------------------------
(* Segments.                                                                  *)

Consecutive(way) == {<<way.nodes[i], way.nodes[i + 1]>> : i \in 1..Len(way.nodes) - 1}
Turned(pairs) == {<<p[2], p[1]>> : p \in pairs}

\* The weights of the ways that lead from a to b.
Weights(a, b) ==
    LET ways == ToSet(map.ways)
    IN IF ~({a, b} \subseteq map.nodes) THEN {}
       ELSE ({w.forward : w \in {x \in ways : <<a, b>> \in Consecutive(x)}}
             \cup {w.backward : w \in {x \in ways : <<b, a>> \in Consecutive(x)}}) \ {0}

Segment(a, b) == Weights(a, b) # {}
Beside(n) == {m \in map.nodes : Segment(n, m) \/ Segment(m, n)}

Signalled(a, b) ==
    \/ <<b, "all">> \in map.signals
    \/ <<b, "forward">> \in map.signals /\ \E w \in ToSet(map.ways) : <<a, b>> \in Consecutive(w)
    \/ <<b, "reverse">> \in map.signals /\ \E w \in ToSet(map.ways) : <<b, a>> \in Consecutive(w)

\* From the begin of a segment to the begin of the next.
Cost(a, b, c) ==
    Min(Weights(a, b)) + (IF Signalled(a, b) THEN SignalPenalty ELSE 0) + (IF a = c THEN UTurnPenalty ELSE 0)

-----------------------------------------------------------------------------
(* Restrictions as paths of nodes.                                            *)

WayOf(id) == (CHOOSE w \in ToSet(map.ways) : w.id = id).nodes
BothWays(id) == {WayOf(id), Reverse(WayOf(id))}

\* The nodes of the ways in between, in the direction in which they hang together.
Chains(ways) ==
    LET Longer(chain, id) == {chain \o Tail(w) : w \in {x \in BothWays(id) : x[1] = Last(chain)}}
    IN IterateOver(LAMBDA chains, id : UNION {Longer(c, id) : c \in chains}, BothWays(Head(ways)), Tail(ways))

\* From the way it comes from to the way it goes to; void if it cannot be driven.
PathsOf(r) ==
    LET middles == IF r.ways = <<>> THEN {<<r.node>>} ELSE Chains(r.ways)
        Before(n) == {w[Len(w) - 1] : w \in {x \in BothWays(r.from) : Last(x) = n}}
        After(n) == {w[2] : w \in {x \in BothWays(r.to) : x[1] = n}}
        whole == UNION {{<<a>> \o m \o <<b>> : a \in Before(m[1]), b \in After(Last(m))} : m \in middles}
    IN {p \in whole : \A i \in 1..Len(p) - 1 : Segment(p[i], p[i + 1])}

Laws == UNION {{[path |-> p, only |-> r.only, conditional |-> r.conditional] : p \in PathsOf(r)} :
               r \in ToSet(map.restrictions)}

\* A place of a walk: the segment it is on, and the laws with the nodes it has passed of each.
On(a, b, passed) == [a |-> a, b |-> b, passed |-> passed]
Begun(a, b, laws) == {<<l, 2>> : l \in {x \in laws : x.path[1] = a /\ x.path[2] = b}}

Further(at, c, laws) ==
    On(at.b, c, {<<p[1], p[2] + 1>> : p \in {q \in at.passed : q[1].path[q[2] + 1] = c /\ q[2] + 1 < Len(q[1].path)}}
                \cup Begun(at.b, c, laws))

Closes(l, c) == IF l.only THEN Last(l.path) # c ELSE Last(l.path) = c
ClosedBy(at, c) == {p[1] : p \in {q \in at.passed : q[2] = Len(q[1].path) - 1 /\ Closes(q[1], c)}}

\* A way back is open at a barrier, at a dead end, and where there is no other one.
MayTurnBack(at) ==
    LET here == {p[1] : p \in {q \in at.passed : Len(q[1].path) = 3 /\ ~q[1].conditional}}
        exits == {c \in Beside(at.b) : Segment(at.b, c) /\ ~\E l \in here : Closes(l, c)}
    IN \/ Cardinality(Beside(at.b)) = 1 \/ Cardinality(exits) = 1
       \/ Cardinality({a \in Beside(at.b) : Segment(a, at.b)}) <= 1

\* The segments that may follow; `enforced` are the laws that are obeyed.
Lawful(at, enforced) ==
    {c \in Beside(at.b) :
        /\ Segment(at.b, c)
        /\ ClosedBy(at, c) \cap enforced = {}
        /\ IF at.b \in map.barriers THEN c = at.a ELSE c = at.a => MayTurnBack(at)}

-----------------------------------------------------------------------------
(* The edge-based graph beside it.                                            *)

\* The nodes of the map along an edge-based node.
Course(used, n) ==
    LET id == ebg.nodes[n].edge
        bucket == g.buckets[id]
        passed == SelectSeq([i \in DOMAIN bucket |-> IF i > 1 /\ bucket[i].node = bucket[i - 1].node THEN Special
                                                     ELSE bucket[i].node], LAMBDA x : x # Special)
    IN <<used[id[1] + 1]>> \o [i \in DOMAIN passed |-> used[passed[i] + 1]]

\* Both graphs side by side: a node and the place at its last segment.
Along(course, at, laws) == Iterate(LAMBDA x, i : Further(x, course[i + 2], laws), at, Len(course) - 2)
Entered(course, laws) == On(course[1], course[2], Begun(course[1], course[2], laws))

\* Inside of a node there is one way to go on at every place.
NoChoiceInside(course, at, laws, enforced) ==
    \A i \in 0..Len(course) - 3 :
        Lawful(Along(SubSeq(course, 1, i + 2), at, laws), enforced) = {course[i + 3]}

LeftOf(course, c) ==
    FoldSet(LAMBDA i, sum : sum + Cost(course[i], course[i + 1], IF i + 2 <= Len(course) THEN course[i + 2] ELSE c),
            0, 1..Len(course) - 1)

\* The turns out of a node that are open.
Out(n, conditionals) == {i \in DOMAIN ebg.edges : ebg.edges[i].source = n} \ conditionals

SameTurns(courses, pair, laws, enforced, conditionals) ==
    LET n == pair[1]
        at == pair[2]
        turns == {ebg.edges[i] : i \in Out(n, conditionals)}
    IN /\ {courses[t.target][2] : t \in turns} = Lawful(at, enforced)
       /\ \A t \in turns : /\ courses[t.target][1] = at.b
                           /\ t.weight = LeftOf(courses[n], courses[t.target][2])
                           /\ NoChoiceInside(courses[t.target], Further(at, courses[t.target][2], laws), laws, enforced)

Followed(courses, pair, laws, conditionals) ==
    {<<ebg.edges[i].target,
       Along(courses[ebg.edges[i].target], Further(pair[2], courses[ebg.edges[i].target][2], laws), laws)>> :
        i \in Out(pair[1], conditionals)}

\* All pairs that walks from the nodes that are no copies come to.
Paired(courses, laws, conditionals) ==
    LET start == {<<n, Along(courses[n], Entered(courses[n], laws), laws)>> : n \in 0..ebg.first - 1}
        Grow(r) == LET fresh == UNION {Followed(courses, p, laws, conditionals) : p \in r.fresh} \ r.all
                   IN [all |-> r.all \cup fresh, fresh |-> fresh]
    IN Iterate(LAMBDA r, i : IF r.fresh = {} THEN r ELSE Grow(r), [all |-> start, fresh |-> start], ebg.count + 1).all

WalksAgree(courses, laws, enforced, conditionals) ==
    \A pair \in Paired(courses, laws, conditionals) : SameTurns(courses, pair, laws, enforced, conditionals)

\* The walks of the edge-based graph are the lawful walks of the map, at the same cost,
\* with the conditional restrictions switched off and with their turns taken out.
RestrictionsExact ==
    Expanded =>
        \A laws \in {Laws}, used \in {UsedNodes(map, Collected(map).ways)} :
            \A courses \in {[n \in 0..ebg.count - 1 |-> Course(used, n)]} :
                /\ WalksAgree(courses, laws, {l \in laws : ~l.conditional}, {})
                /\ WalksAgree(courses, laws, laws, ebg.conditionals)

-----------------------------------------------------------------------------
(* Geometries and components.                                                 *)

\* What stands at a place of a geometry for a street driven from node a to node b, after
\* `before`: the weight of the segment, or the penalty of the signal at both.
Stands(before, a, b) ==
    IF a # b THEN Min(Weights(a, b))
    ELSE IF Signalled(before, a) THEN SignalPenalty ELSE 0

\* The list of a geometry seen in one direction: the nodes of the map and the weights.
Seen(used, z) ==
    [nodes |-> [i \in DOMAIN z |-> used[z[i].node + 1]], weights |-> [i \in 1..Len(z) - 1 |-> z[i + 1].forward]]
SeenBack(used, z) ==
    [nodes |-> [i \in DOMAIN z |-> used[z[Len(z) + 1 - i].node + 1]],
     weights |-> [i \in 1..Len(z) - 1 |-> z[Len(z) - i].reverse]]

Fits(seen, edge) ==
    /\ \A i \in DOMAIN seen.weights :
          seen.weights[i] = Stands(seen.nodes[Max({1, i - 1})], seen.nodes[i], seen.nodes[i + 1])
    /\ edge.weight = FoldSet(LAMBDA i, sum : sum + seen.weights[i], 0, DOMAIN seen.weights)

\* Where a segment can be driven it is in one geometry and in that direction.
Covered(seen) == {<<seen.nodes[i], seen.nodes[i + 1]>> : i \in DOMAIN seen.weights}

\* A segment that can be snapped to has its nodes at its place in the geometry of its node.
InPlace(segment) ==
    LET id == ebg.nodes[segment.forward].edge
        z == geometries[<<id[1], g.edges[id].target>>]
        back == ~(<<id[1], g.edges[id].target>> \in DOMAIN geometries)
        y == geometries[<<g.edges[id].target, id[1]>>]
    IN IF back THEN y[Len(y) + 1 - segment.at].node = segment.u /\ y[Len(y) - segment.at].node = segment.v
       ELSE z[segment.at].node = segment.u /\ z[segment.at + 1].node = segment.v

\* The lists lie one behind the other, and the packed weights have words for all of them.
ListsLaidOut(data) ==
    LET count == Cardinality(DOMAIN data.ids)
    IN /\ count \in Nat
       /\ data.index \in [0..count -> Nat]
       /\ \A i \in 1..count : data.index[i - 1] <= data.index[i]
       /\ Len(data.nodes) = data.index[count]
       /\ \A words \in {data.forward, data.reverse} :
              /\ words \in [DOMAIN words -> Nat]
              /\ \A p \in 0..Len(data.nodes) - 1 :
                     LET word == get_internal_index(p).lower_word IN {word, word + 1} \subseteq DOMAIN words

\* The weights of a compressed edge are those of the street segments and signals it
\* passes, in both directions and at the places that its segments name.
GeometriesFit ==
    Expanded =>
        \A used \in {UsedNodes(map, Collected(map).ways)} :
            /\ ListsLaidOut(ToSegmentData)
            /\ \A p \in DOMAIN geometries :
                  LET back == g.edges[FindEdge(g, p[2], p[1])]
                  IN /\ Fits(Seen(used, geometries[p]), g.edges[FindEdge(g, p[1], p[2])])
                     /\ back.reversed \/ Fits(SeenBack(used, geometries[p]), back)
            /\ \A s \in ebg.segments : InPlace(s)
            /\ \A a, b \in ToSet(used) :
                  Segment(a, b) =>
                      Cardinality({s \in ebg.segments :
                          /\ ~ebg.nodes[s.forward].copy
                          /\ \/ used[s.u + 1] = a /\ used[s.v + 1] = b
                             \/ used[s.u + 1] = b /\ used[s.v + 1] = a /\ s.reverse # Special}) = 1

\* Two edge-based nodes have one component exactly if each can be reached from the other
\* (both directions of a street count as joined), and it is tiny by their number.
ComponentsExact ==
    Expanded =>
        LET nodes == 0..ebg.count - 1
            streets == {s \in ebg.segments : s.reverse # Special}
            arcs == {<<t.source, t.target>> : t \in ToSet(ebg.edges)}
                    \cup UNION {{<<s.forward, s.reverse>>, <<s.reverse, s.forward>>} : s \in streets}
            Beyond(r) == Computed([n \in nodes |-> r[n] \cup UNION {r[p[2]] : p \in {q \in arcs : q[1] = n}}])
        IN \A reached \in {Iterate(LAMBDA r, i : Beyond(r), [n \in nodes |-> {n}], ebg.count)} :
              \A n \in nodes :
                  LET own == {m \in nodes : m \in reached[n] /\ n \in reached[m]}
                  IN /\ \A m \in nodes : m \in own <=> ebg.components[n].id = ebg.components[m].id
                     /\ ebg.components[n].is_tiny <=> Cardinality(own) < SmallComponentSize

-----------------------------------------------------------------------------
(* After new traffic.                                                         *)

\* The lines of a key in the last file that names it.
InLastFile(csv, key) ==
    LET last == Max({f \in DOMAIN csv : key \in {l.key : l \in ToSet(csv[f])}})
    IN SelectSeq(csv[last], LAMBDA l : l.key = key)
KeysOf(csv) == UNION {{l.key : l \in ToSet(csv[f])} : f \in DOMAIN csv}

\* The tables that have for each key the value of one of these lines, and of the last one.
LastNamed(csv) ==
    LET Values(key) == {l.value : l \in ToSet(InLastFile(csv, key))}
    IN {said \in [KeysOf(csv) -> UNION {Values(k) : k \in KeysOf(csv)}] : \A k \in KeysOf(csv) : said[k] \in Values(k)}
LastLines(csv) == [key \in KeysOf(csv) |-> Last(InLastFile(csv, key)).value]

\* What a line makes of a weight.
Said(weight, value) ==
    IF value = Blank THEN weight ELSE IF value = Stopped THEN InvalidSegmentWeight
    ELSE IF value > MaxSegmentWeight THEN MaxSegmentWeight ELSE Max({1, value})

\* The weights of the named segments after runs with the tables `said`.
WeightAfter(a, b, said) ==
    IterateOver(LAMBDA w, table : IF <<a, b>> \in DOMAIN table THEN Said(w, table[<<a, b>>]) ELSE w,
                Min(Weights(a, b)), said)

\* The weights along a course: its segments and the signals inside.
StreetAfter(course, said) ==
    LET weights == [i \in 1..Len(course) - 1 |-> WeightAfter(course[i], course[i + 1], said)]
        signals == {i \in 2..Len(course) - 1 : Signalled(course[i - 1], course[i])}
    IN IF InvalidSegmentWeight \in ToSet(weights) THEN InvalidEdgeWeight
       ELSE FoldSet(LAMBDA i, sum : sum + weights[i], 0, DOMAIN weights) + SignalPenalty * Cardinality(signals)

\* The nodes of its geometry: one more at a signal inside, in whichever direction.
NodesOf(course) ==
    Len(course) + Cardinality({i \in 2..Len(course) - 1 :
                                  Signalled(course[i - 1], course[i]) \/ Signalled(course[i + 1], course[i])})

\* The turn at the end of a course towards c, and its penalty in the map.
Towards(course, c) == <<course[Len(course) - 1], Last(course), c>>
PenaltyOf(course, c) ==
    (IF Signalled(course[Len(course) - 1], Last(course)) THEN SignalPenalty ELSE 0)
    + (IF course[Len(course) - 1] = c THEN UTurnPenalty ELSE 0)

\* Not less than one for every node; a penalty that is not negative comes on top.
AtLeast(nodes, street, penalty) ==
    IF street = InvalidEdgeWeight THEN street
    ELSE IF street + penalty >= nodes THEN street + penalty
    ELSE IF penalty < 0 THEN nodes ELSE nodes + penalty

\* Whether a run with the table `said` names a street, with `turns` one of its turns, or
\* closes one.
Renews(run, said, turns, courses, street) ==
    \/ \E i \in 1..Len(street) - 1 : <<street[i], street[i + 1]>> \in DOMAIN said
    \/ \E j \in DOMAIN ebg.edges :
          /\ courses[ebg.edges[j].source] = street
          /\ j \in run.valid \/ Towards(street, courses[ebg.edges[j].target][2]) \in DOMAIN turns

\* The penalty of edge i that a run works with, and the one it leaves: a negative one is
\* raised so far that the street weighs its nodes.
Charged(run, turns, i, turn, before) ==
    IF i \in run.valid THEN InvalidTurnPenalty ELSE IF turn \in DOMAIN turns THEN turns[turn] ELSE before
Raised(nodes, street, penalty) ==
    IF street # InvalidEdgeWeight /\ penalty < 0 /\ street + penalty < nodes THEN nodes - street ELSE penalty

\* What the runs, with the tables `said` and `turns` of each, make of every edge.  The
\* last run weighs the streets that it renews: segments as the lines of all runs leave
\* them, turns as the runs that write penalties leave them.  Every other edge is as
\* extracted, whatever earlier runs made of it.
Weighed(runs, said, turns) ==
    \A courses \in {[n \in 0..ebg.count - 1 |-> Course(files.osm_node_ids, n)]} :
    \A i \in DOMAIN ebg.edges :
        LET street == courses[ebg.edges[i].source]
            into == courses[ebg.edges[i].target][2]
            nodes == NodesOf(street)
            Weight(k) == StreetAfter(street, SubSeq(said, 1, k))
            Renewed(k) == Renews(runs[k], said[k], turns[k], courses, street)
            Charge(k, before) == Charged(runs[k], turns[k], i, Towards(street, into), before)
            Leaves(k, before) ==
                IF runs[k].turns = <<>> /\ ~runs[k].now THEN before
                ELSE IF Renewed(k) THEN Raised(nodes, Weight(k), Charge(k, before))
                ELSE Charge(k, before)
            Left(k) == Iterate(LAMBDA before, j : Leaves(j, before), PenaltyOf(street, into), k)
            last == Len(runs)
        IN /\ files.penalties[i] = Left(last)
           /\ IF Renewed(last)
              THEN /\ update.result.weights[i] = AtLeast(nodes, Weight(last), Charge(last, Left(last - 1)))
                   /\ update.result.node_weights[ebg.edges[i].source] = Weight(last)
              ELSE /\ update.result.weights[i] = StreetAfter(street, <<>>) + PenaltyOf(street, into)
                   /\ update.result.node_weights[ebg.edges[i].source] = StreetAfter(street, <<>>)

\* After the last of the runs so far.
RunsDone == files # <<>> /\ update.stage = "idle" /\ update.runs # <<>>

\* Sequences with one element out of each set.
Picks(sets) == IterateOver(LAMBDA all, set : {Append(t, e) : t \in all, e \in set}, {<<>>}, sets)

\* A run of osrm-customize or osrm-contract weighs exactly the streets that its own lines
\* and open conditionals name, copies included, from what all runs before it have left in
\* the files; of several lines of a key in the last file that names it one counts.
UpdatesExact ==
    RunsDone =>
        LET runs == update.runs
        IN \E said \in Picks([k \in DOMAIN runs |-> LastNamed(runs[k].segments)]),
              turns \in Picks([k \in DOMAIN runs |-> LastNamed(runs[k].turns)]) :
              Weighed(runs, said, turns)

\* The comment over the sort (csv_file_parser.hpp:60-62): the value that is kept of a key
\* is the one "with the largest file index and the largest line number in a file".
LastLineKept ==
    RunsDone =>
        LET runs == update.runs
        IN Weighed(runs, [k \in DOMAIN runs |-> LastLines(runs[k].segments)],
                         [k \in DOMAIN runs |-> LastLines(runs[k].turns)])

\* While tasks write side by side every weight that is not just being written is the one
\* of the line that names it, if its turn has come, and the one of the file, if not.
NoWriteLost ==
    (files # <<>> /\ update.stage = "segments" /\ update.tasks # <<>>) =>
        LET tasks == {update.tasks[k] : k \in DOMAIN update.tasks}
            ahead == UNION {ToSet(t.todo) : t \in tasks}
            Waiting(u) == u.id \in ahead \/ \E t \in tasks : u \in ToSet(t.updates)
            InHand(u) == \E t \in tasks : t.setting /\ u = Head(t.updates)
            Old(forward, p) == Value(files.geometry, forward, p)
        IN \A named \in {UNION {ToSet(UpdatesOf(files.geometry, id, update.lookup)) : id \in 0..Cardinality(DOMAIN files.geometry.ids) - 1}} :
              /\ \A u \in named :
                    \/ InHand(u)
                    \/ Value(update.data, u.forward, u.place)
                         = IF Waiting(u) THEN Old(u.forward, u.place) ELSE Said(Old(u.forward, u.place), u.value)
              /\ \A p \in 0..Len(files.geometry.nodes) - 1, forward \in BOOLEAN :
                    \/ \E u \in named : u.place = p /\ u.forward = forward
                    \/ Value(update.data, forward, p) = Old(forward, p)
=============================================================================
