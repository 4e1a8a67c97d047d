----------------------------- MODULE MapMatching -----------------------------
(* Snapping a trace to the roads (match.cpp, match_parameters_tidy.hpp,       *)
(* map_matching.cpp, hidden_markov_model.hpp): thinning the trace, choosing   *)
(* the candidates, the Viterbi algorithm with its breakages and splits, and   *)
(* the reconstruction of the sub-matchings.                                   *)
(* Log probabilities are whole numbers without the constants all candidates   *)
(* of a point share. Points of the trace count from 1, and neighbours differ  *)
(* along one axis.                                                            *)
EXTENDS Plugins

CONSTANTS MAX_BROKEN_STATES, MAX_DISTANCE_DELTA, MaxSpeed, WeightMultiplier,
          EmissionScale,                       \* how the two kinds of probability weigh
          TidyDistance, TidyDuration           \* thresholds below which a point is dropped

VARIABLE model                                 \* the Viterbi computation under way

IMPOSSIBLE_LOG_PROB == -1000000
INVALID_STATE == 1000

-----------------------------------------------------------------------------
(* tidy and keep_all: points too close to the last one kept are dropped; a    *)
(* waypoint among them moves to that point. (When the first coordinate is no  *)
(* waypoint, tidy may read the last element of an empty vector: such requests *)
(* are left out.)                                                             *)

KeptPoints(request) ==
    LET last == Len(request.coordinates)
        TimeTo(i) == IF request.timestamps = <<>> THEN 0 ELSE request.timestamps[i] - request.timestamps[i - 1]
        Walk(s, k) ==
            LET i == k + 1
                distance == s.distance + Length(request.coordinates[i - 1], request.coordinates[i])
                duration == s.duration + TimeTo(i)
            IN IF distance >= TidyDistance /\ (request.timestamps = <<>> \/ duration >= TidyDuration)
               THEN [kept |-> s.kept \union {i}, distance |-> 0, duration |-> 0]
               ELSE [s EXCEPT !.distance = distance, !.duration = duration]
    IN Iterate(Walk, [kept |-> {1}, distance |-> 0, duration |-> 0], last - 2).kept \union {last}

KeptOf(list, kept) == IF list = <<>> THEN <<>> ELSE LET order == SetToSortSeq(kept, <) IN [k \in DOMAIN order |-> list[order[k]]]

Tidied(request) ==
    LET kept == IF request.tidy THEN KeptPoints(request) ELSE DOMAIN request.coordinates
        \* The index, from 0, of the last point kept up to point i.
        Representative(i) == Cardinality({k \in kept : k <= i}) - 1
        Move(list, waypoint) ==
            IF list # <<>> /\ Last(list) = Representative(waypoint + 1) THEN list
            ELSE Append(list, Representative(waypoint + 1))
    IN [request EXCEPT !.coordinates = KeptOf(@, kept), !.radiuses = KeptOf(@, kept), !.bearings = KeptOf(@, kept),
                       !.timestamps = KeptOf(@, kept), !.approaches = <<>>,
                       !.waypoints = FoldLeft(Move, <<>>, SetToSortSeq({@[k] : k \in DOMAIN @}, <))]

-----------------------------------------------------------------------------
(* filterCandidates.                                                          *)

\* computeAngle, between ways along the axes.
computeAngle(p, q, r) ==
    LET Angle(v) == CASE v[1] > q[1] -> 0 [] v[2] > q[2] -> 90 [] v[1] < q[1] -> 180 [] OTHER -> 270
    IN IF p = q \/ q = r THEN 180 ELSE (Angle(r) - Angle(p)) % 360

AllowsUturn(trace, t) ==
    /\ t \in 2..Len(trace) - 1
    /\ \/ computeAngle(trace[t - 1], trace[t], trace[t + 1]) <= 45
       \/ computeAngle(trace[t - 1], trace[t], trace[t + 1]) >= 315

\* The candidates of a point: the nearest phantom of each edge, a two-way one
\* split in its directions unless the trace turns back there; by distance.
filterCandidates(trace, t, list) ==
    LET SameEdge(p, q) == p.forward.id = q.forward.id /\ p.reverse.id = q.reverse.id
        ById(p, q) ==
            \/ p.forward.id < q.forward.id
            \/ p.forward.id = q.forward.id /\ \/ p.reverse.id < q.reverse.id
                                              \/ p.reverse.id = q.reverse.id /\ p.distance < q.distance
        sorted == SortSeq(list, ById)
        unique == SelectSeq([k \in DOMAIN sorted |-> [k |-> k, p |-> sorted[k]]],
                            LAMBDA e : e.k = 1 \/ ~SameEdge(sorted[e.k - 1], e.p))
        compact == [k \in DOMAIN unique |-> unique[k].p]
        TwoWay(p) == p.forward.enabled /\ p.reverse.enabled
        ahead == [k \in DOMAIN compact |->
                     IF TwoWay(compact[k]) THEN [compact[k] EXCEPT !.reverse.enabled = FALSE] ELSE compact[k]]
        back == [k \in DOMAIN SelectSeq(compact, TwoWay) |->
                    [SelectSeq(compact, TwoWay)[k] EXCEPT !.forward.enabled = FALSE]]
    IN SortSeq(IF AllowsUturn(trace, t) THEN compact ELSE ahead \o back, LAMBDA p, q : p.distance < q.distance)

-----------------------------------------------------------------------------
(* The hidden Markov model: what the coordinates allow.                       *)

\* Emission: the farther the candidate in units of the precision, the less probable.
Emission(m, t, s) ==
    LET radius == Nth(m.request.radiuses, t, Unset)
        precision == IF radius = Unset THEN DEFAULT_GPS_PRECISION ELSE radius
    IN -((m.candidates[t][s].distance * EmissionScale) \div (precision * precision))

UsesTimestamps(m) == Len(m.request.timestamps) > 1

StepTime(m, from, to) == IF UsesTimestamps(m) THEN m.request.timestamps[to] - m.request.timestamps[from] ELSE 1

MaxDistanceDelta(m, from, to) == IF UsesTimestamps(m) THEN StepTime(m, from, to) * MaxSpeed ELSE MAX_DISTANCE_DELTA

\* getMedianSampleTime: the element in the middle of the sorted differences.
MedianSampleTime(m) ==
    LET steps == SortSeq([i \in 1..Len(m.request.timestamps) - 1 |-> StepTime(m, i, i + 1)], <)
    IN steps[Len(steps) \div 2 + 1]

MaxBrokenTime(m) == (IF UsesTimestamps(m) THEN Max({1, MedianSampleTime(m)}) ELSE 1) * MAX_BROKEN_STATES

GapInTrace(m, from, to) ==
    IF UsesTimestamps(m) /\ m.request.gaps_split THEN StepTime(m, from, to) > MaxBrokenTime(m)
    ELSE to - from > MAX_BROKEN_STATES

\* From a candidate of one point to a candidate of another: the length of the
\* fastest way, if it is not too slow and not too far from the straight line.
Transition(m, network, from, s, to, r) ==
    LET straight == Length(m.request.coordinates[from], m.request.coordinates[to])
        delta == MaxDistanceDelta(m, from, to)
        way == Travel(network, {m.candidates[from][s]}, {m.candidates[to][r]})
        apart == IF way.distance > straight THEN way.distance - straight ELSE straight - way.distance
    IN [possible |-> way.weight < ((straight + delta) * WeightMultiplier) \div 4 /\ apart < delta,
        log |-> -apart]

-----------------------------------------------------------------------------
(* mapMatching.                                                               *)

Filled(m, t, value) == [s \in DOMAIN m.candidates[t] |-> value]

\* HiddenMarkovModel::Clear.
Cleared(m, from) ==
    [m EXCEPT !.viterbi = [t \in DOMAIN @ |-> IF t < from THEN @[t] ELSE Filled(m, t, IMPOSSIBLE_LOG_PROB)],
              !.parents = [t \in DOMAIN @ |-> IF t < from THEN @[t] ELSE Filled(m, t, <<1, 1>>)],
              !.pruned = [t \in DOMAIN @ |-> IF t < from THEN @[t] ELSE Filled(m, t, TRUE)],
              !.breakage = [t \in DOMAIN @ |-> IF t < from THEN @[t] ELSE TRUE]]

\* HiddenMarkovModel::initialize: the first point from there on with candidates
\* starts anew; the last point cannot.
Initialized(m, from) ==
    LET n == Len(m.candidates)
        found == {t \in from..n : m.candidates[t] # <<>>}
        start == IF found = {} THEN n ELSE Min(found)
    IN [start |-> IF start = n THEN INVALID_STATE ELSE start,
        m |-> IF found = {} THEN m
              ELSE [m EXCEPT !.viterbi[start] = [s \in DOMAIN @ |-> Emission(m, start, s)],
                             !.parents[start] = [s \in DOMAIN @ |-> <<start, s>>],
                             !.pruned[start] = [s \in DOMAIN @ |-> FALSE],
                             !.breakage[start] = FALSE]]

Transitions(m, network, from, to) ==
    [s \in DOMAIN m.candidates[from] |-> [r \in DOMAIN m.candidates[to] |-> Transition(m, network, from, s, to, r)]]

\* A slip no specification uses: how likely the way is does not count.
WithoutTransition(m, ways, s, t, r) == m.viterbi[Last(m.unbroken)][s] + Emission(m, t, r)

ValueThrough(m, ways, s, t, r) == m.viterbi[Last(m.unbroken)][s] + Emission(m, t, r) + ways[s][r].log

\* The column of point t after that of the last unbroken point.
Advanced(m, ways, t) ==
    LET from == Last(m.unbroken)
        Usable(r) == {s \in DOMAIN m.candidates[from] : ~m.pruned[from][s] /\ ways[s][r].possible}
        Value(s, r) == ValueThrough(m, ways, s, t, r)
        Parent(r) == CHOOSE s \in Usable(r) : \A o \in Usable(r) :
                         Value(s, r) > Value(o, r) \/ (Value(s, r) = Value(o, r) /\ s <= o)
        reached == {r \in DOMAIN m.candidates[t] : Usable(r) # {}}
    IN [m EXCEPT !.viterbi[t] = [r \in DOMAIN @ |-> IF r \in reached THEN Value(Parent(r), r) ELSE @[r]],
                 !.parents[t] = [r \in DOMAIN @ |-> IF r \in reached THEN <<from, Parent(r)>> ELSE @[r]],
                 !.pruned[t] = [r \in DOMAIN @ |-> r \notin reached],
                 !.breakage[t] = reached = {},
                 !.breakage_begin = IF reached = {} /\ t < @ THEN t ELSE @,
                 !.unbroken = IF reached = {} THEN Front(@) ELSE Append(@, t)]

\* A gap, or a breakage that used up all good points: the trace is split, and
\* the computation goes back to where it broke.
Split(m, t) ==
    LET index == IF m.breakage_begin = INVALID_STATE THEN t ELSE m.breakage_begin
        split == [m EXCEPT !.splits = Append(@, index), !.breakage_begin = INVALID_STATE]
    IN CHOOSE next \in
           {IF fresh.start = INVALID_STATE THEN [fresh.m EXCEPT !.t = INVALID_STATE]
            ELSE [fresh.m EXCEPT !.unbroken = <<fresh.start>>, !.t = fresh.start + 1] :
               fresh \in {Initialized(Cleared(split, index), index)}} : TRUE

MatchStep(m, network) ==
    LET from == Last(m.unbroken)
        gap == GapInTrace(m, from, m.t)
    IN CHOOSE next \in
           {IF gap \/ column.unbroken = <<>> THEN Split(column, m.t) ELSE [column EXCEPT !.t = @ + 1] :
               column \in {IF gap THEN m ELSE Advanced(m, Computed(Transitions(m, network, from, m.t)), m.t)}} : TRUE

\* The model before the first step.
NewModel(request, lists) ==
    LET blank == [request |-> request, candidates |-> lists, viterbi |-> lists, parents |-> lists, pruned |-> lists,
                  breakage |-> lists, breakage_begin |-> INVALID_STATE, unbroken |-> <<>>, splits |-> <<>>,
                  t |-> INVALID_STATE, initial |-> INVALID_STATE]
    IN CHOOSE next \in
           {IF fresh.start = INVALID_STATE THEN fresh.m
            ELSE [fresh.m EXCEPT !.unbroken = <<fresh.start>>, !.t = fresh.start + 1, !.initial = fresh.start] :
               fresh \in {Initialized(Cleared(blank, 1), 1)}} : TRUE

-----------------------------------------------------------------------------
(* The sub-matchings.                                                         *)

\* From a candidate back to the first point of its sub-matching.
Chain(m, begin, t, s) ==
    LET Back(chain, k) == IF Head(chain)[1] <= begin THEN chain ELSE <<m.parents[Head(chain)[1]][Head(chain)[2]]>> \o chain
    IN Iterate(Back, <<<<t, s>>>>, Len(m.candidates))

\* max_element: the first of the most probable candidates.
MostProbable(column) == CHOOSE s \in DOMAIN column : \A o \in DOMAIN column :
                            column[s] > column[o] \/ (column[s] = column[o] /\ s <= o)

\* How many candidates of point t lie on the best ways to the candidates of the
\* last one; of the last point itself, all (the pruned ones too).
Reachable(m, begin, last, t) ==
    IF t = last THEN DOMAIN m.candidates[t]
    ELSE {s \in DOMAIN m.candidates[t] : \E end \in DOMAIN m.candidates[last] :
              ~m.pruned[last][end] /\ \E k \in DOMAIN Chain(m, begin, last, end) : Chain(m, begin, last, end)[k] = <<t, s>>}

\* The sub-matching before a split point, empty if it has fewer than two points.
SubMatching(m, begin, end) ==
    LET good == {t \in begin..end - 1 : ~m.breakage[t]}
        first == Min(good)
        last == Max(good)
        chain == Chain(m, first, last, MostProbable(m.viterbi[last]))
    IN IF Cardinality(good) < 2 \/ Len(chain) < 2 THEN <<>>
       ELSE <<[indices |-> [k \in DOMAIN chain |-> chain[k][1]],
               nodes |-> [k \in DOMAIN chain |-> chain[k][2]],
               alternatives_count |-> [k \in DOMAIN chain |-> Cardinality(Reachable(m, first, last, chain[k][1])) - 1]]>>

SubMatchings(m) ==
    LET ends == IF m.unbroken = <<>> THEN m.splits ELSE Append(m.splits, Last(m.unbroken) + 1)
        Begin(k) == IF k = 1 THEN m.initial ELSE ends[k - 1]
    IN FlattenSeq([k \in DOMAIN ends |-> SubMatching(m, Begin(k), ends[k])])

-----------------------------------------------------------------------------
(* The plugin: refusals after the trace is thinned, the search for candidates *)
(* of all points, the matching, and what is refused of its outcome.           *)

MatchReply(request, network, m) ==
    LET tidied == m.request
        matchings == SubMatchings(m)
        Matched(w) == \E k \in DOMAIN matchings : \E i \in DOMAIN matchings[k].indices : matchings[k].indices[i] = w + 1
        Weight(matching) ==
            ShortestPathSearch(network, [k \in DOMAIN matching.indices |->
                <<m.candidates[matching.indices[k]][matching.nodes[k]]>>]).weight
    IN IF matchings = <<>> THEN Error("NoMatch")
       ELSE IF request.waypoints # <<>> /\ Len(matchings) > 1 THEN Error("NoMatch")
       ELSE IF \E k \in DOMAIN tidied.waypoints : ~Matched(tidied.waypoints[k]) THEN Error("NoMatch")
       ELSE Ok([k \in DOMAIN matchings |->
                   [matching |-> matchings[k], weight |-> Weight(matchings[k]),
                    legs |-> (IF request.waypoints = <<>> THEN Len(matchings[k].indices) ELSE Len(tidied.waypoints)) - 1]])

NoModel == <<>>

\* A request up to its first search. Of a trace, the first and the last point
\* kept must be waypoints.
HandleRequest(request) ==
    IF Refusal(request) # "" THEN Refuse(request, Refusal(request))
    ELSE IF request.service # "match" THEN StartSnapping(request, request)
    ELSE \E tidied \in {Tidied(request)} :
             IF request.waypoints = <<>> \/ EndsAreWaypoints(tidied.waypoints, Len(tidied.coordinates))
             THEN StartSnapping(request, tidied)
             ELSE Refuse(request, "InvalidValue")

\* All points have their candidates.
BeginMatching ==
    /\ job.stage = "snapped" /\ job.request.service = "match"
    /\ \E lists \in {Computed([t \in DOMAIN job.found |-> filterCandidates(job.request.coordinates, t, job.found[t])])} :
           IF \A t \in DOMAIN lists : lists[t] = <<>>
           THEN job' = [job EXCEPT !.stage = "answered", !.reply = Error("NoSegment")] /\ UNCHANGED model
           ELSE job' = [job EXCEPT !.stage = "matching"] /\ model' = NewModel(job.request, lists)
    /\ UNCHANGED search

MatchPoint ==
    /\ job.stage = "matching" /\ model.t <= Len(model.candidates)
    /\ \E network \in {NetworkOf(job.request)} : model' = MatchStep(model, network)
    /\ UNCHANGED <<search, job>>

EndMatching ==
    /\ job.stage = "matching" /\ model.t > Len(model.candidates)
    /\ \E network \in {NetworkOf(job.request)} :
           job' = [job EXCEPT !.stage = "answered", !.reply = MatchReply(job.asked, network, model)]
    /\ UNCHANGED <<search, model>>
=============================================================================
