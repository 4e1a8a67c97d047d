------------------------------- MODULE Updater -------------------------------
(* osrm-customize and osrm-contract with new traffic (updater.cpp): lines of  *)
(* CSV files change the weights of segments and the penalties of turns, and   *)
(* conditional restrictions that hold now close their turns.  The extracted   *)
(* edges are read, those of the changed streets weighed again; geometries and *)
(* penalties are written back, for the next run.                              *)
(* A segment line has the weight that its rate gives the segment; durations   *)
(* and the names of the sources are left out.                                 *)
EXTENDS Extraction, PackedVector

CONSTANT Commands              \* Commands[map]: the sequences of runs that may follow the extraction of a map

VARIABLES files, update
extracted == <<map, phase, next, g, geometries, rg, ebg>>
allVars == <<map, phase, next, g, geometries, rg, ebg, files, update>>

InvalidSegmentWeight == Power[Bits] - 1
InvalidEdgeWeight == 2147483647
InvalidTurnPenalty == 32767
Stopped == -1                  \* a rate of 0
Blank == -2                    \* no rate: the weight is kept

ASSUME WeightAssumption == Bits > 1 /\ MaxSegmentWeight = InvalidSegmentWeight - 1
ASSUME CommandsAssumption ==
    \A m \in Maps : \A commands \in Commands[m] :
        /\ commands \in Seq(ToSet(commands))
        /\ \A c \in ToSet(commands) : \A f \in DOMAIN c.segments :
              \A line \in ToSet(c.segments[f]) : line.value \in Int

-----------------------------------------------------------------------------
(* CSV files: sequences of lines.                                             *)

\* CSVFilesParser: of the lines of a key those of the last file come first, in an order
\* that parallel_sort, which is not stable, leaves open; the first one stays.
Lookups(csv) ==
    LET all == UNION {{[key |-> line.key, value |-> line.value, source |-> f] : line \in ToSet(csv[f])} : f \in DOMAIN csv}
        First(key) == {l \in all : l.key = key /\ \A o \in all : o.key = key => o.source <= l.source}
        keys == {l.key : l \in all}
    IN {table \in [keys -> {l.value : l \in all}] : \A k \in keys : \E l \in First(k) : l.value = table[k]}

convertToWeight(existing_weight, value) ==
    IF value = Blank THEN existing_weight
    ELSE IF value = Stopped THEN InvalidSegmentWeight
    ELSE Min({Max({1, value}), MaxSegmentWeight})

-----------------------------------------------------------------------------
(* SegmentDataContainer: the zipped lists one behind the other.               *)

\* ToSegmentData.
ToSegmentData ==
    LET Before(p, q) == p[1] < q[1] \/ (p[1] = q[1] /\ p[2] < q[2])
        Id(p) == Cardinality({q \in DOMAIN geometries : Before(q, p)})
        Order(ids) == [i \in 1..Cardinality(DOMAIN geometries) |-> CHOOSE p \in DOMAIN geometries : ids[p] = i - 1]
        Weight(w) == IF w = NoPenalty THEN InvalidSegmentWeight ELSE w
        Lists(pairs) == FlattenSeq([i \in DOMAIN pairs |-> geometries[pairs[i]]])
        Container(pairs, ids, all) ==
            [ids |-> ids,
             index |-> Computed([i \in 0..Len(pairs) |->
                         FoldSet(LAMBDA j, sum : sum + Len(geometries[pairs[j]]), 0, 1..i)]),
             nodes |-> [i \in DOMAIN all |-> all[i].node],
             forward |-> Packed([i \in DOMAIN all |-> Weight(all[i].forward)]),
             reverse |-> Packed([i \in DOMAIN all |-> Weight(all[i].reverse)])]
        Built(pairs, ids) == CHOOSE c \in {Container(pairs, ids, all) : all \in {Lists(pairs)}} : TRUE
    IN CHOOSE c \in {Built(Order(ids), ids) : ids \in {Computed([p \in DOMAIN geometries |-> Id(p)])}} : TRUE

GetForwardGeometry(data, id) == SubSeq(data.nodes, data.index[id] + 1, data.index[id + 1])

\* The places of the weights of a direction, along the forward direction.
GetForwardWeights(data, id) == [i \in 1..data.index[id + 1] - data.index[id] - 1 |-> data.index[id] + i]
\* A slip no specification uses: as if the reverse weights stood at the node they lead to in forward direction.
LikeForward(data, id) == [i \in 1..data.index[id + 1] - data.index[id] - 1 |-> data.index[id] + i]
GetReverseWeights(data, id) == [i \in 1..data.index[id + 1] - data.index[id] - 1 |-> data.index[id] + i - 1]

Value(data, forward, place) ==
    get_value(IF forward THEN data.forward ELSE data.reverse, get_internal_index(place))

\* GetGeometryID of an edge-based node, as the number of the list and the direction.
GetGeometryID(data, n) ==
    LET id == ebg.nodes[n].edge
        forward == <<id[1], g.edges[id].target>>
    IN IF forward \in DOMAIN data.ids THEN <<data.ids[forward], TRUE>>
       ELSE <<data.ids[<<g.edges[id].target, id[1]>>], FALSE>>

-----------------------------------------------------------------------------
(* updateSegmentData: the geometries are divided among tasks.                 *)

\* The weights that a task sets in a geometry: forward, and then reverse ones.
UpdatesOf(data, id, lookup) ==
    LET nodes == GetForwardGeometry(data, id)
        Osm(i) == files.osm_node_ids[nodes[i] + 1]
        Key(i, forward) == IF forward THEN <<Osm(i), Osm(i + 1)>> ELSE <<Osm(i + 1), Osm(i)>>
        Listed(i, forward) == Osm(i) # Osm(i + 1) /\ Key(i, forward) \in DOMAIN lookup
        Places(forward) == IF forward THEN GetForwardWeights(data, id) ELSE GetReverseWeights(data, id)
        Updates(forward) ==
            [i \in DOMAIN Places(forward) |->
                IF Listed(i, forward)
                THEN <<[id |-> id, forward |-> forward, place |-> Places(forward)[i], value |-> lookup[Key(i, forward)]]>>
                ELSE <<>>]
    IN FlattenSeq(Updates(TRUE)) \o FlattenSeq(Updates(FALSE))

\* A task: the geometries before it, what is to be set in the current one, and the value
\* it is setting with the word it has read, if any.
Idle == [id |-> 0, forward |-> TRUE, place |-> 0, value |-> 0]
Task(todo) == [todo |-> todo, updates |-> <<>>, setting |-> FALSE, half |-> "lower", seen |-> -1, value |-> 0]
TaskDone(t) == t.todo = <<>> /\ t.updates = <<>>

Halves(count) ==
    LET half == count \div 2
    IN <<Task([i \in 1..half |-> i - 1]), Task([i \in 1..count - half |-> half + i - 1])>>
Divided(count, tasks) == IF tasks = 2 THEN Halves(count) ELSE <<Task([i \in 1..count |-> i - 1])>>

WordOf(u, half) == get_internal_index(u.place).lower_word + (IF half = "lower" THEN 0 ELSE 1)
Read(data, u, half) == (IF u.forward THEN data.forward ELSE data.reverse)[WordOf(u, half)]

NewWord(u, t) ==
    LET e == get_internal_index(u.place).element
    IN IF t.half = "lower" THEN set_lower_value(t.seen, e, t.value) ELSE set_upper_value(t.seen, e, t.value)

\* A slip no specification uses: the word is stored even if it has changed.
PlainStore(data, u, t) ==
    IF u.forward THEN [data EXCEPT !.forward[WordOf(u, t.half)] = NewWord(u, t)]
    ELSE [data EXCEPT !.reverse[WordOf(u, t.half)] = NewWord(u, t)]
compare_and_swap(data, u, t) ==
    IF Read(data, u, t.half) # t.seen THEN data
    ELSE IF u.forward THEN [data EXCEPT !.forward[WordOf(u, t.half)] = NewWord(u, t)]
    ELSE [data EXCEPT !.reverse[WordOf(u, t.half)] = NewWord(u, t)]

\* After a swap: again if the word had changed, else the other half, else the next value.
AfterSwap(data, u, t) ==
    IF Read(data, u, t.half) # t.seen THEN [t EXCEPT !.seen = -1]
    ELSE IF t.half = "lower" THEN [t EXCEPT !.half = "upper", !.seen = -1]
    ELSE [t EXCEPT !.updates = Tail(@), !.setting = FALSE, !.half = "lower", !.seen = -1, !.value = 0]

-----------------------------------------------------------------------------
(* Turn penalties, and the edges of what has changed.                         *)

OsmTurn(turn) == [i \in 1..3 |-> files.osm_node_ids[turn.index[i] + 1]]

updateTurnPenalties(penalties, lookup) ==
    [i \in DOMAIN penalties |->
        IF OsmTurn(ebg.edges[i]) \in DOMAIN lookup THEN lookup[OsmTurn(ebg.edges[i])] ELSE penalties[i]]

\* compute_new_weight_and_duration
compute_new_weight(data, geometry) ==
    LET places == IF geometry[2] THEN GetForwardWeights(data, geometry[1]) ELSE GetReverseWeights(data, geometry[1])
        weights == [i \in DOMAIN places |-> Value(data, geometry[2], places[i])]
    IN IF InvalidSegmentWeight \in ToSet(weights) THEN InvalidEdgeWeight
       ELSE FoldSet(LAMBDA i, sum : sum + weights[i], 0, DOMAIN weights)

\* update_edge: its weight, the penalty of its turn, and the weight of its node.
update_edge(data, edge, penalty) ==
    LET geometry == GetGeometryID(data, edge.source)
        new_weight == compute_new_weight(data, geometry)
        weight_min_value == Len(GetForwardGeometry(data, geometry[1]))
        low == penalty + new_weight < weight_min_value
        turn == IF low /\ penalty < 0 THEN weight_min_value - new_weight ELSE penalty
        street == IF low /\ penalty >= 0 THEN weight_min_value ELSE new_weight
    IN IF new_weight = InvalidEdgeWeight THEN [weight |-> InvalidEdgeWeight, penalty |-> penalty, node |-> new_weight]
       ELSE [weight |-> street + turn, penalty |-> turn, node |-> new_weight]

\* LoadAndUpdateEdgeExpandedGraph behind the tables: the edges whose street or turn is named.
UpdateEdges(data, penalties, updated) ==
    LET renewed == {i \in DOMAIN ebg.edges : GetGeometryID(data, ebg.edges[i].source) \in updated}
        new == Computed([i \in renewed |-> update_edge(data, ebg.edges[i], penalties[i])])
        From(n) == {i \in renewed : ebg.edges[i].source = n}
    IN [weights |-> Computed([i \in DOMAIN ebg.edges |-> IF i \in renewed THEN new[i].weight ELSE ebg.edges[i].weight]),
        penalties |-> Computed([i \in DOMAIN ebg.edges |-> IF i \in renewed THEN new[i].penalty ELSE penalties[i]]),
        node_weights |-> Computed([n \in DOMAIN ebg.nodes |->
                            IF From(n) = {} THEN ebg.nodes[n].weight ELSE new[CHOOSE i \in From(n) : TRUE].node])]

-----------------------------------------------------------------------------
(* Runs.                                                                      *)

\* updateConditionalTurns: those whose hours are open; which ones that is stays open here.
ValidNow(command) == IF command.now THEN SUBSET ebg.conditionals ELSE {{}}

\* Between runs: what is still to be run, what has been run with which conditions open, and
\* the graph of the last run.
Between(commands, runs, result) == [stage |-> "idle", commands |-> commands, runs |-> runs, result |-> result]

UpdateInit == Init /\ files = <<>> /\ update = <<>>

\* The last files that osrm-extract writes.
WriteFiles ==
    /\ phase = "done" /\ files = <<>>
    /\ files' = [osm_node_ids |-> UsedNodes(map, Collected(map).ways), geometry |-> ToSegmentData,
                 penalties |-> [i \in DOMAIN ebg.edges |-> ebg.edges[i].penalty]]
    /\ \E commands \in Commands[map] : update' = Between(commands, <<>>, <<>>)
    /\ UNCHANGED extracted

\* The files are read, and the CSV files; without any the tasks have nothing to do.
StartRun ==
    /\ files # <<>> /\ update.stage = "idle" /\ update.commands # <<>>
    /\ \E command \in {Head(update.commands)} : \E segments \in Lookups(command.segments) :
          update' = [stage |-> "segments", commands |-> Tail(update.commands), runs |-> update.runs,
                     command |-> command, lookup |-> segments, data |-> files.geometry, updated |-> {},
                     tasks |-> IF command.segments = <<>> THEN <<>>
                               ELSE Divided(Cardinality(DOMAIN files.geometry.ids), command.tasks)]
    /\ UNCHANGED <<extracted, files>>

Running(k) == /\ files # <<>> /\ update.stage = "segments" /\ k \in DOMAIN update.tasks

TakeGeometry(k) ==
    /\ Running(k) /\ update.tasks[k].updates = <<>> /\ update.tasks[k].todo # <<>>
    /\ \E named \in {UpdatesOf(update.data, Head(update.tasks[k].todo), update.lookup)} :
          update' = [update EXCEPT !.tasks[k].todo = Tail(@), !.tasks[k].updates = named,
                                   !.updated = @ \cup {<<u.id, u.forward>> : u \in ToSet(named)}]
    /\ UNCHANGED <<extracted, files>>

\* The existing weight is read, and the new one is known.
ConvertWeight(k) ==
    /\ Running(k) /\ update.tasks[k].updates # <<>> /\ ~update.tasks[k].setting
    /\ \E u \in {Head(update.tasks[k].updates)} :
          update' = [update EXCEPT !.tasks[k].setting = TRUE,
                                   !.tasks[k].value = convertToWeight(Value(update.data, u.forward, u.place), u.value)]
    /\ UNCHANGED <<extracted, files>>

ReadWord(k) ==
    /\ Running(k) /\ update.tasks[k].setting /\ update.tasks[k].seen = -1
    /\ \E u \in {Head(update.tasks[k].updates)} :
          update' = [update EXCEPT !.tasks[k].seen = Read(update.data, u, update.tasks[k].half)]
    /\ UNCHANGED <<extracted, files>>

SwapWord(k) ==
    /\ Running(k) /\ update.tasks[k].setting /\ update.tasks[k].seen # -1
    /\ \E u \in {Head(update.tasks[k].updates)} :
          update' = [update EXCEPT !.data = compare_and_swap(@, u, update.tasks[k]),
                                   !.tasks[k] = AfterSwap(update.data, u, @)]
    /\ UNCHANGED <<extracted, files>>

\* The tasks have joined: geometry and penalties are written, the edges weighed again.
FinishRun ==
    /\ files # <<>> /\ update.stage = "segments"
    /\ \A k \in DOMAIN update.tasks : TaskDone(update.tasks[k])
    /\ \E turns \in Lookups(update.command.turns),
          valid \in ValidNow(update.command) :
          \E penalties \in {updateTurnPenalties(files.penalties, turns)} :
          \E closed \in {[i \in DOMAIN penalties |-> IF i \in valid THEN InvalidTurnPenalty ELSE penalties[i]]},
             named \in {{i \in DOMAIN penalties : OsmTurn(ebg.edges[i]) \in DOMAIN turns} \cup valid} :
          \E result \in {UpdateEdges(update.data, closed, update.updated
                             \cup {GetGeometryID(update.data, ebg.edges[i].source) : i \in named})} :
             /\ files' = [files EXCEPT !.geometry = update.data,
                                       !.penalties = IF update.command.turns # <<>> \/ update.command.now
                                                     THEN result.penalties ELSE @]
             /\ update' = Between(update.commands, Append(update.runs,
                              [segments |-> update.command.segments, turns |-> update.command.turns,
                               now |-> update.command.now, valid |-> valid]), result)
    /\ UNCHANGED extracted

UpdateNext ==
    \/ Next /\ UNCHANGED <<files, update>>
    \/ WriteFiles
    \/ StartRun
    \/ \E k \in 1..2 : TakeGeometry(k) \/ ConvertWeight(k) \/ ReadWord(k) \/ SwapWord(k)
    \/ FinishRun

UpdateSpec == UpdateInit /\ [][UpdateNext]_allVars
=============================================================================
