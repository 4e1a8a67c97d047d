-------------------------------- MODULE Engine --------------------------------
(* osrm-routed: a connection of its server and the query engine behind it.    *)
EXTENDS Connections

vars == <<client, wire, conn, search, job, model>>

Init ==
    /\ client = [open |-> FALSE, asked |-> <<>>, spoiled |-> FALSE]
    /\ wire = <<>> /\ conn = NewConnection
    /\ search = Idle /\ job = NoJob /\ model = NoModel

\* One step of the query, inside HandleRequest.
QueryStep ==
    /\ \/ SearchStep /\ UNCHANGED <<job, model>>
       \/ (Snap \/ Answer) /\ UNCHANGED model
       \/ BeginMatching \/ MatchPoint \/ EndMatching
    /\ UNCHANGED <<client, wire, conn>>

ServerStep == HandleBytes \/ SendReply \/ HandleReadError \/ handle_write \/ handle_timeout
KernelStep == ReadSome \/ ReadEnd \/ WriteAll \/ Expire \/ NoticeClose

Next == HandleAccept \/ ServerStep \/ QueryStep \/ KernelStep \/ Send \/ Leave

\* The query has a step to do while its request is handled and not answered; its
\* steps are those that change its state.
Querying == conn.handling /\ job.stage # "answered"
Progress == <<search, job, model>>' # <<search, job, model>>

\* The server and the kernel do not stop while anything is left to do, and the
\* timer expires; a client may do nothing. (Of the query, this is weak fairness of
\* QueryStep with what enables it written out.)
Fairness == WF_vars(ServerStep \/ KernelStep) /\ ([]<>~Querying \/ []<><<Progress>>_vars)

Spec == Init /\ [][Next]_vars /\ Fairness

-----------------------------------------------------------------------------
(* What the searches find.                                                    *)

\* All coordinates in one component, unless one of them has no usable segment of
\* a big component within reach.
SnappedTogether ==
    job.stage = "snapped" /\ job.request.service \in {"table", "route", "trip"} =>
        \A snapped \in {SnapPhantomNodes(job.found)} :
            \/ \E k \in DOMAIN snapped[1] :
                   \A i \in DOMAIN snapped : HaveComponent(snapped[i], snapped[1][k].component.id)
            \/ \E i \in DOMAIN snapped : \A s \in WithinReach(Ask(job.request, i)) : s.tiny

\* A search through the tree that stops as soon as it can finds what a look at
\* every segment would find, and coordinates are snapped so that a route between
\* them may exist. About StaticRTree::Nearest with the filters and terminators of
\* GeospatialQuery, and PluginBase::SnapPhantomNodes.
SnapsExact == SearchExact /\ SnappedTogether

-----------------------------------------------------------------------------
(* What the plugins answer.                                                   *)

Along(durations, order) == SumOver(1..Len(order) - 1, LAMBDA k : durations[order[k]][order[k + 1]])

\* What a request allows: the fixed ends in their places. A round trip that
\* fixes only its last place begins there.
Allowed(request, order) ==
    LET last == Len(order) - 1
    IN /\ request.fixed_start => Head(order) = 0
       /\ request.fixed_end /\ (request.fixed_start \/ ~request.roundtrip) => Last(order) = last
       /\ request.fixed_end /\ ~request.fixed_start /\ request.roundtrip => Head(order) = last

Lasts(request, durations, order) ==
    Along(durations, order) + IF request.roundtrip THEN durations[Last(order)][Head(order)] ELSE 0

\* A trip visits every place once, starts and ends where the request fixes it,
\* and no allowed order of the places takes less time, as long as they are few
\* enough for the exact algorithm. About the changes to the table in trip.cpp,
\* the two algorithms and the rotation of their result.
TripsOptimal ==
    job.stage = "answered" /\ job.asked # <<>> /\ job.reply.code = "Ok" => (job.asked.service = "trip" =>
        \A durations \in {Durations(NetworkOf(job.asked), SnapPhantomNodes(job.found))} :
            LET trip == job.reply.body.trip
            IN /\ trip \in Orders(DOMAIN durations) /\ Allowed(job.asked, trip)
               /\ Len(trip) < BF_MAX_FEASIBLE =>
                      \A order \in Orders(DOMAIN durations) : Allowed(job.asked, order) =>
                          Lasts(job.asked, durations, trip) <= Lasts(job.asked, durations, order))

\* How probable a sequence of candidates at these points is.
LogProbability(m, ways, indices, nodes) ==
    SumOver(DOMAIN indices, LAMBDA k : Emission(m, indices[k], nodes[k]))
    + SumOver(1..Len(indices) - 1, LAMBDA k : ways[k][nodes[k]][nodes[k + 1]].log)

Feasible(ways, nodes) == \A k \in DOMAIN ways : ways[k][nodes[k]][nodes[k + 1]].possible

Sequences(m, indices) ==
    {nodes \in [DOMAIN indices -> 1..Max({Len(m.candidates[t]) : t \in DOMAIN m.candidates})] :
        \A k \in DOMAIN indices : nodes[k] \in DOMAIN m.candidates[indices[k]]}

\* No sub-matching could be better: of all sequences of candidates for its
\* points it is the most probable one, each way of it can be driven, and it has
\* at least two points, later ones than the sub-matching before. About the
\* Viterbi algorithm with its pruning, breakages and restarts in map_matching.cpp.
MatchesMostLikely ==
    job.stage = "answered" /\ model # NoModel /\ job.reply.code = "Ok" =>
        \A matchings \in {[k \in DOMAIN job.reply.body |-> job.reply.body[k].matching]} :
            /\ \A k \in 1..Len(matchings) - 1 : Last(matchings[k].indices) < Head(matchings[k + 1].indices)
            /\ \A k \in DOMAIN matchings : \A indices \in {matchings[k].indices} :
                   /\ Len(indices) >= 2 /\ \A i \in 1..Len(indices) - 1 : indices[i] < indices[i + 1]
                   /\ \A ways \in {Computed([i \in 1..Len(indices) - 1 |->
                                       Transitions(model, NetworkOf(job.request), indices[i], indices[i + 1])])} :
                      /\ Feasible(ways, matchings[k].nodes)
                      /\ \A nodes \in Sequences(model, indices) : Feasible(ways, nodes) =>
                             LogProbability(model, ways, indices, nodes)
                             <= LogProbability(model, ways, indices, matchings[k].nodes)

-----------------------------------------------------------------------------
(* What a client sees.                                                        *)

\* What is written to a client that has sent well-formed requests only answers
\* the request it waits for, however its bytes were split into reads and
\* whatever the connection served before. About Connection, RequestParser and
\* RequestHandler over the requests of a kept connection.
RepliesFollowRequests ==
    conn.write = "pending" /\ client.open /\ ~client.spoiled =>
        conn.reply.to = client.asked /\ conn.reply.to # <<>>

\* Whoever has sent a request gets a reply or learns that the connection is
\* closed. A kept connection on which nothing was sent does not stay open for
\* ever. About the asynchronous operations of connection.cpp, the timer among them.
ClientsSettled ==
    /\ (client.asked # <<>>) ~> (client.asked = <<>>)
    /\ (conn.keep_alive /\ conn.read = "pending" /\ conn.parser = NewParser /\ wire = <<>>)
       ~> (conn.shut \/ wire # <<>>)
=============================================================================
