------------------------------ MODULE Connections ------------------------------
(* A connection of the HTTP server (connection.cpp, request_parser.cpp,       *)
(* request_handler.cpp) and the client at its other end. The handlers of a    *)
(* connection run on one strand, one at a time; between them the kernel moves *)
(* bytes, the timer expires and the client does what it likes, except that it *)
(* asks nothing more before it is answered.                                   *)
(* A character is a class with the text it carries; a URI, a header's name    *)
(* and a value are one character each.                                        *)
EXTENDS MapMatching

CONSTANTS Requests,        \* what clients ask for
          MaxRequests,     \* processed_requests of a new connection
          ReadSizes        \* how many characters a read may return when more are there

ASSUME ConnectionAssumption == MaxRequests \in Nat /\ <<>> \notin Requests

\* What the search for the nearest streets reads of a request has its type, as
\* asked and, of a trace that is matched, as thinned.
HasTypes(request) ==
    /\ request.coordinates \in Seq(Int \X Int) /\ request.radiuses \in Seq(Nat \union {Unset})
    /\ request.number \in Nat

ASSUME RequestAssumption ==
    \A request \in Requests :
        /\ HasTypes(request)
        /\ request.service = "match" /\ Refusal(request) = "" =>
               \A tidied \in {Tidied(request)} :
                   HasTypes(tidied) /\ Fits(tidied.radiuses, tidied) /\ tidied.coordinates # <<>>

VARIABLES client,          \* [open, asked, spoiled]
          wire,            \* the characters sent and not read
          conn             \* the Connection

-----------------------------------------------------------------------------
(* The request parser. uri_start and header_lws are never entered.            *)

Letters(text) == [class |-> "letters", text |-> text]
Mark(class) == [class |-> class, text |-> ""]
Marks(classes) == [i \in DOMAIN classes |-> Mark(classes[i])]

CTL(class) == class \in {"CR", "LF"}
Special(class) == class \in {"slash", "colon", "space"}
Ordinary(class) == ~CTL(class) /\ ~Special(class)

\* The states with one way on.
VersionSteps ==
    {<<"http_version_h", "H", "http_version_t_1">>, <<"http_version_t_1", "T", "http_version_t_2">>,
     <<"http_version_t_2", "T", "http_version_p">>, <<"http_version_p", "P", "http_version_slash">>,
     <<"http_version_slash", "slash", "http_version_major_start">>,
     <<"http_version_major_start", "digit", "http_version_major">>,
     <<"http_version_major", "digit", "http_version_major">>,
     <<"http_version_major", "dot", "http_version_minor_start">>,
     <<"http_version_minor_start", "digit", "http_version_minor">>,
     <<"http_version_minor", "digit", "http_version_minor">>, <<"http_version_minor", "CR", "expecting_newline_1">>,
     <<"expecting_newline_1", "LF", "header_line_start">>, <<"expecting_newline_2", "LF", "header_line_start">>}

\* A new parser with a new request.
NewParser == [state |-> "method_start", name |-> <<>>, value |-> <<>>, uri |-> <<>>, connection |-> <<>>,
              status |-> "indeterminate"]

consume(p, c) ==
    LET Go(q, state) == [q EXCEPT !.state = state]
        Invalid == [p EXCEPT !.status = "invalid"]
        ended == IF p.name = <<"Connection">> THEN [p EXCEPT !.connection = p.value] ELSE p
        steps == {s \in VersionSteps : s[1] = p.state /\ s[2] = c.class}
    IN CASE p.state = "method_start" -> IF Ordinary(c.class) THEN Go(p, "method") ELSE Invalid
         [] p.state = "method" ->
                IF c.class = "space" THEN Go(p, "uri") ELSE IF Ordinary(c.class) THEN p ELSE Invalid
         [] p.state = "uri" ->
                IF c.class = "space" THEN Go(p, "http_version_h")
                ELSE IF CTL(c.class) THEN Invalid ELSE [p EXCEPT !.uri = Append(@, c.text)]
         [] p.state = "header_line_start" ->
                IF c.class = "CR" THEN Go(ended, "expecting_newline_3")
                ELSE IF Ordinary(c.class) THEN [Go(ended, "header_name") EXCEPT !.name = <<c.text>>, !.value = <<>>]
                ELSE Invalid
         [] p.state = "header_name" ->
                IF c.class = "colon" THEN Go(p, "header_value")
                ELSE IF Ordinary(c.class) THEN [p EXCEPT !.name = Append(@, c.text)] ELSE Invalid
         [] p.state = "header_value" ->
                IF c.class = "space" THEN p
                ELSE IF c.class = "CR" THEN Go(p, "expecting_newline_2")
                ELSE IF CTL(c.class) THEN Invalid ELSE [p EXCEPT !.value = Append(@, c.text)]
         [] p.state = "expecting_newline_3" -> [p EXCEPT !.status = IF c.class = "LF" THEN "valid" ELSE "invalid"]
         [] OTHER -> IF steps = {} THEN Invalid ELSE Go(p, (CHOOSE s \in steps : TRUE)[3])

\* What follows the end of a request, or an error, in the same buffer is dropped.
parse(p, bytes) == IterateOver(LAMBDA q, c : IF q.status = "indeterminate" THEN consume(q, c) ELSE q, p, bytes)

-----------------------------------------------------------------------------
(* The Connection. read: none, pending, done, eof, aborted; write: none,      *)
(* pending, done, failed; the timer is off or armed, and due once its handler *)
(* is queued, which no cancel takes back.                                     *)

NoReply == [to |-> <<>>, code |-> "", connection |-> ""]

NewConnection ==
    [accepted |-> FALSE, read |-> "none", bytes |-> <<>>, write |-> "none", timer |-> "off", due |-> FALSE,
     shut |-> FALSE, handling |-> FALSE, keep_alive |-> FALSE, processed_requests |-> MaxRequests,
     parser |-> NewParser, reply |-> NoReply]

\* No operation is pending: the last reference to the Connection is gone.
Released == conn.read = "none" /\ conn.write = "none" /\ conn.timer = "off" /\ ~conn.due /\ ~conn.handling

\* A slip no specification uses: no timer for the next request.
WithoutTimer(c) == [c EXCEPT !.read = "pending"]

start(c) == [c EXCEPT !.read = "pending", !.timer = IF c.keep_alive THEN "armed" ELSE @]

handle_shutdown(c) == [c EXCEPT !.timer = "off", !.shut = TRUE]

\* Server::HandleAccept: a new Connection for a new client.
HandleAccept ==
    /\ ~client.open /\ Released
    /\ client' = [open |-> TRUE, asked |-> <<>>, spoiled |-> FALSE]
    /\ wire' = <<>>
    /\ conn' = start([NewConnection EXCEPT !.accepted = TRUE])
    /\ UNCHANGED <<search, job, model>>

Write(c, reply) == [c EXCEPT !.write = "pending", !.reply = reply]

\* RequestHandler::HandleRequest, up to the query's first search. Only a request
\* parses as one.
HandleURL(uri) ==
    IF Len(uri) = 1 /\ uri[1] \in Requests /\ uri[1].parsable THEN HandleRequest(uri[1])
    ELSE Refuse(IF Len(uri) = 1 THEN uri[1] ELSE <<>>, "InvalidUrl")

ReadOn(c) == [c EXCEPT !.read = "pending"]

\* handle_read without an error. The peer of a socket that is shut, or whose
\* client has left, may be unknown.
HandleBytes ==
    /\ conn.read = "done" /\ ~conn.handling
    /\ \E c \in {[conn EXCEPT !.read = "none", !.bytes = <<>>, !.timer = IF conn.keep_alive THEN "off" ELSE @,
                              !.parser = parse(@, conn.bytes)]} :
           \/ /\ c.parser.status = "valid"
              /\ conn' = [c EXCEPT !.handling = TRUE] /\ model' = NoModel
              /\ HandleURL(c.parser.uri)
           \/ /\ c.parser.status = "valid" /\ (c.shut \/ ~client.open)
              /\ conn' = handle_shutdown(c)
              /\ UNCHANGED <<search, job, model>>
           \/ /\ c.parser.status = "invalid"
              /\ conn' = Write(c, [NoReply EXCEPT !.code = "bad_request"])
              /\ UNCHANGED <<search, job, model>>
           \/ /\ c.parser.status = "indeterminate"
              /\ conn' = ReadOn(c)
              /\ UNCHANGED <<search, job, model>>
    /\ UNCHANGED <<client, wire>>

\* The rest of handle_read, once the request is answered.
SendReply ==
    /\ conn.handling /\ job.stage = "answered"
    /\ LET close == conn.parser.connection = <<"close">>
       IN conn' = Write([conn EXCEPT !.handling = FALSE, !.keep_alive = @ \/ ~close],
                        [to |-> job.asked, code |-> job.reply.code,
                         connection |-> IF close THEN "close" ELSE "keep-alive"])
    /\ job' = NoJob /\ search' = Idle /\ model' = NoModel
    /\ UNCHANGED <<client, wire>>

\* handle_read with an error: one the timer did not cause shuts the connection.
HandleReadError ==
    /\ conn.read \in {"eof", "aborted"} /\ ~conn.handling
    /\ LET c == [conn EXCEPT !.read = "none"] IN conn' = IF conn.read = "eof" THEN handle_shutdown(c) ELSE c
    /\ UNCHANGED <<client, wire, search, job, model>>

\* A slip no specification uses: the parser is kept for the next request.
KeepsParser(c) == [c EXCEPT !.processed_requests = @ - 1, !.reply = NoReply]

ForNextRequest(c) == [c EXCEPT !.processed_requests = @ - 1, !.reply = NoReply, !.parser = NewParser]

handle_write ==
    /\ conn.write \in {"done", "failed"} /\ ~conn.handling
    /\ LET c == [conn EXCEPT !.write = "none"]
       IN conn' = IF conn.write = "failed" THEN c
                  ELSE IF c.keep_alive /\ c.processed_requests > 0 THEN start(ForNextRequest(c))
                  ELSE handle_shutdown(c)
    /\ UNCHANGED <<client, wire, search, job, model>>

\* The timer's handler, unless it was cancelled in time.
handle_timeout ==
    /\ conn.due /\ ~conn.handling
    /\ conn' = handle_shutdown([conn EXCEPT !.due = FALSE,
                                            !.read = IF @ = "pending" THEN "aborted" ELSE @,
                                            !.write = IF @ = "pending" THEN "failed" ELSE @])
    /\ UNCHANGED <<client, wire, search, job, model>>

-----------------------------------------------------------------------------
(* The kernel and the client.                                                 *)

\* Some of the characters sent so far are read, or all.
ReadSome ==
    /\ conn.read = "pending" /\ ~conn.shut /\ wire # <<>>
    /\ \E k \in DOMAIN wire \intersect (ReadSizes \union {Len(wire)}) :
           /\ conn' = [conn EXCEPT !.read = "done", !.bytes = SubSeq(wire, 1, k)]
           /\ wire' = SubSeq(wire, k + 1, Len(wire))
    /\ UNCHANGED <<client, search, job, model>>

ReadEnd ==
    /\ conn.read = "pending" /\ (conn.shut \/ (wire = <<>> /\ ~client.open))
    /\ conn' = [conn EXCEPT !.read = "eof"]
    /\ UNCHANGED <<client, wire, search, job, model>>

\* The reply reaches the client; or the socket is shut, or nobody is there.
WriteAll ==
    /\ conn.write = "pending"
    /\ \/ /\ ~conn.shut /\ client.open
          /\ conn' = [conn EXCEPT !.write = "done"]
          /\ client' = [client EXCEPT !.asked = <<>>]
       \/ /\ ~client.open
          /\ \E outcome \in {"done", "failed"} : conn' = [conn EXCEPT !.write = outcome]
          /\ UNCHANGED client
       \/ /\ conn.shut
          /\ conn' = [conn EXCEPT !.write = "failed"]
          /\ UNCHANGED client
    /\ UNCHANGED <<wire, search, job, model>>

Expire ==
    /\ conn.timer = "armed"
    /\ conn' = [conn EXCEPT !.timer = "off", !.due = TRUE]
    /\ UNCHANGED <<client, wire, search, job, model>>

\* A request as it is sent; a malformed one lacks the version.
Characters(request, malformed) ==
    <<Letters("GET"), Mark("space"), Letters(request)>>
    \o (IF malformed THEN <<>> ELSE <<Mark("space")>> \o Marks(<<"H", "T", "T", "P", "slash", "digit", "dot", "digit">>))
    \o Marks(<<"CR", "LF">>)
    \o (IF request.connection = "close"
        THEN <<Letters("Connection"), Mark("colon"), Mark("space"), Letters("close")>> \o Marks(<<"CR", "LF">>)
        ELSE <<>>)
    \o Marks(<<"CR", "LF">>)

\* After a malformed request a client sends nothing more.
Send ==
    /\ client.open /\ client.asked = <<>> /\ ~client.spoiled
    /\ \E request \in Requests, malformed \in BOOLEAN :
           /\ client' = [client EXCEPT !.asked = request, !.spoiled = malformed]
           /\ wire' = wire \o Characters(request, malformed)
    /\ UNCHANGED <<conn, search, job, model>>

Leave ==
    /\ client.open
    /\ client' = [client EXCEPT !.open = FALSE, !.asked = <<>>]
    /\ UNCHANGED <<wire, conn, search, job, model>>

\* The client learns that the connection is closed.
NoticeClose ==
    /\ client.open /\ (conn.shut \/ Released)
    /\ client' = [client EXCEPT !.open = FALSE, !.asked = <<>>]
    /\ UNCHANGED <<wire, conn, search, job, model>>
=============================================================================
