----------------------------- MODULE Connections -----------------------------
(***************************************************************************)
(* The HTTP server of cf-log (src/mongoose/mongoose.c, as cf-server.cxx    *)
(* uses it): one thread polls every connection, reads requests, lets       *)
(* event_handler answer them with the feed, and writes the answers.        *)
(*                                                                         *)
(* What a client sends is a stream of parts, several to a request, and so  *)
(* is what it is answered.  A buffer is a stretch of its stream: recv_iobuf *)
(* holds the parts eaten + 1 .. got, send_iobuf those of out from          *)
(* flushed + 1 on.  Clients act between any two steps of a poll.           *)
(*                                                                         *)
(* ns_server_poll is Poll (its first loop), Select, Handle (one turn of    *)
(* the second loop) and Sweep (the third).                                 *)
(***************************************************************************)
EXTENDS Integers, Sequences, SequencesExt, Subseqs

CONSTANTS
    Clients,     \* each opens one connection, if it has a request to make
    Scripts,     \* what they may send: a sequence of requests for each of them
    MAX_REQUEST_SIZE, \* of a request that is not complete, in parts
    MaxRecv,     \* what one recv takes, in parts
    WireSize,    \* what is sent and not yet read by the client, in parts
    IDLE_TIMEOUT_SECONDS,
    MaxFeed      \* how often the feed is rewritten

\* A request: its uri, the parts of its head and of its body, whether it lets
\* the connection stay, whether it waits for a 100, and what is wrong with it:
\*   garbled     a character in it that no request may have
\*   malformed   not a request
\*   uri         not a path
\*   version     neither HTTP/1.0 nor HTTP/1.1
Uris == {"/info", "/flights.json", "*", "other"}
Request ==
    [uri : Uris, head : Nat \ {0}, body : Nat, keep : BOOLEAN, expects : BOOLEAN,
     wrong : {"none", "garbled", "malformed", "uri", "version"}]

ASSUME ConnectionAssumption ==
    /\ \A s \in Scripts : s \in [Clients -> Seq(Request)]
    /\ MAX_REQUEST_SIZE \in Nat /\ MaxRecv \in Nat \ {0} /\ WireSize \in Nat \ {0}
    /\ IDLE_TIMEOUT_SECONDS \in Nat /\ MaxFeed \in Nat

VARIABLES
    peer,     \* the clients: script, connected, sent, read, shut
    conn,     \* their connections
    active_connections, \* the list, the newest first
    todo,     \* those the second loop has not come to
    ready,    \* what select found, and who could write before it
    pc,       \* idle, late (a second later), select, handle, sweep, free, down, crashed
    stopping, \* mg_destroy_server was called
    feed,     \* the version of the documents; there are none before 1
    asked     \* history: the feed when the head of each request had been sent

vars == <<peer, conn, active_connections, todo, ready, pc, stopping, feed, asked>>

-----------------------------------------------------------------------------
(* Requests *)

Parts(k, r) ==
    [i \in 1 .. r.head + r.body |->
        [of |-> k, first |-> i = 1, last |-> i = r.head,
         garbled |-> r.wrong = "garbled" /\ i = 1]]

\* The stream of each script.
AllScripts == {s[c] : s \in Scripts, c \in Clients}
Stream ==
    [s \in AllScripts |-> FlattenSeq([k \in DOMAIN s |-> Parts(k, s[k])])]

stream(c) == Stream[peer[c].script]
ReqOf(c, k) == peer[c].script[k]

\* The states of a connection, see struct ns_connection and struct connection.
NoConnection ==
    [open |-> "no", data |-> FALSE, flags |-> {}, endpoint_type |-> "NONE",
     got |-> 0, eaten |-> 0, out |-> <<>>, flushed |-> 0,
     request |-> 0, request_len |-> 0, age |-> 0, again |-> FALSE]

Buffered(k) == k.got - k.eaten
Unsent(k) == Len(k.out) - k.flushed

\* The type invariant: no buffer is taken more from than it holds.
TypeOK ==
    /\ \A c \in Clients :
          /\ conn[c].open \in {"no", "yes", "gone"}
          /\ conn[c].flags \subseteq {"CLOSE_IMMEDIATELY", "FINISHED_SENDING_DATA"}
          /\ conn[c].endpoint_type \in {"NONE", "USER"}
          /\ conn[c].eaten \in 0 .. conn[c].got /\ conn[c].got \in 0 .. peer[c].sent
          /\ conn[c].flushed \in 0 .. Len(conn[c].out)
          /\ conn[c].request_len \in {-1, 0, 1} /\ ~conn[c].again
          /\ conn[c].open = "yes" <=> Contains(active_connections, c)
          /\ peer[c].read \in 0 .. conn[c].flushed
    /\ ToSet(todo) \subseteq ToSet(active_connections)
    /\ pc \in {"idle", "late", "select", "handle", "sweep", "free", "down", "crashed"}

Init ==
    /\ \E s \in Scripts :
          peer = [c \in Clients |->
              [script |-> s[c], connected |-> FALSE, sent |-> 0, read |-> 0, shut |-> FALSE]]
    /\ conn = [c \in Clients |-> NoConnection]
    /\ active_connections = <<>> /\ todo = <<>>
    /\ ready = [reads |-> {}, writes |-> {}]
    /\ pc = "idle" /\ stopping = FALSE
    /\ feed = 0
    /\ asked = [c \in Clients |-> <<>>]

-----------------------------------------------------------------------------
(* Parsing *)

\* Of the buffer: the ends of heads in it, and the characters it may not have.
HeadEnds(c, k) == {i \in k.eaten + 1 .. k.got : stream(c)[i].last}
Garbled(c, k) == {i \in k.eaten + 1 .. k.got : stream(c)[i].garbled}

\* -1, 0 or the length, whichever the scan meets first.
get_request_len(c, k) ==
    IF \E i \in Garbled(c, k) : \A j \in HeadEnds(c, k) : i <= j THEN -1
    ELSE IF HeadEnds(c, k) = {} THEN 0
    ELSE (CHOOSE i \in HeadEnds(c, k) : \A j \in HeadEnds(c, k) : i <= j) - k.eaten

\* The request from one part to another, or 0 if it is none.  What is left of
\* a body, read as the begin of a request, spoils it.
RequestIn(c, first, last) ==
    IF first.first /\ first.of = last.of /\ ReqOf(c, last.of).wrong # "malformed"
    THEN last.of ELSE 0
parse_http_message(c, k, len) ==
    RequestIn(c, stream(c)[k.eaten + 1], stream(c)[k.eaten + len])

\* Variant: the request stays in the buffer.
NotRemoved(k, n) == k
\* Nothing unless all n are there.
iobuf_remove(k, n) == IF n <= Buffered(k) THEN [k EXCEPT !.eaten = @ + n] ELSE k

Parsed(k, n) == [k EXCEPT !.request = n, !.request_len = IF n = 0 THEN -1 ELSE 1]
ParseUpTo(c, k, len) ==
    IF k.request_len # 0 \/ len = 0 THEN k
    ELSE IF len < 0 THEN [k EXCEPT !.request_len = -1]
    ELSE Parsed(iobuf_remove(k, len), parse_http_message(c, k, len))
try_parse(c, k) == ParseUpTo(c, k, get_request_len(c, k))

\* content_len of the request at hand.
ContentLen(c, k) == IF k.request = 0 THEN 0 ELSE ReqOf(c, k.request).body

-----------------------------------------------------------------------------
(* Answering *)

Answer(k, what, version) ==
    LET n == k.request IN
    [k EXCEPT !.out = @ \o [i \in DOMAIN what |-> [of |-> n, part |-> what[i], feed |-> version]]]

\* should_keep_alive, of a page of event_handler.
KeepAlive(c, k) == k.request # 0 /\ ReqOf(c, k.request).keep /\ k.endpoint_type = "USER"

\* Variant: what was not sent is dropped.
CloseAtOnce(k) == "CLOSE_IMMEDIATELY"
CloseFlag(k) == IF Unsent(k) = 0 THEN "CLOSE_IMMEDIATELY" ELSE "FINISHED_SENDING_DATA"

\* Variant: a request that is already buffered waits for the next recv.
WaitsForMore(keep) == FALSE
ProcessesNext(keep) == keep

\* The request is forgotten and its body gobbled; every flag is reset, those
\* that an earlier request had set included.
Reset(k, gobbled, keep) ==
    [gobbled EXCEPT !.endpoint_type = "NONE", !.request_len = 0, !.request = 0,
        !.flags = IF keep THEN {} ELSE {CloseFlag(k)}, !.again = ProcessesNext(keep)]
close_local_endpoint(c, k) ==
    Reset(k, iobuf_remove(k, ContentLen(c, k)), KeepAlive(c, k))

send_http_error(c, k) == close_local_endpoint(c, Answer(k, <<"error">>, 0))

\* open_local_endpoint once event_handler has declined: there is no document
\* root, but OPTIONS are told.
open_local_endpoint(c, k) ==
    LET declined == [k EXCEPT !.endpoint_type = "NONE"]
    IN IF ReqOf(c, k.request).uri = "*"
       THEN close_local_endpoint(c, Answer(declined, <<"whole">>, 0))
       ELSE send_http_error(c, declined)

\* Variant: the document before the last one.
OldDocument == feed - 1
Document == feed

\* event_handler: a chunk and the terminating chunk, or MG_FALSE.
call_request_handler(c, k) ==
    LET uri == ReqOf(c, k.request).uri IN
    IF uri = "/info" \/ (uri = "/flights.json" /\ feed # 0)
    THEN close_local_endpoint(c,
             Answer(k, <<"head", "chunk", "end">>, IF uri = "/info" THEN 0 ELSE Document))
    ELSE open_local_endpoint(c, k)

\* Variant: one part of the body more than there is.
BodyBufferedLate(c, k) == Buffered(k) > ContentLen(c, k)
BodyBuffered(c, k) == Buffered(k) >= ContentLen(c, k)

Serve(c, k) == IF BodyBuffered(c, k) THEN call_request_handler(c, k) ELSE k

send_continue_if_expected(c, k) ==
    IF ReqOf(c, k.request).expects THEN Answer(k, <<"continue">>, 0) ELSE k

Attached(c, k) ==
    IF k.endpoint_type = "USER" THEN k
    ELSE [send_continue_if_expected(c, k) EXCEPT !.endpoint_type = "USER"]

Refused(c, k) ==
    \/ k.request_len < 0
    \/ k.request # 0 /\ ReqOf(c, k.request).wrong \in {"uri", "version"}
    \/ k.request_len = 0 /\ Buffered(k) > MAX_REQUEST_SIZE

\* One call of process_request, from where the request is parsed up to where it
\* would call itself.
Process(c, k) ==
    IF Refused(c, k) THEN send_http_error(c, k)
    ELSE IF k.request_len = 0 THEN k
    ELSE Serve(c, Attached(c, k))
Again(c, k) == IF k.again THEN Process(c, try_parse(c, [k EXCEPT !.again = FALSE])) ELSE k

\* "Can call us recursively if pipelining is used": once for each request at most.
Pipelined(c, k) ==
    LET f[n \in Nat] == IF n = 0 THEN k ELSE Again(c, f[n - 1])
    IN f[Len(peer[c].script) + 1]
process_request(c, k) == Pipelined(c, [k EXCEPT !.again = TRUE])

-----------------------------------------------------------------------------
(* The clients *)

\* Nothing but the clients and the network.
Unserved == UNCHANGED <<conn, active_connections, todo, ready, pc, stopping, feed>>

Connect(c) ==
    /\ ~peer[c].connected /\ peer[c].script # <<>> /\ pc # "down"
    /\ peer' = [peer EXCEPT ![c].connected = TRUE]
    /\ UNCHANGED asked /\ Unserved

Send(c) ==
    /\ peer[c].connected /\ ~peer[c].shut /\ conn[c].open # "gone"
    /\ peer[c].sent < Len(stream(c))
    /\ peer' = [peer EXCEPT ![c].sent = @ + 1]
    /\ asked' = IF stream(c)[peer[c].sent + 1].last
                THEN [asked EXCEPT ![c] = Append(@, feed)] ELSE asked
    /\ Unserved

Read(c) ==
    /\ peer[c].read < conn[c].flushed
    /\ peer' = [peer EXCEPT ![c].read = conn[c].flushed]
    /\ UNCHANGED asked /\ Unserved

\* The client is gone, or will not send any more.
Shut(c) ==
    /\ peer[c].connected /\ ~peer[c].shut /\ conn[c].open # "gone"
    /\ peer' = [peer EXCEPT ![c].shut = TRUE]
    /\ UNCHANGED asked /\ Unserved

-----------------------------------------------------------------------------
(* ns_server_poll *)

\* mg_ev_handler on NS_CLOSE: the last request is ended like any other.
OnClose(c, k) ==
    IF k.data THEN [Pipelined(c, close_local_endpoint(c, k)) EXCEPT !.data = FALSE] ELSE k

\* ns_close_conn
Closed(c, k) ==
    [OnClose(c, k) EXCEPT !.open = "gone", !.flags = {}, !.age = 0]

\* Variant: an idle connection is released but not closed.
ReleasedOnly(c, k) == OnClose(c, k)
Expired(c, k) == [OnClose(c, k) EXCEPT !.flags = @ \cup {"CLOSE_IMMEDIATELY"}]

\* mg_ev_handler on NS_POLL
Polled(c, k) == IF k.age > IDLE_TIMEOUT_SECONDS THEN Expired(c, k) ELSE k

\* The connections, all in the states given, but for those of S.
CloseOf(states, S) ==
    /\ conn' = [c \in Clients |-> IF c \in S THEN Closed(c, states[c]) ELSE states[c]]
    /\ active_connections' =
           SubseqAt(active_connections,
               {i \in DOMAIN active_connections : active_connections[i] \notin S})

\* A flagged connection with nothing to send is closed.  Its socket is in the
\* set by then, so that select fails.
Closing(states) ==
    {c \in Clients : /\ states[c].open = "yes" /\ Unsent(states[c]) = 0
                     /\ "CLOSE_IMMEDIATELY" \in states[c].flags}
FirstLoop(states, closing) ==
    /\ CloseOf(states, closing)
    /\ ready' = [reads |-> {}, writes |-> {c \in Clients :
           states[c].open = "yes" /\ Unsent(states[c]) > 0}]
    /\ pc' = IF closing = {} THEN "select" ELSE "sweep"
PollAll(states) == FirstLoop(states, Closing(states))

Poll ==
    /\ pc \in {"idle", "late"}
    /\ PollAll([c \in Clients |-> IF conn[c].open = "yes" THEN Polled(c, conn[c]) ELSE conn[c]])
    /\ UNCHANGED <<peer, todo, stopping, feed, asked>>

Readable == {c \in ToSet(active_connections) : peer[c].sent > conn[c].got \/ peer[c].shut}
Writable == {c \in ready.writes : conn[c].flushed - peer[c].read < WireSize}
Backlog == {c \in Clients : peer[c].connected /\ conn[c].open = "no"}

\* accept_conn and on_accept; without memory the connection is closed again.
Accept(c) ==
    /\ \E ok \in BOOLEAN :
          conn' = [conn EXCEPT ![c] = [@ EXCEPT !.open = "yes", !.data = ok,
                       !.flags = IF ok THEN {} ELSE {"CLOSE_IMMEDIATELY"}]]
    /\ active_connections' = <<c>> \o active_connections

\* One connection is accepted for a poll, and read from in the next.
Select ==
    /\ pc = "select"
    /\ ready' = [reads |-> Readable, writes |-> Writable]
    /\ \/ \E c \in Backlog : Accept(c)
       \/ Backlog = {} /\ UNCHANGED <<conn, active_connections>>
    /\ IF Readable = {} /\ Writable = {} /\ Backlog = {}
       THEN pc' = "sweep" /\ UNCHANGED todo
       ELSE pc' = "handle" /\ todo' = active_connections'
    /\ UNCHANGED <<peer, stopping, feed, asked>>

Lesser(a, b) == IF a < b THEN a ELSE b

\* Nothing to read means that the client has shut its side.
ns_read_from_socket(c, k) ==
    LET n == Lesser(MaxRecv, peer[c].sent - k.got)
        more == [k EXCEPT !.got = @ + n, !.age = 0]
    IN IF n = 0 THEN [more EXCEPT !.flags = @ \cup {"CLOSE_IMMEDIATELY"}]
       ELSE process_request(c, more)

\* As much as the network takes, or nothing if it fails.
ns_write_to_socket(c, k, fails) ==
    LET n == Lesser(Unsent(k), WireSize - (k.flushed - peer[c].read))
        rest == [k EXCEPT !.flushed = IF fails THEN @ ELSE @ + n, !.age = 0]
    IN IF fails \/ (Unsent(rest) = 0 /\ "FINISHED_SENDING_DATA" \in rest.flags)
       THEN [rest EXCEPT !.flags = @ \cup {"CLOSE_IMMEDIATELY"}] ELSE rest

\* The data of a connection that was released is gone.
Dereferenced(c) == c \in ready.reads /\ ~conn[c].data /\ peer[c].sent > conn[c].got

Incoming(c, k) == IF c \in ready.reads THEN ns_read_from_socket(c, k) ELSE k
Outgoing(c, k, fails) == IF c \in ready.writes THEN ns_write_to_socket(c, k, fails) ELSE k

HandleOne(c) ==
    IF Dereferenced(c) THEN pc' = "crashed" /\ UNCHANGED <<conn, todo>>
    ELSE /\ \E fails \in {FALSE, peer[c].shut} :
               conn' = [conn EXCEPT ![c] = Outgoing(c, Incoming(c, @), fails)]
         /\ todo' = Tail(todo) /\ pc' = pc

Handle ==
    /\ pc = "handle"
    /\ IF todo = <<>> THEN pc' = "sweep" /\ UNCHANGED <<conn, todo>> ELSE HandleOne(Head(todo))
    /\ UNCHANGED <<peer, active_connections, ready, stopping, feed, asked>>

Close(S) == CloseOf(conn, S)

Sweep ==
    /\ pc = "sweep"
    /\ Close({c \in Clients : "CLOSE_IMMEDIATELY" \in conn[c].flags})
    /\ ready' = [reads |-> {}, writes |-> {}]
    /\ pc' = IF stopping THEN "free" ELSE "idle"
    /\ UNCHANGED <<peer, todo, stopping, feed, asked>>

\* ns_server_free, after "one last poll"
Free ==
    /\ pc = "free"
    /\ Close(ToSet(active_connections))
    /\ pc' = "down"
    /\ UNCHANGED <<peer, todo, ready, stopping, feed, asked>>

-----------------------------------------------------------------------------
(* Between two polls *)

\* Write_JSON and Write_XML
Rewrite ==
    /\ pc \in {"idle", "late"} /\ feed < MaxFeed
    /\ feed' = feed + 1
    /\ UNCHANGED <<peer, conn, active_connections, todo, ready, pc, stopping, asked>>

\* A second goes by, at most one for each turn of the server's loop.
Tick ==
    /\ pc = "idle"
    /\ pc' = "late"
    /\ conn' = [c \in Clients |->
          [conn[c] EXCEPT !.age = IF conn[c].open = "yes" THEN Lesser(@ + 1, IDLE_TIMEOUT_SECONDS + 1) ELSE 0]]
    /\ UNCHANGED <<peer, active_connections, todo, ready, stopping, feed, asked>>

\* http_close
Stop ==
    /\ pc = "idle" /\ ~stopping
    /\ stopping' = TRUE
    /\ UNCHANGED <<peer, conn, active_connections, todo, ready, pc, feed, asked>>

Server == Poll \/ Select \/ Handle \/ Sweep \/ Free
Client == \E c \in Clients : Connect(c) \/ Send(c) \/ Read(c) \/ Shut(c)

Next == Server \/ Client \/ Rewrite \/ Tick \/ Stop

\* Where a step of Server leads, and which connection it visits.
Turn ==
    \/ pc \in {"idle", "late"} /\ pc' \in {"select", "sweep"}
    \/ pc = "select" /\ pc' \in {"handle", "sweep"}
    \/ pc = "handle" /\ todo = <<>> /\ pc' = "sweep"
    \/ pc = "sweep" /\ pc' \in {"idle", "free"}
    \/ pc = "free" /\ pc' = "down"
Visit ==
    /\ pc = "handle" /\ todo # <<>>
    /\ \/ todo' = Tail(todo) /\ pc' = pc
       \/ todo' = todo /\ pc' = "crashed"

\* The server's loop goes on polling, whatever the time; clients read what
\* they are sent.
Fairness ==
    /\ WF_pc(Turn) /\ WF_<<pc, todo>>(Visit)
    /\ \A c \in Clients : WF_peer(Read(c))

Spec == Init /\ [][Next]_vars /\ Fairness

-----------------------------------------------------------------------------
(* Properties *)

Final == {"error", "whole", "end"}
Answered(c, k) == \E i \in DOMAIN conn[c].out : conn[c].out[i].of = k /\ conn[c].out[i].part \in Final
\* A request with nothing wrong, behind no refused one that has a body.
Valid(c, k) ==
    /\ ReqOf(c, k).wrong = "none"
    /\ \A j \in 1 .. k - 1 : ReqOf(c, j).wrong = "none" \/ ReqOf(c, j).body = 0

\* No request has two answers, or one behind that of a later request.
OneForEach(out) ==
    \A i, j \in DOMAIN out : i < j /\ out[i].of # 0 /\ out[j].of # 0 =>
        \/ out[i].of < out[j].of
        \/ out[i].of = out[j].of /\ out[i].part \notin Final

\* Pipelined or not, and however the parts arrive: the answers come in the
\* order of the requests, one for each, and none is left out but for those
\* behind a refused one, whose body is taken for the next request.  All the
\* while the buffers hold what is taken from them (TypeOK).
AnswersInOrder ==
    /\ TypeOK
    /\ \A c \in Clients :
           /\ OneForEach(conn[c].out)
           /\ \A k \in DOMAIN peer[c].script : Answered(c, k) =>
                 \A j \in 1 .. k - 1 : Valid(c, j) => Answered(c, j)

\* Whatever was answered reaches the network before the connection is closed,
\* unless the client closed its side, was idle, or the server stops.
DeliversWhole ==
    [][\A c \in Clients :
        conn[c].open = "yes" /\ conn'[c].open = "gone" =>
            \/ Unsent(conn[c]) = 0
            \/ peer[c].shut \/ stopping \/ ~conn[c].data]_vars

\* Between two polls no connection that is to stay holds a request that could
\* be answered: nothing but the next recv would come back to it.  And one
\* that answered with an error, or a request that does not let it stay, is on
\* its way to be closed until it answers another.
Waits(c, k) ==
    IF k.request_len = 0
    THEN get_request_len(c, k) = 0 /\ Buffered(k) <= MAX_REQUEST_SIZE
    ELSE k.endpoint_type = "USER" /\ Buffered(k) < ContentLen(c, k)
NoneForgotten ==
    pc \in {"idle", "late"} =>
        \A c \in Clients :
            LET k == conn[c] IN
            k.open = "yes" /\ k.data /\ k.flags = {} =>
                /\ Waits(c, k)
                /\ k.out # <<>> /\ k.request = 0 =>
                      Last(k.out).part = "end" /\ ReqOf(c, Last(k.out).of).keep

\* An answer is no older than the request: it shows the feed as it was when
\* the head was sent, or later; and "404" means that there was none then.
FreshAnswers ==
    \A c \in Clients : \A i \in DOMAIN conn[c].out :
        LET a == conn[c].out[i] IN
        a.of # 0 /\ ReqOf(c, a.of).uri = "/flights.json" /\ ReqOf(c, a.of).wrong = "none" =>
            /\ a.part = "chunk" => a.feed >= asked[c][a.of]
            /\ a.part = "error" => asked[c][a.of] = 0

\* The one way for an event to reach a connection that was released: it was
\* idle with an answer that its client did not take.
CrashOnlyWhenStalled ==
    pc = "crashed" =>
        \E c \in Clients :
            /\ conn[c].open = "yes" /\ Unsent(conn[c]) > 0
            /\ conn[c].age > IDLE_TIMEOUT_SECONDS /\ "CLOSE_IMMEDIATELY" \in conn[c].flags

\* A valid request that was sent whole is answered, or its connection closed, as long
\* as the client stays and the server runs.
SentUpTo(c, k) ==
    LET s == stream(c) IN
    /\ k \in DOMAIN peer[c].script /\ Valid(c, k)
    /\ \E i \in 1 .. peer[c].sent : s[i].of = k /\ (i = Len(s) \/ s[i + 1].of > k)
Requests(c) == UNION {DOMAIN s[c] : s \in Scripts}
AnswerComes ==
    \A c \in Clients : \A k \in Requests(c) :
        SentUpTo(c, k) ~>
            Answered(c, k) \/ conn[c].open = "gone" \/ peer[c].shut \/ pc \in {"down", "crashed"}

=============================================================================
