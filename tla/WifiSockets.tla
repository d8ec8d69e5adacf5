---------------------------- MODULE WifiSockets ----------------------------
(***************************************************************************)
(* network/wifi/wifi.c, the sockets of a wifi module, under the handles of *)
(* network/tcp_socket.c.  The application's calls change the sockets and   *)
(* run commands; the callback of the AT parser changes the same sockets in *)
(* the interrupt, when a connection brings its first data or is closed.    *)
(*                                                                         *)
(* AtParser has the parser; here it is what wifi.c sees of it: a message   *)
(* of the module is taken as a whole, and at_run_cmd takes the first       *)
(* response that is there.  What a call has still to do is a sequence of   *)
(* jobs; the interrupt may come between any two of them.                   *)
(***************************************************************************)
EXTENDS Integers, Sequences, FiniteSets, SequencesExt

CONSTANTS
    MAX_CONNECTIONS,
    BackLogs,           \* values of back_log the application uses
    Memory,             \* bound: circular buffers there is memory for
    MaxCalls,           \* bound: calls of the application
    MaxPeer,            \* bound: things the peers do
    MaxUnsure           \* bound: commands that fail although the module may carry them out

Conns == 0..MAX_CONNECTIONS - 1
Socks == 0..MAX_CONNECTIONS     \* NB_SOCKETS is MAX_CONNECTIONS + 1
INVALID_ID == -1
NULL == 0

ASSUME WifiAssumption ==
    /\ {MAX_CONNECTIONS, Memory} \subseteq Nat \ {0}
    /\ BackLogs \subseteq Nat /\ {MaxCalls, MaxPeer, MaxUnsure} \subseteq Nat

VARIABLES
    sockets,            \* the sockets: state, conn_id, cb
    map,                \* conn_id_to_sock_id
    server,             \* server.id, and client_ids up to back_log_clients
    live,               \* heap: the circular buffers allocated
    at,                 \* AT parser: its connections
    resp,               \* AT parser: responses that nobody waited for yet
    handles,            \* tcp_socket.c: descriptors the application has of a socket
    work,               \* jobs left of the call under way
    cmd,                \* the command at_run_cmd waits for
    found,              \* the connection number that a call has loaded and not used yet
    todo, line,         \* module: commands it has not answered, messages nobody read
    link, serving,      \* module: connections that are open, whether it takes new ones
    ncalls, npeer, nunsure,     \* counters of the bounds
    flaws               \* history: what happened that the code does not foresee

app == <<handles, work, cmd, found>>
wifi == <<sockets, map, server>>
parser == <<at, resp>>
module == <<todo, line, link, serving>>
counts == <<ncalls, npeer, nunsure>>
vars == <<wifi, live, parser, app, module, counts, flaws>>

\* A new wifi_desc is zeroed, also the connection numbers of its sockets.
NoSockets == [s \in Socks |-> [state |-> "UNUSED", conn_id |-> 0, cb |-> NULL]]
NoMap == [c \in Conns |-> INVALID_ID]
NoServer == [id |-> INVALID_ID, clients |-> <<>>]

\* wifi_init has succeeded.
Init ==
    /\ sockets = NoSockets /\ map = NoMap /\ server = NoServer
    /\ live = {} /\ at = [c \in Conns |-> NULL] /\ resp = <<>>
    /\ handles = [s \in Socks |-> 0] /\ work = <<>> /\ cmd = <<>> /\ found = 0
    /\ todo = <<>> /\ line = <<>> /\ link = {} /\ serving = FALSE
    /\ ncalls = 0 /\ npeer = 0 /\ nunsure = 0 /\ flaws = {}

Flaw(name, when) == flaws' = IF when THEN flaws \cup {name} ELSE flaws

\* The first of a set of numbers, as the loops of the code find it.
First(S) == CHOOSE x \in S : \A y \in S : x <= y

\* All of them, in the order in which the loops find them.
InOrder(S) ==
    CHOOSE q \in [1..Cardinality(S) -> S] : \A j, k \in 1..Cardinality(S) : j < k => q[j] < q[k]

-----------------------------------------------------------------------------
(* Helpers of wifi.c.                                                      *)

Mapped(s) == \E c \in Conns : map[c] = s

Backlog(s) == Contains(server.clients, s)

\* cb_init: a place that is free.
FreeBufs == (1..Memory) \ live

\* cb_remove; NULL is refused.
CbRemove(bufs) == live' = live \ bufs

-----------------------------------------------------------------------------
(* The interrupt.                                                          *)

\* _get_initialized_client_id.
Initialized == {k \in DOMAIN server.clients : sockets[server.clients[k]].state = "DISCONNECTED"}

\* Mutant: the number of the connection is one too high.
Given_next_number(s, c) == [sockets EXCEPT ![s].state = "WAITING_ACCEPT", ![s].conn_id = c + 1]

\* Mutant: the number of the connection is not noted in the socket.
Given_no_number(s, c) == [sockets EXCEPT ![s].state = "WAITING_ACCEPT"]

\* The sockets, once s is given the new connection c.
Given(s, c) == [sockets EXCEPT ![s].state = "WAITING_ACCEPT", ![s].conn_id = c]

\* Data of connection c.  If the parser does not know it, AT_NEW_CONNECTION asks for
\* its circular buffer: that of its socket, or of a client socket that is waiting.
Data(c) ==
    \/ /\ at[c] # NULL \/ (map[c] = INVALID_ID /\ Initialized = {})
       /\ UNCHANGED <<wifi, at, flaws>>
    \/ /\ at[c] = NULL /\ map[c] # INVALID_ID
       /\ at' = [at EXCEPT ![c] = sockets[map[c]].cb]
       /\ UNCHANGED <<wifi, flaws>>
    \/ /\ at[c] = NULL /\ map[c] = INVALID_ID /\ Initialized # {}
       /\ LET s == server.clients[First(Initialized)]
          IN /\ sockets' = Given(s, c)
             /\ map' = [map EXCEPT ![c] = s]
             /\ at' = [at EXCEPT ![c] = sockets[s].cb]
             /\ flaws' = flaws \cup (IF Mapped(s) THEN {"twice"} ELSE {})
                               \cup (IF sockets[s].cb \in live THEN {} ELSE {"freed"})
             /\ UNCHANGED server

\* Mutant: the parser goes on writing to the buffer.
Forgotten_not(c) == at

\* The parser forgets a connection that is closed.
Forgotten(c) == [at EXCEPT ![c] = NULL]

\* Mutant: the state of the socket is left as it is.
Down_not(s) == sockets

\* The sockets, once s is disconnected by its peer.
Down(s) == [sockets EXCEPT ![s].state = "DISCONNECTED"]

\* AT_CLOSED_CONNECTION: the socket is disconnected and its connection released.
Closed(c) ==
    /\ at' = Forgotten(c)
    /\ LET s == map[c]
       IN \/ /\ s = INVALID_ID
             /\ UNCHANGED <<sockets, map>>
          \/ /\ s # INVALID_ID /\ sockets[s].conn_id = INVALID_ID
             /\ sockets' = Down(s) /\ UNCHANGED map
          \/ /\ s # INVALID_ID /\ sockets[s].conn_id # INVALID_ID
             /\ sockets' = [Down(s) EXCEPT ![s].conn_id = INVALID_ID]
             /\ map' = [map EXCEPT ![sockets[s].conn_id] = INVALID_ID]

\* The next message of the module has been read.
Interrupt ==
    /\ line # <<>> /\ line' = Tail(line)
    /\ LET msg == Head(line)
       IN \/ msg[1] = "data" /\ Data(msg[2]) /\ UNCHANGED resp
          \/ msg[1] = "closed" /\ Closed(msg[2]) /\ UNCHANGED <<server, resp, flaws>>
          \/ /\ msg[1] \in {"ok", "error"} /\ resp' = Append(resp, msg[1])
             /\ UNCHANGED <<wifi, at, flaws>>
    /\ UNCHANGED <<live, app, todo, link, serving, counts>>

-----------------------------------------------------------------------------
(* The application's calls, each through a descriptor it has.              *)

Idle == work = <<>> /\ cmd = <<>> /\ ncalls < MaxCalls

Begin == Idle /\ ncalls' = ncalls + 1

Run(c) == cmd' = c /\ todo' = Append(todo, c)

KeepModule == UNCHANGED <<line, link, serving, npeer, nunsure, found>>

\* socket_init and wifi_socket_open: there may be no socket or no memory.
Open ==
    /\ Begin
    /\ LET unused == {s \in Socks : sockets[s].state = "UNUSED"}
           s == First(unused)
       IN IF unused = {} \/ FreeBufs = {} THEN UNCHANGED <<sockets, live, handles>>
          ELSE /\ sockets' = [sockets EXCEPT ![s].state = "DISCONNECTED",
                                             ![s].cb = First(FreeBufs)]
               /\ live' = live \cup {First(FreeBufs)}
               /\ handles' = [handles EXCEPT ![s] = @ + 1]
    /\ KeepModule /\ UNCHANGED <<map, server, parser, work, cmd, todo, flaws>>

\* _wifi_get_unused_conn.
UnusedConns == {c \in Conns : map[c] = INVALID_ID}

\* wifi_socket_connect looks for an unused number.
Connect(s) ==
    /\ Begin
    /\ \/ /\ s = server.id \/ sockets[s].state \in {"UNUSED", "CONNECTED"} \/ UnusedConns = {}
          /\ UNCHANGED <<work, found>>
       \/ /\ s # server.id /\ sockets[s].state \notin {"UNUSED", "CONNECTED"}
          /\ UnusedConns # {}
          /\ found' = First(UnusedConns) /\ work' = <<<<"claim", s>>>>
    /\ UNCHANGED <<line, link, serving, npeer, nunsure>>
    /\ UNCHANGED <<wifi, live, parser, handles, cmd, todo, flaws>>

\* wifi_socket_disconnect, and wifi_socket_close by socket_remove.
Disconnect(s) ==
    /\ Begin /\ work' = <<<<"disc", s>>>>
    /\ KeepModule /\ UNCHANGED <<wifi, live, parser, handles, cmd, todo, flaws>>

Close(s) ==
    /\ Begin /\ work' = <<<<"close", s>>, <<"handle", s>>>>
    /\ KeepModule /\ UNCHANGED <<wifi, live, parser, handles, cmd, todo, flaws>>

\* wifi_socket_send, whose data may take several commands.
Send(s) ==
    /\ Begin /\ s # server.id /\ sockets[s].state = "CONNECTED"
    /\ work' = <<<<"send", s>>>>
    /\ KeepModule /\ UNCHANGED <<wifi, live, parser, handles, cmd, todo, flaws>>

\* wifi_socket_bind.
Bind(s) ==
    /\ Begin /\ server.id = INVALID_ID /\ sockets[s].state # "UNUSED"
    /\ server' = [server EXCEPT !.id = s]
    /\ Flaw("twice", sockets[s].state # "DISCONNECTED")
    /\ KeepModule /\ UNCHANGED <<sockets, map, live, parser, app, todo>>

\* wifi_socket_listen.  Each client socket gets a buffer when it is opened, which the
\* server's own buffer, or another new one, replaces.
Listen(s, back_log) ==
    /\ Begin /\ server.id = s
    /\ LET want == IF back_log = 0 \/ back_log > MAX_CONNECTIONS THEN MAX_CONNECTIONS ELSE back_log
           unused == {t \in Socks : sockets[t].state = "UNUSED"}
           own == IF sockets[s].cb # NULL THEN 1 ELSE 0
           room == (Cardinality(FreeBufs) + own) \div 2
           few == IF Cardinality(unused) < room THEN Cardinality(unused) ELSE room
           n == IF want < few THEN want ELSE few
           ids == SubSeq(InOrder(unused), 1, n)
           bufs == InOrder(FreeBufs)
           buf(k) == IF k = 1 /\ own = 1 THEN sockets[s].cb ELSE bufs[2*k - own]
       IN /\ sockets' = [t \in Socks |->
                IF Contains(ids, t)
                THEN [sockets[t] EXCEPT !.state = "DISCONNECTED",
                                        !.cb = buf(CHOOSE k \in 1..n : ids[k] = t)]
                ELSE IF t = s /\ n > 0 THEN [sockets[t] EXCEPT !.cb = NULL] ELSE sockets[t]]
          /\ server' = [server EXCEPT !.clients = ids]
          /\ live' = live \cup {bufs[k] : k \in 1..(2*n - own)}
          /\ \/ n = want /\ Run(<<"SERVER", TRUE>>) /\ work' = <<<<"listening", s>>>>
             \/ /\ n < want /\ work' = [k \in 1..n |-> <<"free", ids[k]>>]
                /\ UNCHANGED <<cmd, todo>>
    /\ Flaw("twice", sockets[s].state # "DISCONNECTED")
    /\ KeepModule /\ UNCHANGED <<map, parser, handles>>

\* wifi_socket_accept finds a client that is waiting.
Accept(s) ==
    /\ Begin /\ server.id = s /\ sockets[s].state = "LISTENING"
    /\ LET waiting == {t \in Socks : sockets[t].state = "WAITING_ACCEPT"}
       IN work' = IF waiting = {} THEN <<>> ELSE <<<<"accept", First(waiting)>>>>
    /\ KeepModule /\ UNCHANGED <<wifi, live, parser, handles, cmd, todo, flaws>>

\* wifi_remove.
WifiRemove ==
    /\ Begin
    /\ work' = [k \in 1..Cardinality(Socks) |-> <<"close", k - 1>>] \o <<<<"quit", 0>>>>
    /\ KeepModule /\ UNCHANGED <<wifi, live, parser, handles, cmd, todo, flaws>>

-----------------------------------------------------------------------------
(* The jobs of a call, run when it waits for no command.                   *)

Job(name) == cmd = <<>> /\ work # <<>> /\ Head(work)[1] = name
Sock == Head(work)[2]

\* What is left once the job is done, with the jobs that it turned into before it.
Goes(jobs) == work' = jobs \o Tail(work)
Done == Goes(<<>>)

KeepJob == UNCHANGED <<resp, line, link, serving, counts, found>>
Quiet == KeepJob /\ UNCHANGED <<cmd, todo>>

\* wifi_socket_close.
JobClose ==
    /\ Job("close")
    /\ Goes(IF sockets[Sock].state = "UNUSED" THEN <<>> ELSE <<<<"disc", Sock>>, <<"tail", Sock>>>>)
    /\ Quiet /\ UNCHANGED <<wifi, live, at, handles, flaws>>

\* wifi_socket_disconnect: the peer was first, or a command tells the module.
JobDisconnect ==
    /\ Job("disc")
    /\ \/ sockets[Sock].state \in {"UNUSED", "DISCONNECTED"} /\ Done /\ UNCHANGED <<cmd, todo>>
       \/ /\ sockets[Sock].state \notin {"UNUSED", "DISCONNECTED"}
          /\ IF Sock = server.id
             THEN Run(<<"SERVER", FALSE>>) /\ Goes(<<<<"unserve", Sock>>>>)
             ELSE Run(<<"STOP", sockets[Sock].conn_id>>) /\ Goes(<<<<"stopped", Sock>>>>)
    /\ KeepJob /\ UNCHANGED <<wifi, live, at, handles, flaws>>

\* The client sockets of the server are freed one after the other, then the server.
Frees == [k \in DOMAIN server.clients |-> <<"free", server.clients[k]>>]

JobUnserve ==
    /\ Job("unserve") /\ Goes(Frees \o <<<<"noserver", Sock>>>>)
    /\ Quiet /\ UNCHANGED <<wifi, live, at, handles, flaws>>

JobNoServer ==
    /\ Job("noserver") /\ Done
    /\ server' = [server EXCEPT !.id = INVALID_ID]
    /\ sockets' = [sockets EXCEPT ![Sock].state = "DISCONNECTED"]
    /\ Quiet /\ UNCHANGED <<map, live, at, handles, flaws>>

\* _remove_server_back_log: the buffer first, then the socket.
JobFree ==
    /\ Job("free") /\ Goes(<<<<"close", Sock>>>>)
    /\ CbRemove({sockets[Sock].cb})
    /\ flaws' = flaws \cup (IF /\ sockets[Sock].state \in {"UNUSED", "DISCONNECTED"}
                               /\ handles[Sock] = 0 THEN {} ELSE {"freed"})
                      \cup (IF sockets[Sock].cb \in live \cup {NULL} THEN {} ELSE {"freed twice"})
    /\ Quiet /\ UNCHANGED <<wifi, at, handles>>

\* The socket was given to a new client while a call of the application was closing or
\* connecting it.
Retaken == sockets[Sock].state = "WAITING_ACCEPT"

\* _wifi_release_conn loads the number of the connection, and is done if there is none ...
LoadNumber(next, otherwise) ==
    \/ /\ sockets[Sock].conn_id # INVALID_ID
       /\ found' = sockets[Sock].conn_id /\ Goes(<<<<next, Sock>>>>)
    \/ sockets[Sock].conn_id = INVALID_ID /\ Goes(otherwise) /\ UNCHANGED found

\* ... and then clears both entries.
ReleaseFound ==
    /\ sockets' = [sockets EXCEPT ![Sock].conn_id = INVALID_ID]
    /\ map' = [map EXCEPT ![found] = INVALID_ID]
    /\ flaws' = flaws
         \cup (IF Retaken \/ sockets[Sock].conn_id \notin {found, INVALID_ID}
               THEN {"retaken"} ELSE {})
         \cup (IF sockets[Sock].conn_id = INVALID_ID /\ map[found] # INVALID_ID
               THEN {"overtaken"} ELSE {})

\* wifi_socket_disconnect: the module has stopped the connection; release it ...
JobStopped ==
    /\ Job("stopped") /\ LoadNumber("parted", <<<<"down", Sock>>>>)
    /\ Flaw("retaken", Retaken)
    /\ UNCHANGED <<wifi, live, parser, handles, cmd, todo, line, link, serving, counts>>

JobParted ==
    /\ Job("parted") /\ Goes(<<<<"down", Sock>>>>)
    /\ ReleaseFound
    /\ Quiet /\ UNCHANGED <<server, live, at, handles>>

\* ... and note that it is disconnected.
JobDown ==
    /\ Job("down") /\ Done
    /\ sockets' = [sockets EXCEPT ![Sock].state = "DISCONNECTED"]
    /\ Flaw("retaken", Retaken)
    /\ Quiet /\ UNCHANGED <<map, server, live, at, handles>>

\* Mutant: the buffer of a server's client is released as well.
Owned_all(s) == TRUE

\* "Server socket circular buffer will be released only when server is removed".
Owned(s) == ~Backlog(s)

\* The end of wifi_socket_close.
JobTail ==
    /\ Job("tail") /\ Done
    /\ LET s == Sock
           out == IF ~Backlog(s) \/ s # server.id THEN {s} ELSE {s} \cup ToSet(server.clients)
           bufs == IF Owned(s) THEN {sockets[s].cb}
                   ELSE IF s = server.id THEN {sockets[t].cb : t \in ToSet(server.clients)} ELSE {}
       IN /\ sockets' = [t \in Socks |->
                IF t \notin out THEN sockets[t]
                ELSE [sockets[t] EXCEPT !.state = "UNUSED",
                                        !.cb = IF t = s /\ Owned(s) THEN NULL ELSE @]]
          /\ CbRemove(bufs)
          /\ flaws' = flaws \cup (IF Retaken THEN {"retaken"} ELSE {})
                            \cup (IF bufs \subseteq live \cup {NULL} THEN {} ELSE {"freed twice"})
                            \cup (IF out = {s} THEN {} ELSE {"freed"})
    /\ Quiet /\ UNCHANGED <<map, server, at, handles>>

\* socket_remove frees the descriptor.
JobHandle ==
    /\ Job("handle") /\ Done
    /\ handles' = [handles EXCEPT ![Sock] = @ - 1]
    /\ Quiet /\ UNCHANGED <<wifi, live, at, flaws>>

\* _wifi_get_unused_conn stores the number it has found, in the table and then in the socket.
\* The interrupt may come between the two: of all that it may do, only a CLOSED of this
\* number would not do the same before or after both, as it releases the number that the
\* socket had before, which is 0 in a socket that never had one.
JobClaim ==
    /\ Job("claim") /\ Goes(<<<<"start", Sock>>>>)
    /\ \/ /\ map' = [map EXCEPT ![found] = Sock]
          /\ sockets' = [sockets EXCEPT ![Sock].conn_id = found]
          /\ flaws' = flaws \cup (IF Mapped(Sock) THEN {"twice"} ELSE {})
                            \cup (IF found \in link THEN {"silent"} ELSE {})
                            \cup (IF map[found] # INVALID_ID THEN {"overtaken"} ELSE {})
          /\ UNCHANGED <<at, line>>
       \/ /\ line # <<>> /\ Head(line) = <<"closed", found>> /\ line' = Tail(line)
          /\ at' = Forgotten(found)
          /\ sockets[Sock].conn_id # INVALID_ID
          /\ map' = [map EXCEPT ![found] = Sock, ![sockets[Sock].conn_id] = INVALID_ID]
          /\ sockets' = [Down(Sock) EXCEPT ![Sock].conn_id = found]
          /\ flaws' = flaws \cup {"overtaken"}
    /\ UNCHANGED <<server, live, resp, handles, cmd, found, todo, link, serving, counts>>

\* wifi_socket_connect asks for the connection, by the number the socket has by then.
JobStart ==
    /\ Job("start") /\ Goes(<<<<"up", Sock>>>>)
    /\ Run(<<"START", sockets[Sock].conn_id>>)
    /\ KeepJob /\ UNCHANGED <<wifi, live, at, handles, flaws>>

\* The module has started the connection ...
JobUp ==
    /\ Job("up") /\ Done
    /\ sockets' = [sockets EXCEPT ![Sock].state = "CONNECTED"]
    /\ Flaw("raced", ~Mapped(Sock))
    /\ Quiet /\ UNCHANGED <<map, server, live, at, handles>>

\* ... or at_run_cmd has failed.
JobUnmap ==
    /\ Job("unmap") /\ LoadNumber("unlink", <<>>)
    /\ Flaw("retaken", Retaken)
    /\ UNCHANGED <<wifi, live, parser, handles, cmd, todo, line, link, serving, counts>>

JobUnlink ==
    /\ Job("unlink") /\ Done
    /\ ReleaseFound
    /\ Quiet /\ UNCHANGED <<server, live, at, handles>>

\* wifi_socket_listen: the module takes connections.
JobListening ==
    /\ Job("listening") /\ Done
    /\ sockets' = [sockets EXCEPT ![Sock].state = "LISTENING"]
    /\ Quiet /\ UNCHANGED <<map, server, live, at, handles, flaws>>

\* wifi_socket_accept takes the client, and socket_accept makes its descriptor; when
\* there is no memory for it, it closes the socket that listens.
JobAccept ==
    /\ Job("accept")
    /\ sockets' = [sockets EXCEPT ![Sock].state = "CONNECTED"]
    /\ Flaw("raced", sockets[Sock].state # "WAITING_ACCEPT")
    /\ \/ Done /\ handles' = [handles EXCEPT ![Sock] = @ + 1] /\ UNCHANGED nunsure
       \/ /\ nunsure < MaxUnsure /\ nunsure' = nunsure + 1
          /\ Goes(<<<<"close", server.id>>>>) /\ UNCHANGED handles
    /\ UNCHANGED <<map, server, live, parser, cmd, found, module, ncalls, npeer>>

\* wifi_socket_send: the next part of the data, to the connection the socket has by then.
JobSend ==
    /\ Job("send") /\ Goes(<<<<"sent", Sock>>>>)
    /\ Run(<<"SEND", sockets[Sock].conn_id>>)
    /\ KeepJob /\ UNCHANGED <<wifi, live, at, handles, flaws>>

JobSent ==
    /\ Job("sent") /\ (Done \/ Goes(<<<<"send", Sock>>>>))
    /\ Quiet /\ UNCHANGED <<wifi, live, at, handles, flaws>>

\* wifi_disconnect, at the end of wifi_remove ...
JobQuit ==
    /\ Job("quit") /\ Goes(<<<<"gone", 0>>>>)
    /\ Run(<<"QUIT", 0>>)
    /\ KeepJob /\ UNCHANGED <<wifi, live, at, handles, flaws>>

\* ... at_remove and free: there are no more events and no more calls.
JobGone ==
    /\ Job("gone") /\ Done
    /\ sockets' = NoSockets /\ map' = NoMap /\ server' = NoServer
    /\ at' = [c \in Conns |-> NULL] /\ line' = <<>> /\ link' = {} /\ serving' = FALSE
    /\ ncalls' = MaxCalls /\ npeer' = MaxPeer
    /\ UNCHANGED <<live, resp, handles, cmd, found, todo, nunsure, flaws>>

\* wifi_socket_disconnect returns its error, and so do the wifi_socket_close and the
\* socket_remove that called it.
Aborted(jobs) ==
    LET n == IF jobs = <<>> \/ jobs[1][1] # "tail" THEN 0
             ELSE IF Len(jobs) > 1 /\ jobs[2][1] = "handle" THEN 2 ELSE 1
    IN SubSeq(jobs, n + 1, Len(jobs))

\* at_run_cmd has failed: what the call does.
Failed ==
    work' = CASE Head(work)[1] = "up"        -> <<<<"unmap", Sock>>>> \o Tail(work)
              [] Head(work)[1] = "listening" -> Frees \o Tail(work)
              [] Head(work)[1] = "gone"      -> work
              [] OTHER                       -> Aborted(Tail(work))

\* at_run_cmd returns the first response there is, or the errors of the parser, and clears
\* the result; after an error it has only cut the length of one response off its end.
Response ==
    /\ cmd # <<>> /\ resp # <<>> /\ cmd' = <<>>
    /\ \/ /\ Head(resp) = "ok" /\ resp' = <<>> /\ UNCHANGED <<work, nunsure, flaws>>
       \/ /\ Head(resp) = "error" /\ resp' = SubSeq(resp, 1, Len(resp) - 1)
          /\ Failed /\ UNCHANGED <<nunsure, flaws>>
       \/ /\ Head(resp) = "ok" /\ resp' = <<>> /\ nunsure < MaxUnsure
          /\ Failed /\ nunsure' = nunsure + 1 /\ flaws' = flaws \cup {"unsure"}
    /\ UNCHANGED <<wifi, live, at, handles, found, module, ncalls, npeer>>

\* at_run_cmd returns without a response, which may still come.
TimedOut ==
    /\ cmd # <<>> /\ cmd' = <<>> /\ nunsure < MaxUnsure
    /\ Failed /\ nunsure' = nunsure + 1 /\ flaws' = flaws \cup {"unsure"}
    /\ UNCHANGED <<wifi, live, parser, handles, found, module, ncalls, npeer>>

-----------------------------------------------------------------------------
(* The module and the peers (external).                                    *)

Answer ==
    /\ todo # <<>> /\ todo' = Tail(todo)
    /\ LET op == Head(todo)[1]
           x == Head(todo)[2]
       IN \/ \* It refuses, or there is no such connection, or there is one already.
             /\ line' = Append(line, <<"error">>) /\ UNCHANGED <<link, serving>>
          \/ /\ op = "START" /\ x \in Conns \ link
             /\ link' = link \cup {x} /\ line' = Append(line, <<"ok">>) /\ UNCHANGED serving
          \/ /\ op = "STOP" /\ x \in link
             /\ link' = link \ {x} /\ line' = line \o <<<<"closed", x>>, <<"ok">>>>
             /\ UNCHANGED serving
          \/ /\ op = "SERVER"
             /\ serving' = x /\ line' = Append(line, <<"ok">>) /\ UNCHANGED link
          \/ /\ (op = "SEND" /\ x \in link) \/ op = "QUIT"
             /\ line' = Append(line, <<"ok">>) /\ UNCHANGED <<link, serving>>
    /\ UNCHANGED <<wifi, live, parser, app, counts, flaws>>

Peer ==
    /\ npeer < MaxPeer /\ npeer' = npeer + 1
    /\ UNCHANGED <<wifi, live, parser, app, todo, serving, ncalls, nunsure>>

\* A peer connects to the server; the module tells nobody before there are data, and it
\* may take a number that a connect has just taken as well.
PeerConnects ==
    /\ Peer /\ serving /\ Conns \ link # {}
    /\ LET c == First(Conns \ link)
       IN /\ link' = link \cup {c}
          /\ Flaw("silent", map[c] # INVALID_ID /\ ~Contains(line, <<"closed", c>>))
    /\ UNCHANGED line

PeerSends(c) ==
    /\ Peer /\ c \in link
    /\ line' = Append(line, <<"data", c>>) /\ UNCHANGED <<link, flaws>>

PeerCloses(c) ==
    /\ Peer /\ c \in link
    /\ link' = link \ {c} /\ line' = Append(line, <<"closed", c>>) /\ UNCHANGED flaws

-----------------------------------------------------------------------------
Jobs == \/ JobClose \/ JobDisconnect \/ JobUnserve \/ JobNoServer \/ JobFree \/ JobStopped
        \/ JobParted \/ JobDown \/ JobTail \/ JobHandle \/ JobClaim \/ JobStart \/ JobUp
        \/ JobUnmap \/ JobUnlink \/ JobListening \/ JobAccept \/ JobSend \/ JobSent \/ JobQuit
        \/ JobGone

\* What the application does with a descriptor it has.
Call(s) ==
    \/ Connect(s) \/ Disconnect(s) \/ Close(s) \/ Send(s) \/ Bind(s) \/ Accept(s)
    \/ \E b \in BackLogs : Listen(s, b)

Next ==
    \/ Open \/ WifiRemove
    \/ \E s \in {t \in Socks : handles[t] > 0} : Call(s)
    \/ Jobs \/ Response \/ TimedOut
    \/ Interrupt \/ Answer \/ PeerConnects
    \/ \E c \in Conns : PeerSends(c) \/ PeerCloses(c)

Spec == Init /\ [][Next]_vars

-----------------------------------------------------------------------------
(* Properties.                                                             *)

TypeOK ==
    /\ sockets \in [Socks -> [state : {"UNUSED", "WAITING_ACCEPT", "DISCONNECTED", "CONNECTED",
                                       "LISTENING"},
                              conn_id : Conns \cup {INVALID_ID}, cb : 0..Memory]]
    /\ map \in [Conns -> Socks \cup {INVALID_ID}]
    /\ server.id \in Socks \cup {INVALID_ID} /\ ToSet(server.clients) \subseteq Socks
    /\ live \subseteq 1..Memory /\ at \in [Conns -> 0..Memory]
    /\ found \in Conns /\ link \subseteq Conns /\ \A s \in Socks : handles[s] >= 0

None(names) == flaws \cap names = {}

\* The numbers of the connections and the sockets agree.
MapsBack ==
    None({"twice", "retaken"}) =>
        \A c \in Conns : map[c] # INVALID_ID => sockets[map[c]].conn_id = c

\* The parser stores the data of a connection in the buffer of the socket it belongs to,
\* which is allocated.
DataToOwner ==
    None({"twice", "overtaken", "silent", "unsure", "retaken", "freed"}) =>
        \A c \in Conns : at[c] # NULL =>
            /\ map[c] # INVALID_ID /\ at[c] = sockets[map[c]].cb
            /\ at[c] \in live

\* "Socket connected to a server or to a client": its connection is open, or the message
\* that it was closed is on its way.
ConnectedIsOpen ==
    None({"twice", "overtaken", "unsure", "retaken", "raced"}) =>
        \A s \in Socks : sockets[s].state \in {"CONNECTED", "WAITING_ACCEPT"} =>
            LET c == sockets[s].conn_id
            IN /\ c # INVALID_ID /\ map[c] = s
               /\ c \in link \/ Contains(line, <<"closed", c>>)

\* A socket in use, and not being closed, has a buffer of its own, and no buffer is freed
\* twice.
BuffersApart ==
    None({"freed", "twice", "retaken"}) =>
        /\ "freed twice" \notin flaws
        /\ LET used == {s \in Socks : /\ sockets[s].state # "UNUSED" /\ sockets[s].cb # NULL
                                      /\ \A k \in DOMAIN work : work[k][2] # s}
           IN \A s \in used : /\ sockets[s].cb \in live
                              /\ \A t \in used \ {s} : sockets[t].cb # sockets[s].cb
=============================================================================
