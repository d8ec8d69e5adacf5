--------------------------- MODULE WifiInvariants ---------------------------
(***************************************************************************)
(* The inductive invariants of WifiSockets, which WifiSocketsProofs        *)
(* proves, and the ideas that they are made of.                            *)
(***************************************************************************)
EXTENDS WifiSockets

-----------------------------------------------------------------------------
(* Sane: types, and the jobs of a call.                                    *)

States == {"UNUSED", "WAITING_ACCEPT", "DISCONNECTED", "CONNECTED", "LISTENING"}
Socket == [state : States, conn_id : Conns \cup {INVALID_ID}, cb : 0..Memory]
Server == [id : Socks \cup {INVALID_ID}, clients : Seq(Socks)]

JobNames == {"close", "disc", "tail", "handle", "unserve", "noserver", "free", "stopped", "down",
             "parted", "claim", "start", "up", "unmap", "unlink", "listening", "accept", "send", "sent",
             "quit", "gone"}
Task == JobNames \X Socks

Command == ({"START", "STOP", "SEND"} \X (Conns \cup {INVALID_ID}))
           \cup ({"SERVER"} \X BOOLEAN) \cup ({"QUIT"} \X {0})

Message == ({"data", "closed"} \X Conns) \cup {<<"ok">>, <<"error">>}

WifiTypes ==
    /\ sockets \in [Socks -> Socket]
    /\ map \in [Conns -> Socks \cup {INVALID_ID}]
    /\ server \in Server
    /\ live \subseteq 1..Memory /\ at \in [Conns -> 0..Memory]
    /\ handles \in [Socks -> Nat]

LineTypes ==
    /\ work \in Seq(Task) /\ cmd \in Command \cup {<<>>}
    /\ todo \in Seq(Command) /\ line \in Seq(Message) /\ resp \in Seq({"ok", "error"})
    /\ link \subseteq Conns /\ found \in Conns

\* The job that gives a descriptor back is the last of its call, and the descriptor is
\* still there; a client is accepted by a call of its own, of a server.
Orderly(W, H, S) ==
    \A k \in 1..Len(W) :
       /\ W[k][1] = "handle" => k = Len(W) /\ H[W[k][2]] > 0
       /\ W[k][1] = "accept" => Len(W) = 1 /\ S.id # INVALID_ID

Sane ==
    /\ WifiTypes /\ LineTypes
    /\ cmd # <<>> => work # <<>>
    /\ Orderly(work, handles, server)

-----------------------------------------------------------------------------
(* The invariants.                                                         *)

\* These jobs are done, or wait for their command, before all others of their call.
FrontJobs == {"claim", "start", "up", "unmap", "unlink", "stopped", "parted", "unserve",
              "listening"}

\* The jobs of the server are about the socket that is the server.
ServerJobs(W, id) ==
    \A k \in 1..Len(W) :
       /\ W[k][1] \in FrontJobs => k = 1
       /\ W[k][1] = "noserver" => id \in {W[k][2], INVALID_ID}
       /\ W[k][1] \in {"unserve", "listening"} => id = W[k][2]

Serving ==
    /\ \A s \in Socks : sockets[s].state = "LISTENING" => server.id = s
    /\ ServerJobs(work, server.id)

\* Messages in a queue.
Has(q, m) == \E k \in 1..Len(q) : q[k] = m
IsResponse(m) == m \in {<<"ok">>, <<"error">>}
NoResponse(q) == \A k \in 1..Len(q) : ~IsResponse(q[k])
OneResponse(q) ==
    \E k \in 1..Len(q) : IsResponse(q[k]) /\ \A j \in 1..Len(q) : IsResponse(q[j]) => j = k

\* A command has one response, and it is waited for.
Exchange ==
    \/ cmd = <<>> /\ todo = <<>> /\ NoResponse(line) /\ resp = <<>>
    \/ cmd # <<>> /\ todo = <<cmd>> /\ NoResponse(line) /\ resp = <<>>
    \/ cmd # <<>> /\ todo = <<>> /\ OneResponse(line) /\ resp = <<>>
    \/ cmd # <<>> /\ todo = <<>> /\ NoResponse(line) /\ Len(resp) = 1

Paired == None({"unsure"}) => Exchange

\* Data come from a connection that is open, or its end comes behind them.
EndsAfter(q, k, c) == \E j \in 1..Len(q) : j > k /\ q[j] = <<"closed", c>>

Announced ==
    \A k \in 1..Len(line) : \A c \in Conns :
       line[k] = <<"data", c>> => c \in link \/ EndsAfter(line, k, c)

\* The connection is open, or the message that it was closed is on its way.
Alive(c) == c \in link \/ Has(line, <<"closed", c>>)

\* The module has not carried out the command under way.
Undone == cmd # <<>> /\ (todo # <<>> \/ Has(line, <<"error">>) \/ Has(resp, "error"))

\* The number in the socket is its own.
Numbered(s) == sockets[s].conn_id # INVALID_ID => map[sockets[s].conn_id] = s

Attached(s) ==
    sockets[s].state \in {"CONNECTED", "WAITING_ACCEPT"} =>
        sockets[s].conn_id # INVALID_ID /\ Numbered(s) /\ Alive(sockets[s].conn_id)

\* wifi_socket_connect waits for its command.
Connecting(s) ==
    /\ sockets[s].state # "CONNECTED" /\ Numbered(s)
    /\ cmd # <<>> => cmd[1] = "START"
    /\ \A c \in Conns : map[c] = s => Alive(c) \/ (Undone /\ cmd[2] = c)

\* wifi_socket_disconnect waits for its command: that the connection is closed comes
\* before the response.
Stops(q, c) == \E j, k \in 1..Len(q) : j < k /\ q[j] = <<"closed", c>> /\ q[k] = <<"ok">>

Stopping(s) ==
    /\ Numbered(s)
    /\ sockets[s].state = "CONNECTED" =>
          cmd = <<"STOP", sockets[s].conn_id>> /\ (Undone \/ Stops(line, sockets[s].conn_id))

\* What is done about socket s.
Doing(name, s) == work # <<>> /\ Head(work) = <<name, s>>

Kept(s) ==
    /\ Attached(s)
    /\ Doing("up", s) => Connecting(s)
    /\ Doing("claim", s) => sockets[s].state # "CONNECTED"
    /\ \A a \in {"start", "unmap", "unlink", "parted"} :
          Doing(a, s) => sockets[s].state # "CONNECTED" /\ Numbered(s)
    /\ Doing("stopped", s) => Stopping(s)

Matched == \A c \in Conns : map[c] # INVALID_ID => sockets[map[c]].conn_id = c

Told == None({"twice", "overtaken", "unsure", "retaken", "raced"})

Tracked == Told => \A s \in Socks : Kept(s)

-----------------------------------------------------------------------------
(* Housed: whose the buffers are.                                          *)

Clean == None({"freed", "twice", "retaken"})

InUse(s) == sockets[s].state # "UNUSED"

\* The call has still such a job to do.
Left(name) == \E k \in 1..Len(work) : work[k][1] = name
Waits(name, s) == \E k \in 1..Len(work) : work[k] = <<name, s>>

\* These jobs come first, and these last, in what is left of their call.
SoloJobs == FrontJobs \cup {"disc", "down", "accept"}
LastJobs == {"claim", "start", "up", "unmap", "unlink", "listening", "accept", "send", "sent",
             "handle", "quit", "gone"}

\* A client socket whose buffer has been freed, on its way to be unused.
Dead(t) ==
    /\ handles[t] = 0
    /\ \/ sockets[t].state = "UNUSED"
       \/ sockets[t].state = "DISCONNECTED" /\ sockets[t].cb \notin live

\* Job a comes before job b: the sockets of the backlog are freed in their order, and before
\* the server is let go and its own socket closed.
Order(a, b) ==
    /\ b[1] \in {"free", "noserver"} =>
          a[1] = "free" \/ (a[1] \in {"close", "disc", "tail"} /\ Dead(a[2]))
    /\ b[1] = "free" /\ a[1] = "free" => a[2] < b[2]
    /\ b[1] = "tail" /\ a[1] = "free" => handles[b[2]] > 0
    /\ b[1] = "tail" /\ a[1] \in {"close", "tail"} => handles[a[2]] = 0 /\ handles[b[2]] > 0

\* Job b comes right after job a.
Follows(a, b) ==
    /\ a[1] \notin LastJobs /\ b[1] \notin SoloJobs
    /\ b[1] = "tail" => a[2] = b[2] /\ a[1] \in {"disc", "stopped", "parted", "down", "unserve",
                                                  "noserver"}
    /\ b[1] = "handle" => a[2] = b[2] /\ a[1] \in {"close", "tail"}

Shape ==
    /\ \A k \in 1..Len(work) : k > 1 => Follows(work[k - 1], work[k])
    /\ \A j, k \in 1..Len(work) : j < k => Order(work[j], work[k])
    /\ cmd # <<>> => Head(work)[1] \in {"up", "stopped", "unserve", "listening", "sent", "gone"}

\* What is known of the socket that a job is about.
Stands(x) ==
    /\ x[1] = "tail" => InUse(x[2])
    /\ x[1] = "noserver" =>
          /\ InUse(x[2]) /\ handles[x[2]] > 0
          /\ Backlog(x[2]) => Waits("free", x[2])
          /\ ~Backlog(x[2]) => sockets[x[2]].state \in {"LISTENING", "DISCONNECTED"}
    /\ x[1] = "free" => Backlog(x[2])

\* What is known of it when it is the job's turn.
Turn(x) ==
    /\ x[1] = "tail" => sockets[x[2]].state \in {"DISCONNECTED", "WAITING_ACCEPT"}
    /\ x[1] = "handle" => sockets[x[2]].state = "UNUSED"
    /\ x[1] \in {"claim", "start", "up", "stopped", "parted", "down", "unserve", "accept"} =>
          InUse(x[2])
    /\ x[1] \in {"claim", "start", "up", "accept"} => x[2] # server.id
    /\ x[1] = "down" => ~Mapped(x[2]) \/ sockets[x[2]].state = "WAITING_ACCEPT"
    /\ x[1] = "listening" =>
          sockets[x[2]].state = "DISCONNECTED" /\ ~Backlog(x[2]) /\ handles[x[2]] > 0

Standing ==
    /\ \A k \in 1..Len(work) : Stands(work[k])
    /\ work # <<>> => Turn(Head(work))

\* A socket has a connection while it is connected or being connected.
Linking == {"start", "up", "unmap", "unlink"}

Linked ==
    \A s \in Socks : Mapped(s) =>
       \/ sockets[s].state \in {"CONNECTED", "WAITING_ACCEPT"}
       \/ sockets[s].state = "DISCONNECTED" /\ (\E a \in Linking : Doing(a, s))

ServerHeld ==
    \A s \in Socks : server.id = s =>
       /\ InUse(s) => handles[s] > 0
       /\ ~Backlog(s) => sockets[s].state \in {"UNUSED", "DISCONNECTED", "LISTENING"}
       /\ Backlog(s) => sockets[s].state # "LISTENING"

\* The sockets of the backlog, which are freed one after the other.
Backlogged ==
    /\ \A j, k \in 1..Len(server.clients) : j < k => server.clients[j] < server.clients[k]
    /\ \A t \in Socks : Backlog(t) => sockets[t].cb # NULL
    /\ Left("free") =>
          /\ Backlog(server.id) => Waits("free", server.id) /\ handles[server.id] > 0
          /\ ~Left("noserver") => \A s \in Socks : sockets[s].state # "LISTENING"
          /\ \A u \in Socks : Backlog(u) => Waits("free", u) \/ ~InUse(u) \/ sockets[u].cb \notin live

\* The server may be let go, and its backlog freed.
Offering ==
    /\ ~Backlog(server.id)
    /\ \E s \in Socks : /\ server.id = s
                        /\ \/ sockets[s].state = "LISTENING" /\ ~Left("noserver")
                           \/ Doing("unserve", s) \/ Doing("listening", s)

\* The buffer of a socket of the backlog is its own, whether the socket is in use or not.
Sound(t) ==
    /\ Backlog(t)
    /\ \/ Waits("free", t) /\ (Backlog(server.id) => t < server.id)
       \/ /\ ~Left("free")
          /\ \/ Offering
             \/ \E u \in Socks : Backlog(u) /\ InUse(u) /\ sockets[u].cb \in live /\ t < u

\* The buffer has been freed, and the socket is being closed.
Freed(t) ==
    /\ Backlog(t) /\ handles[t] = 0 /\ sockets[t].state = "DISCONNECTED" /\ cmd = <<>>
    /\ \/ Doing("close", t) \/ Doing("tail", t)
       \/ Doing("disc", t) /\ Len(work) > 1 /\ work[2] = <<"tail", t>>

Holder(t) == InUse(t) \/ Sound(t)

Buffers ==
    /\ "freed twice" \notin flaws
    /\ \A t \in Socks : InUse(t) => sockets[t].cb \in live \cup {NULL} \/ Freed(t)
    /\ \A t \in Socks : Sound(t) => sockets[t].cb \in live
    /\ \A t, u \in Socks : Holder(t) /\ Holder(u) /\ sockets[t].cb = sockets[u].cb
                              => t = u \/ sockets[t].cb = NULL

Housed == Shape /\ Standing /\ Linked /\ ServerHeld /\ Backlogged /\ Buffers

Housing == Clean => Housed

-----------------------------------------------------------------------------
(* Delivered: where the parser puts the data of a connection.              *)

Fresh == None({"twice", "overtaken", "silent", "unsure", "retaken", "freed"})

\* Nobody has this connection, and nothing about it is on its way.
Quieted(c) ==
    at[c] = NULL /\ c \notin link /\ ~Has(line, <<"data", c>>) /\ ~Has(line, <<"closed", c>>)

\* That the connection is closed is on its way, before any response.
EndsFirst(q, c) == \E j \in 1..Len(q) : q[j] = <<"closed", c>> /\ \A k \in 1..j : ~IsResponse(q[k])

\* What a connect that fails knows of its connection.
Still(c) == Quieted(c) \/ (resp = <<>> /\ EndsFirst(line, c))

\* The socket has a connection, or is about to have or to lose one.
Engaged(s) ==
    \/ sockets[s].state \in {"CONNECTED", "WAITING_ACCEPT"}
    \/ \E a \in Linking \cup {"stopped", "accept"} : Doing(a, s)

\* What the parser knows of the connection that a call is about.  A connect that fails leaves
\* no trace of its connection; a disconnect that does not finds it closed.
Handed(s) ==
    /\ Engaged(s) => Numbered(s)
    /\ sockets[s].state # "WAITING_ACCEPT" /\ sockets[s].conn_id # INVALID_ID =>
          LET c == sockets[s].conn_id
          IN /\ Doing("start", s) \/ (Doing("up", s) /\ Undone) => Still(c)
             /\ Doing("unmap", s) \/ Doing("unlink", s) => Quieted(c)
             /\ ~Doing("parted", s)
             /\ Doing("stopped", s) => cmd = <<"STOP", c>> /\ (Undone \/ Stops(line, c))

Stored == \A c \in Conns : at[c] # NULL => map[c] # INVALID_ID /\ at[c] = sockets[map[c]].cb

AllHanded == Stored /\ \A s \in Socks : Handed(s)

Delivered == Fresh => AllHanded
=============================================================================
