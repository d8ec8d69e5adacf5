-------------------------- MODULE WifiBuffersProofs --------------------------
(***************************************************************************)
(* Proofs about the buffers of WifiSockets for any number of connections,  *)
(* any memory and any number of calls, peers and failures: that those of   *)
(* the sockets in use are apart, and that the data received on a           *)
(* connection go to the buffer of its socket.                              *)
(*                                                                         *)
(* They rest on the invariants that WifiSocketsProofs proves: Housing,     *)
(* which buffer is whose and in which order the jobs of a call free them,  *)
(* on the types, the two tables and the server; Delivered, where the       *)
(* parser puts data, on these, on Housing and on what is on its way.       *)
(***************************************************************************)
EXTENDS WifiSocketsProofs

-----------------------------------------------------------------------------
(* Housed: whose the buffers are.                                          *)

\* What a step may do to a socket without the buffers being concerned.
Mild(t) ==
    /\ sockets'[t].cb = sockets[t].cb
    /\ \/ sockets'[t].state = sockets[t].state
       \/ /\ InUse(t)
          /\ \/ sockets'[t].state = "DISCONNECTED"
             \/ sockets'[t].state = "WAITING_ACCEPT" /\ Backlog(t)
             \/ sockets'[t].state = "CONNECTED" /\ server.id # t

\* A socket whose state changes mildly is in use if it was.
LEMMA MildUse ==
    ASSUME NEW t \in Socks, Mild(t)
    PROVE  /\ InUse(t)' <=> InUse(t)
           /\ sockets'[t].state = "LISTENING" => sockets[t].state = "LISTENING"
BY DEF Mild, InUse

\* A step that leaves the buffers, the backlog and the jobs about them as they are.
Neutral ==
    /\ UNCHANGED <<server, live>> /\ "freed twice" \notin flaws'
    /\ \A t \in Socks : Mild(t)
    /\ \A t \in Socks : handles[t] > 0 /\ (InUse(t) \/ Left("free")') => handles'[t] > 0
    /\ Left("free")' = Left("free") /\ (Left("noserver") => Left("noserver")')
    /\ \A t \in Socks : Waits("free", t)' <=> Waits("free", t)
    /\ Offering' => Offering
    /\ \A t \in Socks : Freed(t) => Freed(t)' \/ sockets[t].cb \in live

\* Such a step leaves the server, the backlog and the buffers as they should be.
LEMMA NeutralHeld ==
    ASSUME Sane, Housed, Neutral
    PROVE  ServerHeld' /\ Backlogged' /\ Buffers'
<1>1. /\ server' = server /\ live' = live /\ server \in Server /\ Left("free")' = Left("free")
      /\ \A t \in Socks : Mild(t) /\ (Waits("free", t)' <=> Waits("free", t))
      /\ \A t \in Socks : Backlog(t)' <=> Backlog(t)
      /\ Backlog(server.id)' <=> Backlog(server.id)
  BY DEF Neutral, Sane, WifiTypes, Backlog
<1>2. \A t \in Socks : /\ InUse(t)' <=> InUse(t)
                       /\ sockets'[t].state = "LISTENING" => sockets[t].state = "LISTENING"
                       /\ sockets'[t].cb = sockets[t].cb
  BY <1>1, MildUse DEF Mild
<1>3. \A t \in Socks : handles[t] > 0 /\ (InUse(t) \/ Left("free")') => handles'[t] > 0
  BY DEF Neutral
<1>4. Backlog(server.id) => server.id \in Socks
  BY <1>1 DEF Backlog, Contains, Server
<1>5. ServerHeld'
  <2> SUFFICES ASSUME NEW s \in Socks, server'.id = s
               PROVE  /\ InUse(s)' => handles'[s] > 0
                      /\ ~Backlog(s)' => sockets'[s].state \in {"UNUSED", "DISCONNECTED", "LISTENING"}
                      /\ Backlog(s)' => sockets'[s].state # "LISTENING"
    BY DEF ServerHeld
  <2>1. /\ InUse(s) => handles[s] > 0
        /\ ~Backlog(s) => sockets[s].state \in {"UNUSED", "DISCONNECTED", "LISTENING"}
        /\ Backlog(s) => sockets[s].state # "LISTENING"
    BY <1>1 DEF Housed, ServerHeld
  <2>2. InUse(s)' => handles'[s] > 0
    BY <1>2, <1>3, <2>1
  <2>3. Backlog(s)' => sockets'[s].state # "LISTENING"
    BY <1>1, <1>2, <2>1
  <2>4. ~Backlog(s)' => sockets'[s].state \in {"UNUSED", "DISCONNECTED", "LISTENING"}
    BY <1>1, <2>1 DEF Mild
  <2> QED
    BY <2>2, <2>3, <2>4
<1>6. Backlogged'
  <2>1. /\ \A j, k \in 1..Len(server'.clients) : j < k => server'.clients[j] < server'.clients[k]
        /\ \A t \in Socks : Backlog(t)' => sockets'[t].cb # NULL
    BY <1>1, <1>2 DEF Housed, Backlogged
  <2>2. ASSUME Left("free")'
        PROVE  /\ Backlog(server.id)' => Waits("free", server.id)' /\ handles'[server'.id] > 0
               /\ ~Left("noserver")' => \A s \in Socks : sockets'[s].state # "LISTENING"
               /\ \A u \in Socks : Backlog(u)' => Waits("free", u)' \/ ~InUse(u)' \/ sockets'[u].cb \notin live'
    <3>1. /\ Backlog(server.id) => Waits("free", server.id) /\ handles[server.id] > 0
          /\ ~Left("noserver") => \A s \in Socks : sockets[s].state # "LISTENING"
          /\ \A u \in Socks : Backlog(u) => Waits("free", u) \/ ~InUse(u) \/ sockets[u].cb \notin live
      BY <1>1, <2>2 DEF Housed, Backlogged
    <3>2. Backlog(server.id)' => Waits("free", server.id)' /\ handles'[server'.id] > 0
      <4> SUFFICES ASSUME Backlog(server.id) PROVE Waits("free", server.id)' /\ handles'[server'.id] > 0
        BY <1>1
      <4>1. PICK s \in Socks : s = server.id /\ s = server'.id
        BY <1>1, <1>4
      <4>2. Waits("free", s) /\ handles[s] > 0
        BY <3>1, <4>1
      <4>3. Waits("free", s)' /\ handles'[s] > 0
        BY <1>1, <1>3, <2>2, <4>2
      <4> QED
        BY <4>1, <4>3
    <3>3. ~Left("noserver")' => \A s \in Socks : sockets'[s].state # "LISTENING"
      BY <1>2, <3>1 DEF Neutral
    <3>4. \A u \in Socks : Backlog(u)' => Waits("free", u)' \/ ~InUse(u)' \/ sockets'[u].cb \notin live'
      BY <1>1, <1>2, <3>1
    <3> QED
      BY <3>2, <3>3, <3>4
  <2> QED
    BY <2>1, <2>2 DEF Backlogged
<1>7. ASSUME NEW t \in Socks, Sound(t)' PROVE Sound(t)
  <2>1. Backlog(t)
    BY <1>1, <1>7 DEF Sound
  <2>2. CASE Waits("free", t)' /\ (Backlog(server.id)' => t < server'.id)
    BY <1>1, <2>1, <2>2 DEF Sound
  <2>3. CASE ~Left("free")' /\ Offering'
    BY <1>1, <2>1, <2>3 DEF Sound, Neutral
  <2>4. ASSUME ~Left("free")', NEW u \in Socks, Backlog(u)', InUse(u)', sockets'[u].cb \in live', t < u
        PROVE  Sound(t)
    <3>1. ~Left("free") /\ Backlog(u) /\ InUse(u) /\ sockets[u].cb \in live
      BY <1>1, <1>2, <2>4
    <3> QED
      BY <2>1, <2>4, <3>1 DEF Sound
  <2> QED
    BY <1>7, <2>2, <2>3, <2>4 DEF Sound
<1>8. Buffers'
  <2>1. \A t \in Socks : Holder(t)' => Holder(t)
    BY <1>2, <1>7 DEF Holder
  <2>2. \A t \in Socks : InUse(t)' => sockets'[t].cb \in live' \cup {NULL} \/ Freed(t)'
    BY <1>1, <1>2 DEF Housed, Buffers, Neutral
  <2>3. \A t \in Socks : Sound(t)' => sockets'[t].cb \in live'
    BY <1>1, <1>2, <1>7 DEF Housed, Buffers
  <2>4. \A t, u \in Socks : Holder(t)' /\ Holder(u)' /\ sockets'[t].cb = sockets'[u].cb
                              => t = u \/ sockets'[t].cb = NULL
    BY <1>2, <2>1 DEF Housed, Buffers
  <2> QED
    BY <2>2, <2>3, <2>4 DEF Buffers, Neutral
<1> QED
  BY <1>5, <1>6, <1>8

-----------------------------------------------------------------------------
(* Housed: jobs that are put in the place of others.                       *)

\* The jobs J have been put in the place of the first d jobs.
Joined(J, d) ==
    /\ work' \in Seq(Task) /\ Len(work') = Len(J) + Len(work) - d
    /\ \A k \in 1..Len(J) : work'[k] = J[k]
    /\ \A k \in Len(J) + 1..Len(work') : work'[k] = work[k - Len(J) + d]

\* Job x stays.
Rest(d, x) == \E k \in 1..Len(work) : k > d /\ work[k] = x

\* A job is a pair of its name and its socket.
LEMMA TaskAt ==
    ASSUME NEW W \in Seq(Task)
    PROVE  /\ \A k \in 1..Len(W) : W[k] \in Task
           /\ W # <<>> => Head(W) \in Task /\ Head(W) = W[1] /\ 1 \in 1..Len(W)
OBVIOUS

\* What stands where when jobs are put before the rest of the others.
LEMMA GoesJoined ==
    ASSUME work \in Seq(Task), work # <<>>, NEW J \in Seq(Task), Goes(J)
    PROVE  Joined(J, 1)
<1>1. PICK T \in Seq(Task) : /\ T = Tail(work) /\ Len(T) = Len(work) - 1
                             /\ \A k \in 1..Len(T) : T[k] = work[k + 1]
  <2>1. /\ Tail(work) \in Seq(Task) /\ Len(Tail(work)) = Len(work) - 1
        /\ \A k \in 1..Len(Tail(work)) : Tail(work)[k] = work[k + 1]
    OBVIOUS
  <2> QED
    BY <2>1, Zenon
<1>2. work' = J \o T
  BY <1>1 DEF Goes
<1>3. PICK n \in Nat, m \in Nat : n = Len(J) /\ m = Len(T) /\ Len(work) = m + 1
  <2>1. Len(J) \in Nat /\ Len(T) \in Nat /\ Len(work) \in Nat
    OBVIOUS
  <2>2. Len(work) = Len(T) + 1
    BY <1>1, <2>1
  <2> QED
    BY <2>1, <2>2
<1>4. /\ work' \in Seq(Task) /\ Len(work') = n + m
      /\ \A k \in 1..n : work'[k] = J[k]
      /\ \A k \in n + 1..n + m : work'[k] = T[k - n]
  BY <1>2, <1>3
<1>5. ASSUME NEW k \in n + 1..n + m PROVE work'[k] = work[k - n + 1]
  <2>1. k - n \in 1..Len(T)
    BY <1>3
  <2> QED
    BY <1>1, <1>4, <2>1
<1> QED
  BY <1>3, <1>4, <1>5 DEF Joined

\* A job of such a call is one of the new ones or one of the rest.
LEMMA JoinedParts ==
    ASSUME work \in Seq(Task), NEW J \in Seq(Task), NEW d \in 0..Len(work), Joined(J, d)
    PROVE  /\ \A k \in 1..Len(work') :
                 \/ k \in 1..Len(J) /\ work'[k] = J[k]
                 \/ k > Len(J) /\ work'[k] \in Task /\ Rest(d, work'[k])
           /\ \A x : Rest(d, x) => \E k \in 1..Len(work') : work'[k] = x
           /\ \A k \in 1..Len(J) : k \in 1..Len(work') /\ work'[k] = J[k]
<1>1. PICK n \in Nat, m \in Nat : n = Len(J) /\ m = Len(work)
  OBVIOUS
<1>2. /\ work' \in Seq(Task) /\ Len(work') = n + m - d
      /\ \A k \in 1..n : work'[k] = J[k]
      /\ \A k \in n + 1..n + m - d : work'[k] = work[k - n + d]
  BY <1>1 DEF Joined
<1>3. ASSUME NEW k \in 1..n + m - d
      PROVE  \/ k \in 1..n /\ work'[k] = J[k]
             \/ k > n /\ work'[k] \in Task /\ Rest(d, work'[k])
  <2>1. CASE k <= n
    BY <1>2, <2>1
  <2>2. CASE k > n
    <3>1. k - n + d \in 1..m /\ k - n + d > d /\ work'[k] = work[k - n + d]
      BY <1>1, <1>2, <2>2, SMTT(30)
    <3>2. Rest(d, work'[k])
      BY <1>1, <3>1 DEF Rest
    <3>3. work'[k] \in Task
      BY <1>2
    <3> QED
      BY <2>2, <3>2, <3>3
  <2> QED
    BY <2>1, <2>2
<1>4. ASSUME NEW i \in 1..m, i > d PROVE n + i - d \in 1..n + m - d /\ work'[n + i - d] = work[i]
  <2>1. PICK k \in Int : k = n + i - d
    BY <1>1, SMTT(30)
  <2>2. k \in n + 1..n + m - d /\ k - n + d = i
    BY <1>1, <1>4, <2>1
  <2> QED
    BY <1>2, <2>1, <2>2
<1>5. \A x : Rest(d, x) => \E k \in 1..n + m - d : work'[k] = x
  BY <1>1, <1>4 DEF Rest
<1>6. \A k \in 1..n : k \in 1..n + m - d
  BY <1>1
<1> QED
  BY <1>1, <1>2, <1>3, <1>5, <1>6

\* The order of two jobs stays when no descriptor is given and the dead stay dead.
LEMMA OrderKept ==
    ASSUME NEW a \in Task, NEW b \in Task, Order(a, b),
           \A t \in Socks : (Dead(t) => Dead(t)') /\ handles'[t] = handles[t]
    PROVE  Order(a, b)'
<1>1. a[2] \in Socks /\ b[2] \in Socks
  BY DEF Task
<1> QED
  BY <1>1 DEF Order

\* The jobs keep their order when those that are put first are in order among themselves.
LEMMA JoinedShape ==
    ASSUME work \in Seq(Task), NEW J \in Seq(Task), NEW d \in 0..Len(work), Joined(J, d), Shape,
           \A t \in Socks : (Dead(t) => Dead(t)') /\ handles'[t] = handles[t],
           \A k \in 1..Len(J) : k > 1 => Follows(J[k - 1], J[k]),
           J # <<>> /\ d < Len(work) => Follows(J[Len(J)], work[d + 1]),
           \A j, k \in 1..Len(J) : j < k => Order(J[j], J[k])',
           \A x \in Task : Rest(d, x) => \A j \in 1..Len(J) : Order(J[j], x)',
           cmd' # <<>> => J # <<>> /\ J[1][1] \in {"up", "stopped", "unserve", "listening", "sent", "gone"}
    PROVE  Shape'
<1>1. PICK n \in Nat, m \in Nat : n = Len(J) /\ m = Len(work)
  OBVIOUS
<1>2. /\ work' \in Seq(Task) /\ Len(work') = n + m - d
      /\ \A k \in 1..n : work'[k] = J[k]
      /\ \A k \in n + 1..n + m - d : work'[k] = work[k - n + d]
  BY <1>1 DEF Joined
<1>0. d \in Nat /\ d <= m
  BY <1>1
<1>3. ASSUME NEW k \in 1..n + m - d, k > 1 PROVE Follows(work'[k - 1], work'[k])
  <2>1. CASE k <= n
    <3>1. k - 1 \in 1..n /\ k \in 1..n
      BY ONLY <1>3, <2>1, n \in Nat, m \in Nat, d \in Nat
    <3>2. work'[k - 1] = J[k - 1] /\ work'[k] = J[k]
      BY ONLY <1>2, <3>1
    <3> QED
      BY <1>1, <1>3, <3>1, <3>2
  <2>2. CASE k = n + 1
    <3>0. n >= 1 /\ d < m /\ k - 1 = n /\ k - n + d = d + 1
      BY <1>0, <1>3, <2>2
    <3>3. n \in 1..n /\ k \in n + 1..n + m - d
      BY <1>0, <1>3, <2>2, <3>0
    <3>4. work'[n] = J[n] /\ work'[k] = work[k - n + d]
      BY <1>2, <3>3
    <3>1. work'[k - 1] = J[n] /\ work'[k] = work[d + 1]
      BY <3>0, <3>4
    <3>2. J # <<>>
      BY <1>1, <3>0
    <3> QED
      BY <1>1, <3>0, <3>1, <3>2
  <2>3. CASE k > n + 1
    <3>1. PICK i \in Int : i = k - n + d
      BY <1>1
    <3>0. i \in 1..m /\ i > 1 /\ k \in n + 1..n + m - d
      BY <1>0, <1>3, <2>3, <3>1
    <3>2. i \in 1..m /\ i > 1 /\ work'[k] = work[i]
      BY <1>2, <3>0, <3>1
    <3>3. work'[k - 1] = work[i - 1]
      <4>1. k - 1 \in n + 1..n + m - d /\ (k - 1) - n + d = i - 1
        BY <1>0, <1>3, <2>3, <3>1, SMTT(30)
      <4> QED
        BY <1>2, <4>1
    <3> QED
      BY <1>1, <3>2, <3>3 DEF Shape
  <2> QED
    BY <1>0, <2>1, <2>2, <2>3
<1>4. ASSUME NEW j \in 1..n + m - d, NEW k \in 1..n + m - d, j < k,
             NEW a \in Task, a = work'[j], NEW b \in Task, b = work'[k]
      PROVE  Order(a, b)'
  <2>1. CASE k <= n
    <3>1. j \in 1..n /\ k \in 1..n
      BY <1>0, <1>4, <2>1
    <3>2. a = J[j] /\ b = J[k]
      BY <1>2, <1>4, <3>1
    <3>3. Order(J[j], J[k])'
      BY <1>1, <1>4, <3>1
    <3> QED
      BY <3>2, <3>3
  <2>2. CASE k > n /\ j <= n
    <3>0. k - n + d \in 1..m /\ k - n + d > d /\ k \in n + 1..n + m - d /\ j \in 1..n
      BY <1>0, <1>4, <2>2
    <3>1. k - n + d \in 1..m /\ k - n + d > d /\ b = work[k - n + d]
      BY <1>2, <1>4, <3>0
    <3>2. Rest(d, b) /\ a = J[j] /\ j \in 1..n
      BY <1>1, <1>2, <1>4, <3>0, <3>1 DEF Rest
    <3> QED
      BY <1>1, <3>2
  <2>3. CASE j > n
    <3>1. PICK i \in Int, l \in Int : i = j - n + d /\ l = k - n + d
      BY <1>1, SMTT(30)
    <3>0. i \in 1..m /\ l \in 1..m /\ i < l /\ j \in n + 1..n + m - d /\ k \in n + 1..n + m - d
      BY <1>0, <1>4, <2>3, <3>1
    <3>2. i \in 1..m /\ l \in 1..m /\ i < l /\ a = work[i] /\ b = work[l]
      BY <1>2, <1>4, <3>0, <3>1
    <3>3. Order(a, b)
      BY <1>1, <3>2, SMTT(30) DEF Shape
    <3> QED
      BY <3>3, OrderKept
  <2> QED
    BY <1>0, <2>1, <2>2, <2>3
<1>5. \A j, k \in 1..Len(work') : j < k => Order(work[j], work[k])'
  <2> SUFFICES ASSUME NEW j \in 1..Len(work'), NEW k \in 1..Len(work'), j < k
               PROVE  Order(work[j], work[k])'
    OBVIOUS
  <2>1. PICK a \in Task, b \in Task : a = work'[j] /\ b = work'[k]
    BY <1>2
  <2>2. Order(a, b)'
    BY <1>2, <1>4, <2>1
  <2> QED
    BY <2>1, <2>2 DEF Order, Dead
<1>6. cmd' # <<>> => Head(work')[1] \in {"up", "stopped", "unserve", "listening", "sent", "gone"}
  <2> SUFFICES ASSUME cmd' # <<>>
               PROVE  Head(work')[1] \in {"up", "stopped", "unserve", "listening", "sent", "gone"}
    OBVIOUS
  <2>1. n >= 1 /\ J[1][1] \in {"up", "stopped", "unserve", "listening", "sent", "gone"}
    BY <1>1
  <2>2. work' # <<>> /\ Head(work') = J[1]
    BY <1>1, <1>2, <2>1
  <2> QED
    BY <2>1, <2>2
<1>7. \A k \in 1..Len(work') : k > 1 => Follows(work[k - 1], work[k])'
  BY <1>2, <1>3 DEF Follows
<1> QED
  BY <1>5, <1>6, <1>7 DEF Shape

LEMMA NoJobs ==
    ASSUME NEW J \in Seq(Task), Len(J) = 0
    PROVE  J = <<>>
BY EmptySeq

\* What the jobs say of their sockets is still true when it is true of the new ones.
LEMMA JoinedStanding ==
    ASSUME work \in Seq(Task), NEW J \in Seq(Task), NEW d \in 0..Len(work), Joined(J, d), Standing,
           \A x \in Task : Rest(d, x) /\ Stands(x) => Stands(x)',
           \A k \in 1..Len(J) : Stands(J[k])',
           J # <<>> => Turn(J[1])',
           \A x \in Task : J = <<>> /\ d < Len(work) /\ x = work[d + 1] => Turn(x)'
    PROVE  Standing'
<1>1. ASSUME NEW k \in 1..Len(work') PROVE Stands(work[k])'
  <2>1. CASE k \in 1..Len(J) /\ work'[k] = J[k]
    <3>1. Stands(J[k])'
      BY <2>1
    <3> QED
      BY <2>1, <3>1 DEF Stands, InUse, Backlog, Waits
  <2>2. CASE work'[k] \in Task /\ Rest(d, work'[k])
    <3>1. PICK x \in Task : x = work'[k] /\ Rest(d, x)
      BY <2>2
    <3>2. Stands(x)
      BY <3>1 DEF Rest, Standing
    <3>3. Stands(x)'
      BY <3>1, <3>2
    <3> QED
      BY <3>1, <3>3 DEF Stands, InUse, Backlog, Waits
  <2> QED
    BY <2>1, <2>2, JoinedParts
<1>2. ASSUME work' # <<>> PROVE Turn(Head(work))'
  <2>1. PICK n \in Nat, m \in Nat : n = Len(J) /\ m = Len(work)
    OBVIOUS
  <2>2. /\ work' \in Seq(Task) /\ Len(work') = n + m - d
        /\ \A k \in 1..n : work'[k] = J[k]
        /\ \A k \in n + 1..n + m - d : work'[k] = work[k - n + d]
    BY <2>1 DEF Joined
  <2>3. PICK x \in Task : x = Head(work') /\ x = work'[1]
    BY <1>2, <2>2
  <2>4. CASE n = 0
    <3>1. n + m - d >= 1 /\ d \in Nat
      BY <1>2, <2>1, <2>2
    <3>2. d < m /\ 1 \in n + 1..n + m - d /\ 1 - n + d = d + 1
      BY <2>1, <2>4, <3>1
    <3>5. work'[1] = work[1 - n + d]
      BY <2>2, <3>2
    <3>6. J = <<>>
      BY <2>1, <2>4, NoJobs
    <3>3. x = work[d + 1] /\ J = <<>>
      BY <2>3, <3>2, <3>5, <3>6
    <3>4. Turn(x)'
      BY <2>1, <3>2, <3>3
    <3> QED
      BY <2>3, <3>4 DEF Turn, InUse, Backlog, Mapped
  <2>5. CASE n >= 1
    <3>1. J # <<>> /\ x = J[1]
      BY <2>1, <2>2, <2>3, <2>5
    <3>2. Turn(J[1])'
      BY <3>1
    <3> QED
      BY <2>3, <3>1, <3>2 DEF Turn, InUse, Backlog, Mapped
  <2> QED
    BY <2>1, <2>4, <2>5
<1> QED
  BY <1>1, <1>2 DEF Standing

\* What is left to do, and what is waited for, after the new jobs are put first.
LEMMA JoinedLeft ==
    ASSUME work \in Seq(Task), NEW J \in Seq(Task), NEW d \in 0..Len(work), Joined(J, d)
    PROVE  /\ \A a : Left(a)' <=> \/ \E k \in 1..Len(J) : J[k][1] = a
                                  \/ \E x \in Task : Rest(d, x) /\ x[1] = a
           /\ \A a, t : Waits(a, t)' <=> (\E k \in 1..Len(J) : J[k] = <<a, t>>) \/ Rest(d, <<a, t>>)
<1>1. /\ \A k \in 1..Len(work') :
                 \/ k \in 1..Len(J) /\ work'[k] = J[k]
                 \/ work'[k] \in Task /\ Rest(d, work'[k])
      /\ \A x : Rest(d, x) => \E k \in 1..Len(work') : work'[k] = x
      /\ \A k \in 1..Len(J) : k \in 1..Len(work') /\ work'[k] = J[k]
  BY JoinedParts
<1>2. ASSUME NEW a
      PROVE  Left(a)' <=> \/ \E k \in 1..Len(J) : J[k][1] = a
                          \/ \E x \in Task : Rest(d, x) /\ x[1] = a
  <2>1. ASSUME Left(a)'
        PROVE  \/ \E k \in 1..Len(J) : J[k][1] = a
               \/ \E x \in Task : Rest(d, x) /\ x[1] = a
    <3>1. PICK k \in 1..Len(work') : work'[k][1] = a
      BY <2>1 DEF Left
    <3> QED
      BY <1>1, <3>1
  <2>2. ASSUME NEW k \in 1..Len(J), J[k][1] = a PROVE Left(a)'
    BY <1>1, <2>2 DEF Left
  <2>3. ASSUME NEW x \in Task, Rest(d, x), x[1] = a PROVE Left(a)'
    BY <1>1, <2>3 DEF Left
  <2> QED
    BY <2>1, <2>2, <2>3
<1>3. ASSUME NEW a, NEW t
      PROVE  Waits(a, t)' <=> (\E k \in 1..Len(J) : J[k] = <<a, t>>) \/ Rest(d, <<a, t>>)
  <2>0. PICK x : x = <<a, t>>
    OBVIOUS
  <2>1. Waits(a, t)' <=> \E k \in 1..Len(work') : work'[k] = x
    BY <2>0 DEF Waits
  <2>2. (\E k \in 1..Len(work') : work'[k] = x) <=> (\E k \in 1..Len(J) : J[k] = x) \/ Rest(d, x)
    BY <1>1
  <2> QED
    BY <2>0, <2>1, <2>2
<1> QED
  BY <1>2, <1>3

\* The jobs that stay, and the first.
LEMMA LeftParts ==
    ASSUME work \in Seq(Task), work # <<>>
    PROVE  /\ \A a : Left(a) <=> Head(work)[1] = a \/ \E x \in Task : Rest(1, x) /\ x[1] = a
           /\ \A a, t : Waits(a, t) <=> Head(work) = <<a, t>> \/ Rest(1, <<a, t>>)
           /\ \A x : Rest(1, x) => x \in Task /\ \E k \in 1..Len(work) : k > 1 /\ work[k] = x
           /\ Head(work) = work[1] /\ 1 \in 1..Len(work) /\ Head(work) \in Task
<1>1. Head(work) = work[1] /\ 1 \in 1..Len(work) /\ Head(work) \in Task
  BY TailRest
<1>2. PICK m \in Nat : m = Len(work)
  OBVIOUS
<1>3. \A k \in 1..m : k = 1 \/ k > 1
  BY <1>2
<1>4. \A k \in 1..m : work[k] \in Task
  BY <1>2
<1>5. \A x : Rest(1, x) <=> \E k \in 1..m : k > 1 /\ work[k] = x
  BY <1>2 DEF Rest
<1>6. \A a : Left(a) <=> \E k \in 1..m : work[k][1] = a
  BY <1>2 DEF Left
<1>7. ASSUME NEW a, NEW t PROVE Waits(a, t) <=> Head(work) = <<a, t>> \/ Rest(1, <<a, t>>)
  <2>1. PICK x : x = <<a, t>>
    OBVIOUS
  <2>2. Waits(a, t) <=> \E k \in 1..m : work[k] = x
    BY <1>2, <2>1 DEF Waits
  <2>3. (\E k \in 1..m : work[k] = x) <=> Head(work) = x \/ Rest(1, x)
    BY <1>1, <1>2, <1>3, <1>5
  <2> QED
    BY <2>1, <2>2, <2>3
<1>8. ASSUME NEW a PROVE Left(a) <=> Head(work)[1] = a \/ \E x \in Task : Rest(1, x) /\ x[1] = a
  BY <1>1, <1>2, <1>3, <1>4, <1>5, <1>6
<1> QED
  BY <1>1, <1>2, <1>4, <1>5, <1>7, <1>8

Gentle(t) ==
    /\ Mild(t)
    /\ sockets'[t].state = "CONNECTED" => sockets[t].state = "CONNECTED"
    /\ sockets'[t].state = "WAITING_ACCEPT" =>
          sockets[t].state = "WAITING_ACCEPT" \/ sockets[t].cb \in live
    /\ ~Mapped(t) \/ sockets[t].state = "WAITING_ACCEPT" =>
          ~Mapped(t)' \/ sockets'[t].state = "WAITING_ACCEPT"

\* A step of others, while the jobs are the same.
LEMMA SameWork ==
    ASSUME Sane, Housed, UNCHANGED <<work, server, live, handles>>, cmd' \in {cmd, <<>>},
           "freed twice" \notin flaws', Linked',
           \A t \in Socks : Gentle(t)
    PROVE  Housed'
<1> USE DEF Gentle
<1>0. work \in Seq(Task) /\ handles \in [Socks -> Nat]
  BY DEF Sane, LineTypes, WifiTypes
<1>1. ASSUME NEW t \in Socks, Dead(t) PROVE Dead(t)'
  BY <1>1 DEF Dead, Mild, InUse
<1>2. \A t \in Socks : Backlog(t)' <=> Backlog(t)
  BY DEF Backlog
<1>3. Shape'
  <2>1. ASSUME NEW j \in 1..Len(work), NEW k \in 1..Len(work), j < k PROVE Order(work[j], work[k])'
    <3>1. PICK a \in Task, b \in Task : a = work[j] /\ b = work[k]
      BY <1>0, TaskAt, Zenon
    <3>2. Order(a, b)
      BY <2>1, <3>1 DEF Housed, Shape
    <3>3. Order(a, b)'
      BY <1>1, <3>2, OrderKept
    <3> QED
      BY <3>1, <3>3 DEF Order, Dead
  <2>2. \A k \in 1..Len(work) : k > 1 => Follows(work[k - 1], work[k])'
    BY DEF Housed, Shape, Follows
  <2> QED
    BY <2>1, <2>2 DEF Housed, Shape
<1>4. \A a, t : (Waits(a, t)' <=> Waits(a, t)) /\ (Left(a)' <=> Left(a)) /\ (Doing(a, t)' <=> Doing(a, t))
  BY DEF Waits, Left, Doing
<1>5. Standing'
  <2>1. ASSUME NEW x \in Task, Stands(x) PROVE Stands(x)'
    <3>1. x[2] \in Socks
      BY DEF Task
    <3>2. PICK s \in Socks : s = x[2]
      BY <3>1
    <3>3. /\ InUse(s) <=> InUse(s)'
          /\ ~Backlog(s) /\ sockets[s].state \in {"LISTENING", "DISCONNECTED"} =>
                sockets'[s].state \in {"LISTENING", "DISCONNECTED"}
      BY MildUse DEF Mild
    <3> QED
      BY <1>2, <1>4, <2>1, <3>2, <3>3 DEF Stands
  <2>2. ASSUME NEW x \in Task, Turn(x) PROVE Turn(x)'
    <3>1. x[2] \in Socks
      BY DEF Task
    <3>2. PICK s \in Socks : s = x[2]
      BY <3>1
    <3>3. InUse(s) <=> InUse(s)'
      BY MildUse
    <3>4. /\ sockets[s].state \in {"DISCONNECTED", "WAITING_ACCEPT"} =>
                sockets'[s].state \in {"DISCONNECTED", "WAITING_ACCEPT"}
          /\ sockets[s].state = "UNUSED" => sockets'[s].state = "UNUSED"
          /\ ~Backlog(s) /\ sockets[s].state = "DISCONNECTED" => sockets'[s].state = "DISCONNECTED"
      BY DEF Mild, InUse
    <3> QED
      BY <1>2, <2>2, <3>2, <3>3, <3>4 DEF Turn
  <2>3. ASSUME NEW k \in 1..Len(work) PROVE Stands(work[k])'
    <3>1. PICK x \in Task : x = work[k]
      BY <1>0, TaskAt, Zenon
    <3>2. Stands(x)'
      BY <2>1, <3>1 DEF Housed, Standing
    <3> QED
      BY <3>1, <3>2 DEF Stands, InUse, Backlog, Waits
  <2>4. ASSUME work # <<>> PROVE Turn(Head(work))'
    <3>1. PICK x \in Task : x = Head(work)
      BY <1>0, <2>4, TaskAt, Zenon
    <3>2. Turn(x)'
      BY <2>2, <2>4, <3>1 DEF Housed, Standing
    <3> QED
      BY <3>1, <3>2 DEF Turn, InUse, Backlog, Mapped
  <2> QED
    BY <2>3, <2>4 DEF Standing
<1>6. Neutral
  <2>1. Offering' => Offering
    BY <1>4, MildUse DEF Offering, Backlog
  <2>2. ASSUME NEW t \in Socks, Freed(t) PROVE Freed(t)' \/ sockets[t].cb \in live
    <3>1. sockets'[t].state = "DISCONNECTED" \/ sockets[t].cb \in live
      BY <2>2 DEF Freed, Mild
    <3>2. cmd' = <<>>
      BY <2>2 DEF Freed
    <3> QED
      BY <1>2, <1>4, <2>2, <3>1, <3>2 DEF Freed
  <2>3. Left("free")' = Left("free")
    BY <1>4 DEF Left
  <2> QED
    BY <1>4, <2>1, <2>2, <2>3 DEF Neutral
<1> QED
  BY <1>3, <1>5, <1>6, NeutralHeld DEF Housed

\* A step that leaves the sockets, the tables and the jobs alone.
LEMMA CalmHoused ==
    ASSUME Sane, Housed, UNCHANGED <<sockets, map, work, server, live, handles>>, cmd' \in {cmd, <<>>},
           "freed twice" \notin flaws'
    PROVE  Housed'
<1>1. \A t \in Socks : Gentle(t) /\ (Mapped(t)' <=> Mapped(t))
  BY DEF Gentle, Mild, Mapped
<1>2. Linked'
  BY <1>1 DEF Housed, Linked, Doing
<1> QED
  BY <1>1, <1>2, SameWork

-----------------------------------------------------------------------------
(* Housed: the jobs of a call.                                             *)

\* The next job, when the first is done.
LEMMA SecondJob ==
    ASSUME work \in Seq(Task), Shape, NEW x \in Task, work # <<>>, Len(work) > 1, x = work[2]
    PROVE  /\ Follows(Head(work), x) /\ x[1] \notin SoloJobs /\ Head(work)[1] \notin LastJobs
           /\ 2 \in 1..Len(work)
<1>1. PICK m \in Nat : m = Len(work)
  OBVIOUS
<1>2. 2 \in 1..m /\ 2 > 1 /\ 2 - 1 = 1 /\ Head(work) = work[1]
  BY <1>1
<1>3. Follows(work[1], x)
  BY <1>1, <1>2 DEF Shape
<1> QED
  BY <1>1, <1>2, <1>3 DEF Follows

LEMMA LoneJob ==
    ASSUME NEW W \in Seq(Task), Len(W) = 1
    PROVE  W = <<W[1]>>
OBVIOUS

\* These jobs are the last of their call.
LEMMA SingleJob ==
    ASSUME Sane, Shape, work # <<>>, Head(work)[1] \in LastJobs
    PROVE  /\ Len(work) = 1 /\ Tail(work) = <<>> /\ work = <<Head(work)>>
           /\ \A J \in Seq(Task) : Goes(J) => work' = J
<1>0. work \in Seq(Task)
  BY DEF Sane, LineTypes
<1>1. PICK m \in Nat : m = Len(work) /\ m >= 1
  BY <1>0
<1>2. m = 1
  <2> SUFFICES ASSUME m > 1 PROVE FALSE
    BY <1>1
  <2>1. 2 \in 1..m
    BY <1>1
  <2>2. PICK x \in Task : x = work[2]
    BY <1>0, <1>1, <2>1
  <2> QED
    BY <1>0, <1>1, <2>2, SecondJob
<1>3. Tail(work) \in Seq(Task) /\ Len(Tail(work)) = 0
  <2>1. Tail(work) \in Seq(Task) /\ Len(Tail(work)) = Len(work) - 1
    BY <1>0, TailRest
  <2> QED
    BY <1>1, <1>2, <2>1
<1>4. PICK T \in Seq(Task) : T = Tail(work) /\ T = <<>>
  BY <1>3, NoJobs
<1>5. \A J \in Seq(Task) : J \o <<>> = J
  OBVIOUS
<1>6. work = <<Head(work)>>
  BY <1>0, <1>1, <1>2, LoneJob, TailRest
<1> QED
  BY <1>1, <1>2, <1>4, <1>5, <1>6 DEF Goes

\* A call that has nothing left to do.
LEMMA EmptyWork ==
    ASSUME work' = <<>>, cmd' = <<>>
    PROVE  /\ Shape' /\ Standing' /\ \A a, t : ~Left(a)' /\ ~Waits(a, t)' /\ ~Doing(a, t)'
BY DEF Shape, Standing, Left, Waits, Doing

\* A call that has one job left to do.
LEMMA OneWork ==
    ASSUME NEW x \in Task, work' = <<x>>, Stands(x)', Turn(x)',
           cmd' # <<>> => x[1] \in {"up", "stopped", "unserve", "listening", "sent", "gone"}
    PROVE  /\ Shape' /\ Standing'
<1>1. /\ Len(work') = 1 /\ work'[1] = x /\ Head(work') = x /\ work' # <<>>
      /\ \A k \in 1..1 : k = 1
  OBVIOUS
<1>2. Shape'
  BY <1>1 DEF Shape
<1>3. \A k \in 1..Len(work') : Stands(work[k])'
  BY <1>1 DEF Stands, InUse, Backlog, Waits
<1>4. Turn(Head(work))'
  BY <1>1 DEF Turn, InUse, Backlog, Mapped
<1> QED
  BY <1>2, <1>3, <1>4 DEF Standing

LEMMA OneLeft ==
    ASSUME NEW x \in Task, work' = <<x>>
    PROVE  /\ \A a : Left(a)' <=> x[1] = a
           /\ \A a, t : Waits(a, t)' <=> x = <<a, t>>
           /\ \A a, t : Doing(a, t)' <=> x = <<a, t>>
<1>1. /\ Len(work') = 1 /\ work'[1] = x /\ Head(work') = x /\ work' # <<>>
      /\ \A k \in 1..1 : k = 1
  OBVIOUS
<1>2. 1 \in 1..1
  OBVIOUS
<1> QED
  BY <1>1, <1>2 DEF Left, Waits, Doing

-----------------------------------------------------------------------------
(* Housed: the jobs that are not about the backlog.                        *)

\* Jobs are done, and others put in their place, none of them about the backlog.
LEMMA JoinedNeutral ==
    ASSUME Sane, Housed, NEW J \in Seq(Task), NEW d \in 0..Len(work), Joined(J, d),
           UNCHANGED <<server, live, handles>>, "freed twice" \notin flaws',
           \A t \in Socks : Mild(t),
           \A k \in 1..d : work[k][1] \notin {"free", "noserver"},
           \A k \in 1..Len(J) : J[k][1] \notin {"free", "noserver"},
           \A t \in Socks : server.id = t /\ (Doing("unserve", t)' \/ Doing("listening", t)') =>
              Backlog(t) \/ (sockets[t].state = "LISTENING" /\ ~Left("noserver")),
           \A t \in Socks : Freed(t) => Freed(t)' \/ sockets[t].cb \in live
    PROVE  Neutral
<1>0. work \in Seq(Task)
  BY DEF Sane, LineTypes
<1>1. PICK m \in Nat : m = Len(work) /\ d \in 0..m
  BY ONLY <1>0, d \in 0..Len(work)
<1>2. \A k \in 1..m : work[k] \in Task /\ (k \in 1..d \/ k > d)
  BY ONLY <1>0, <1>1
<1>3. ASSUME NEW a \in {"free", "noserver"} PROVE Left(a)' <=> Left(a)
  <2>1. Left(a)' <=> \E x \in Task : Rest(d, x) /\ x[1] = a
    <3>1. Left(a)' <=> \/ \E k \in 1..Len(J) : J[k][1] = a
                      \/ \E x \in Task : Rest(d, x) /\ x[1] = a
      BY ONLY <1>0, J \in Seq(Task), d \in 0..Len(work), Joined(J, d), JoinedLeft
    <3>2. \A k \in 1..Len(J) : J[k][1] # a
      BY <1>3
    <3> QED
      BY ONLY <3>1, <3>2
  <2>2. Left(a) <=> \E k \in 1..m : k > d /\ work[k][1] = a
    BY <1>1, <1>2 DEF Left
  <2> QED
    BY <1>1, <1>2, <2>1, <2>2 DEF Rest
<1>4. ASSUME NEW t \in Socks PROVE Waits("free", t)' <=> Waits("free", t)
  <2>1. PICK x : x = <<"free", t>> /\ x[1] = "free"
    <3>1. <<"free", t>>[1] = "free"
      OBVIOUS
    <3> QED
      BY ONLY <3>1, Zenon
  <2>2. Waits("free", t)' <=> (\E k \in 1..Len(J) : J[k] = x) \/ Rest(d, x)
    BY <1>0, <2>1, JoinedLeft, ZenonT(60)
  <2>3. Waits("free", t) <=> \E k \in 1..m : k > d /\ work[k] = x
    BY <1>1, <1>2, <2>1 DEF Waits
  <2> QED
    BY <1>1, <2>1, <2>2, <2>3 DEF Rest
<1>5. Offering' => Offering
  <2> SUFFICES ASSUME Offering' PROVE Offering
    OBVIOUS
  <2>1. PICK t \in Socks : /\ server'.id = t
                           /\ \/ sockets'[t].state = "LISTENING" /\ ~Left("noserver")'
                              \/ Doing("unserve", t)' \/ Doing("listening", t)'
    BY DEF Offering
  <2>2. ~Backlog(server.id) /\ server.id = t /\ ~Backlog(t)
    BY <2>1 DEF Offering, Backlog
  <2>3. sockets'[t].state = "LISTENING" => sockets[t].state = "LISTENING"
    BY MildUse
  <2>4. sockets[t].state = "LISTENING" /\ ~Left("noserver")
    BY <1>3, <2>1, <2>2, <2>3
  <2> QED
    BY <2>2, <2>4 DEF Offering
<1>6. Left("free")' = Left("free")
  BY <1>3 DEF Left
<1> QED
  BY <1>3, <1>4, <1>5, <1>6 DEF Neutral

\* A job that is not about the backlog, and what it turns into.
LEMMA NeutralJob ==
    ASSUME Sane, Housed, NEW J \in Seq(Task), NEW d \in 0..Len(work), Joined(J, d),
           UNCHANGED <<server, live, handles>>, "freed twice" \notin flaws', Linked',
           \A t \in Socks : Mild(t) /\ (sockets'[t].state \in Up => sockets[t].state = sockets'[t].state),
           \A k \in 1..d : work[k][1] \notin {"free", "noserver"},
           \A k \in 1..Len(J) : J[k][1] \notin {"free", "noserver"},
           \A t \in Socks : server.id = t /\ (Doing("unserve", t)' \/ Doing("listening", t)') =>
              Backlog(t) \/ (sockets[t].state = "LISTENING" /\ ~Left("noserver")),
           \A t \in Socks : Freed(t) => Freed(t)' \/ sockets[t].cb \in live,
           \A k \in 1..Len(J) : k > 1 => Follows(J[k - 1], J[k]),
           J # <<>> /\ d < Len(work) => Follows(J[Len(J)], work[d + 1]),
           \A j, k \in 1..Len(J) : j < k => Order(J[j], J[k]),
           \A x \in Task : Rest(d, x) => \A j \in 1..Len(J) : Order(J[j], x),
           cmd' # <<>> => J # <<>> /\ J[1][1] \in {"up", "stopped", "unserve", "listening", "sent", "gone"},
           \A k \in 1..Len(J) : J[k][1] = "tail" => InUse(J[k][2]),
           J # <<>> => Turn(J[1])',
           \A x \in Task : J = <<>> /\ d < Len(work) /\ x = work[d + 1] => Turn(x)'
    PROVE  Housed'
<1>0. work \in Seq(Task) /\ \A k \in 1..Len(J) : J[k] \in Task /\ J[k][2] \in Socks
  <2>1. work \in Seq(Task) /\ \A k \in 1..Len(J) : J[k] \in Task
    BY TaskAt DEF Sane, LineTypes
  <2> QED
    BY <2>1 DEF Task
<1>1. \A t \in Socks : (Dead(t) => Dead(t)') /\ handles'[t] = handles[t]
  BY DEF Dead, Mild, Up, InUse
<1>2. Neutral
  BY JoinedNeutral
<1>3. Shape'
  <2>1. ASSUME NEW j \in 1..Len(J), NEW k \in 1..Len(J), j < k PROVE Order(J[j], J[k])'
    <3>1. PICK a \in Task, b \in Task : a = J[j] /\ b = J[k]
      BY <1>0
    <3>2. Order(a, b)'
      BY <1>1, <2>1, <3>1, OrderKept
    <3> QED
      BY <3>1, <3>2
  <2>2. ASSUME NEW x \in Task, Rest(d, x), NEW j \in 1..Len(J) PROVE Order(J[j], x)'
    <3>1. PICK a \in Task : a = J[j]
      BY <1>0
    <3>2. Order(a, x)'
      BY <1>1, <2>2, <3>1, OrderKept
    <3> QED
      BY <3>1, <3>2
  <2>3. Shape
    BY DEF Housed
  <2> QED
    BY <1>0, <1>1, <2>1, <2>2, <2>3, JoinedShape
<1>4. Standing'
  <2>1. ASSUME NEW x \in Task, Stands(x) PROVE Stands(x)'
    <3>2. PICK s \in Socks : s = x[2]
      BY DEF Task
    <3>3. /\ InUse(s) <=> InUse(s)'
          /\ ~Backlog(s) /\ sockets[s].state \in {"LISTENING", "DISCONNECTED"} =>
                sockets'[s].state \in {"LISTENING", "DISCONNECTED"}
      BY MildUse DEF Mild, Up
    <3>4. (Waits("free", s)' <=> Waits("free", s)) /\ (Backlog(s)' <=> Backlog(s))
      BY <1>2 DEF Neutral, Backlog
    <3> QED
      BY <2>1, <3>2, <3>3, <3>4 DEF Stands
  <2>2. ASSUME NEW k \in 1..Len(J) PROVE Stands(J[k])'
    <3>1. PICK x \in Task : x = J[k] /\ x[1] \notin {"free", "noserver"} /\ x[2] \in Socks
      BY <1>0
    <3>2. Stands(x)
      BY <3>1 DEF Stands
    <3> QED
      BY <2>1, <3>1, <3>2
  <2>3. Standing
    BY DEF Housed
  <2> QED
    BY <1>0, <2>1, <2>2, <2>3, JoinedStanding
<1>5. ServerHeld' /\ Backlogged' /\ Buffers'
  BY <1>2, NeutralHeld
<1> QED
  BY <1>3, <1>4, <1>5 DEF Housed

LEMMA UnitJobs ==
    ASSUME NEW x \in Task
    PROVE  /\ <<x>> \in Seq(Task) /\ Len(<<x>>) = 1 /\ <<x>>[1] = x /\ <<x>> # <<>>
           /\ \A k \in 1..Len(<<x>>) : k = 1 /\ <<x>>[k] = x
OBVIOUS

LEMMA PairJobs ==
    ASSUME NEW x \in Task, NEW y \in Task
    PROVE  /\ <<x, y>> \in Seq(Task) /\ Len(<<x, y>>) = 2 /\ <<x, y>>[1] = x /\ <<x, y>>[2] = y
           /\ <<x, y>> # <<>> /\ \A k \in 1..Len(<<x, y>>) : k \in {1, 2}
OBVIOUS

LEMMA TaskIs ==
    ASSUME NEW a \in JobNames, NEW s \in Socks
    PROVE  \E x \in Task : x = <<a, s>> /\ x[1] = a /\ x[2] = s
<1>1. <<a, s>> \in Task /\ <<a, s>>[1] = a /\ <<a, s>>[2] = s
  BY DEF Task
<1> QED
  BY <1>1, Zenon

\* What is known of the other jobs of the call.
LEMMA HeadOrder ==
    ASSUME work \in Seq(Task), work # <<>>, Shape, NEW x \in Task, Rest(1, x)
    PROVE  Order(Head(work), x) /\ x[1] \notin SoloJobs
<1>1. PICK m \in Nat : m = Len(work)
  OBVIOUS
<1>2. PICK k \in 1..m : k > 1 /\ work[k] = x
  BY <1>1 DEF Rest
<1>3. 1 \in 1..m /\ 1 < k /\ Head(work) = work[1]
  BY <1>1, <1>2
<1>4. Order(work[1], x)
  BY <1>1, <1>2, <1>3 DEF Shape
<1>5. Follows(work[k - 1], x)
  BY <1>1, <1>2 DEF Shape
<1> QED
  BY <1>3, <1>4, <1>5 DEF Follows

LEMMA TurnOf ==
    ASSUME NEW x \in Task, x[1] \notin SoloJobs,
           x[1] = "tail" => sockets'[x[2]].state \in {"DISCONNECTED", "WAITING_ACCEPT"},
           x[1] = "handle" => sockets'[x[2]].state = "UNUSED"
    PROVE  Turn(x)'
BY DEF Turn, SoloJobs, FrontJobs

\* A job is done with no other in its place.
LEMMA HeadDone ==
    ASSUME Sane, work # <<>>, Done
    PROVE  Joined(<<>>, 1) /\ <<>> \in Seq(Task) /\ 1 \in 0..Len(work)
<1>1. work \in Seq(Task)
  BY DEF Sane, LineTypes
<1>2. <<>> \in Seq(Task) /\ 1 \in 0..Len(work)
  BY <1>1
<1> QED
  BY <1>1, <1>2, GoesJoined DEF Done

LEMMA HeadGoes ==
    ASSUME Sane, work # <<>>, NEW J \in Seq(Task), Goes(J)
    PROVE  Joined(J, 1) /\ 1 \in 0..Len(work)
<1>1. work \in Seq(Task)
  BY DEF Sane, LineTypes
<1>2. 1 \in 0..Len(work)
  BY <1>1
<1> QED
  BY <1>1, <1>2, GoesJoined

\* The connections stay with their sockets, and no socket is being connected.
LEMMA LinkedKept ==
    ASSUME Linked, ~(work # <<>> /\ Head(work)[1] \in Linking),
           \A t \in Socks : Mapped(t)' => Mapped(t) /\ sockets'[t].state = sockets[t].state
    PROVE  Linked'
BY DEF Linked, Doing

\* A socket at rest is mapped only while it is being connected.
LEMMA Unlinked ==
    ASSUME Linked, NEW s \in Socks, sockets[s].state \notin {"CONNECTED", "WAITING_ACCEPT"},
           Head(work)[1] \notin Linking
    PROVE  ~Mapped(s)
<1>1. ASSUME NEW a \in Linking, Doing(a, s) PROVE FALSE
  <2>1. Head(work) = <<a, s>>
    BY <1>1 DEF Doing
  <2>2. Head(work)[1] = a
    BY ONLY <2>1
  <2> QED
    BY <2>2
<1> QED
  BY <1>1 DEF Linked

\* The first job is done, and other jobs put in its place.
LEMMA HeadJob ==
    ASSUME Sane, Housed, work # <<>>, Head(work)[1] \notin {"free", "noserver"},
           NEW J \in Seq(Task), Goes(J),
           UNCHANGED <<server, live, handles>>, "freed twice" \notin flaws', Linked',
           \A t \in Socks : Mild(t) /\ (sockets'[t].state \in Up => sockets[t].state = sockets'[t].state),
           \A t \in Socks : Freed(t) => Freed(t)' \/ sockets[t].cb \in live,
           \A k \in 1..Len(J) : J[k][1] \notin {"free", "noserver", "listening"},
           \A k \in 1..Len(J) : k > 1 => Follows(J[k - 1], J[k]),
           \A j, k \in 1..Len(J) : j < k => Order(J[j], J[k]),
           \A x \in Task : Rest(1, x) => \A j \in 1..Len(J) : Order(J[j], x),
           \A k \in 1..Len(J) : J[k][1] = "tail" => InUse(J[k][2]),
           J # <<>> => /\ Turn(J[1])'
                       /\ J[1][1] = "unserve" /\ ~Backlog(J[1][2]) =>
                             sockets[J[1][2]].state = "LISTENING" /\ ~Left("noserver"),
           cmd' # <<>> => J # <<>> /\ J[1][1] \in {"up", "stopped", "unserve", "listening", "sent", "gone"},
           \A x \in Task : Len(work) > 1 /\ x = work[2] =>
              IF J = <<>> THEN Turn(x)' ELSE Follows(J[Len(J)], x)
    PROVE  Housed'
<1>0. work \in Seq(Task) /\ Shape
  BY DEF Sane, LineTypes, Housed
<1>1. PICK d \in 0..Len(work) : d = 1 /\ Joined(J, d) /\ Joined(J, 1)
  BY HeadGoes
<1>2. PICK m \in Nat : m = Len(work) /\ m >= 1 /\ \A k \in 1..m : work[k] \in Task
  BY ONLY <1>0, work # <<>>
<1>3. \A k \in 1..d : work[k][1] \notin {"free", "noserver"}
  <2>1. Head(work) = work[1] /\ \A k \in 1..1 : k = 1
    BY ONLY <1>0, work # <<>>
  <2> QED
    BY <1>1, <2>1
<1>4. ASSUME d < Len(work) PROVE work[d + 1] \in Task /\ work[d + 1] = work[2] /\ Len(work) > 1
  <2>1. d + 1 = 2 /\ 2 \in 1..m /\ m > 1
    BY ONLY <1>1, <1>2, <1>4
  <2> QED
    BY ONLY <1>2, <2>1
<1>5. ASSUME J # <<>>, d < Len(work) PROVE Follows(J[Len(J)], work[d + 1])
  BY <1>4, <1>5
<1>6. ASSUME NEW x \in Task, J = <<>>, d < Len(work), x = work[d + 1] PROVE Turn(x)'
  BY <1>4, <1>6
<1>7. ASSUME NEW t \in Socks, server.id = t, Doing("unserve", t)' \/ Doing("listening", t)'
      PROVE  Backlog(t) \/ (sockets[t].state = "LISTENING" /\ ~Left("noserver"))
  <2>1. PICK a \in {"unserve", "listening"} : work' # <<>> /\ Head(work') = <<a, t>>
    BY <1>7 DEF Doing
  <2>2. work' \in Seq(Task)
    BY <1>1 DEF Joined
  <2>3. 1 \in 1..Len(work') /\ work'[1] = <<a, t>>
    BY ONLY <2>1, <2>2
  <2>4. CASE 1 \in 1..Len(J) /\ work'[1] = J[1]
    <3>1. J # <<>> /\ J[1] = <<a, t>> /\ J[1][1] = a /\ J[1][2] = t
      BY ONLY <2>3, <2>4
    <3>2. a = "unserve"
      BY <2>4, <3>1
    <3> QED
      BY <3>1, <3>2
  <2>5. CASE work'[1] \in Task /\ Rest(1, work'[1])
    <3>1. PICK x \in Task : x = work'[1] /\ Rest(1, x)
      BY ONLY <2>5
    <3>2. x[1] \notin SoloJobs
      BY ONLY <1>0, <3>1, work # <<>>, HeadOrder
    <3>3. x[1] = a
      BY ONLY <2>3, <3>1
    <3> QED
      BY ONLY <3>2, <3>3 DEF SoloJobs, FrontJobs
  <2>6. \A k \in 1..Len(work') : \/ k \in 1..Len(J) /\ work'[k] = J[k]
                                 \/ k > Len(J) /\ work'[k] \in Task /\ Rest(d, work'[k])
    BY ONLY <1>0, <1>1, d \in 0..Len(work), J \in Seq(Task), JoinedParts
  <2> QED
    BY ONLY <1>1, <2>3, <2>4, <2>5, <2>6
<1>8. \A x \in Task : Rest(d, x) => \A j \in 1..Len(J) : Order(J[j], x)
  BY <1>1
<1>9. \A k \in 1..Len(J) : J[k][1] \notin {"free", "noserver"}
  OBVIOUS
<1> QED
  BY <1>1, <1>3, <1>5, <1>6, <1>7, <1>8, <1>9, NeutralJob

\* A job is done and nothing takes its place.
LEMMA DoneJob ==
    ASSUME Sane, Housed, work # <<>>, Head(work)[1] \notin {"free", "noserver"}, Done,
           UNCHANGED <<server, live, handles>>, "freed twice" \notin flaws', Linked', cmd' = <<>>,
           \A t \in Socks : Mild(t) /\ (sockets'[t].state \in Up => sockets[t].state = sockets'[t].state),
           \A t \in Socks : Freed(t) => Freed(t)' \/ sockets[t].cb \in live,
           \A x \in Task : Len(work) > 1 /\ x = work[2] => Turn(x)'
    PROVE  Housed'
<1>1. PICK J \in Seq(Task) : J = <<>> /\ Goes(J) /\ 1..Len(J) = {}
  <2>1. <<>> \in Seq(Task)
    BY ONLY Zenon, EmptySeq
  <2>2. 1..Len(<<>>) = {}
    BY ONLY EmptySeq
  <2> QED
    BY <2>1, <2>2, Zenon DEF Done
<1> QED
  BY <1>1, HeadJob

\* A job is done and another takes its place.
LEMMA UnitJob ==
    ASSUME Sane, Housed, work # <<>>, Head(work)[1] \notin {"free", "noserver"}, NEW y \in Task, Goes(<<y>>),
           UNCHANGED <<server, live, handles>>, "freed twice" \notin flaws', Linked',
           \A t \in Socks : Mild(t) /\ (sockets'[t].state \in Up => sockets[t].state = sockets'[t].state),
           \A t \in Socks : Freed(t) => Freed(t)' \/ sockets[t].cb \in live,
           y[1] \notin {"free", "noserver", "listening", "tail"}, Turn(y)',
           y[1] = "unserve" /\ ~Backlog(y[2]) => sockets[y[2]].state = "LISTENING" /\ ~Left("noserver"),
           cmd' # <<>> => y[1] \in {"up", "stopped", "unserve", "listening", "sent", "gone"},
           \A x \in Task : Rest(1, x) => Order(y, x),
           \A x \in Task : Len(work) > 1 /\ x = work[2] => Follows(y, x)
    PROVE  Housed'
<1>1. PICK J \in Seq(Task) : /\ J = <<y>> /\ Goes(J) /\ Len(J) = 1 /\ J[1] = y /\ J # <<>>
                             /\ \A k \in 1..Len(J) : k = 1
  BY UnitJobs
<1>2. \A j, k \in 1..Len(J) : ~(j < k)
  BY ONLY <1>1
<1>3. \A k \in 1..Len(J) : ~(k > 1)
  BY ONLY <1>1
<1>4. /\ \A k \in 1..Len(J) : J[k] = y
      /\ J[Len(J)] = y
  BY ONLY <1>1
<1>5. Turn(J[1])'
  BY <1>1
<1> QED
  BY <1>1, <1>2, <1>3, <1>4, <1>5, HeadJob

\* wifi_socket_close begins: a socket is to be disconnected, or is closed at once.
LEMMA CloseHoused ==
    ASSUME Sane, Housed, JobClose
    PROVE  Housed'
<1>0. Sane /\ Housed /\ Shape /\ Linked /\ "freed twice" \notin flaws
  BY DEF Housed, Buffers
<1>1. /\ cmd = <<>> /\ work # <<>> /\ work \in Seq(Task) /\ Head(work)[1] = "close"
  BY AtWork DEF JobClose, Job
<1>2. PICK s \in Socks : s = Sock /\ Head(work) = <<"close", s>> /\ Head(work)[2] = s
  BY AtWork DEF JobClose, Sock
<1>3. UNCHANGED <<sockets, map, server, live, handles, cmd, flaws>>
  BY DEF JobClose, wifi, Quiet
<1>4. \A t \in Socks : Mild(t) /\ (sockets'[t].state \in Up => sockets[t].state = sockets'[t].state)
  BY <1>3 DEF Mild
<1>5. Linked'
  BY <1>0, <1>1, <1>3, LinkedKept DEF Mapped, Linking
<1>7. CASE sockets[s].state = "UNUSED"
  <2>1. Done
    BY <1>2, <1>7 DEF JobClose, Done
  <2>3. ASSUME NEW x \in Task, Len(work) > 1, x = work[2] PROVE Turn(x)'
    <3>1. Follows(Head(work), x) /\ x[1] \notin SoloJobs
      BY <1>0, <1>1, <2>3, SecondJob
    <3>2. x[1] # "tail" /\ (x[1] = "handle" => x[2] = s)
      BY <1>1, <1>2, <3>1 DEF Follows
    <3> QED
      BY <1>3, <1>7, <3>1, <3>2, TurnOf
  <2>4. ASSUME NEW t \in Socks, Freed(t) PROVE FALSE
    <3>1. Head(work) \in {<<"close", t>>, <<"tail", t>>, <<"disc", t>>} /\ sockets[t].state = "DISCONNECTED"
      BY <2>4 DEF Freed, Doing
    <3> QED
      BY <1>2, <1>7, <3>1
  <2> QED
    BY <1>0, <1>1, <1>3, <1>4, <1>5, <2>1, <2>3, <2>4, DoneJob
<1>8. CASE sockets[s].state # "UNUSED"
  <2>1. PICK x \in Task, y \in Task : /\ x = <<"disc", s>> /\ x[1] = "disc" /\ x[2] = s
                                      /\ y = <<"tail", s>> /\ y[1] = "tail" /\ y[2] = s
    BY TaskIs DEF JobNames
  <2>2. PICK J \in Seq(Task) : J = <<x, y>> /\ Len(J) = 2 /\ J[1] = x /\ J[2] = y /\ J # <<>>
                               /\ \A k \in 1..Len(J) : k \in {1, 2}
    BY PairJobs, ZenonT(60)
  <2>3. Goes(J)
    BY <1>2, <1>8, <2>1, <2>2, Zenon DEF JobClose
  <2>4. \A k \in 1..Len(J) : J[k] \in {x, y} /\ (k > 1 => k - 1 = 1 /\ J[k] = y)
    BY ONLY <2>2
  <2>5. \A k \in 1..Len(J) : k > 1 => Follows(J[k - 1], J[k])
    <3>1. Follows(x, y)
      BY <2>1 DEF Follows, LastJobs, SoloJobs, FrontJobs
    <3> QED
      BY <2>2, <2>4, <3>1
  <2>6. \A j, k \in 1..Len(J) : j < k => Order(J[j], J[k])
    <3>1. Order(x, y)
      BY <2>1 DEF Order
    <3>2. \A j, k \in 1..Len(J) : j < k => J[j] = x /\ J[k] = y
      BY ONLY <2>2
    <3> QED
      BY <3>1, <3>2
  <2>7. ASSUME NEW z \in Task, Rest(1, z) PROVE Order(x, z) /\ Order(y, z)
    <3>1. Order(Head(work), z)
      BY <1>0, <1>1, <2>7, HeadOrder
    <3> QED
      BY <1>1, <1>2, <2>1, <3>1 DEF Order
  <2>8. Turn(J[1])'
    <3>1. Turn(x)'
      BY <2>1 DEF Turn
    <3> QED
      BY <2>2, <3>1
  <2>9. ASSUME NEW z \in Task, Len(work) > 1, z = work[2] PROVE Follows(J[Len(J)], z)
    <3>1. Follows(Head(work), z)
      BY <1>0, <1>1, <2>9, SecondJob
    <3>2. Follows(y, z)
      BY <1>1, <1>2, <2>1, <3>1 DEF Follows, LastJobs
    <3> QED
      BY <2>2, <3>2
  <2>10. ASSUME NEW t \in Socks, Freed(t) PROVE Freed(t)'
    <3>1. t = s /\ Backlog(t) /\ handles[t] = 0 /\ sockets[t].state = "DISCONNECTED"
      BY <1>2, <2>10 DEF Freed, Doing
    <3>2. Joined(J, 1) /\ 1 \in 0..Len(work)
      BY <1>0, <1>1, <2>3, HeadGoes
    <3>3. work' \in Seq(Task) /\ \A k \in 1..Len(J) : k \in 1..Len(work') /\ work'[k] = J[k]
      BY <1>1, <3>2, JoinedParts DEF Joined
    <3>4. 1 \in 1..Len(work') /\ 2 \in 1..Len(work') /\ work'[1] = x /\ work'[2] = y
      BY <2>2, <3>3
    <3>5. work' # <<>> /\ Head(work') = x /\ Len(work') > 1
      BY ONLY <3>3, <3>4
    <3>6. Doing("disc", t)' /\ work'[2] = <<"tail", t>>
      BY <2>1, <3>1, <3>4, <3>5 DEF Doing
    <3>7. Backlog(t)' /\ cmd' = <<>> /\ handles'[t] = 0 /\ sockets'[t].state = "DISCONNECTED"
      BY <1>1, <1>3, <3>1 DEF Backlog
    <3> QED
      BY <3>5, <3>6, <3>7 DEF Freed
  <2>11. /\ \A k \in 1..Len(J) : J[k][1] \notin {"free", "noserver", "listening"}
         /\ \A k \in 1..Len(J) : J[k][1] = "tail" => InUse(J[k][2])
         /\ J[1][1] # "unserve"
         /\ \A z \in Task : Rest(1, z) => \A j \in 1..Len(J) : Order(J[j], z)
    BY <1>8, <2>1, <2>2, <2>4, <2>7 DEF InUse
  <2>12. cmd' = <<>> /\ Head(work)[1] \notin {"free", "noserver"} /\ "freed twice" \notin flaws'
    BY <1>0, <1>1, <1>3
  <2>13. UNCHANGED <<server, live, handles>>
    BY <1>3
  <2> QED
    BY <1>0, <1>1, <1>4, <1>5, <2>2, <2>3, <2>5, <2>6, <2>8, <2>9, <2>10, <2>11, <2>12, <2>13, HeadJob
<1> QED
  BY <1>7, <1>8

\* Only the socket of the first job can have lost its buffer.
LEMMA FreedHead ==
    ASSUME NEW t \in Socks, Freed(t)
    PROVE  /\ Head(work)[1] \in {"close", "tail", "disc"} /\ Head(work)[2] = t /\ cmd = <<>>
           /\ sockets[t].state = "DISCONNECTED"
<1>1. \E a \in {"close", "tail", "disc"} : Head(work) = <<a, t>>
  BY DEF Freed, Doing
<1> QED
  BY <1>1 DEF Freed

\* wifi_socket_disconnect stops the connection, the server, or nothing at all.
LEMMA DisconnectHoused ==
    ASSUME Sane, Housed, JobDisconnect
    PROVE  Housed'
<1>0. Sane /\ Housed /\ Shape /\ Linked /\ Standing /\ "freed twice" \notin flaws
  BY DEF Housed, Buffers
<1>1. /\ cmd = <<>> /\ work # <<>> /\ work \in Seq(Task) /\ Head(work)[1] = "disc"
  BY AtWork DEF JobDisconnect, Job
<1>2. PICK s \in Socks : s = Sock /\ Head(work) = <<"disc", s>> /\ Head(work)[2] = s
  BY AtWork DEF JobDisconnect, Sock
<1>3. UNCHANGED <<sockets, map, server, live, handles, flaws>>
  BY DEF JobDisconnect, wifi, KeepJob
<1>4. \A t \in Socks : Mild(t) /\ (sockets'[t].state \in Up => sockets[t].state = sockets'[t].state)
  BY <1>3 DEF Mild
<1>5. Linked'
  BY <1>0, <1>1, <1>3, LinkedKept DEF Mapped, Linking
<1>6. ASSUME NEW t \in Socks, Freed(t)
      PROVE  /\ t = s /\ sockets[t].state = "DISCONNECTED" /\ Backlog(t) /\ handles[t] = 0
             /\ Len(work) > 1 /\ work[2] = <<"tail", t>>
  BY <1>2, <1>6 DEF Freed, Doing
<1>7. UNCHANGED <<server, live, handles>> /\ "freed twice" \notin flaws'
  BY <1>0, <1>3
<1>8. CASE sockets[s].state \in {"UNUSED", "DISCONNECTED"}
  <2>1. Done /\ cmd' = <<>>
    BY <1>1, <1>2, <1>8, Zenon DEF JobDisconnect
  <2>2. ASSUME NEW x \in Task, Len(work) > 1, x = work[2] PROVE Turn(x)'
    <3>1. Follows(Head(work), x) /\ x[1] \notin SoloJobs /\ 2 \in 1..Len(work)
      BY <1>0, <1>1, <2>2, SecondJob
    <3>2. x[1] # "handle" /\ (x[1] = "tail" => x[2] = s)
      BY <1>1, <1>2, <3>1 DEF Follows
    <3>3. x[1] = "tail" => InUse(s)
      BY <1>0, <2>2, <3>1, <3>2 DEF Standing, Stands
    <3> QED
      BY <1>3, <1>8, <3>1, <3>2, <3>3, TurnOf DEF InUse
  <2>3. ASSUME NEW t \in Socks, Freed(t) PROVE Freed(t)'
    <3>1. PICK m \in Nat : m = Len(work) /\ m > 1
      BY <1>1, <1>6, <2>3
    <3>2. Joined(<<>>, 1)
      BY <1>0, <1>1, <2>1, HeadDone
    <3>3. work' \in Seq(Task) /\ Len(work') = m - 1 /\ \A k \in 0 + 1..m - 1 : work'[k] = work[k - 0 + 1]
      <4>1. Len(<<>>) = 0 /\ 0 + m - 1 = m - 1
        BY ONLY <3>1, EmptySeq
      <4> QED
        BY <3>1, <3>2, <4>1 DEF Joined
    <3>4. 1 \in 0 + 1..m - 1 /\ 1 - 0 + 1 = 2
      BY ONLY <3>1
    <3>5. work'[1] = <<"tail", t>>
      BY <1>6, <2>3, <3>3, <3>4
    <3>6. work' # <<>> /\ Head(work') = work'[1]
      BY ONLY <3>1, <3>3
    <3>7. Doing("tail", t)'
      BY <3>5, <3>6 DEF Doing
    <3>8. Backlog(t)' /\ handles'[t] = 0 /\ sockets'[t].state = "DISCONNECTED"
      BY <1>3, <1>6, <2>3 DEF Backlog
    <3> QED
      BY <2>1, <3>7, <3>8 DEF Freed
  <2> QED
    BY <1>0, <1>1, <1>4, <1>5, <1>7, <2>1, <2>2, <2>3, DoneJob
<1>9. CASE sockets[s].state \notin {"UNUSED", "DISCONNECTED"}
  <2>1. \A t \in Socks : ~Freed(t)
    BY <1>6, <1>9
  <2>2. PICK a \in {"unserve", "stopped"} : /\ a = "unserve" => s = server.id
                                            /\ Goes(<<<<a, s>>>>) /\ cmd' # <<>>
    <3>1. \A x, z : <<x, z>> # <<>>
      OBVIOUS
    <3>2. CASE s = server.id
      <4>1. Goes(<<<<"unserve", s>>>>) /\ cmd' = <<"SERVER", FALSE>>
        BY <1>2, <1>9, <3>2, Zenon DEF JobDisconnect, Run
      <4> QED
        BY <3>1, <3>2, <4>1
    <3>3. CASE s # server.id
      <4>1. Goes(<<<<"stopped", s>>>>) /\ cmd' = <<"STOP", sockets[s].conn_id>>
        BY <1>2, <1>9, <3>3, Zenon DEF JobDisconnect, Run
      <4> QED
        BY <3>1, <4>1
    <3> QED
      BY <3>2, <3>3
  <2>3. PICK y \in Task : y = <<a, s>> /\ y[1] = a /\ y[2] = s
    <3>1. a \in JobNames
      BY <2>2 DEF JobNames
    <3> QED
      BY <3>1, TaskIs
  <2>4. Goes(<<y>>)
    BY <2>2, <2>3, Zenon
  <2>5. Turn(y)'
    BY <1>3, <1>9, <2>2, <2>3 DEF Turn, InUse
  <2>6. ASSUME NEW x \in Task, Rest(1, x)
        PROVE  Order(y, x) /\ x[1] \notin {"free", "noserver"}
    <3>1. Order(Head(work), x)
      BY <1>0, <1>1, <2>6, HeadOrder
    <3>2. ~Dead(s)
      BY <1>9 DEF Dead
    <3>3. x[1] \notin {"free", "noserver"}
      BY <1>1, <1>2, <3>1, <3>2 DEF Order
    <3> QED
      BY <2>2, <2>3, <3>3 DEF Order
  <2>7. ~Left("noserver")
    BY <1>1, <2>6, LeftParts
  <2>8. a = "unserve" /\ ~Backlog(s) => sockets[s].state = "LISTENING"
    BY <1>0, <1>9, <2>2 DEF Housed, ServerHeld
  <2>9. ASSUME NEW x \in Task, Len(work) > 1, x = work[2] PROVE Follows(y, x)
    <3>1. Follows(Head(work), x)
      BY <1>0, <1>1, <2>9, SecondJob
    <3> QED
      BY <1>1, <1>2, <2>2, <2>3, <3>1 DEF Follows, LastJobs
  <2>10. /\ y[1] \notin {"free", "noserver", "listening", "tail"}
         /\ y[1] = "unserve" /\ ~Backlog(y[2]) => sockets[y[2]].state = "LISTENING" /\ ~Left("noserver")
         /\ y[1] \in {"up", "stopped", "unserve", "listening", "sent", "gone"}
         /\ Head(work)[1] \notin {"free", "noserver"}
    BY <1>1, <2>2, <2>3, <2>7, <2>8
  <2> QED
    BY <1>0, <1>1, <1>4, <1>5, <1>7, <2>1, <2>4, <2>5, <2>6, <2>9, <2>10, UnitJob
<1> QED
  BY <1>8, <1>9

\* The connection of the socket is released.
LEMMA ReleaseUnmaps ==
    ASSUME WifiTypes, Matched, NEW s \in Socks, ReleaseConn(s)
    PROVE  /\ ~Mapped(s)'
           /\ \A t \in Socks : /\ Mapped(t)' => Mapped(t)
                               /\ sockets'[t].state = sockets[t].state /\ sockets'[t].cb = sockets[t].cb
<1>0. map \in [Conns -> Socks \cup {INVALID_ID}] /\ INVALID_ID \notin Socks
  BY WifiAssumption DEF WifiTypes, INVALID_ID, Socks
<1>1. CASE sockets[s].conn_id = INVALID_ID
  <2>1. UNCHANGED <<sockets, map>>
    BY <1>1 DEF ReleaseConn
  <2>2. INVALID_ID \notin Conns
    BY WifiAssumption DEF INVALID_ID, Conns
  <2>3. ~Mapped(s)
    BY <1>0, <1>1, <2>2 DEF Mapped, Matched
  <2> QED
    BY <2>1, <2>3 DEF Mapped
<1>2. CASE sockets[s].conn_id # INVALID_ID
  <2>1. PICK d \in Conns : d = sockets[s].conn_id
    BY <1>2 DEF WifiTypes, Socket
  <2>2. sockets' = [sockets EXCEPT ![s].conn_id = INVALID_ID] /\ map' = [map EXCEPT ![d] = INVALID_ID]
    BY <1>2, <2>1 DEF ReleaseConn
  <2>3. \A t \in Socks : sockets'[t].state = sockets[t].state /\ sockets'[t].cb = sockets[t].cb
    BY <2>2 DEF WifiTypes, Socket
  <2>4. \A c \in Conns : map'[c] = IF c = d THEN INVALID_ID ELSE map[c]
    BY <1>0, <2>2
  <2>5. \A t \in Socks : Mapped(t)' => Mapped(t)
    BY <1>0, <2>4 DEF Mapped
  <2>6. ~Mapped(s)'
    BY <1>0, <2>1, <2>4 DEF Mapped, Matched
  <2> QED
    BY <2>3, <2>5, <2>6
<1> QED
  BY <1>1, <1>2

LEMMA NoSuchId == INVALID_ID \notin Conns /\ INVALID_ID \notin Socks
BY WifiAssumption DEF INVALID_ID, Conns, Socks

\* A socket without a number is not mapped.
LEMMA NumberlessUnmapped ==
    ASSUME WifiTypes, Matched, NEW s \in Socks, sockets[s].conn_id = INVALID_ID
    PROVE  ~Mapped(s)
BY NoSuchId DEF Mapped, Matched

\* The same of a number that was loaded before.
LEMMA FoundUnmaps ==
    ASSUME WifiTypes, Matched, NEW s \in Socks, s = Sock, found \in Conns, ReleaseFound,
           "retaken" \notin flaws'
    PROVE  /\ ~Mapped(s)'
           /\ \A t \in Socks : /\ Mapped(t)' => Mapped(t)
                               /\ sockets'[t].state = sockets[t].state /\ sockets'[t].cb = sockets[t].cb
<1>0. map \in [Conns -> Socks \cup {INVALID_ID}] /\ INVALID_ID \notin Socks
  BY NoSuchId DEF WifiTypes
<1>1. CASE ReleaseConn(s)
  BY <1>1, ReleaseUnmaps
<1>2. CASE /\ sockets[s].conn_id = INVALID_ID
           /\ sockets' = sockets /\ map' = [map EXCEPT ![found] = INVALID_ID]
  <2>1. \A c \in Conns : map'[c] = IF c = found THEN INVALID_ID ELSE map[c]
    BY <1>0, <1>2
  <2>2. \A t \in Socks : Mapped(t)' => Mapped(t)
    BY <1>0, <2>1 DEF Mapped
  <2>3. ~Mapped(s)
    BY <1>2, NumberlessUnmapped
  <2> QED
    BY <1>2, <2>2, <2>3
<1>3. Sock \in Socks
  OBVIOUS
<1>4. ReleaseConn(s) <=> ReleaseConn(Sock)
  OBVIOUS
<1> QED
  BY <1>1, <1>2, <1>3, <1>4, FoundReleased

\* wifi_socket_disconnect goes on, once its connection is stopped or while it releases it.
LEMMA PartingHoused ==
    ASSUME Sane, Housed, "freed twice" \notin flaws', UNCHANGED <<server, live, handles>>,
           NEW s \in Socks, work # <<>>, Head(work)[1] \in {"stopped", "parted"}, Head(work)[2] = s,
           NEW b \in {"parted", "down"}, Goes(<<<<b, s>>>>), cmd' = <<>>,
           b = "down" => ~Mapped(s)',
           \A t \in Socks : /\ Mapped(t)' => Mapped(t)
                            /\ sockets'[t].state = sockets[t].state /\ sockets'[t].cb = sockets[t].cb
    PROVE  Housed'
<1>0. Sane /\ Housed /\ Shape /\ Linked /\ Standing /\ WifiTypes /\ work \in Seq(Task)
  BY DEF Housed, Sane, LineTypes
<1>5. \A t \in Socks : Mild(t) /\ (sockets'[t].state \in Up => sockets[t].state = sockets'[t].state)
  BY DEF Mild
<1>6. Linked'
  BY <1>0, LinkedKept DEF Linking
<1>7. \A t \in Socks : ~Freed(t)
  BY FreedHead
<1>8. PICK y \in Task : y = <<b, s>> /\ y[1] = b /\ y[2] = s
  BY ONLY s \in Socks, b \in {"parted", "down"}, TaskIs DEF JobNames
<1>9. Goes(<<y>>)
  BY <1>8, Zenon
<1>10. Turn(y)'
  <2>1. InUse(s)
    BY <1>0 DEF Standing, Turn
  <2> QED
    BY <1>8, <2>1 DEF Turn, InUse
<1>11. ASSUME NEW x \in Task, Rest(1, x) PROVE Order(y, x)
  <2>1. Order(Head(work), x)
    BY <1>0, <1>11, HeadOrder
  <2> QED
    BY <1>8, <2>1 DEF Order
<1>12. ASSUME NEW x \in Task, Len(work) > 1, x = work[2] PROVE Follows(y, x)
  <2>1. Follows(Head(work), x)
    BY <1>0, <1>12, SecondJob
  <2> QED
    BY <1>8, <2>1 DEF Follows, LastJobs
<1>13. /\ y[1] \notin {"free", "noserver", "listening", "tail", "unserve"}
       /\ Head(work)[1] \notin {"free", "noserver"}
  BY <1>8
<1> QED
  BY <1>0, <1>5, <1>6, <1>7, <1>9, <1>10, <1>11, <1>12, <1>13, UnitJob

\* The module has stopped the connection.
LEMMA StoppedHoused ==
    ASSUME Sane, Housed, Matched, JobStopped, Clean', "freed twice" \notin flaws'
    PROVE  Housed'
<1>1. /\ cmd = <<>> /\ work # <<>> /\ Head(work) = <<"stopped", Sock>> /\ Sock \in Socks
      /\ WifiTypes /\ "stopped" \in {"stopped", "parted"}
  BY AtWork DEF JobStopped
<1>2. PICK s \in Socks : s = Sock /\ Head(work) = <<"stopped", s>> /\ Head(work)[1] = "stopped" /\ Head(work)[2] = s
  <2>1. <<"stopped", Sock>>[1] = "stopped" /\ <<"stopped", Sock>>[2] = Sock
    OBVIOUS
  <2> QED
    BY ONLY <1>1, <2>1, Zenon
<1>3. UNCHANGED <<sockets, map, server, live, handles>> /\ cmd' = <<>>
  BY <1>1 DEF JobStopped, wifi
<1>4. \A t \in Socks : /\ Mapped(t)' <=> Mapped(t)
                       /\ sockets'[t].state = sockets[t].state /\ sockets'[t].cb = sockets[t].cb
  BY <1>3 DEF Mapped
<1>5. CASE Goes(<<<<"parted", Sock>>>>)
  BY <1>1, <1>2, <1>3, <1>4, <1>5, PartingHoused
<1>6. CASE sockets[Sock].conn_id = INVALID_ID /\ Goes(<<<<"down", Sock>>>>)
  <2>1. ~Mapped(s)'
    BY <1>1, <1>2, <1>4, <1>6, NumberlessUnmapped
  <2> QED
    BY <1>1, <1>2, <1>3, <1>4, <1>6, <2>1, PartingHoused
<1> QED
  BY <1>5, <1>6 DEF JobStopped, LoadNumber

\* The connection is released.
LEMMA PartedHoused ==
    ASSUME Sane, Housed, Matched, JobParted, Clean', "freed twice" \notin flaws'
    PROVE  Housed'
<1>1. /\ cmd = <<>> /\ work # <<>> /\ Head(work) = <<"parted", Sock>> /\ Sock \in Socks
      /\ WifiTypes /\ found \in Conns
  BY AtWork DEF JobParted, LineTypes
<1>2. PICK s \in Socks : s = Sock /\ Head(work) = <<"parted", s>> /\ Head(work)[1] = "parted" /\ Head(work)[2] = s
  <2>1. <<"parted", Sock>>[1] = "parted" /\ <<"parted", Sock>>[2] = Sock
    OBVIOUS
  <2> QED
    BY ONLY <1>1, <2>1, Zenon
<1>3. /\ UNCHANGED <<server, live, handles>> /\ cmd' = <<>> /\ Goes(<<<<"down", Sock>>>>) /\ ReleaseFound
      /\ "retaken" \notin flaws'
  BY <1>1 DEF JobParted, Quiet, Clean, None
<1>4. /\ ~Mapped(s)'
      /\ \A t \in Socks : /\ Mapped(t)' => Mapped(t)
                          /\ sockets'[t].state = sockets[t].state /\ sockets'[t].cb = sockets[t].cb
  BY <1>1, <1>2, <1>3, FoundUnmaps
<1> QED
  BY <1>1, <1>2, <1>3, <1>4, PartingHoused

\* The socket is disconnected.
LEMMA DownHoused ==
    ASSUME Sane, Housed, JobDown, Clean', "freed twice" \notin flaws'
    PROVE  Housed'
<1>0. Sane /\ Housed /\ Shape /\ Linked /\ Standing /\ WifiTypes
  BY DEF Housed, Sane
<1>1. /\ cmd = <<>> /\ work # <<>> /\ work \in Seq(Task) /\ Head(work)[1] = "down"
  BY AtWork DEF JobDown, Job
<1>2. PICK s \in Socks : s = Sock /\ Head(work) = <<"down", s>> /\ Head(work)[2] = s
  BY AtWork DEF JobDown, Sock
<1>3. /\ UNCHANGED <<server, live, handles, map>> /\ cmd' = <<>> /\ Done
      /\ sockets' = [sockets EXCEPT ![s].state = "DISCONNECTED"]
      /\ sockets[s].state # "WAITING_ACCEPT"
  <2>1. sockets[s].state = "WAITING_ACCEPT" => "retaken" \in flaws'
    BY <1>2 DEF JobDown, Flaw, Retaken
  <2> QED
    BY <1>1, <1>2, <2>1 DEF JobDown, Quiet, Clean, None
<1>4. InUse(s) /\ ~Mapped(s)
  BY <1>0, <1>1, <1>2, <1>3 DEF Standing, Turn
<1>5. \A t \in Socks : /\ sockets'[t].cb = sockets[t].cb
                       /\ sockets'[t].state = IF t = s THEN "DISCONNECTED" ELSE sockets[t].state
  BY <1>0, <1>3 DEF WifiTypes, Socket
<1>6. \A t \in Socks : Mild(t) /\ (sockets'[t].state \in Up => sockets[t].state = sockets'[t].state)
  BY <1>4, <1>5 DEF Mild, Up
<1>7. Linked'
  <2>1. \A t \in Socks : Mapped(t)' => Mapped(t) /\ sockets'[t].state = sockets[t].state
    BY <1>3, <1>4, <1>5 DEF Mapped
  <2> QED
    BY <1>0, <1>1, <2>1, LinkedKept DEF Linking
<1>8. \A t \in Socks : ~Freed(t)
  BY <1>1, FreedHead
<1>9. ASSUME NEW x \in Task, Len(work) > 1, x = work[2] PROVE Turn(x)'
  <2>1. Follows(Head(work), x) /\ x[1] \notin SoloJobs
    BY <1>0, <1>1, <1>9, SecondJob
  <2>2. x[1] # "handle" /\ (x[1] = "tail" => x[2] = s)
    BY <1>1, <1>2, <2>1 DEF Follows
  <2> QED
    BY <1>5, <2>1, <2>2, TurnOf
<1> QED
  BY <1>0, <1>1, <1>3, <1>6, <1>7, <1>8, <1>9, DoneJob

\* The call goes on with the jobs that are not about the socket whose command has failed.
LEMMA AbortedHoused ==
    ASSUME Sane, Housed, UNCHANGED <<sockets, map, server, live, handles>>, "freed twice" \notin flaws',
           cmd # <<>>, cmd' = <<>>, work' = Aborted(Tail(work)),
           Head(work)[1] \in {"stopped", "unserve", "sent"}
    PROVE  Housed'
<1>0. Sane /\ Housed /\ Shape /\ Linked /\ Standing /\ work \in Seq(Task) /\ work # <<>>
  BY DEF Housed, Sane, LineTypes
<1>1. PICK m \in Nat : m = Len(work)
  BY ONLY <1>0
<1>2. PICK n \in 0..2 :
              /\ n + 1 \in 1..m
              /\ work' \in Seq(Task) /\ Len(work') = m - (n + 1)
              /\ \A k \in 1..Len(work') : work'[k] = work[k + (n + 1)]
              /\ n = 0 => m = 1 \/ work[2][1] # "tail"
              /\ n > 0 => m > 1 /\ work[2][1] = "tail"
              /\ n = 1 => m = 2 \/ work[3][1] # "handle"
              /\ n = 2 => m > 2 /\ work[3][1] = "handle"
  BY <1>0, <1>1, AbortedPlaces, ZenonT(60)
<1>3. PICK d \in 1..m : d = n + 1
  BY <1>2
<1>4. Joined(<<>>, d)
  <2>1. Len(<<>>) = 0 /\ 1..0 = {} /\ 0 + m - d = m - d /\ \A k \in 1..m - d : k - 0 + d = k + d
    BY ONLY m \in Nat, d \in 1..m, EmptySeq
  <2>2. Len(work') = m - d /\ \A k \in 1..m - d : work'[k] = work[k + d]
    BY ONLY <1>2, <1>3
  <2>3. 0 + 1 = 1
    BY ONLY SMT
  <2> QED
    BY ONLY <1>1, <1>2, <2>1, <2>2, <2>3, SMTT(30) DEF Joined
<1>5. \A k \in 1..m : work[k] \in Task /\ (k > 1 => Follows(work[k - 1], work[k]))
  BY ONLY <1>0, <1>1 DEF Shape
<1>6. \A k \in 1..d : work[k][1] \notin {"free", "noserver"}
  <2>1. work[1][1] \in {"stopped", "unserve", "sent"}
    <3>1. work[1] = Head(work)
      BY ONLY <1>0, TailRest
    <3> QED
      BY <3>1
  <2>2. d > 1 => work[2][1] = "tail"
    BY ONLY <1>2, <1>3, n \in 0..2
  <2>3. d > 2 => work[3][1] = "handle"
    BY ONLY <1>2, <1>3, n \in 0..2
  <2>4. \A k \in 1..d : k = 1 \/ (k = 2 /\ d > 1) \/ (k = 3 /\ d > 2)
    BY ONLY <1>2, <1>3, d \in 1..m, n \in 0..2, m \in Nat
  <2> QED
    BY ONLY <2>1, <2>2, <2>3, <2>4
<1>7. ASSUME NEW x \in Task, d < m, x = work[d + 1] PROVE Turn(x)'
  <2>1. d + 1 \in 1..m /\ d + 1 > 1 /\ (d + 1) - 1 = d
    BY ONLY <1>7, d \in 1..m, m \in Nat
  <2>2. Follows(work[d], x)
    BY <1>5, <1>7, <2>1
  <2>3. x[1] \notin SoloJobs
    BY <2>2 DEF Follows
  <2>4. x[1] # "tail" /\ x[1] # "handle"
    <3>1. CASE n = 0
      <4>1. d = 1 /\ x = work[2] /\ work[1][1] \in {"stopped", "unserve", "sent"} /\ m # 1
        <5>1. d = 1 /\ 1 + 1 = 2 /\ m # 1 /\ work[1] = Head(work)
          BY ONLY <1>0, <1>3, <1>7, <3>1, m \in Nat, TailRest
        <5> QED
          BY <1>7, <5>1
      <4> QED
        BY <1>2, <2>2, <3>1, <4>1 DEF Follows
    <3>2. CASE n = 1
      <4>1. d = 2 /\ x = work[3] /\ m # 2 /\ work[2][1] = "tail"
        BY ONLY <1>2, <1>3, <1>7, <3>2, m \in Nat
      <4> QED
        BY <1>2, <2>2, <3>2, <4>1 DEF Follows
    <3>3. CASE n = 2
      <4>1. d = 3 /\ work[3][1] = "handle"
        BY ONLY <1>2, <1>3, <3>3
      <4> QED
        BY <2>2, <4>1 DEF Follows, LastJobs
    <3> QED
      BY ONLY <3>1, <3>2, <3>3, n \in 0..2
  <2> QED
    BY <2>3, <2>4, TurnOf
<1>8. PICK J \in Seq(Task) : J = <<>> /\ 1..Len(J) = {}
  <2>1. <<>> \in Seq(Task) /\ 1..Len(<<>>) = {}
    BY ONLY EmptySeq
  <2> QED
    BY ONLY <2>1, Zenon
<1>9. \A t \in Socks : Mild(t) /\ (sockets'[t].state \in Up => sockets[t].state = sockets'[t].state)
  BY DEF Mild
<1>10. Linked'
  BY <1>0, LinkedKept DEF Mapped, Linking
<1>11. \A t \in Socks : ~Freed(t)
  BY DEF Freed
<1>12. ASSUME NEW t \in Socks PROVE ~Doing("unserve", t)' /\ ~Doing("listening", t)'
  <2> SUFFICES ASSUME NEW a \in {"unserve", "listening"}, Doing(a, t)' PROVE FALSE
    OBVIOUS
  <2>1. work' # <<>> /\ Head(work') = <<a, t>>
    BY DEF Doing
  <2>2. 1 \in 1..Len(work') /\ work'[1] = <<a, t>>
    BY ONLY <1>2, <2>1
  <2>3. d < m /\ d + 1 \in 1..m /\ d + 1 > 1 /\ (d + 1) - 1 = d /\ 1 + (n + 1) = d + 1
    BY ONLY <1>2, <1>3, <2>2, d \in 1..m, m \in Nat, n \in 0..2
  <2>4. Follows(work[d], work[d + 1])
    BY <1>5, <2>3
  <2>5. work[d + 1] = <<a, t>>
    BY <1>2, <2>2, <2>3
  <2>6. work[d + 1][1] = a
    BY ONLY <2>5
  <2> QED
    BY ONLY <2>4, <2>6, a \in {"unserve", "listening"} DEF Follows, SoloJobs, FrontJobs
<1>13. d \in 0..Len(work) /\ (d < Len(work) <=> d < m)
  BY ONLY <1>1, d \in 1..m, m \in Nat
<1>14. Joined(J, d)
  BY <1>4, <1>8
<1>15. UNCHANGED <<server, live, handles>> /\ "freed twice" \notin flaws' /\ cmd' = <<>>
  OBVIOUS
<1> QED
  BY <1>0, <1>6, <1>7, <1>8, <1>9, <1>10, <1>11, <1>12, <1>13, <1>14, <1>15, NeutralJob

-----------------------------------------------------------------------------
(* Housed: the jobs about the backlog and the server.                      *)

\* The jobs that free the backlog.
LEMMA FreesPlaces ==
    ASSUME server \in Server
    PROVE  /\ Frees \in Seq(Task) /\ Len(Frees) = Len(server.clients)
           /\ \A k \in 1..Len(Frees) : /\ Frees[k] = <<"free", server.clients[k]>>
                                       /\ Frees[k][1] = "free" /\ Frees[k][2] = server.clients[k]
                                       /\ server.clients[k] \in Socks /\ Backlog(server.clients[k])
           /\ \A t \in Socks : Backlog(t) <=> \E k \in 1..Len(Frees) : Frees[k] = <<"free", t>>
<1>1. PICK q \in Seq(Socks) : q = server.clients
  BY DEF Server
<1>2. PICK n \in Nat : n = Len(q) /\ DOMAIN q = 1..n /\ \A k \in 1..n : q[k] \in Socks
  BY <1>1
<1>3. PICK F : F = Frees /\ F = [k \in 1..n |-> <<"free", q[k]>>]
  BY <1>1, <1>2 DEF Frees
<1>4. \A k \in 1..n : F[k] \in Task /\ F[k] = <<"free", q[k]>> /\ F[k][1] = "free" /\ F[k][2] = q[k]
  BY <1>2, <1>3 DEF Task, JobNames
<1>5. F \in [1..n -> Task]
  BY <1>3, <1>4
<1>6. F \in Seq(Task) /\ Len(F) = n
  BY <1>5
<1>7. \A t \in Socks : Backlog(t) <=> \E k \in 1..n : q[k] = t
  BY <1>1, <1>2 DEF Backlog, Contains
<1>8. \A t \in Socks : \A k \in 1..n : F[k] = <<"free", t>> <=> q[k] = t
  <2> SUFFICES ASSUME NEW t \in Socks, NEW k \in 1..n PROVE F[k] = <<"free", t>> <=> q[k] = t
    OBVIOUS
  <2>1. <<"free", t>>[2] = t
    OBVIOUS
  <2> QED
    BY <1>4, <2>1
<1>9. \A t \in Socks : Backlog(t) <=> \E k \in 1..n : F[k] = <<"free", t>>
  BY <1>7, <1>8
<1>10. \A k \in 1..n : Backlog(q[k])
  BY <1>2, <1>7
<1> QED
  BY ONLY <1>1, <1>2, <1>3, <1>4, <1>6, <1>9, <1>10

\* The call has the backlog to free.
LEMMA FreesHeld ==
    ASSUME Sane, Housed, UNCHANGED <<sockets, server, live, handles>>, "freed twice" \notin flaws',
           NEW s \in Socks, server.id = s, InUse(s), Doing("unserve", s) \/ Doing("listening", s),
           ~Left("free"), \A t \in Socks : Waits("free", t)' <=> Backlog(t),
           ~Left("noserver")' => \A t \in Socks : sockets[t].state # "LISTENING"
    PROVE  ServerHeld' /\ Backlogged' /\ Buffers'
<1>1. \A t \in Socks : (Backlog(t)' <=> Backlog(t)) /\ (InUse(t)' <=> InUse(t))
  BY DEF Backlog, InUse
<1>2. ServerHeld'
  BY <1>1 DEF Housed, ServerHeld
<1>3. handles[s] > 0
  BY DEF Housed, ServerHeld
<1>4. Backlogged'
  <2>1. /\ \A j, k \in 1..Len(server'.clients) : j < k => server'.clients[j] < server'.clients[k]
        /\ \A t \in Socks : Backlog(t)' => sockets'[t].cb # NULL
    BY <1>1 DEF Housed, Backlogged
  <2>2. Backlog(server.id)' => Waits("free", server.id)' /\ handles'[server'.id] > 0
    BY <1>1, <1>3
  <2>3. \A u \in Socks : Backlog(u)' => Waits("free", u)'
    BY <1>1
  <2>4. ~Left("noserver")' => \A t \in Socks : sockets'[t].state # "LISTENING"
    OBVIOUS
  <2> QED
    BY <2>1, <2>2, <2>3, <2>4 DEF Backlogged
<1>5. \A t \in Socks : ~Freed(t)
  <2> SUFFICES ASSUME NEW t \in Socks, Freed(t) PROVE FALSE
    OBVIOUS
  <2>1. Head(work)[1] \in {"close", "tail", "disc"}
    BY FreedHead
  <2>2. PICK a \in {"unserve", "listening"} : Head(work) = <<a, s>>
    BY DEF Doing
  <2>3. Head(work)[1] = a
    BY ONLY <2>2
  <2> QED
    BY ONLY <2>1, <2>3, a \in {"unserve", "listening"}
<1>6. ASSUME NEW t \in Socks, Sound(t)' PROVE Sound(t)
  <2>1. Backlog(t) /\ Waits("free", t)'
    BY <1>1, <1>6 DEF Sound
  <2>2. Left("free")'
    <3>1. PICK k \in 1..Len(work') : work'[k] = <<"free", t>>
      BY <2>1 DEF Waits
    <3>2. work'[k][1] = "free"
      BY ONLY <3>1
    <3> QED
      BY <3>2 DEF Left
  <2>3. Backlog(server.id) => t < server.id
    BY <1>1, <1>6, <2>2 DEF Sound
  <2>4. CASE ~Backlog(s)
    <3>1. Offering
      BY <2>4 DEF Offering
    <3> QED
      BY <2>1, <3>1 DEF Sound
  <2>5. CASE Backlog(s)
    <3>1. sockets[s].cb \in live
      BY <1>5, <2>5 DEF Housed, Buffers, Backlogged
    <3> QED
      BY <2>1, <2>3, <2>5, <3>1 DEF Sound
  <2> QED
    BY <2>4, <2>5
<1>7. Buffers'
  <2>1. \A t \in Socks : Holder(t)' => Holder(t)
    BY <1>1, <1>6 DEF Holder
  <2>2. \A t \in Socks : InUse(t)' => sockets'[t].cb \in live' \cup {NULL}
    BY <1>1, <1>5 DEF Housed, Buffers
  <2>3. \A t \in Socks : Sound(t)' => sockets'[t].cb \in live'
    BY <1>6 DEF Housed, Buffers
  <2>4. \A t, u \in Socks : Holder(t)' /\ Holder(u)' /\ sockets'[t].cb = sockets'[u].cb
                              => t = u \/ sockets'[t].cb = NULL
    BY <2>1 DEF Housed, Buffers
  <2> QED
    BY <2>2, <2>3, <2>4 DEF Buffers
<1> QED
  BY <1>2, <1>4, <1>7

LEMMA TaskParts ==
    ASSUME NEW x \in Task
    PROVE  x[1] \in JobNames /\ x[2] \in Socks /\ x = <<x[1], x[2]>>
BY DEF Task

\* The module has refused the server: the backlog is freed.
LEMMA ListeningFailed ==
    ASSUME Sane, Serving, Housed, UNCHANGED <<sockets, map, server, live, handles>>, "freed twice" \notin flaws',
           cmd' = <<>>, work # <<>>, Head(work)[1] = "listening", Goes(Frees)
    PROVE  Housed'
<1>0. Sane /\ Housed /\ Shape /\ Linked /\ Standing /\ work \in Seq(Task) /\ server \in Server
  BY DEF Housed, Sane, LineTypes, WifiTypes
<1>1. PICK s \in Socks : Head(work) = <<"listening", s>> /\ Head(work)[2] = s /\ server.id = s
  <2>1. 1 \in 1..Len(work) /\ work[1] = Head(work) /\ Head(work) \in Task
    BY ONLY <1>0, work # <<>>, TailRest
  <2>2. server.id = Head(work)[2]
    BY <2>1 DEF Serving, ServerJobs
  <2> QED
    BY <2>1, <2>2, TaskParts
<1>2. sockets[s].state = "DISCONNECTED" /\ ~Backlog(s) /\ InUse(s)
  BY <1>0, <1>1 DEF Standing, Turn, InUse
<1>3. PICK F \in Seq(Task) :
           /\ F = Frees /\ Len(F) = Len(server.clients)
           /\ \A k \in 1..Len(F) : /\ F[k][1] = "free" /\ F[k][2] = server.clients[k]
                                   /\ server.clients[k] \in Socks /\ Backlog(server.clients[k])
           /\ \A t \in Socks : Backlog(t) <=> \E k \in 1..Len(F) : F[k] = <<"free", t>>
  BY <1>0, FreesPlaces
<1>4. work' = F
  <2>1. Head(work)[1] \in LastJobs
    BY DEF LastJobs
  <2>2. Goes(F)
    BY <1>3
  <2> QED
    BY <1>0, <2>1, <2>2, SingleJob
<1>5. ~Left("free")
  <2>1. Len(work) = 1 /\ Head(work) = work[1]
    BY <1>0, SingleJob, TailRest DEF LastJobs
  <2>2. \A k \in 1..Len(work) : k = 1
    BY ONLY <2>1
  <2> QED
    BY <2>1, <2>2 DEF Left
<1>6. ASSUME NEW t \in Socks PROVE Waits("free", t)' <=> Backlog(t)
  <2>1. Waits("free", t)' <=> \E k \in 1..Len(F) : F[k] = <<"free", t>>
    BY ONLY <1>4 DEF Waits
  <2>2. Backlog(t) <=> \E k \in 1..Len(F) : F[k] = <<"free", t>>
    <3>1. Backlog(t) <=> \E k \in 1..Len(Frees) : Frees[k] = <<"free", t>>
      BY <1>0, FreesPlaces
    <3>2. F = Frees
      BY <1>3
    <3> QED
      BY ONLY <3>1, <3>2
  <2> QED
    BY ONLY <2>1, <2>2
<1>7. \A t \in Socks : sockets[t].state # "LISTENING"
  BY <1>1, <1>2 DEF Serving
<1>8. ServerHeld' /\ Backlogged' /\ Buffers'
  BY <1>0, <1>1, <1>2, <1>5, <1>6, <1>7, FreesHeld DEF Doing
<1>9. Linked'
  BY <1>0, LinkedKept DEF Mapped, Linking
<1>10. PICK n \in Nat : n = Len(F)
  BY ONLY F \in Seq(Task)
<1>11. Shape'
  <2>1. \A k \in 1..n : k > 1 => k - 1 \in 1..n
    BY ONLY n \in Nat
  <2>2. \A k \in 1..n : k > 1 => Follows(F[k - 1], F[k])
    BY <1>3, <1>10, <2>1, ZenonT(60) DEF Follows, LastJobs, SoloJobs, FrontJobs
  <2>3. \A j, k \in 1..n : j < k => F[j][2] < F[k][2]
    <3>1. \A j, k \in 1..Len(server.clients) : j < k => server.clients[j] < server.clients[k]
      BY <1>0 DEF Housed, Backlogged
    <3> QED
      BY ONLY <1>3, <1>10, <3>1, SMTT(30)
  <2>4. \A j, k \in 1..n : j < k => Order(work[j], work[k])'
    <3> SUFFICES ASSUME NEW j \in 1..n, NEW k \in 1..n, j < k PROVE Order(work[j], work[k])'
      OBVIOUS
    <3>1. F[j][1] = "free" /\ F[k][1] = "free" /\ F[j][2] < F[k][2]
      BY <1>3, <1>10, <2>3
    <3> QED
      BY <1>4, <3>1 DEF Order
  <2>5. \A k \in 1..n : k > 1 => Follows(work[k - 1], work[k])'
    BY <1>4, <2>2 DEF Follows
  <2> QED
    BY <1>4, <1>10, <2>4, <2>5 DEF Shape
<1>12. Standing'
  <2>1. ASSUME NEW k \in 1..n PROVE Stands(work[k])'
    <3>1. F[k][1] = "free" /\ Backlog(F[k][2])
      BY <1>3, <1>10
    <3> QED
      BY <1>4, <3>1 DEF Stands, Backlog
  <2>2. ASSUME work' # <<>> PROVE Turn(Head(work))'
    <3>1. Head(work') = F[1] /\ 1 \in 1..Len(F)
      BY ONLY <1>4, <2>2, F \in Seq(Task)
    <3>2. F[1][1] = "free"
      BY <1>3, <3>1
    <3> QED
      BY <3>1, <3>2 DEF Turn
  <2> QED
    BY <1>4, <1>10, <2>1, <2>2 DEF Standing
<1> QED
  BY <1>8, <1>9, <1>11, <1>12 DEF Housed

\* The jobs that unserve turns into: the backlog, then the end of the server.
LEMMA UnserveJobs ==
    ASSUME server \in Server, NEW s \in Socks
    PROVE  \E n \in Nat : \E J \in Seq(Task) :
              /\ n = Len(server.clients) /\ J = Frees \o <<<<"noserver", s>>>> /\ Len(J) = n + 1
              /\ \A k \in 1..n : /\ J[k][1] = "free" /\ J[k][2] = server.clients[k]
                                 /\ server.clients[k] \in Socks /\ Backlog(server.clients[k])
              /\ J[n + 1] = <<"noserver", s>> /\ J[n + 1][1] = "noserver" /\ J[n + 1][2] = s
              /\ \A t \in Socks : Backlog(t) <=> \E k \in 1..n : J[k] = <<"free", t>>
<1>1. PICK F \in Seq(Task) : F = Frees
  BY FreesPlaces
<1>2. PICK n \in Nat : n = Len(F) /\ n = Len(server.clients)
  BY <1>1, FreesPlaces
<1>3. PICK x \in Task : x = <<"noserver", s>> /\ x[1] = "noserver" /\ x[2] = s
  BY TaskIs DEF JobNames
<1>4. PICK G \in Seq(Task) : G = <<x>> /\ Len(G) = 1 /\ G[1] = x
  BY UnitJobs
<1>5. PICK J : J = F \o G
  OBVIOUS
<1>6. J \in Seq(Task) /\ Len(J) = n + 1 /\ (\A k \in 1..n : J[k] = F[k]) /\ J[n + 1] = x
  <2>1. /\ F \o G \in Seq(Task) /\ Len(F \o G) = Len(F) + Len(G)
        /\ \A k \in 1..Len(F) + Len(G) : (F \o G)[k] = IF k <= Len(F) THEN F[k] ELSE G[k - Len(F)]
    BY ONLY F \in Seq(Task), G \in Seq(Task), ConcatProperties
  <2>2. J \in Seq(Task) /\ Len(J) = n + 1
    BY ONLY <1>2, <1>4, <1>5, <2>1
  <2>3. \A k \in 1..n + 1 : J[k] = IF k <= n THEN F[k] ELSE G[k - n]
    BY ONLY <1>2, <1>4, <1>5, <2>1
  <2>4. (\A k \in 1..n : k \in 1..n + 1 /\ k <= n) /\ n + 1 \in 1..n + 1 /\ ~(n + 1 <= n) /\ n + 1 - n = 1
    BY ONLY n \in Nat
  <2> QED
    BY ONLY <1>4, <2>2, <2>3, <2>4
<1>7. J = Frees \o <<<<"noserver", s>>>>
  BY ONLY <1>1, <1>3, <1>4, <1>5
<1>8. \A k \in 1..n : /\ F[k][1] = "free" /\ F[k][2] = server.clients[k]
                      /\ server.clients[k] \in Socks /\ Backlog(server.clients[k])
  BY <1>1, <1>2, FreesPlaces
<1>9. ASSUME NEW t \in Socks PROVE Backlog(t) <=> \E k \in 1..n : J[k] = <<"free", t>>
  <2>1. Backlog(t) <=> \E k \in 1..Len(Frees) : Frees[k] = <<"free", t>>
    BY FreesPlaces
  <2>2. PICK y : y = <<"free", t>>
    OBVIOUS
  <2>3. Backlog(t) <=> \E k \in 1..n : F[k] = y
    BY ONLY <1>1, <1>2, <2>1, <2>2
  <2>4. Backlog(t) <=> \E k \in 1..n : J[k] = y
    BY ONLY <1>6, <2>3
  <2> QED
    BY ONLY <2>2, <2>4
<1>10. \A k \in 1..n : /\ J[k][1] = "free" /\ J[k][2] = server.clients[k]
                       /\ server.clients[k] \in Socks /\ Backlog(server.clients[k])
  BY ONLY <1>6, <1>8
<1>11. J[n + 1] = <<"noserver", s>> /\ J[n + 1][1] = "noserver" /\ J[n + 1][2] = s
  BY ONLY <1>3, <1>6
<1> QED
  BY <1>2, <1>6, <1>7, <1>9, <1>10, <1>11

\* The module has stopped the server: the backlog is freed before the server is let go.
LEMMA UnserveHoused ==
    ASSUME Sane, Serving, Housed, JobUnserve
    PROVE  Housed'
<1>0. Sane /\ Housed /\ Shape /\ Linked /\ Standing /\ server \in Server /\ "freed twice" \notin flaws
  BY DEF Housed, Sane, WifiTypes, Buffers
<1>1. /\ cmd = <<>> /\ work # <<>> /\ work \in Seq(Task) /\ Head(work)[1] = "unserve"
  BY AtWork DEF JobUnserve, Job
<1>2. PICK s \in Socks : s = Sock /\ Head(work) = <<"unserve", s>> /\ Head(work)[2] = s
  BY AtWork DEF JobUnserve, Sock
<1>3. UNCHANGED <<sockets, map, server, live, handles, flaws>> /\ cmd' = <<>>
  BY <1>1 DEF JobUnserve, Quiet, wifi
<1>4. server.id = s
  <2>1. 1 \in 1..Len(work) /\ work[1] = Head(work)
    BY ONLY <1>1, TailRest
  <2> QED
    BY <1>1, <1>2, <2>1 DEF Serving, ServerJobs
<1>5. InUse(s) /\ handles[s] > 0 /\ (~Backlog(s) => sockets[s].state \in {"DISCONNECTED", "LISTENING"})
  <2>1. InUse(s)
    BY <1>0, <1>1, <1>2 DEF Standing, Turn
  <2> QED
    BY <1>0, <1>4, <2>1 DEF Housed, ServerHeld, InUse
<1>6. PICK n \in Nat, J \in Seq(Task) :
              /\ n = Len(server.clients) /\ J = Frees \o <<<<"noserver", s>>>> /\ Len(J) = n + 1
              /\ \A k \in 1..n : /\ J[k][1] = "free" /\ J[k][2] = server.clients[k]
                                 /\ server.clients[k] \in Socks /\ Backlog(server.clients[k])
              /\ J[n + 1] = <<"noserver", s>> /\ J[n + 1][1] = "noserver" /\ J[n + 1][2] = s
              /\ \A t \in Socks : Backlog(t) <=> \E k \in 1..n : J[k] = <<"free", t>>
  BY <1>0, UnserveJobs
<1>7. Goes(J)
  BY <1>2, <1>6, Zenon DEF JobUnserve
<1>8. Joined(J, 1) /\ 1 \in 0..Len(work)
  BY <1>0, <1>1, <1>7, HeadGoes
<1>9. ASSUME NEW x \in Task, Rest(1, x)
      PROVE  /\ x[1] \notin {"free", "noserver"} /\ x[1] \notin SoloJobs
             /\ x[1] = "tail" => x[2] = s
  <2>1. Order(Head(work), x) /\ x[1] \notin SoloJobs
    BY <1>0, <1>1, <1>9, HeadOrder
  <2>2. x[1] \notin {"free", "noserver"}
    BY <1>1, <2>1 DEF Order
  <2>3. ASSUME x[1] = "tail" PROVE x[2] = s
    <3>1. PICK m \in Nat : m = Len(work)
      BY ONLY <1>1
    <3>2. PICK k \in 1..m : k > 1 /\ work[k] = x
      BY <1>9, <3>1 DEF Rest
    <3>3. k - 1 \in 1..m /\ (k - 1 = 1 \/ k - 1 > 1)
      BY ONLY <3>2, k \in 1..m, m \in Nat
    <3>4. PICK i \in 1..m : i = k - 1 /\ (i = 1 \/ i > 1)
      BY ONLY <3>3
    <3>5. Follows(work[i], x)
      BY <1>0, <3>1, <3>2, <3>4 DEF Shape
    <3>6. x[2] = work[i][2] /\ work[i][1] \in {"disc", "stopped", "parted", "down", "unserve", "noserver"}
      BY <2>3, <3>5 DEF Follows
    <3>7. CASE i = 1
      <4>1. work[1] = Head(work)
        BY ONLY <1>1, TailRest
      <4> QED
        BY <1>2, <3>6, <3>7, <4>1
    <3>8. CASE i > 1
      <4>1. PICK y \in Task : y = work[i]
        BY ONLY <1>1, <3>1, i \in 1..m
      <4>2. Rest(1, y)
        BY <3>1, <3>8, <4>1 DEF Rest
      <4>3. Order(Head(work), y) /\ y[1] \notin SoloJobs
        BY <1>0, <1>1, <4>2, HeadOrder
      <4>4. y[1] # "noserver"
        BY <1>1, <4>3 DEF Order
      <4> QED
        BY <3>6, <4>1, <4>3, <4>4 DEF SoloJobs, FrontJobs
    <3> QED
      BY <3>4, <3>7, <3>8
  <2> QED
    BY <2>1, <2>2, <2>3
<1>10. \A k \in 1..Len(J) : \/ k \in 1..n /\ J[k][1] = "free"
                            \/ k = n + 1
  BY ONLY <1>6, n \in Nat
<1>11. J # <<>> /\ Len(J) \in 1..Len(J) /\ Len(J) = n + 1
  BY ONLY <1>6, n \in Nat
<1>12. \A t \in Socks : (Dead(t) => Dead(t)') /\ handles'[t] = handles[t]
  BY <1>3 DEF Dead
<1>13. Shape'
  <2>1. ASSUME NEW k \in 1..Len(J), k > 1 PROVE Follows(J[k - 1], J[k])
    <3>1. k - 1 \in 1..n
      BY ONLY <1>6, <2>1, n \in Nat
    <3>2. J[k - 1][1] = "free" /\ J[k][1] \in {"free", "noserver"}
      BY <1>6, <1>10, <3>1
    <3> QED
      BY <3>2 DEF Follows, LastJobs, SoloJobs, FrontJobs
  <2>2. ASSUME 1 < Len(work) PROVE Follows(J[Len(J)], work[1 + 1])
    <3>1. PICK m \in Nat : m = Len(work)
      BY ONLY <1>1
    <3>2. 1 + 1 = 2 /\ 2 \in 1..m /\ m > 1
      BY ONLY <2>2, <3>1
    <3>3. PICK x \in Task : x = work[2]
      BY ONLY <1>1, <3>1, <3>2
    <3>4. Follows(Head(work), x)
      BY <1>0, <1>1, <3>1, <3>2, <3>3, SecondJob
    <3>5. Follows(J[n + 1], x)
      BY <1>1, <1>2, <1>6, <3>4 DEF Follows, LastJobs
    <3> QED
      BY <1>11, <3>2, <3>3, <3>5
  <2>3. ASSUME NEW j \in 1..Len(J), NEW k \in 1..Len(J), j < k PROVE Order(J[j], J[k])'
    <3>1. j \in 1..n
      BY ONLY <1>6, <2>3, n \in Nat
    <3>2. J[j][1] = "free"
      BY <1>6, <3>1
    <3>3. J[k][1] \in {"free", "noserver"}
      BY <1>6, <1>10
    <3>4. ASSUME J[k][1] = "free" PROVE J[j][2] < J[k][2]
      <4>1. k \in 1..n
        BY <1>6, <1>10, <3>4
      <4>2. server.clients[j] < server.clients[k]
        BY <1>0, <1>6, <2>3, <3>1, <4>1 DEF Housed, Backlogged
      <4> QED
        BY <1>6, <3>1, <4>1, <4>2
    <3> QED
      BY <3>2, <3>3, <3>4 DEF Order
  <2>4. ASSUME NEW x \in Task, Rest(1, x), NEW j \in 1..Len(J) PROVE Order(J[j], x)'
    <3>1. J[j][1] \in {"free", "noserver"}
      BY <1>6, <1>10
    <3>2. x[1] = "tail" => handles'[x[2]] > 0
      BY <1>3, <1>5, <1>9, <2>4
    <3> QED
      BY <1>9, <2>4, <3>1, <3>2 DEF Order
  <2> QED
    BY <1>0, <1>1, <1>3, <1>8, <1>11, <1>12, <2>1, <2>2, <2>3, <2>4, JoinedShape
<1>14. ASSUME NEW t \in Socks PROVE Waits("free", t)' <=> Backlog(t)
  <2>1. Waits("free", t)' <=> (\E k \in 1..Len(J) : J[k] = <<"free", t>>) \/ Rest(1, <<"free", t>>)
    BY <1>1, <1>8, JoinedLeft
  <2>2. PICK x \in Task : x = <<"free", t>> /\ x[1] = "free"
    BY TaskIs DEF JobNames
  <2>3. ~Rest(1, x)
    BY <1>9, <2>2
  <2>4. Backlog(t) <=> \E k \in 1..n : J[k] = x
    BY <1>6, <2>2
  <2>5. \A k \in 1..Len(J) : J[k] = x => k \in 1..n
    BY <1>6, <1>10, <2>2
  <2>6. \A k \in 1..n : k \in 1..Len(J)
    BY ONLY <1>6, n \in Nat
  <2>7. Waits("free", t)' <=> \E k \in 1..Len(J) : J[k] = x
    BY ONLY <2>1, <2>2, <2>3
  <2> QED
    BY ONLY <2>4, <2>5, <2>6, <2>7
<1>15. Standing'
  <2>1. ASSUME NEW x \in Task, Rest(1, x), Stands(x) PROVE Stands(x)'
    BY <1>3, <1>9, <2>1 DEF Stands, InUse
  <2>2. ASSUME NEW k \in 1..Len(J) PROVE Stands(J[k])'
    <3>1. CASE k \in 1..n
      <4>1. J[k][1] = "free" /\ Backlog(J[k][2])
        BY <1>6, <3>1
      <4> QED
        BY <1>3, <4>1 DEF Stands, Backlog
    <3>2. CASE k = n + 1
      <4>1. J[k] = <<"noserver", s>> /\ J[k][1] = "noserver" /\ J[k][2] = s
        BY <1>6, <3>2
      <4>2. InUse(s)' /\ handles'[s] > 0 /\ (Backlog(s)' <=> Backlog(s))
        BY <1>3, <1>5 DEF InUse, Backlog
      <4>3. Backlog(s)' => Waits("free", s)'
        BY <1>14, <4>2
      <4>4. ~Backlog(s)' => sockets'[s].state \in {"LISTENING", "DISCONNECTED"}
        BY <1>3, <1>5, <4>2
      <4> QED
        BY <4>1, <4>2, <4>3, <4>4 DEF Stands
    <3> QED
      BY <1>10, <3>1, <3>2
  <2>3. Turn(J[1])'
    <3>1. 1 \in 1..Len(J)
      BY ONLY <1>6, n \in Nat
    <3>2. J[1][1] \in {"free", "noserver"}
      BY <1>6, <1>10, <3>1
    <3> QED
      BY <3>2 DEF Turn
  <2> QED
    BY <1>0, <1>1, <1>8, <1>11, <2>1, <2>2, <2>3, JoinedStanding
<1>16. Left("noserver")'
  <2>1. \A k \in 1..Len(J) : k \in 1..Len(work') /\ work'[k] = J[k]
    BY <1>1, <1>8, JoinedParts
  <2>2. n + 1 \in 1..Len(J)
    BY ONLY <1>6, n \in Nat
  <2> QED
    BY <1>6, <2>1, <2>2, ZenonT(60) DEF Left
<1>17. ~Left("free")
  BY <1>1, <1>9, LeftParts
<1>18. ServerHeld' /\ Backlogged' /\ Buffers'
  BY <1>0, <1>1, <1>2, <1>3, <1>4, <1>5, <1>14, <1>16, <1>17, FreesHeld DEF Doing
<1>19. Linked'
  BY <1>0, <1>1, <1>3, LinkedKept DEF Mapped, Linking
<1> QED
  BY <1>13, <1>15, <1>18, <1>19 DEF Housed

\* The server is let go when its backlog has been freed.
LEMMA NoServerHoused ==
    ASSUME Sane, Serving, Housed, JobNoServer
    PROVE  Housed'
<1>0. Sane /\ Housed /\ Shape /\ Linked /\ Standing /\ server \in Server /\ "freed twice" \notin flaws /\ WifiTypes
  BY DEF Housed, Sane, WifiTypes, Buffers
<1>1. /\ cmd = <<>> /\ work # <<>> /\ work \in Seq(Task) /\ Head(work)[1] = "noserver"
  BY AtWork DEF JobNoServer, Job
<1>2. PICK s \in Socks : s = Sock /\ Head(work) = <<"noserver", s>> /\ Head(work)[2] = s
  BY AtWork DEF JobNoServer, Sock
<1>3. /\ UNCHANGED <<map, live, handles, flaws>> /\ cmd' = <<>> /\ Done
      /\ server' = [server EXCEPT !.id = INVALID_ID]
      /\ sockets' = [sockets EXCEPT ![s].state = "DISCONNECTED"]
  BY <1>1, <1>2 DEF JobNoServer, Quiet
<1>4. ASSUME NEW x \in Task, Rest(1, x) PROVE x[1] \notin {"free", "noserver"}
  <2>1. Order(Head(work), x)
    BY <1>0, <1>1, <1>4, HeadOrder
  <2> QED
    BY <1>1, <2>1 DEF Order
<1>5. ~Left("free") /\ \A t \in Socks : ~Waits("free", t)
  <2>1. ~Left("free")
    BY <1>1, <1>4, LeftParts
  <2>2. ASSUME NEW t \in Socks, Waits("free", t) PROVE FALSE
    <3>1. PICK k \in 1..Len(work) : work[k] = <<"free", t>>
      BY <2>2 DEF Waits
    <3>2. work[k][1] = "free"
      BY ONLY <3>1
    <3> QED
      BY <2>1, <3>2 DEF Left
  <2> QED
    BY <2>1, <2>2
<1>6. /\ InUse(s) /\ handles[s] > 0 /\ ~Backlog(s) /\ sockets[s].state \in {"LISTENING", "DISCONNECTED"}
  <2>1. Stands(Head(work))
    <3>1. Head(work) = work[1] /\ 1 \in 1..Len(work)
      BY ONLY <1>1, TailRest
    <3> QED
      BY <1>0, <3>1 DEF Standing
  <2> QED
    BY <1>1, <1>2, <1>5, <2>1 DEF Stands
<1>7. \A t \in Socks : /\ sockets'[t].cb = sockets[t].cb
                       /\ sockets'[t].state = IF t = s THEN "DISCONNECTED" ELSE sockets[t].state
  BY <1>0, <1>3 DEF WifiTypes, Socket
<1>8. \A t \in Socks : (InUse(t)' <=> InUse(t)) /\ (Backlog(t)' <=> Backlog(t)) /\ server'.id # t
  <2>1. server'.clients = server.clients /\ server'.id = INVALID_ID
    BY <1>0, <1>3 DEF Server
  <2>2. INVALID_ID \notin Socks
    BY WifiAssumption DEF INVALID_ID, Socks
  <2> QED
    BY <1>6, <1>7, <2>1, <2>2 DEF InUse, Backlog
<1>9. Joined(<<>>, 1) /\ <<>> \in Seq(Task) /\ 1 \in 0..Len(work)
  BY <1>0, <1>1, <1>3, HeadDone
<1>10. PICK J \in Seq(Task) : J = <<>> /\ 1..Len(J) = {} /\ Joined(J, 1)
  <2>1. 1..Len(<<>>) = {}
    BY ONLY EmptySeq
  <2> QED
    BY <1>9, <2>1
<1>11. Shape'
  <2>1. \A t \in Socks : (Dead(t) => Dead(t)') /\ handles'[t] = handles[t]
    BY <1>3, <1>6, <1>7 DEF Dead
  <2> QED
    BY <1>0, <1>1, <1>3, <1>9, <1>10, <2>1, JoinedShape
<1>12. ASSUME NEW x \in Task, 1 < Len(work), x = work[1 + 1] PROVE Turn(x)'
  <2>0. Len(work) > 1 /\ x = work[2]
    BY ONLY <1>1, <1>12
  <2>1. Follows(Head(work), x) /\ x[1] \notin SoloJobs
    BY <1>0, <1>1, <2>0, SecondJob
  <2>2. x[1] # "handle" /\ (x[1] = "tail" => x[2] = s)
    BY <1>1, <1>2, <2>1 DEF Follows
  <2> QED
    BY <1>7, <2>1, <2>2, TurnOf
<1>13. ASSUME NEW x \in Task, Rest(1, x), Stands(x) PROVE Stands(x)'
  <2>1. x[1] \notin {"free", "noserver"} /\ x[2] \in Socks
    BY <1>4, <1>13, TaskParts
  <2> QED
    BY <1>8, <1>13, <2>1 DEF Stands
<1>14. Standing'
  BY <1>0, <1>1, <1>9, <1>10, <1>12, <1>13, JoinedStanding
<1>15. ~Left("free")'
  <2>1. \A a : Left(a)' <=> \/ \E k \in 1..Len(J) : J[k][1] = a
                            \/ \E x \in Task : Rest(1, x) /\ x[1] = a
    BY <1>1, <1>9, <1>10, JoinedLeft, Zenon
  <2> QED
    BY ONLY <1>4, <1>10, <2>1
<1>16. Linked'
  <2>1. ~Mapped(s)
    BY <1>0, <1>1, <1>6, Unlinked DEF Linking
  <2>2. \A t \in Socks : Mapped(t)' => Mapped(t) /\ sockets'[t].state = sockets[t].state
    BY <1>3, <1>7, <2>1 DEF Mapped
  <2> QED
    BY <1>0, <1>1, <2>2, LinkedKept DEF Linking
<1>17. ServerHeld'
  BY <1>8 DEF ServerHeld
<1>18. Backlogged'
  <2>1. server'.clients = server.clients
    BY <1>0, <1>3 DEF Server
  <2> QED
    BY <1>0, <1>7, <1>8, <1>15, <2>1 DEF Housed, Backlogged
<1>19. ASSUME NEW t \in Socks, Sound(t)' PROVE Sound(t)
  <2>1. ~Waits("free", t)'
    <3>1. ASSUME Waits("free", t)' PROVE FALSE
      <4>1. PICK k \in 1..Len(work') : work'[k] = <<"free", t>>
        BY <3>1 DEF Waits
      <4>2. work'[k][1] = "free"
        BY ONLY <4>1
      <4> QED
        BY <1>15, <4>2 DEF Left
    <3> QED
      BY <3>1
  <2>2. ~Offering'
    BY <1>8 DEF Offering
  <2>3. Backlog(t) /\ \E u \in Socks : Backlog(u) /\ InUse(u) /\ sockets[u].cb \in live /\ t < u
    BY <1>3, <1>7, <1>8, <1>19, <2>1, <2>2 DEF Sound
  <2> QED
    BY <1>5, <2>3 DEF Sound
<1>20. Buffers'
  <2>0. \A t \in Socks : ~Freed(t)
    BY <1>1, FreedHead
  <2>1. \A t \in Socks : Holder(t)' => Holder(t)
    BY <1>8, <1>19 DEF Holder
  <2>2. \A t \in Socks : InUse(t)' => sockets'[t].cb \in live' \cup {NULL}
    BY <1>0, <1>3, <1>7, <1>8, <2>0 DEF Housed, Buffers
  <2>3. \A t \in Socks : Sound(t)' => sockets'[t].cb \in live'
    <3>1. \A t \in Socks : Sound(t) => sockets[t].cb \in live
      BY <1>0 DEF Housed, Buffers
    <3>2. live' = live
      BY <1>3
    <3> QED
      BY ONLY <1>7, <1>19, <3>1, <3>2
  <2>4. \A t, u \in Socks : Holder(t)' /\ Holder(u)' /\ sockets'[t].cb = sockets'[u].cb
                              => t = u \/ sockets'[t].cb = NULL
    BY <1>0, <1>7, <2>1 DEF Housed, Buffers
  <2> QED
    BY <1>0, <1>3, <2>2, <2>3, <2>4 DEF Buffers
<1> QED
  BY <1>11, <1>14, <1>16, <1>17, <1>18, <1>20 DEF Housed

\* The buffer of a socket of the backlog is freed once, before the socket is closed.
LEMMA FreeHoused ==
    ASSUME Sane, Housed, JobFree, Clean'
    PROVE  Housed'
<1>0. Sane /\ Housed /\ Shape /\ Linked /\ Standing /\ Backlogged /\ Buffers /\ server \in Server /\ WifiTypes
  BY DEF Housed, Sane, WifiTypes
<1>1. /\ cmd = <<>> /\ work # <<>> /\ work \in Seq(Task) /\ Head(work)[1] = "free"
  BY AtWork DEF JobFree, Job
<1>2. PICK s \in Socks : s = Sock /\ Head(work) = <<"free", s>> /\ Head(work)[2] = s
  BY AtWork DEF JobFree, Sock
<1>3. /\ UNCHANGED <<sockets, map, server, handles>> /\ cmd' = <<>>
      /\ live' = live \ {sockets[s].cb} /\ handles \in [Socks -> Nat]
  BY <1>0, <1>1, <1>2 DEF JobFree, Quiet, wifi, CbRemove, WifiTypes
<1>4. Head(work) = work[1] /\ 1 \in 1..Len(work)
  BY ONLY <1>1, TailRest
<1>5. /\ Backlog(s) /\ sockets[s].cb # NULL
      /\ Left("free") /\ Waits("free", s)
  <2>1. Stands(Head(work))
    BY <1>0, <1>4 DEF Standing
  <2>2. Backlog(s)
    BY <1>1, <1>2, <2>1 DEF Stands
  <2>3. Left("free") /\ Waits("free", s)
    BY <1>1, <1>2, <1>4 DEF Left, Waits
  <2> QED
    BY <1>0, <2>2, <2>3 DEF Backlogged
<1>6. sockets[s].state \in {"UNUSED", "DISCONNECTED"} /\ handles[s] = 0
  BY <1>2 DEF JobFree, Clean, None
<1>7. ASSUME NEW x \in Task, Rest(1, x)
      PROVE  /\ x[1] = "free" => s < x[2]
             /\ x[1] = "tail" => handles[x[2]] > 0
             /\ x[1] \notin SoloJobs /\ x[2] \in Socks
  <2>1. Order(Head(work), x) /\ x[1] \notin SoloJobs
    BY <1>0, <1>1, <1>7, HeadOrder
  <2> QED
    BY <1>1, <1>2, <2>1, TaskParts DEF Order
<1>8. \A t \in Socks : Waits("free", t) <=> t = s \/ Rest(1, <<"free", t>>)
  <2>1. \A t \in Socks : Waits("free", t) <=> Head(work) = <<"free", t>> \/ Rest(1, <<"free", t>>)
    BY <1>1, LeftParts, Zenon
  <2>2. \A t \in Socks : Head(work) = <<"free", t>> <=> t = s
    BY <1>2
  <2> QED
    BY ONLY <2>1, <2>2
<1>9. \A t \in Socks : Rest(1, <<"free", t>>) => s < t
  <2>1. ASSUME NEW t \in Socks, Rest(1, <<"free", t>>) PROVE s < t
    <3>1. PICK x \in Task : x = <<"free", t>> /\ x[1] = "free" /\ x[2] = t
      BY TaskIs DEF JobNames
    <3> QED
      BY <1>7, <2>1, <3>1
  <2> QED
    BY <2>1
<1>10. \A t \in Socks : server.id = t /\ Backlog(t) => Waits("free", t) /\ handles[t] > 0 /\ t # s /\ s < t
  <2>1. ASSUME NEW t \in Socks, server.id = t, Backlog(t) PROVE Waits("free", t) /\ handles[t] > 0 /\ t # s
    BY <1>0, <1>5, <1>6, <2>1 DEF Backlogged
  <2> QED
    BY ONLY <1>8, <1>9, <2>1
<1>11. Backlog(server.id) => server.id \in Socks /\ s < server.id
  <2>1. Backlog(server.id) => server.id \in Socks
    <3>1. server.clients \in Seq(Socks)
      BY <1>0 DEF Server
    <3> QED
      BY <3>1 DEF Backlog, Contains
  <2> QED
    BY <1>10, <2>1
<1>12. Sound(s)
  BY <1>5, <1>11 DEF Sound
<1>13. sockets[s].cb \in live /\ "freed twice" \notin flaws'
  <2>1. sockets[s].cb \in live /\ "freed twice" \notin flaws
    BY <1>0, <1>12 DEF Buffers
  <2> QED
    BY <1>2, <2>1 DEF JobFree
<1>14. PICK y \in Task : y = <<"close", s>> /\ y[1] = "close" /\ y[2] = s
  BY TaskIs DEF JobNames
<1>15. PICK J \in Seq(Task) : J = <<y>> /\ Len(J) = 1 /\ J[1] = y /\ J # <<>> /\ \A k \in 1..Len(J) : k = 1 /\ J[k] = y
  BY UnitJobs
<1>16. Goes(J)
  BY <1>2, <1>14, <1>15, Zenon DEF JobFree
<1>17. Joined(J, 1) /\ 1 \in 0..Len(work)
  BY <1>0, <1>1, <1>16, HeadGoes
<1>18. Dead(s)' /\ \A t \in Socks : (Dead(t) => Dead(t)') /\ handles'[t] = handles[t]
  BY <1>3, <1>6 DEF Dead
<1>19. Shape'
  <2>1. ASSUME NEW x \in Task, Rest(1, x) PROVE Order(y, x)'
    <3>1. (x[1] = "tail" => handles'[x[2]] > 0) /\ handles'[s] = 0
      BY <1>3, <1>6, <1>7, <2>1
    <3> QED
      BY <1>14, <1>18, <3>1 DEF Order
  <2>2. ASSUME NEW x \in Task, Len(work) > 1, x = work[2] PROVE Follows(y, x)
    <3>1. Follows(Head(work), x)
      BY <1>0, <1>1, <2>2, SecondJob
    <3> QED
      BY <1>1, <1>14, <3>1 DEF Follows, LastJobs
  <2>3. \A k \in 1..Len(J) : ~(k > 1) /\ \A j \in 1..Len(J) : ~(j < k)
    BY <1>15
  <2>4. 1 < Len(work) => Follows(J[Len(J)], work[1 + 1])
    <3>1. ASSUME 1 < Len(work) PROVE Follows(y, work[2])
      <4>1. PICK x \in Task : x = work[2]
        BY ONLY <1>1, <3>1
      <4> QED
        BY <2>2, <3>1, <4>1
    <3> QED
      BY <1>15, <3>1
  <2>5. \A x \in Task : Rest(1, x) => \A j \in 1..Len(J) : Order(J[j], x)'
    BY <1>15, <2>1
  <2> QED
    BY <1>0, <1>1, <1>3, <1>17, <1>18, <2>3, <2>4, <2>5, JoinedShape
<1>20. \A t \in Socks : Waits("free", t)' <=> Waits("free", t) /\ t # s
  <2>1. \A t \in Socks : Waits("free", t)' <=> (\E k \in 1..Len(J) : J[k] = <<"free", t>>) \/ Rest(1, <<"free", t>>)
    BY <1>1, <1>17, JoinedLeft, Zenon
  <2>2. \A t \in Socks : y # <<"free", t>>
    BY <1>14
  <2>3. s \in Nat /\ ~(s < s)
    BY WifiAssumption DEF Socks
  <2>4. \A t \in Socks : Waits("free", t)' <=> Rest(1, <<"free", t>>)
    BY ONLY <1>15, <2>1, <2>2
  <2> QED
    BY ONLY <1>8, <1>9, <2>3, <2>4
<1>21. (Left("free")' => Left("free")) /\ (Left("noserver")' <=> Left("noserver"))
  <2>1. \A a : Left(a)' <=> \/ \E k \in 1..Len(J) : J[k][1] = a
                            \/ \E x \in Task : Rest(1, x) /\ x[1] = a
    BY ONLY <1>1, <1>17, J \in Seq(Task), JoinedLeft
  <2>2. Left("noserver") <=> Head(work)[1] = "noserver" \/ \E x \in Task : Rest(1, x) /\ x[1] = "noserver"
    BY <1>1, LeftParts, Zenon
  <2>3. y[1] # "noserver" /\ Head(work)[1] # "noserver"
    BY <1>1, <1>14
  <2> QED
    BY ONLY <1>5, <1>15, <2>1, <2>2, <2>3
<1>22. \A t \in Socks : (InUse(t)' <=> InUse(t)) /\ (Backlog(t)' <=> Backlog(t))
  BY <1>3 DEF InUse, Backlog
<1>23. Standing'
  <2>1. ASSUME NEW x \in Task, Rest(1, x), Stands(x) PROVE Stands(x)'
    <3>1. x[2] \in Socks
      BY <2>1, TaskParts
    <3>2. x[1] = "noserver" => handles[x[2]] > 0 /\ x[2] # s
      BY <1>6, <2>1 DEF Stands
    <3> QED
      BY <1>3, <1>20, <1>22, <2>1, <3>1, <3>2 DEF Stands
  <2>2. Stands(y)' /\ Turn(y)'
    BY <1>14 DEF Stands, Turn
  <2>3. \A k \in 1..Len(J) : Stands(J[k])'
    BY <1>15, <2>2
  <2>4. Turn(J[1])'
    BY <1>15, <2>2
  <2> QED
    BY <1>0, <1>1, <1>15, <1>17, <2>1, <2>3, <2>4, JoinedStanding
<1>24. Linked'
  <2>1. \A t \in Socks : Mapped(t)' => Mapped(t) /\ sockets'[t].state = sockets[t].state
    BY <1>3 DEF Mapped
  <2> QED
    BY <1>0, <1>1, <2>1, LinkedKept DEF Linking
<1>25. ServerHeld'
  BY <1>0, <1>3, <1>22 DEF Housed, ServerHeld
<1>26. Backlogged'
  <2>1. /\ \A j, k \in 1..Len(server'.clients) : j < k => server'.clients[j] < server'.clients[k]
        /\ \A t \in Socks : Backlog(t)' => sockets'[t].cb # NULL
    BY <1>0, <1>3, <1>22 DEF Backlogged
  <2>2. Backlog(server.id)' => Waits("free", server.id)' /\ handles'[server'.id] > 0
    <3>1. ASSUME Backlog(server.id)' PROVE Waits("free", server.id)' /\ handles'[server'.id] > 0
      <4>1. Backlog(server.id)
        BY <1>3, <3>1 DEF Backlog
      <4>2. PICK t \in Socks : t = server.id
        BY <1>11, <4>1
      <4>3. Waits("free", t) /\ handles[t] > 0 /\ t # s
        BY <1>10, <4>1, <4>2
      <4>4. Waits("free", t)' /\ handles'[t] > 0 /\ server'.id = t
        BY <1>3, <1>20, <4>2, <4>3
      <4> QED
        BY <4>4 DEF Waits
    <3> QED
      BY <3>1
  <2>3. ~Left("noserver")' => \A t \in Socks : sockets'[t].state # "LISTENING"
    BY <1>0, <1>3, <1>5, <1>21 DEF Backlogged
  <2>4. ASSUME NEW u \in Socks, Backlog(u)'
        PROVE  Waits("free", u)' \/ ~InUse(u)' \/ sockets'[u].cb \notin live'
    <3>1. Waits("free", u) \/ ~InUse(u) \/ sockets[u].cb \notin live
      BY <1>0, <1>5, <1>22, <2>4 DEF Backlogged
    <3> QED
      BY ONLY <1>3, <1>20, <1>22, <3>1, u \in Socks
  <2> QED
    BY <2>1, <2>2, <2>3, <2>4 DEF Backlogged
<1>27. ASSUME NEW t \in Socks, Sound(t)' PROVE Sound(t) /\ t # s
  <2>1. Backlog(t)
    BY <1>22, <1>27 DEF Sound
  <2>2. CASE Waits("free", t)' /\ (Backlog(server.id) => t < server.id)'
    <3>1. Waits("free", t) /\ t # s
      BY <1>20, <2>2
    <3>2. Backlog(server.id) => t < server.id
      BY <1>3, <2>2 DEF Backlog
    <3> QED
      BY <2>1, <3>1, <3>2 DEF Sound
  <2>3. ~Offering'
    <3>1. ASSUME Offering' PROVE FALSE
      <4>1. PICK v \in Socks : /\ server'.id = v
                 /\ \/ sockets'[v].state = "LISTENING" /\ ~Left("noserver")'
                    \/ Doing("unserve", v)' \/ Doing("listening", v)'
        BY <3>1 DEF Offering
      <4>2. sockets'[v].state # "LISTENING" \/ Left("noserver")'
        BY <1>0, <1>3, <1>5, <1>21 DEF Backlogged
      <4>3. work'[1] = y /\ work' \in Seq(Task) /\ (work' # <<>> => Head(work') = y)
        <5>1. work'[1] = y /\ work' \in Seq(Task)
          BY <1>15, <1>17 DEF Joined
        <5> QED
          BY ONLY <5>1, TaskAt
      <4>4. ASSUME NEW a \in {"unserve", "listening"}, Doing(a, v)' PROVE FALSE
        <5>1. y = <<a, v>>
          BY <4>3, <4>4 DEF Doing
        <5> QED
          BY ONLY <1>14, <5>1, a \in {"unserve", "listening"}
      <4> QED
        BY <4>1, <4>2, <4>4
    <3> QED
      BY <3>1
  <2>4. ASSUME ~Left("free")', NEW u \in Socks, (Backlog(u) /\ InUse(u) /\ sockets[u].cb \in live)' PROVE FALSE
    <3>1. Backlog(u) /\ InUse(u) /\ sockets[u].cb \in live /\ sockets[u].cb # sockets[s].cb
      BY <1>3, <1>22, <2>4
    <3>2. Waits("free", u) /\ u # s
      BY <1>0, <1>5, <3>1 DEF Backlogged
    <3>3. Waits("free", u)'
      BY <1>20, <3>2
    <3>4. PICK k \in 1..Len(work') : work'[k] = <<"free", u>>
      BY <3>3 DEF Waits
    <3>5. work'[k][1] = "free"
      BY ONLY <3>4
    <3> QED
      BY <2>4, <3>5 DEF Left
  <2> QED
    BY <1>27, <2>2, <2>3, <2>4 DEF Sound
<1>28. Buffers'
  <2>1. \A t \in Socks : Holder(t)' => Holder(t)
    BY <1>22, <1>27 DEF Holder
  <2>2. \A t \in Socks : Holder(t) /\ t # s => sockets[t].cb # sockets[s].cb
    <3>1. Holder(s)
      BY <1>12 DEF Holder
    <3> QED
      BY <1>0, <1>5, <3>1 DEF Buffers
  <2>3. ASSUME NEW t \in Socks, InUse(t)' PROVE sockets'[t].cb \in live' \cup {NULL} \/ Freed(t)'
    <3>1. CASE t = s
      <4>1. sockets'[t].state = "DISCONNECTED" /\ handles'[t] = 0 /\ Backlog(t)'
        BY <1>3, <1>5, <1>6, <1>22, <2>3, <3>1 DEF InUse
      <4>2. Doing("close", t)'
        <5>1. work'[1] = y /\ work' \in Seq(Task) /\ Len(work') > 0
          BY <1>15, <1>17 DEF Joined
        <5>2. work' # <<>> /\ Head(work') = y
          BY ONLY <5>1
        <5> QED
          BY <1>14, <3>1, <5>2 DEF Doing
      <4> QED
        BY <1>3, <4>1, <4>2 DEF Freed
    <3>2. CASE t # s
      <4>1. ~Freed(t)
        BY <1>1, FreedHead
      <4>2. sockets[t].cb \in live \cup {NULL} /\ Holder(t)
        BY <1>0, <1>22, <2>3, <4>1 DEF Buffers, Holder
      <4> QED
        BY <1>3, <2>2, <3>2, <4>2
    <3> QED
      BY <3>1, <3>2
  <2>4. ASSUME NEW t \in Socks, Sound(t)' PROVE sockets'[t].cb \in live'
    <3>1. Sound(t) /\ t # s /\ Holder(t)
      BY <1>27, <2>4 DEF Holder
    <3>2. sockets[t].cb \in live
      BY <1>0, <3>1 DEF Buffers
    <3> QED
      BY <1>3, <2>2, <3>1, <3>2
  <2>5. \A t, u \in Socks : Holder(t)' /\ Holder(u)' /\ sockets'[t].cb = sockets'[u].cb
                              => t = u \/ sockets'[t].cb = NULL
    BY <1>0, <1>3, <2>1 DEF Buffers
  <2> QED
    BY <1>13, <2>3, <2>4, <2>5 DEF Buffers
<1> QED
  BY <1>19, <1>23, <1>24, <1>25, <1>26, <1>28 DEF Housed

\* What is left of a call when its first job is done.
LEMMA DoneLeft ==
    ASSUME Sane, Shape, work # <<>>, Done
    PROVE  /\ \A a : Head(work)[1] # a => (Left(a)' <=> Left(a))
           /\ \A a, t : Head(work)[1] # a => (Waits(a, t)' <=> Waits(a, t))
           /\ \A a \in SoloJobs, t \in Socks : ~Doing(a, t)'
<1>1. Joined(<<>>, 1) /\ <<>> \in Seq(Task) /\ 1 \in 0..Len(work) /\ work \in Seq(Task)
  <2>1. work \in Seq(Task)
    BY DEF Sane, LineTypes
  <2> QED
    BY <2>1, HeadDone
<1>2. PICK J \in Seq(Task) : J = <<>> /\ 1..Len(J) = {} /\ Joined(J, 1) /\ Len(J) = 0
  <2>1. 1..Len(<<>>) = {} /\ Len(<<>>) = 0
    BY ONLY EmptySeq
  <2> QED
    BY <1>1, <2>1
<1>3. /\ \A a : Left(a)' <=> \E x \in Task : Rest(1, x) /\ x[1] = a
      /\ \A a, t : Waits(a, t)' <=> Rest(1, <<a, t>>)
  <2>1. /\ \A a : Left(a)' <=> \/ \E k \in 1..Len(J) : J[k][1] = a
                               \/ \E x \in Task : Rest(1, x) /\ x[1] = a
        /\ \A a, t : Waits(a, t)' <=> (\E k \in 1..Len(J) : J[k] = <<a, t>>) \/ Rest(1, <<a, t>>)
    BY ONLY <1>1, <1>2, J \in Seq(Task), JoinedLeft, ZenonT(60)
  <2> QED
    BY ONLY <1>2, <2>1
<1>4. /\ \A a : Left(a) <=> Head(work)[1] = a \/ \E x \in Task : Rest(1, x) /\ x[1] = a
      /\ \A a, t : Waits(a, t) <=> Head(work) = <<a, t>> \/ Rest(1, <<a, t>>)
  BY <1>1, LeftParts, Zenon
<1>5. \A a, t : Head(work) = <<a, t>> => Head(work)[1] = a
  OBVIOUS
<1>6. ASSUME NEW a \in SoloJobs, NEW t \in Socks, Doing(a, t)' PROVE FALSE
  <2>1. work' # <<>> /\ Head(work') = <<a, t>> /\ work' \in Seq(Task)
    BY <1>1, <1>6 DEF Doing, Joined
  <2>2. PICK x \in Task : x = Head(work') /\ x = work'[1] /\ 1 \in 1..Len(work') /\ x[1] = a
    BY ONLY <2>1, TaskAt
  <2>3. x \in Task /\ Rest(1, x)
    <3>1. \A k \in 1..Len(work') :
                 \/ k \in 1..Len(J) /\ work'[k] = J[k]
                 \/ k > Len(J) /\ work'[k] \in Task /\ Rest(1, work'[k])
      BY ONLY <1>1, <1>2, J \in Seq(Task), JoinedParts
    <3> QED
      BY ONLY <1>2, <2>2, <3>1
  <2>4. x[1] \notin SoloJobs
    BY <1>1, <2>3, HeadOrder
  <2> QED
    BY <2>2, <2>4
<1> QED
  BY ONLY <1>3, <1>4, <1>5, <1>6

\* A socket that is closed gives back the buffer it has.
LEMMA TailSockets ==
    ASSUME Sane, JobTail, Clean', NEW s \in Socks, s = Sock
    PROVE  /\ sockets[s].state # "WAITING_ACCEPT"
           /\ \A t \in Socks : /\ sockets'[t].state = IF t = s THEN "UNUSED" ELSE sockets[t].state
                               /\ t # s \/ Backlog(t) => sockets'[t].cb = sockets[t].cb
                               /\ t = s /\ ~Backlog(t) => sockets'[t].cb = NULL
           /\ \/ ~Backlog(s)
              \/ s # server.id
              \/ \A t \in Socks : Backlog(t) => t = s
           /\ live' = IF Backlog(s) /\ s # server.id THEN live ELSE live \ {sockets[s].cb}
           /\ (Backlog(s) /\ s # server.id) \/ sockets[s].cb \in live \cup {NULL}
                 => ("freed twice" \in flaws' => "freed twice" \in flaws)
<1>0. WifiTypes /\ server.clients \in Seq(Socks) /\ sockets \in [Socks -> Socket]
  BY DEF Sane, WifiTypes, Server
<1>1. \A t : Backlog(t) <=> t \in ToSet(server.clients)
  BY SMTT(30) DEF Backlog, Contains, ToSet
<1>2. PICK out : out = IF ~Backlog(s) \/ s # server.id THEN {s} ELSE {s} \cup ToSet(server.clients)
  OBVIOUS
<1>3. PICK bufs : bufs = IF Owned(s) THEN {sockets[s].cb}
                         ELSE IF s = server.id THEN {sockets[t].cb : t \in ToSet(server.clients)} ELSE {}
  OBVIOUS
<1>4. /\ sockets' = [t \in Socks |->
                IF t \notin out THEN sockets[t]
                ELSE [sockets[t] EXCEPT !.state = "UNUSED",
                                        !.cb = IF t = s /\ Owned(s) THEN NULL ELSE @]]
      /\ live' = live \ bufs
      /\ flaws' = flaws \cup (IF Retaken THEN {"retaken"} ELSE {})
                        \cup (IF bufs \subseteq live \cup {NULL} THEN {} ELSE {"freed twice"})
                        \cup (IF out = {s} THEN {} ELSE {"freed"})
  BY <1>2, <1>3 DEF JobTail, CbRemove
<1>5. out = {s} /\ ~Retaken
  BY <1>4 DEF Clean, None
<1>6. sockets[s].state # "WAITING_ACCEPT"
  BY <1>5 DEF Retaken
<1>7. \A t \in Socks : /\ sockets'[t].state = IF t = s THEN "UNUSED" ELSE sockets[t].state
                       /\ t # s \/ Backlog(t) => sockets'[t].cb = sockets[t].cb
                       /\ t = s /\ ~Backlog(t) => sockets'[t].cb = NULL
  <2>1. ASSUME NEW t \in Socks, t # s PROVE sockets'[t] = sockets[t]
    BY ONLY <1>4, <1>5, <2>1
  <2>2. sockets'[s] = [sockets[s] EXCEPT !.state = "UNUSED", !.cb = IF ~Backlog(s) THEN NULL ELSE @]
    BY <1>4, <1>5 DEF Owned
  <2>3. sockets[s] \in Socket
    BY <1>0
  <2>4. /\ sockets'[s].state = "UNUSED"
        /\ Backlog(s) => sockets'[s].cb = sockets[s].cb
        /\ ~Backlog(s) => sockets'[s].cb = NULL
    BY ONLY <2>2, <2>3 DEF Socket
  <2> QED
    BY ONLY <2>1, <2>4
<1>8. Backlog(s) /\ s = server.id => \A t \in Socks : Backlog(t) => t = s
  BY ONLY <1>1, <1>2, <1>5
<1>9. bufs = IF Backlog(s) /\ s # server.id THEN {} ELSE {sockets[s].cb}
  <2>1. CASE ~Backlog(s)
    BY <1>3, <2>1 DEF Owned
  <2>2. CASE Backlog(s) /\ s # server.id
    BY <1>3, <2>2 DEF Owned
  <2>3. CASE Backlog(s) /\ s = server.id
    <3>1. ToSet(server.clients) = {s}
      BY ONLY <1>1, <1>2, <1>5, <2>3
    <3>2. bufs = {sockets[t].cb : t \in ToSet(server.clients)}
      BY <1>3, <2>3 DEF Owned
    <3> QED
      BY ONLY <2>3, <3>1, <3>2
  <2> QED
    BY <2>1, <2>2, <2>3
<1>10. live' = IF Backlog(s) /\ s # server.id THEN live ELSE live \ {sockets[s].cb}
  BY ONLY <1>4, <1>9
<1>11. (Backlog(s) /\ s # server.id) \/ sockets[s].cb \in live \cup {NULL}
                 => ("freed twice" \in flaws' => "freed twice" \in flaws)
  BY ONLY <1>4, <1>9
<1> QED
  BY <1>6, <1>7, <1>8, <1>10, <1>11

\* A socket is closed.
LEMMA TailHoused ==
    ASSUME Sane, Housed, JobTail, Clean'
    PROVE  Housed'
<1>0. /\ Sane /\ Housed /\ Shape /\ Linked /\ Standing /\ Backlogged /\ Buffers /\ ServerHeld
      /\ server \in Server /\ WifiTypes
  BY DEF Housed, Sane, WifiTypes
<1>1. /\ cmd = <<>> /\ work # <<>> /\ work \in Seq(Task) /\ Head(work)[1] = "tail"
  BY AtWork, ZenonT(60) DEF JobTail, Job
<1>2. PICK s \in Socks : s = Sock /\ Head(work) = <<"tail", s>> /\ Head(work)[2] = s
  BY AtWork DEF JobTail, Sock
<1>3. UNCHANGED <<map, server, handles>> /\ cmd' = <<>> /\ Done
  BY <1>1 DEF JobTail, Quiet
<1>4. /\ sockets[s].state # "WAITING_ACCEPT"
      /\ \A t \in Socks : /\ sockets'[t].state = IF t = s THEN "UNUSED" ELSE sockets[t].state
                          /\ t # s \/ Backlog(t) => sockets'[t].cb = sockets[t].cb
                          /\ t = s /\ ~Backlog(t) => sockets'[t].cb = NULL
      /\ \/ ~Backlog(s)
         \/ s # server.id
         \/ \A t \in Socks : Backlog(t) => t = s
      /\ live' = IF Backlog(s) /\ s # server.id THEN live ELSE live \ {sockets[s].cb}
      /\ (Backlog(s) /\ s # server.id) \/ sockets[s].cb \in live \cup {NULL}
            => ("freed twice" \in flaws' => "freed twice" \in flaws)
  BY <1>0, <1>2, TailSockets
<1>5. sockets[s].state = "DISCONNECTED" /\ InUse(s)
  BY <1>0, <1>1, <1>2, <1>4 DEF Standing, Turn, InUse
<1>6. ~Mapped(s)
  BY <1>0, <1>1, <1>5, Unlinked DEF Linking
<1>7. "freed twice" \notin flaws'
  <2>1. Freed(s) => Backlog(s) /\ handles[s] = 0
    BY DEF Freed
  <2>2. server.id = s => handles[s] > 0
    BY <1>0, <1>5 DEF ServerHeld
  <2>3. handles[s] \in Nat
    BY <1>0 DEF WifiTypes
  <2>4. sockets[s].cb \in live \cup {NULL} \/ Freed(s)
    BY <1>0, <1>5 DEF Buffers
  <2>5. "freed twice" \notin flaws
    BY <1>0 DEF Buffers
  <2> QED
    <3>1. (Backlog(s) /\ s # server.id) \/ sockets[s].cb \in live \cup {NULL}
      BY ONLY <2>1, <2>2, <2>3, <2>4
    <3>2. (Backlog(s) /\ s # server.id) \/ sockets[s].cb \in live \cup {NULL}
            => ("freed twice" \in flaws' => "freed twice" \in flaws)
      BY <1>4
    <3> QED
      BY ONLY <2>5, <3>1, <3>2
<1>8. \A t \in Socks : (InUse(t)' <=> InUse(t) /\ t # s) /\ (Backlog(t)' <=> Backlog(t))
  BY <1>3, <1>4 DEF InUse, Backlog
<1>9. /\ Left("free")' <=> Left("free")
      /\ Left("noserver")' <=> Left("noserver")
      /\ \A t : Waits("free", t)' <=> Waits("free", t)
      /\ \A a \in SoloJobs, t \in Socks : ~Doing(a, t)'
  <2>1. /\ \A a : Head(work)[1] # a => (Left(a)' <=> Left(a))
        /\ \A a, t : Head(work)[1] # a => (Waits(a, t)' <=> Waits(a, t))
        /\ \A a \in SoloJobs, t \in Socks : ~Doing(a, t)'
    BY <1>0, <1>1, <1>3, DoneLeft
  <2>2. Head(work)[1] # "free" /\ Head(work)[1] # "noserver"
    BY <1>1
  <2> QED
    BY ONLY <2>1, <2>2
<1>10. live' \subseteq live /\ (live \ live') \subseteq {sockets[s].cb}
  BY ONLY <1>4
<1>11. Joined(<<>>, 1) /\ <<>> \in Seq(Task) /\ 1 \in 0..Len(work)
  BY <1>0, <1>1, <1>3, HeadDone
<1>12. PICK J \in Seq(Task) : J = <<>> /\ 1..Len(J) = {} /\ Joined(J, 1)
  <2>1. 1..Len(<<>>) = {}
    BY ONLY EmptySeq
  <2> QED
    BY <1>11, <2>1
<1>13. ASSUME NEW x \in Task, Rest(1, x)
       PROVE  /\ x[2] \in Socks
              /\ x[1] = "tail" => x[2] # s
              /\ x[1] = "noserver" => handles[s] = 0
  <2>1. Order(Head(work), x)
    BY <1>0, <1>1, <1>13, HeadOrder
  <2>2. x[1] = "noserver" => Dead(s)
    BY <1>1, <1>2, <2>1 DEF Order
  <2>3. x[1] = "tail" => handles[s] = 0 /\ handles[x[2]] > 0
    BY <1>1, <1>2, <2>1 DEF Order
  <2>4. Dead(s) => handles[s] = 0
    BY DEF Dead
  <2> QED
    BY <1>13, <2>2, <2>3, <2>4, TaskParts
<1>14. Shape'
  <2>1. \A t \in Socks : Dead(t) => Dead(t)'
    <3>1. \A t \in Socks : handles'[t] = handles[t]
      BY <1>3
    <3> QED
      BY <1>4, <1>10, <3>1 DEF Dead
  <2>2. \A t \in Socks : handles'[t] = handles[t]
    BY <1>3
  <2> QED
    BY <1>0, <1>1, <1>3, <1>11, <1>12, <2>1, <2>2, JoinedShape
<1>15. Standing'
  <2>1. ASSUME NEW x \in Task, Rest(1, x), Stands(x) PROVE Stands(x)'
    <3>1. x[2] \in Socks
      BY <2>1, TaskParts
    <3>2. x[1] = "noserver" => handles[x[2]] > 0
      BY <2>1 DEF Stands
    <3>3. x[1] \in {"noserver", "tail"} => x[2] # s
      BY <1>13, <2>1, <3>2
    <3>4. x[1] = "noserver" => sockets'[x[2]].state = sockets[x[2]].state /\ handles'[x[2]] = handles[x[2]]
      BY <1>3, <1>4, <3>1, <3>3
    <3> QED
      BY <1>8, <1>9, <2>1, <3>1, <3>2, <3>3, <3>4 DEF Stands
  <2>2. ASSUME NEW x \in Task, 1 < Len(work), x = work[1 + 1] PROVE Turn(x)'
    <3>0. Len(work) > 1 /\ x = work[2]
      BY ONLY <1>1, <2>2
    <3>1. Follows(Head(work), x) /\ x[1] \notin SoloJobs
      BY <1>0, <1>1, <3>0, SecondJob
    <3>2. (x[1] = "handle" => x[2] = s) /\ x[1] # "tail"
      BY <1>1, <1>2, <3>1 DEF Follows
    <3> QED
      BY <1>4, <3>1, <3>2, TurnOf
  <2> QED
    BY <1>0, <1>1, <1>11, <1>12, <2>1, <2>2, JoinedStanding
<1>16. Linked'
  <2>1. \A t \in Socks : Mapped(t)' => Mapped(t) /\ sockets'[t].state = sockets[t].state
    BY <1>3, <1>4, <1>6 DEF Mapped
  <2> QED
    BY <1>0, <1>1, <2>1, LinkedKept DEF Linking
<1>17. ServerHeld'
  <2>1. \A t \in Socks : server'.id = t => /\ server.id = t /\ handles'[t] = handles[t]
                                           /\ InUse(t) => handles[t] > 0
                                           /\ ~Backlog(t) => sockets[t].state \in {"UNUSED", "DISCONNECTED", "LISTENING"}
                                           /\ Backlog(t) => sockets[t].state # "LISTENING"
    BY <1>0, <1>3 DEF ServerHeld
  <2> QED
    BY <1>4, <1>8, <2>1, ZenonT(60) DEF ServerHeld
<1>18. Backlogged'
  <2>1. /\ \A j, k \in 1..Len(server'.clients) : j < k => server'.clients[j] < server'.clients[k]
    BY <1>0, <1>3 DEF Backlogged
  <2>2. \A t \in Socks : Backlog(t)' => sockets'[t].cb # NULL
    BY <1>0, <1>4, <1>8 DEF Backlogged
  <2>3. Left("free")' /\ Backlog(server.id)' => Waits("free", server.id)' /\ handles'[server'.id] > 0
    <3>1. ASSUME Left("free")', Backlog(server.id)' PROVE Waits("free", server.id)' /\ handles'[server'.id] > 0
      <4>1. Backlog(server.id) /\ Left("free")
        BY <1>3, <1>9, <3>1 DEF Backlog
      <4>2. Waits("free", server.id) /\ handles[server.id] > 0
        BY <1>0, <4>1 DEF Backlogged
      <4>3. PICK t : t = server.id
        OBVIOUS
      <4>4. Waits("free", t)' /\ server'.id = t /\ handles' = handles
        BY <1>3, <1>9, <4>2, <4>3
      <4> QED
        BY <4>2, <4>3, <4>4 DEF Waits
    <3> QED
      BY <3>1
  <2>4. Left("free")' /\ ~Left("noserver")' => \A t \in Socks : sockets'[t].state # "LISTENING"
    BY <1>0, <1>4, <1>9 DEF Backlogged
  <2>5. ASSUME Left("free")', NEW u \in Socks, Backlog(u)'
        PROVE  Waits("free", u)' \/ ~InUse(u)' \/ sockets'[u].cb \notin live'
    <3>1. Waits("free", u) \/ ~InUse(u) \/ sockets[u].cb \notin live
      BY <1>0, <1>8, <1>9, <2>5 DEF Backlogged
    <3>2. sockets'[u].cb = sockets[u].cb
      BY <1>4, <1>8, <2>5
    <3> QED
      BY ONLY <1>8, <1>9, <1>10, <3>1, <3>2, u \in Socks
  <2> QED
    BY <2>1, <2>2, <2>3, <2>4, <2>5 DEF Backlogged
<1>19. ASSUME NEW t \in Socks, Sound(t)'
       PROVE  Sound(t) /\ ~(t = s /\ s = server.id) /\ sockets'[t].cb = sockets[t].cb
  <2>1. Backlog(t) /\ sockets'[t].cb = sockets[t].cb
    <3>1. Backlog(t)
      BY <1>8, <1>19 DEF Sound
    <3> QED
      BY <1>4, <3>1
  <2>2. t \in Nat /\ ~(t < t) /\ (Backlog(server.id)' <=> Backlog(server.id)) /\ server'.id = server.id
    BY <1>3, WifiAssumption DEF Socks, Backlog
  <2>3. CASE Waits("free", t)' /\ (Backlog(server.id) => t < server.id)'
    <3>1. Waits("free", t) /\ (Backlog(server.id) => t < server.id)
      BY <1>9, <2>2, <2>3
    <3>2. ~(t = s /\ s = server.id)
      BY <2>1, <2>2, <3>1
    <3> QED
      BY <2>1, <3>1, <3>2 DEF Sound
  <2>4. CASE ~Left("free")' /\ Offering'
    <3>1. ~Backlog(server.id)
      BY <2>2, <2>4 DEF Offering
    <3>2. PICK v \in Socks : /\ server'.id = v
               /\ \/ sockets'[v].state = "LISTENING" /\ ~Left("noserver")'
                  \/ Doing("unserve", v)' \/ Doing("listening", v)'
      BY <2>4 DEF Offering
    <3>3. ~Doing("unserve", v)' /\ ~Doing("listening", v)'
      BY <1>9 DEF SoloJobs, FrontJobs
    <3>4. sockets[v].state = "LISTENING" /\ ~Left("noserver")
      BY <1>4, <1>9, <3>2, <3>3
    <3>5. Offering
      BY <2>2, <3>1, <3>2, <3>4 DEF Offering
    <3>6. ~(t = s /\ s = server.id)
      BY <2>1, <3>1
    <3> QED
      BY <1>9, <2>1, <2>4, <3>5, <3>6 DEF Sound
  <2>5. CASE ~Left("free")' /\ \E u \in Socks : (Backlog(u) /\ InUse(u) /\ sockets[u].cb \in live /\ t < u)'
    <3>1. PICK u \in Socks : Backlog(u)' /\ InUse(u)' /\ sockets'[u].cb \in live' /\ t < u
      BY <2>5
    <3>2. Backlog(u) /\ InUse(u) /\ u # s /\ sockets[u].cb \in live /\ t < u
      BY <1>4, <1>8, <1>10, <3>1
    <3>3. ~(t = s /\ s = server.id)
      BY <1>4, <2>1, <3>2
    <3> QED
      BY <1>9, <2>1, <2>5, <3>2, <3>3 DEF Sound
  <2> QED
    BY <1>19, <2>3, <2>4, <2>5 DEF Sound
<1>20. \A t \in Socks : Holder(t)' => Holder(t) /\ sockets'[t].cb = sockets[t].cb
  BY <1>4, <1>8, <1>19 DEF Holder
<1>21. \A t \in Socks : Holder(t) /\ t # s => sockets[t].cb # sockets[s].cb \/ sockets[t].cb = NULL
  <2>1. Holder(s)
    BY <1>5 DEF Holder
  <2> QED
    BY <1>0, <2>1 DEF Buffers
<1>22. Buffers'
  <2>1. ASSUME NEW t \in Socks, InUse(t)' PROVE sockets'[t].cb \in live' \cup {NULL}
    <3>1. t # s /\ InUse(t) /\ Holder(t) /\ sockets'[t].cb = sockets[t].cb
      BY <1>4, <1>8, <2>1 DEF Holder
    <3>2. ~Freed(t)
      BY <1>2, <3>1, FreedHead
    <3>3. sockets[t].cb \in live \cup {NULL}
      BY <1>0, <3>1, <3>2 DEF Buffers
    <3> QED
      BY <1>10, <1>21, <3>1, <3>3
  <2>2. ASSUME NEW t \in Socks, Sound(t)' PROVE sockets'[t].cb \in live'
    <3>1. Sound(t) /\ Holder(t) /\ sockets'[t].cb = sockets[t].cb /\ Backlog(t) /\ ~(t = s /\ s = server.id)
      BY <1>19, <2>2 DEF Holder, Sound
    <3>2. sockets[t].cb \in live /\ NULL \notin live
      <4>1. live \subseteq 1..Memory /\ NULL \notin 1..Memory
        BY <1>0 DEF WifiTypes, NULL
      <4>2. sockets[t].cb \in live
        BY <1>0, <3>1 DEF Buffers
      <4> QED
        BY ONLY <4>1, <4>2
    <3>3. t = s => live' = live
      BY <1>4, <3>1
    <3> QED
      BY <1>10, <1>21, <3>1, <3>2, <3>3
  <2>3. \A t, u \in Socks : Holder(t)' /\ Holder(u)' /\ sockets'[t].cb = sockets'[u].cb
                              => t = u \/ sockets'[t].cb = NULL
    <3>1. \A t, u \in Socks : Holder(t) /\ Holder(u) /\ sockets[t].cb = sockets[u].cb
                              => t = u \/ sockets[t].cb = NULL
      BY <1>0 DEF Buffers
    <3> QED
      BY ONLY <1>20, <3>1
  <2> QED
    BY <1>7, <2>1, <2>2, <2>3 DEF Buffers
<1> QED
  BY <1>14, <1>15, <1>16, <1>17, <1>18, <1>22 DEF Housed

\* No backlog is freed, before the step or after it.
LEMMA AloneHoused ==
    ASSUME Sane, Housed, UNCHANGED <<server, live>>, "freed twice" \notin flaws',
           \A t \in Socks : Mild(t),
           \A t \in Socks : handles[t] > 0 /\ InUse(t) => handles'[t] > 0,
           ~Left("free"), ~Left("noserver"), ~Left("free")', \A t \in Socks : ~Freed(t),
           \A t \in Socks : ~Doing("unserve", t)' /\ ~Doing("listening", t)',
           Shape', Standing', Linked'
    PROVE  Housed'
<1>1. \A t \in Socks : ~Waits("free", t) /\ ~Waits("free", t)'
  <2>1. ASSUME NEW t \in Socks, Waits("free", t) PROVE FALSE
    <3>1. PICK k \in 1..Len(work) : work[k] = <<"free", t>>
      BY <2>1 DEF Waits
    <3>2. work[k][1] = "free"
      BY ONLY <3>1
    <3> QED
      BY <3>2 DEF Left
  <2>2. ASSUME NEW t \in Socks, Waits("free", t)' PROVE FALSE
    <3>1. PICK k \in 1..Len(work') : work'[k] = <<"free", t>>
      BY <2>2 DEF Waits
    <3>2. work'[k][1] = "free"
      BY ONLY <3>1
    <3> QED
      BY <3>2 DEF Left
  <2> QED
    BY <2>1, <2>2
<1>2. Left("free")' = Left("free")
  BY DEF Left
<1>3. Offering' => Offering
  <2>1. \A t \in Socks : sockets'[t].state = "LISTENING" => sockets[t].state = "LISTENING"
    BY MildUse
  <2>2. server' = server /\ (Backlog(server.id)' <=> Backlog(server.id))
    BY DEF Backlog
  <2> QED
    BY <2>1, <2>2 DEF Offering
<1>4. Neutral
  <2>1. \A t \in Socks : handles[t] > 0 /\ (InUse(t) \/ Left("free")') => handles'[t] > 0
    OBVIOUS
  <2> QED
    BY <1>1, <1>2, <1>3, <2>1 DEF Neutral
<1>5. ServerHeld' /\ Backlogged' /\ Buffers'
  BY <1>4, NeutralHeld
<1> QED
  BY <1>5 DEF Housed

\* The last job of a call, and no call at all.
LEMMA SingleNone ==
    ASSUME Sane, Shape, work # <<>>, Head(work)[1] \in LastJobs
    PROVE  ~Left("free") /\ ~Left("noserver") /\ \A t \in Socks : ~Freed(t)
<1>1. Len(work) = 1 /\ work \in Seq(Task)
  BY SingleJob DEF Sane, LineTypes
<1>2. \A k \in 1..Len(work) : work[k] = Head(work)
  BY ONLY <1>1
<1>3. Head(work)[1] \notin {"free", "noserver", "close", "tail", "disc"}
  BY DEF LastJobs
<1> QED
  BY <1>2, <1>3, FreedHead DEF Left

LEMMA IdleNone ==
    ASSUME work = <<>>
    PROVE  /\ ~Left("free") /\ ~Left("noserver")
           /\ \A t \in Socks : ~Freed(t) /\ \A a : ~Doing(a, t)
<1>1. 1..Len(work) = {}
  BY ONLY work = <<>>, EmptySeq
<1> QED
  BY <1>1 DEF Left, Freed, Doing

\* The call is over.
LEMMA OverHoused ==
    ASSUME Sane, Housed, UNCHANGED <<server, live>>, "freed twice" \notin flaws',
           \A t \in Socks : Mild(t),
           \A t \in Socks : handles[t] > 0 /\ InUse(t) => handles'[t] > 0,
           work # <<>>, Head(work)[1] \in LastJobs, work' = <<>>, cmd' = <<>>, Linked'
    PROVE  Housed'
<1>1. ~Left("free") /\ ~Left("noserver") /\ \A t \in Socks : ~Freed(t)
  BY SingleNone DEF Housed
<1>2. /\ Shape' /\ Standing' /\ \A a, t : ~Left(a)' /\ ~Waits(a, t)' /\ ~Doing(a, t)'
  BY EmptyWork
<1>3. ~Left("free")' /\ \A t \in Socks : ~Doing("unserve", t)' /\ ~Doing("listening", t)'
  BY <1>2
<1> QED
  BY <1>1, <1>2, <1>3, AloneHoused

\* There is one job left of the call.
LEMMA OneHoused ==
    ASSUME Sane, Housed, UNCHANGED <<server, live, handles>>, "freed twice" \notin flaws',
           \A t \in Socks : Mild(t),
           work = <<>> \/ Head(work)[1] \in LastJobs,
           NEW x \in Task, work' = <<x>>,
           x[1] \notin {"free", "noserver", "unserve", "listening"}, Stands(x)', Turn(x)',
           cmd' # <<>> => x[1] \in {"up", "sent", "gone"}, Linked'
    PROVE  Housed'
<1>1. ~Left("free") /\ ~Left("noserver") /\ \A t \in Socks : ~Freed(t)
  BY SingleNone, IdleNone DEF Housed
<1>2. Shape' /\ Standing'
  BY OneWork
<1>3. ~Left("free")'
  BY OneLeft
<1>4. ASSUME NEW t \in Socks, NEW a \in {"unserve", "listening"} PROVE ~Doing(a, t)'
  <2>1. Doing(a, t)' => x = <<a, t>>
    BY OneLeft
  <2>2. ASSUME x = <<a, t>> PROVE x[1] = a
    BY ONLY <2>2
  <2> QED
    BY <1>4, <2>1, <2>2
<1> QED
  BY <1>1, <1>2, <1>3, <1>4, AloneHoused

\* The descriptor is given back.
LEMMA HandleHoused ==
    ASSUME Sane, Housed, JobHandle
    PROVE  Housed'
<1>0. Sane /\ Housed /\ Shape /\ Linked /\ Standing /\ WifiTypes /\ "freed twice" \notin flaws
  BY DEF Housed, Sane, Buffers
<1>1. /\ cmd = <<>> /\ work # <<>> /\ work \in Seq(Task) /\ Head(work)[1] = "handle"
  BY AtWork DEF JobHandle, Job
<1>2. PICK s \in Socks : s = Sock /\ Head(work) = <<"handle", s>> /\ Head(work)[2] = s
  BY AtWork DEF JobHandle, Sock
<1>3. /\ UNCHANGED <<sockets, map, server, live, flaws>> /\ cmd' = <<>> /\ Done
      /\ handles' = [handles EXCEPT ![s] = @ - 1]
  BY <1>1, <1>2 DEF JobHandle, Quiet, wifi
<1>4. sockets[s].state = "UNUSED"
  BY <1>0, <1>1, <1>2 DEF Standing, Turn
<1>5. \A t \in Socks : handles[t] > 0 /\ InUse(t) => handles'[t] > 0
  BY <1>0, <1>3, <1>4 DEF InUse, WifiTypes
<1>6. \A t \in Socks : Mild(t)
  BY <1>3 DEF Mild
<1>7. Head(work)[1] \in LastJobs /\ work' = <<>>
  <2>1. Head(work)[1] \in LastJobs
    BY <1>1 DEF LastJobs
  <2>2. <<>> \in Seq(Task)
    BY ONLY EmptySeq
  <2> QED
    BY <1>0, <1>1, <1>3, <2>1, <2>2, SingleJob DEF Done
<1>8. Linked'
  <2>1. \A t \in Socks : Mapped(t)' => Mapped(t) /\ sockets'[t].state = sockets[t].state
    BY <1>3 DEF Mapped
  <2> QED
    BY <1>0, <1>1, <2>1, LinkedKept DEF Linking
<1> QED
  BY <1>0, <1>1, <1>3, <1>5, <1>6, <1>7, <1>8, OverHoused

\* The module has started the connection.
LEMMA UpHoused ==
    ASSUME Sane, Housed, JobUp
    PROVE  Housed'
<1>0. Sane /\ Housed /\ Shape /\ Linked /\ Standing /\ WifiTypes /\ "freed twice" \notin flaws
  BY DEF Housed, Sane, Buffers
<1>1. /\ cmd = <<>> /\ work # <<>> /\ work \in Seq(Task) /\ Head(work)[1] = "up"
  BY AtWork DEF JobUp, Job
<1>2. PICK s \in Socks : s = Sock /\ Head(work) = <<"up", s>> /\ Head(work)[2] = s
  BY AtWork DEF JobUp, Sock
<1>3. /\ UNCHANGED <<map, server, live, handles>> /\ cmd' = <<>> /\ Done
      /\ "freed twice" \notin flaws'
      /\ sockets' = [sockets EXCEPT ![s].state = "CONNECTED"]
  BY <1>0, <1>1, <1>2 DEF JobUp, Quiet, Flaw
<1>4. InUse(s) /\ s # server.id
  BY <1>0, <1>1, <1>2 DEF Standing, Turn
<1>5. \A t \in Socks : /\ sockets'[t].cb = sockets[t].cb
                       /\ sockets'[t].state = IF t = s THEN "CONNECTED" ELSE sockets[t].state
  BY <1>0, <1>3 DEF WifiTypes, Socket
<1>6. \A t \in Socks : Mild(t)
  BY <1>4, <1>5 DEF Mild
<1>7. Head(work)[1] \in LastJobs /\ work' = <<>>
  <2>1. Head(work)[1] \in LastJobs
    BY <1>1 DEF LastJobs
  <2>2. <<>> \in Seq(Task)
    BY ONLY EmptySeq
  <2> QED
    BY <1>0, <1>1, <1>3, <2>1, <2>2, SingleJob DEF Done
<1>8. Linked'
  <2>1. ASSUME NEW t \in Socks, Mapped(t)' PROVE sockets'[t].state \in {"CONNECTED", "WAITING_ACCEPT"}
    <3>1. Mapped(t)
      BY <1>3, <2>1 DEF Mapped
    <3>2. ASSUME NEW a, Doing(a, t) PROVE t = s
      <4>1. Head(work) = <<a, t>>
        BY <3>2 DEF Doing
      <4> QED
        BY ONLY <1>2, <4>1
    <3> QED
      BY <1>0, <1>5, <3>1, <3>2 DEF Linked
  <2> QED
    BY <2>1 DEF Linked
<1> QED
  BY <1>0, <1>1, <1>3, <1>6, <1>7, <1>8, OverHoused

\* The socket whose command has failed has no connection.
LEMMA UnmappedHoused ==
    ASSUME Sane, Housed, "freed twice" \notin flaws', UNCHANGED <<server, live, handles>>,
           NEW s \in Socks, work # <<>>, Head(work)[1] \in {"unmap", "unlink"}, Head(work)[2] = s,
           Done, cmd' = <<>>, ~Mapped(s)',
           \A t \in Socks : /\ Mapped(t)' => Mapped(t)
                            /\ sockets'[t].state = sockets[t].state /\ sockets'[t].cb = sockets[t].cb
    PROVE  Housed'
<1>0. Sane /\ Housed /\ Shape /\ Linked /\ Standing /\ WifiTypes
  BY DEF Housed, Sane
<1>5. \A t \in Socks : Mild(t)
  BY DEF Mild
<1>6. Head(work)[1] \in LastJobs /\ work' = <<>>
  <2>1. Head(work)[1] \in LastJobs
    BY DEF LastJobs
  <2>2. <<>> \in Seq(Task)
    BY ONLY EmptySeq
  <2> QED
    BY <1>0, <2>1, <2>2, SingleJob DEF Done
<1>7. Linked'
  <2>1. ASSUME NEW t \in Socks, Mapped(t)' PROVE sockets'[t].state \in {"CONNECTED", "WAITING_ACCEPT"}
    <3>1. Mapped(t) /\ t # s
      BY <2>1
    <3>2. ASSUME NEW a, Doing(a, t) PROVE FALSE
      <4>1. Head(work) = <<a, t>>
        BY <3>2 DEF Doing
      <4>2. Head(work)[2] = t
        BY ONLY <4>1
      <4> QED
        BY <3>1, <4>2
    <3> QED
      BY <1>0, <3>1, <3>2 DEF Linked
  <2> QED
    BY <2>1 DEF Linked
<1> QED
  BY <1>0, <1>5, <1>6, <1>7, OverHoused

\* wifi_socket_connect goes on to another of its jobs.
LEMMA LinkedOn ==
    ASSUME Linked, NEW s \in Socks, Head(work)[2] = s, NEW b \in Linking, NEW y \in Task,
           y = <<b, s>>, work' = <<y>>,
           \A t \in Socks : Mapped(t)' => Mapped(t) /\ sockets'[t].state = sockets[t].state
    PROVE  Linked'
<1>1. ASSUME NEW t \in Socks, NEW a, Doing(a, t) PROVE Doing(b, t)'
  <2>1. Head(work) = <<a, t>>
    BY <1>1 DEF Doing
  <2>2. t = s
    BY ONLY <2>1, Head(work)[2] = s
  <2>3. work' # <<>> /\ Head(work') = <<b, t>>
    BY ONLY <2>2, y = <<b, s>>, work' = <<y>>
  <2> QED
    BY <2>3 DEF Doing
<1> QED
  BY <1>1 DEF Linked

LEMMA LinkingHoused ==
    ASSUME Sane, Housed, "freed twice" \notin flaws', UNCHANGED <<sockets, map, server, live, handles>>,
           NEW s \in Socks, work # <<>>, Head(work)[1] \in {"start", "up", "unmap"}, Head(work)[2] = s,
           NEW b \in {"up", "unmap", "unlink"}, Goes(<<<<b, s>>>>), cmd' # <<>> => b = "up",
           b = "up" => InUse(s) /\ s # server.id
    PROVE  Housed'
<1>0. Sane /\ Housed /\ Shape /\ Linked /\ Standing
  BY DEF Housed
<1>1. PICK y \in Task : y = <<b, s>> /\ y[1] = b /\ y[2] = s
  BY ONLY s \in Socks, b \in {"up", "unmap", "unlink"}, TaskIs DEF JobNames
<1>2. Goes(<<y>>)
  BY <1>1, Zenon
<1>3. Head(work)[1] \in LastJobs /\ work' = <<y>>
  <2>1. Head(work)[1] \in LastJobs
    BY DEF LastJobs
  <2>2. <<y>> \in Seq(Task)
    BY UnitJobs
  <2> QED
    BY <1>0, <1>2, <2>1, <2>2, SingleJob
<1>4. Linked'
  <2>1. \A t \in Socks : Mapped(t)' => Mapped(t) /\ sockets'[t].state = sockets[t].state
    BY DEF Mapped
  <2>2. b \in Linking
    BY DEF Linking
  <2> QED
    BY <1>0, <1>1, <1>3, <2>1, <2>2, LinkedOn
<1>5. /\ Stands(y)' /\ Turn(y)' /\ y[1] \notin {"free", "noserver", "unserve", "listening"}
      /\ cmd' # <<>> => y[1] \in {"up", "sent", "gone"}
  BY <1>1 DEF Stands, Turn, InUse
<1>6. \A t \in Socks : Mild(t)
  BY DEF Mild
<1> QED
  BY <1>0, <1>3, <1>4, <1>5, <1>6, OneHoused

\* The module has refused the connection.
LEMMA UnmapHoused ==
    ASSUME Sane, Housed, Matched, JobUnmap, Clean', "freed twice" \notin flaws'
    PROVE  Housed'
<1>1. /\ cmd = <<>> /\ work # <<>> /\ Head(work) = <<"unmap", Sock>> /\ Sock \in Socks /\ WifiTypes
  BY AtWork DEF JobUnmap
<1>2. PICK s \in Socks : s = Sock /\ Head(work) = <<"unmap", s>> /\ Head(work)[1] = "unmap" /\ Head(work)[2] = s
  <2>1. <<"unmap", Sock>>[1] = "unmap" /\ <<"unmap", Sock>>[2] = Sock
    OBVIOUS
  <2> QED
    BY ONLY <1>1, <2>1, Zenon
<1>3. UNCHANGED <<sockets, map, server, live, handles>> /\ cmd' = <<>>
  BY <1>1 DEF JobUnmap, wifi
<1>4. CASE Goes(<<<<"unlink", Sock>>>>)
  BY <1>1, <1>2, <1>3, <1>4, LinkingHoused
<1>5. CASE sockets[Sock].conn_id = INVALID_ID /\ Done
  <2>2. ~Mapped(s)'
    BY <1>1, <1>2, <1>3, <1>5, NumberlessUnmapped DEF Mapped
  <2>3. \A t \in Socks : Mapped(t)' => Mapped(t)
    BY <1>3 DEF Mapped
  <2> QED
    BY <1>1, <1>2, <1>3, <1>5, <2>2, <2>3, UnmappedHoused
<1> QED
  BY <1>4, <1>5 DEF JobUnmap, LoadNumber, Done

LEMMA UnlinkHoused ==
    ASSUME Sane, Housed, Matched, JobUnlink, Clean', "freed twice" \notin flaws'
    PROVE  Housed'
<1>1. /\ cmd = <<>> /\ work # <<>> /\ Head(work) = <<"unlink", Sock>> /\ Sock \in Socks
      /\ WifiTypes /\ found \in Conns
  BY AtWork DEF JobUnlink, LineTypes
<1>2. PICK s \in Socks : s = Sock /\ Head(work) = <<"unlink", s>> /\ Head(work)[1] = "unlink" /\ Head(work)[2] = s
  <2>1. <<"unlink", Sock>>[1] = "unlink" /\ <<"unlink", Sock>>[2] = Sock
    OBVIOUS
  <2> QED
    BY ONLY <1>1, <2>1, Zenon
<1>3. /\ UNCHANGED <<server, live, handles>> /\ cmd' = <<>> /\ Done /\ ReleaseFound
      /\ "retaken" \notin flaws'
  BY <1>1 DEF JobUnlink, Quiet, Clean, None
<1>4. /\ ~Mapped(s)'
      /\ \A t \in Socks : /\ Mapped(t)' => Mapped(t)
                          /\ sockets'[t].state = sockets[t].state /\ sockets'[t].cb = sockets[t].cb
  BY <1>1, <1>2, <1>3, FoundUnmaps
<1> QED
  BY <1>1, <1>2, <1>3, <1>4, UnmappedHoused

\* wifi_socket_connect runs its command.
LEMMA StartHoused ==
    ASSUME Sane, Housed, JobStart
    PROVE  Housed'
<1>0. Standing /\ "freed twice" \notin flaws
  BY DEF Housed, Buffers
<1>1. /\ work # <<>> /\ Head(work) = <<"start", Sock>> /\ Sock \in Socks
  BY AtWork DEF JobStart
<1>2. PICK s \in Socks : s = Sock /\ Head(work) = <<"start", s>> /\ Head(work)[1] = "start" /\ Head(work)[2] = s
  BY AtWork DEF JobStart, Sock
<1>3. /\ UNCHANGED <<sockets, map, server, live, handles>> /\ "freed twice" \notin flaws'
      /\ Goes(<<<<"up", Sock>>>>)
  BY <1>0 DEF JobStart, wifi
<1>4. InUse(s) /\ s # server.id
  BY <1>0, <1>1, <1>2 DEF Standing, Turn
<1> QED
  BY <1>1, <1>2, <1>3, <1>4, LinkingHoused

\* wifi_socket_connect gives the socket a connection before the module has opened it.
LEMMA ClaimHoused ==
    ASSUME Sane, Serving, Housed, JobClaim
    PROVE  Housed'
<1>0. Sane /\ Housed /\ Shape /\ Linked /\ Standing /\ WifiTypes /\ "freed twice" \notin flaws
      /\ map \in [Conns -> Socks \cup {INVALID_ID}] /\ INVALID_ID \notin Socks
  BY NoSuchId DEF Housed, Sane, Buffers, WifiTypes
<1>1. /\ cmd = <<>> /\ work # <<>> /\ Head(work) = <<"claim", Sock>> /\ Sock \in Socks /\ found \in Conns
  BY AtWork, SMTT(30) DEF JobClaim, LineTypes
<1>2. PICK s \in Socks : s = Sock /\ Head(work) = <<"claim", s>> /\ Head(work)[1] = "claim" /\ Head(work)[2] = s
  BY AtWork DEF JobClaim, Sock
<1>3. /\ UNCHANGED <<server, live, handles>> /\ cmd' = <<>> /\ Goes(<<<<"start", s>>>>)
      /\ "freed twice" \notin flaws'
  <2>1. \A f \in flaws' : f \in flaws \/ f \in {"twice", "silent", "overtaken"}
    BY DEF JobClaim
  <2> QED
    BY <1>0, <1>1, <1>2, <2>1 DEF JobClaim
<1>4. InUse(s) /\ s # server.id
  BY <1>0, <1>1, <1>2 DEF Standing, Turn
<1>5. /\ \A t \in Socks : Mapped(t)' => t = s \/ Mapped(t)
      /\ \A t \in Socks : /\ sockets'[t].cb = sockets[t].cb
                          /\ sockets'[t].state = sockets[t].state \/ (t = s /\ sockets'[t].state = "DISCONNECTED")
  <2>1. CASE map' = [map EXCEPT ![found] = s] /\ sockets' = [sockets EXCEPT ![s].conn_id = found]
    <3>1. \A c \in Conns : map'[c] = IF c = found THEN s ELSE map[c]
      BY <1>0, <2>1
    <3>2. \A t \in Socks : sockets'[t].state = sockets[t].state /\ sockets'[t].cb = sockets[t].cb
      BY <1>0, <2>1, ZenonT(60) DEF WifiTypes, Socket
    <3> QED
      BY <3>1, <3>2 DEF Mapped
  <2>2. CASE /\ map' = [map EXCEPT ![found] = s, ![sockets[s].conn_id] = INVALID_ID]
             /\ sockets' = [Down(s) EXCEPT ![s].conn_id = found]
    <3>1. \A c \in Conns : map'[c] \in {s, INVALID_ID, map[c]}
      BY <1>0, <1>1, <2>2
    <3>2. \A t \in Socks : /\ sockets'[t].cb = sockets[t].cb
                           /\ sockets'[t].state = IF t = s THEN "DISCONNECTED" ELSE sockets[t].state
      BY <1>0, <2>2, ZenonT(60) DEF WifiTypes, Socket, Down
    <3> QED
      BY <1>0, <3>1, <3>2 DEF Mapped
  <2> QED
    BY <1>2, <2>1, <2>2 DEF JobClaim
<1>6. \A t \in Socks : Mild(t)
  BY <1>4, <1>5 DEF Mild
<1>7. PICK x \in Task : x = <<"start", s>> /\ x[1] = "start" /\ x[2] = s
  BY TaskIs DEF JobNames
<1>8. Head(work)[1] \in LastJobs /\ work' = <<x>>
  <2>1. Head(work)[1] \in LastJobs
    BY <1>2 DEF LastJobs
  <2>2. <<x>> \in Seq(Task) /\ Goes(<<x>>)
    BY <1>3, <1>7, UnitJobs, Zenon
  <2> QED
    BY <1>0, <1>1, <2>1, <2>2, SingleJob
<1>9. Linked'
  <2>1. Doing("start", s)'
    <3>1. work' # <<>> /\ Head(work') = <<"start", s>>
      BY ONLY <1>7, <1>8
    <3> QED
      BY <3>1 DEF Doing
  <2>2. sockets'[s].state \in {"CONNECTED", "WAITING_ACCEPT", "DISCONNECTED"}
    <3>1. sockets[s].state # "LISTENING"
      BY <1>4 DEF Serving
    <3>2. sockets[s].state \in States
      BY <1>0 DEF WifiTypes, Socket
    <3> QED
      BY <1>4, <1>5, <3>1, <3>2 DEF States, InUse
  <2>3. ASSUME NEW t \in Socks, Mapped(t)', t # s PROVE sockets'[t].state \in {"CONNECTED", "WAITING_ACCEPT"}
    <3>1. Mapped(t) /\ sockets'[t].state = sockets[t].state
      BY <1>5, <2>3
    <3>2. ASSUME NEW a, Doing(a, t) PROVE FALSE
      <4>1. Head(work) = <<a, t>>
        BY <3>2 DEF Doing
      <4> QED
        BY ONLY <1>2, <2>3, <4>1
    <3> QED
      BY <1>0, <3>1, <3>2 DEF Linked
  <2> QED
    BY <2>1, <2>2, <2>3 DEF Linked, Linking
<1>10. /\ Stands(x)' /\ Turn(x)' /\ x[1] \notin {"free", "noserver", "unserve", "listening"}
  BY <1>3, <1>4, <1>5, <1>7 DEF Stands, Turn, InUse
<1> QED
  BY <1>0, <1>3, <1>6, <1>8, <1>9, <1>10, OneHoused

\* wifi_socket_accept gives the application a client of the backlog.
LEMMA AcceptedHoused ==
    ASSUME Sane, Housed, JobAccept
    PROVE  Housed'
<1>0. Sane /\ Housed /\ Shape /\ Linked /\ Standing /\ WifiTypes /\ "freed twice" \notin flaws
  BY DEF Housed, Sane, Buffers
<1>1. /\ cmd = <<>> /\ work # <<>> /\ work \in Seq(Task) /\ Head(work)[1] = "accept"
      /\ Orderly(work, handles, server)
  BY AtWork DEF JobAccept, Job
<1>2. PICK s \in Socks : s = Sock /\ Head(work) = <<"accept", s>> /\ Head(work)[2] = s
  BY AtWork DEF JobAccept, Sock
<1>3. /\ UNCHANGED <<map, server, live>> /\ cmd' = <<>>
      /\ "freed twice" \notin flaws'
      /\ sockets' = [sockets EXCEPT ![s].state = "CONNECTED"]
  BY <1>0, <1>1, <1>2 DEF JobAccept, Flaw
<1>4. InUse(s) /\ s # server.id
  BY <1>0, <1>1, <1>2 DEF Standing, Turn
<1>5. \A t \in Socks : /\ sockets'[t].cb = sockets[t].cb
                       /\ sockets'[t].state = IF t = s THEN "CONNECTED" ELSE sockets[t].state
  BY <1>0, <1>3 DEF WifiTypes, Socket
<1>6. \A t \in Socks : Mild(t)
  BY <1>4, <1>5 DEF Mild
<1>7. Head(work)[1] \in LastJobs /\ \A J \in Seq(Task) : Goes(J) => work' = J
  <2>1. Head(work)[1] \in LastJobs
    BY <1>1 DEF LastJobs
  <2> QED
    BY <1>0, <1>1, <2>1, SingleJob
<1>8. Linked'
  <2>1. ASSUME NEW t \in Socks, Mapped(t)' PROVE sockets'[t].state \in {"CONNECTED", "WAITING_ACCEPT"}
    <3>1. Mapped(t)
      BY <1>3, <2>1 DEF Mapped
    <3>2. ASSUME NEW a, Doing(a, t) PROVE t = s
      <4>1. Head(work) = <<a, t>>
        BY <3>2 DEF Doing
      <4> QED
        BY ONLY <1>2, <4>1
    <3> QED
      BY <1>0, <1>5, <3>1, <3>2 DEF Linked
  <2> QED
    BY <2>1 DEF Linked
<1>9. CASE Done /\ handles' = [handles EXCEPT ![s] = @ + 1]
  <2>1. work' = <<>>
    <3>1. <<>> \in Seq(Task)
      BY ONLY EmptySeq
    <3> QED
      BY <1>7, <1>9, <3>1 DEF Done
  <2>2. \A t \in Socks : handles[t] > 0 /\ InUse(t) => handles'[t] > 0
    <3>1. handles \in [Socks -> Nat]
      BY <1>0 DEF WifiTypes
    <3>2. \A t \in Socks : handles[t] > 0 => handles'[t] > 0
      BY ONLY <1>9, <3>1, s \in Socks
    <3> QED
      BY <3>2
  <2> QED
    BY <1>0, <1>1, <1>3, <1>6, <1>7, <1>8, <2>1, <2>2, OverHoused
<1>10. CASE Goes(<<<<"close", server.id>>>>) /\ handles' = handles
  <2>1. PICK t \in Socks : t = server.id
    <3>1. work[1] = Head(work) /\ 1 \in 1..Len(work)
      BY ONLY <1>1, TailRest
    <3>2. server.id # INVALID_ID
      BY <1>1, <3>1 DEF Orderly
    <3> QED
      BY <1>0, <3>2 DEF WifiTypes, Server
  <2>2. PICK x \in Task : x = <<"close", t>> /\ x[1] = "close" /\ x[2] = t
    BY TaskIs DEF JobNames
  <2>3. work' = <<x>>
    <3>1. <<x>> \in Seq(Task) /\ <<x>> = <<<<"close", server.id>>>>
      BY <2>1, <2>2, UnitJobs
    <3> QED
      BY <1>7, <1>10, <3>1, Zenon
  <2>4. Stands(x)' /\ Turn(x)' /\ x[1] \notin {"free", "noserver", "unserve", "listening"}
    BY <2>2 DEF Stands, Turn
  <2> QED
    BY <1>0, <1>3, <1>6, <1>7, <1>8, <1>10, <2>3, <2>4, OneHoused
<1> QED
  BY <1>2, <1>9, <1>10 DEF JobAccept

\* The jobs of wifi_socket_send and of wifi_remove.
LEMMA SendingHoused ==
    ASSUME Sane, Housed, JobSend \/ JobSent \/ JobQuit
    PROVE  Housed'
<1>0. Sane /\ Housed /\ Shape /\ Linked /\ WifiTypes /\ "freed twice" \notin flaws
  BY DEF Housed, Sane, Buffers
<1>1. /\ cmd = <<>> /\ work # <<>> /\ work \in Seq(Task)
      /\ Sock \in Socks /\ Head(work)[1] \in {"send", "sent", "quit"}
  BY AtWork DEF JobSend, JobSent, JobQuit, Job
<1>2. UNCHANGED <<sockets, map, server, live, handles, flaws>>
  BY DEF JobSend, JobSent, JobQuit, wifi
<1>3. Head(work)[1] \in LastJobs /\ \A J \in Seq(Task) : Goes(J) => work' = J
  <2>1. Head(work)[1] \in LastJobs
    BY <1>1 DEF LastJobs
  <2> QED
    BY <1>0, <1>1, <2>1, SingleJob
<1>4. \A t \in Socks : Mild(t) /\ (handles[t] > 0 /\ InUse(t) => handles'[t] > 0)
  BY <1>2 DEF Mild
<1>5. Linked'
  <2>1. \A t \in Socks : Mapped(t)' => Mapped(t) /\ sockets'[t].state = sockets[t].state
    BY <1>2 DEF Mapped
  <2> QED
    BY <1>0, <1>1, <2>1, LinkedKept DEF Linking
<1>6. CASE Done /\ cmd' = <<>>
  <2>1. work' = <<>>
    <3>1. <<>> \in Seq(Task)
      BY ONLY EmptySeq
    <3> QED
      BY <1>3, <1>6, <3>1 DEF Done
  <2> QED
    BY <1>0, <1>1, <1>2, <1>3, <1>4, <1>5, <1>6, <2>1, OverHoused
<1>7. ASSUME NEW a \in {"send", "sent", "gone"}, NEW t \in Socks, Goes(<<<<a, t>>>>),
             cmd' # <<>> => a \in {"sent", "gone"}
      PROVE  Housed'
  <2>1. PICK x \in Task : x = <<a, t>> /\ x[1] = a /\ x[2] = t
    BY <1>7, TaskIs DEF JobNames
  <2>2. work' = <<x>>
    <3>1. <<x>> \in Seq(Task) /\ <<x>> = <<<<a, t>>>>
      BY <2>1, UnitJobs
    <3> QED
      BY <1>3, <1>7, <3>1, Zenon
  <2>3. Stands(x)' /\ Turn(x)' /\ x[1] \notin {"free", "noserver", "unserve", "listening"}
    BY <1>7, <2>1 DEF Stands, Turn
  <2>4. cmd' # <<>> => x[1] \in {"up", "sent", "gone"}
    BY <1>7, <2>1
  <2> QED
    BY <1>0, <1>2, <1>3, <1>4, <1>5, <2>2, <2>3, <2>4, OneHoused
<1>8. CASE JobSend
  <2>1. Goes(<<<<"sent", Sock>>>>)
    BY <1>8, Zenon DEF JobSend
  <2> QED
    BY <1>1, <1>7, <2>1
<1>9. CASE JobSent
  <2>1. cmd' = <<>>
    BY <1>1, <1>9 DEF JobSent, Quiet
  <2>2. Done \/ Goes(<<<<"send", Sock>>>>)
    BY <1>9, Zenon DEF JobSent
  <2> QED
    BY <1>1, <1>6, <1>7, <2>1, <2>2
<1>10. CASE JobQuit
  <2>1. Goes(<<<<"gone", 0>>>>)
    BY <1>10, Zenon DEF JobQuit
  <2>2. 0 \in Socks
    BY WifiAssumption DEF Socks
  <2> QED
    BY <1>7, <2>1, <2>2
<1> QED
  BY <1>8, <1>9, <1>10

\* There is nothing any more.
LEMMA GoneHoused ==
    ASSUME Sane, Housed, JobGone
    PROVE  Housed'
<1>0. Sane /\ Shape /\ "freed twice" \notin flaws /\ INVALID_ID \notin Socks
  <2>1. INVALID_ID \notin Socks
    BY WifiAssumption DEF INVALID_ID, Socks
  <2> QED
    BY <2>1 DEF Housed, Buffers
<1>1. /\ cmd = <<>> /\ work # <<>> /\ Head(work)[1] = "gone" /\ Done /\ cmd' = <<>>
      /\ flaws' = flaws
  BY AtWork DEF JobGone, Job
<1>2. /\ \A t \in Socks : sockets'[t].state = "UNUSED"
      /\ \A c \in Conns : map'[c] = INVALID_ID
      /\ server'.id = INVALID_ID /\ server'.clients = <<>>
  BY DEF JobGone, NoSockets, NoMap, NoServer
<1>3. work' = <<>>
  <2>1. Head(work)[1] \in LastJobs
    BY <1>1 DEF LastJobs
  <2>2. <<>> \in Seq(Task)
    BY ONLY EmptySeq
  <2> QED
    BY <1>0, <1>1, <2>1, <2>2, SingleJob DEF Done
<1>4. /\ Shape' /\ Standing' /\ \A a, t : ~Left(a)' /\ ~Waits(a, t)' /\ ~Doing(a, t)'
  BY <1>1, <1>3, EmptyWork
<1>5. \A t : ~Backlog(t)'
  <2>1. 1..Len(server'.clients) = {}
    BY ONLY <1>2, EmptySeq
  <2> QED
    BY <1>2, <2>1 DEF Backlog, Contains
<1>6. Linked'
  BY <1>0, <1>2 DEF Linked, Mapped
<1>7. ServerHeld'
  BY <1>0, <1>2 DEF ServerHeld
<1>8. Backlogged'
  <2>1. 1..Len(server'.clients) = {}
    BY ONLY <1>2, EmptySeq
  <2> QED
    BY <1>4, <1>5, <2>1 DEF Backlogged
<1>9. Buffers'
  <2>1. \A t \in Socks : ~InUse(t)' /\ ~Sound(t)'
    BY <1>2, <1>5 DEF InUse, Sound
  <2> QED
    BY <1>0, <1>1, <2>1 DEF Buffers, Holder
<1> QED
  BY <1>4, <1>6, <1>7, <1>8, <1>9 DEF Housed

\* The server listens.
LEMMA ListeningHoused ==
    ASSUME Sane, Serving, Housed, JobListening
    PROVE  Housed'
<1>0. /\ Sane /\ Housed /\ Shape /\ Linked /\ Standing /\ WifiTypes /\ "freed twice" \notin flaws
      /\ Backlogged /\ Buffers /\ ServerHeld
  BY DEF Housed, Sane, Buffers
<1>1. /\ cmd = <<>> /\ work # <<>> /\ work \in Seq(Task) /\ Head(work)[1] = "listening"
  BY AtWork DEF JobListening, Job
<1>2. PICK s \in Socks : s = Sock /\ Head(work) = <<"listening", s>> /\ Head(work)[2] = s
  BY AtWork DEF JobListening, Sock
<1>3. /\ UNCHANGED <<map, server, live, handles, flaws>> /\ cmd' = <<>> /\ Done
      /\ sockets' = [sockets EXCEPT ![s].state = "LISTENING"]
  BY <1>1, <1>2 DEF JobListening, Quiet
<1>4. sockets[s].state = "DISCONNECTED" /\ ~Backlog(s) /\ handles[s] > 0
  BY <1>0, <1>1, <1>2 DEF Standing, Turn
<1>5. server.id = s
  <2>1. 1 \in 1..Len(work) /\ work[1] = Head(work)
    BY ONLY <1>1, TailRest
  <2> QED
    BY <1>1, <1>2, <2>1 DEF Serving, ServerJobs
<1>6. \A t \in Socks : /\ sockets'[t].cb = sockets[t].cb
                       /\ sockets'[t].state = IF t = s THEN "LISTENING" ELSE sockets[t].state
  BY <1>0, <1>3 DEF WifiTypes, Socket
<1>7. Head(work)[1] \in LastJobs /\ work' = <<>>
  <2>1. Head(work)[1] \in LastJobs
    BY <1>1 DEF LastJobs
  <2>2. <<>> \in Seq(Task)
    BY ONLY EmptySeq
  <2> QED
    BY <1>0, <1>1, <1>3, <2>1, <2>2, SingleJob DEF Done
<1>8. ~Left("free") /\ ~Left("noserver") /\ \A t \in Socks : ~Freed(t)
  BY <1>0, <1>1, <1>7, SingleNone
<1>9. /\ Shape' /\ Standing' /\ \A a, t : ~Left(a)' /\ ~Waits(a, t)' /\ ~Doing(a, t)'
  BY <1>3, <1>7, EmptyWork
<1>10. \A t \in Socks : (InUse(t)' <=> InUse(t)) /\ (Backlog(t)' <=> Backlog(t))
  BY <1>3, <1>4, <1>6 DEF InUse, Backlog
<1>11. ~Mapped(s)
  BY <1>0, <1>1, <1>4, Unlinked DEF Linking
<1>12. Linked'
  <2>1. \A t \in Socks : Mapped(t)' => Mapped(t) /\ sockets'[t].state = sockets[t].state
    BY <1>3, <1>6, <1>11 DEF Mapped
  <2> QED
    BY <1>0, <1>1, <2>1, LinkedKept DEF Linking
<1>13. ServerHeld'
  BY <1>0, <1>3, <1>4, <1>5, <1>6, <1>10 DEF ServerHeld
<1>14. Backlogged'
  BY <1>0, <1>3, <1>6, <1>9, <1>10 DEF Backlogged
<1>15. Offering
  <2>1. Doing("listening", s)
    BY <1>1, <1>2 DEF Doing
  <2> QED
    BY <1>4, <1>5, <2>1 DEF Offering
<1>16. \A t \in Socks : Sound(t)' => Sound(t)
  BY <1>8, <1>10, <1>15 DEF Sound
<1>17. Buffers'
  <2>1. \A t \in Socks : Holder(t)' => Holder(t)
    BY <1>10, <1>16 DEF Holder
  <2>2. \A t \in Socks : InUse(t)' => sockets'[t].cb \in live' \cup {NULL}
    BY <1>0, <1>3, <1>6, <1>8, <1>10 DEF Buffers
  <2>3. \A t \in Socks : Sound(t)' => sockets'[t].cb \in live'
    <3>1. \A t \in Socks : Sound(t) => sockets[t].cb \in live
      BY <1>0 DEF Buffers
    <3>2. live' = live
      BY <1>3
    <3> QED
      BY ONLY <1>6, <1>16, <3>1, <3>2
  <2>4. \A t, u \in Socks : Holder(t)' /\ Holder(u)' /\ sockets'[t].cb = sockets'[u].cb
                              => t = u \/ sockets'[t].cb = NULL
    BY <1>0, <1>6, <2>1 DEF Buffers
  <2> QED
    BY <1>0, <1>3, <2>2, <2>3, <2>4 DEF Buffers
<1> QED
  BY <1>9, <1>12, <1>13, <1>14, <1>17 DEF Housed

\* at_run_cmd has failed.
LEMMA FailedHoused ==
    ASSUME Sane, Serving, Housed, Failed, UNCHANGED <<sockets, map, server, live, handles>>,
           "freed twice" \notin flaws', cmd # <<>>, cmd' = <<>>
    PROVE  Housed'
<1>0. Sane /\ Housed /\ Shape /\ Linked /\ Standing /\ work \in Seq(Task) /\ work # <<>>
  BY DEF Housed, Sane, LineTypes
<1>1. Head(work)[1] \in {"up", "stopped", "unserve", "listening", "sent", "gone"}
  BY <1>0 DEF Shape
<1>2. CASE Head(work)[1] \in {"stopped", "unserve", "sent"}
  <2>1. work' = Aborted(Tail(work))
    BY <1>2 DEF Failed
  <2> QED
    BY <1>0, <1>2, <2>1, AbortedHoused
<1>3. CASE Head(work)[1] = "gone"
  <2>1. work' = work
    BY <1>3 DEF Failed
  <2> QED
    BY <1>0, <2>1, CalmHoused
<1>4. CASE Head(work)[1] = "listening"
  <2>1. Goes(Frees)
    BY <1>4 DEF Failed, Goes
  <2> QED
    BY <1>0, <1>4, <2>1, ListeningFailed
<1>5. CASE Head(work)[1] = "up"
  <2>1. PICK s \in Socks : s = Sock /\ Head(work)[2] = s
    <3>1. Head(work) \in Task
      BY ONLY <1>0, TaskAt
    <3> QED
      BY <3>1, TaskParts DEF Sock
  <2>2. Goes(<<<<"unmap", s>>>>)
    BY <1>5, <2>1 DEF Failed, Goes
  <2> QED
    BY <1>0, <1>5, <2>1, <2>2, LinkingHoused
<1> QED
  BY <1>1, <1>2, <1>3, <1>4, <1>5

\* at_run_cmd returns.
LEMMA ResponseHoused ==
    ASSUME Sane, Serving, Housed, Response \/ TimedOut
    PROVE  Housed'
<1>1. /\ UNCHANGED <<sockets, map, server, live, handles>> /\ cmd # <<>> /\ cmd' = <<>>
      /\ work' = work \/ Failed
  BY DEF Response, TimedOut, wifi
<1>2. "freed twice" \notin flaws'
  <2>1. "freed twice" \notin flaws
    BY DEF Housed, Buffers
  <2>2. \A f \in flaws' : f \in flaws \/ f = "unsure"
    BY DEF Response, TimedOut
  <2> QED
    BY ONLY <2>1, <2>2
<1>3. CASE Failed
  BY <1>1, <1>2, <1>3, FailedHoused
<1>4. CASE work' = work
  BY <1>1, <1>2, <1>4, CalmHoused
<1> QED
  BY <1>1, <1>3, <1>4

\* The jobs of a call.
LEMMA JobsHoused ==
    ASSUME Sane, Serving, Matched, Housed, Jobs, Clean'
    PROVE  Housed'
<1>1. JobStopped \/ JobParted \/ JobDown \/ JobUnmap \/ JobUnlink => "freed twice" \notin flaws'
  <2>1. "freed twice" \notin flaws
    BY DEF Housed, Buffers
  <2>2. JobStopped \/ JobParted \/ JobDown \/ JobUnmap \/ JobUnlink =>
           \A f \in flaws' : f \in flaws \/ f \in {"retaken", "overtaken"}
    BY DEF JobStopped, JobParted, JobDown, JobUnmap, JobUnlink, ReleaseFound, Flaw
  <2> QED
    BY ONLY <2>1, <2>2
<1>2. CASE JobClose \/ JobDisconnect \/ JobUnserve \/ JobNoServer \/ JobFree \/ JobTail
  BY <1>2, CloseHoused, DisconnectHoused, UnserveHoused, NoServerHoused, FreeHoused, TailHoused
<1>3. CASE JobStopped \/ JobParted \/ JobDown \/ JobUnmap \/ JobUnlink
  BY <1>1, <1>3, StoppedHoused, PartedHoused, DownHoused, UnmapHoused, UnlinkHoused
<1>4. CASE JobClaim \/ JobStart \/ JobUp
  BY <1>4, ClaimHoused, StartHoused, UpHoused
<1>5. CASE JobHandle \/ JobAccept \/ JobSend \/ JobSent \/ JobQuit \/ JobGone \/ JobListening
  BY <1>5, HandleHoused, AcceptedHoused, SendingHoused, GoneHoused, ListeningHoused
<1> QED
  BY <1>2, <1>3, <1>4, <1>5 DEF Jobs

-----------------------------------------------------------------------------
(* Housed: the application's calls.                                        *)

\* A call begins, with no more than its jobs.
LEMMA BegunHoused ==
    ASSUME Sane, Housed, UNCHANGED <<sockets, map, server, live, handles, flaws>>, work = <<>>,
           ~Left("free")', \A t \in Socks, a \in Linking \cup {"unserve", "listening"} : ~Doing(a, t)',
           Shape', Standing'
    PROVE  Housed'
<1>0. "freed twice" \notin flaws' /\ Linked
  BY DEF Housed, Buffers
<1>1. ~Left("free") /\ ~Left("noserver") /\ \A t \in Socks : ~Freed(t)
  BY IdleNone
<1>2. \A t \in Socks : Mild(t) /\ (handles[t] > 0 /\ InUse(t) => handles'[t] > 0)
  BY DEF Mild
<1>3. Linked'
  <2>1. \A t \in Socks : Mapped(t)' => Mapped(t) /\ sockets'[t].state = sockets[t].state
    BY DEF Mapped
  <2> QED
    BY <1>0, <2>1, LinkedKept DEF Linking
<1> QED
  BY <1>0, <1>1, <1>2, <1>3, AloneHoused

\* The calls that only leave jobs.
LEMMA SimpleHoused ==
    ASSUME Sane, Housed, NEW s \in Socks, Disconnect(s) \/ Send(s) \/ Accept(s)
    PROVE  Housed'
<1>1. /\ UNCHANGED <<sockets, map, server, live, handles, flaws, cmd>> /\ work = <<>> /\ cmd = <<>>
  BY DEF Disconnect, Send, Accept, wifi, Begin, Idle
<1>2. "freed twice" \notin flaws' /\ Linked
  BY <1>1 DEF Housed, Buffers
<1>3. ASSUME NEW a \in {"disc", "send", "accept"}, NEW t \in Socks, work' = <<<<a, t>>>>,
             a = "accept" => InUse(t) /\ t # server.id
      PROVE  Housed'
  <2>1. PICK x \in Task : x = <<a, t>> /\ x[1] = a /\ x[2] = t
    BY <1>3, TaskIs, SMTT(30) DEF JobNames
  <2>2. work' = <<x>>
    BY <1>3, <2>1
  <2>3. Stands(x)' /\ Turn(x)' /\ x[1] \notin {"free", "noserver", "unserve", "listening"}
    BY <1>1, <1>3, <2>1 DEF Stands, Turn, InUse
  <2>4. Linked'
    <3>1. \A v \in Socks : Mapped(v)' => Mapped(v) /\ sockets'[v].state = sockets[v].state
      BY <1>1 DEF Mapped
    <3> QED
      BY <1>1, <1>2, <3>1, LinkedKept DEF Linking
  <2>5. \A v \in Socks : Mild(v)
    BY <1>1 DEF Mild
  <2> QED
    BY <1>1, <1>2, <2>2, <2>3, <2>4, <2>5, OneHoused
<1>4. CASE Disconnect(s)
  <2>1. work' = <<<<"disc", s>>>>
    BY <1>4 DEF Disconnect
  <2> QED
    BY <1>3, <2>1
<1>5. CASE Send(s)
  <2>1. work' = <<<<"send", s>>>>
    BY <1>5 DEF Send
  <2> QED
    BY <1>3, <2>1
<1>6. CASE Accept(s)
  <2>1. PICK waiting : waiting = {t \in Socks : sockets[t].state = "WAITING_ACCEPT"}
    OBVIOUS
  <2>2. work' = IF waiting = {} THEN <<>> ELSE <<<<"accept", First(waiting)>>>>
    BY <1>6, <2>1 DEF Accept
  <2>3. CASE waiting = {}
    <3>1. work' = work
      BY <1>1, <2>2, <2>3
    <3> QED
      BY <1>1, <1>2, <3>1, CalmHoused
  <2>4. CASE waiting # {}
    <3>1. First(waiting) \in waiting
      <4>1. waiting \in SUBSET Nat
        BY <2>1, WifiAssumption DEF Socks
      <4> QED
        BY <2>4, <4>1, FirstFound
    <3>2. PICK t \in Socks : t = First(waiting) /\ sockets[t].state = "WAITING_ACCEPT"
      BY <2>1, <3>1
    <3>3. server.id = s /\ sockets[s].state = "LISTENING"
      BY <1>6 DEF Accept
    <3>4. InUse(t) /\ t # server.id /\ work' = <<<<"accept", t>>>>
      BY <2>2, <2>4, <3>2, <3>3 DEF InUse
    <3> QED
      BY <1>3, <3>4
  <2> QED
    BY <2>3, <2>4
<1> QED
  BY <1>4, <1>5, <1>6

\* wifi_socket_close, called by the application.
LEMMA CloseCallHoused ==
    ASSUME Sane, Housed, NEW s \in Socks, Close(s)
    PROVE  Housed'
<1>1. /\ UNCHANGED <<sockets, map, server, live, handles, flaws>> /\ work = <<>> /\ cmd' = <<>>
      /\ work' = <<<<"close", s>>, <<"handle", s>>>>
  BY DEF Close, wifi, Begin, Idle
<1>2. PICK x \in Task : x = <<"close", s>> /\ x[1] = "close" /\ x[2] = s
  BY TaskIs DEF JobNames
<1>3. PICK y \in Task : y = <<"handle", s>> /\ y[1] = "handle" /\ y[2] = s
  BY TaskIs DEF JobNames
<1>4. PICK J \in Seq(Task) : /\ J = <<x, y>> /\ Len(J) = 2 /\ J[1] = x /\ J[2] = y
                             /\ J # <<>> /\ \A k \in 1..Len(J) : k \in {1, 2}
  BY PairJobs, ZenonT(60)
<1>5. work' = J /\ Head(J) = x
  BY ONLY <1>1, <1>2, <1>3, <1>4
<1>6. Shape'
  <2>1. \A k \in 1..Len(J) : k > 1 => k = 2 /\ J[k - 1] = x /\ J[k] = y
    BY ONLY <1>4
  <2>2. Follows(x, y)
    BY <1>2, <1>3 DEF Follows, LastJobs, SoloJobs, FrontJobs
  <2>3. \A j, k \in 1..Len(J) : j < k => J[j] = x /\ J[k] = y
    BY ONLY <1>4
  <2>4. Order(x, y)'
    BY <1>2, <1>3 DEF Order
  <2>5. \A k \in 1..Len(work') : k > 1 => Follows(work'[k - 1], work'[k])
    BY <1>5, <2>1, <2>2
  <2>6. \A j, k \in 1..Len(work') : j < k => Order(work[j], work[k])'
    BY <1>5, <2>3, <2>4
  <2> QED
    BY <1>1, <2>5, <2>6 DEF Shape
<1>7. Standing'
  <2>1. Stands(x)' /\ Stands(y)' /\ Turn(x)'
    BY <1>2, <1>3 DEF Stands, Turn
  <2>2. \A k \in 1..Len(work') : Stands(work[k])'
    BY <1>4, <1>5, <2>1
  <2>3. Turn(Head(work))'
    BY <1>5, <2>1
  <2> QED
    BY <2>2, <2>3 DEF Standing
<1>8. ~Left("free")'
  BY <1>2, <1>3, <1>4, <1>5 DEF Left
<1>9. ASSUME NEW t \in Socks, NEW a \in Linking \cup {"unserve", "listening"}, Doing(a, t)' PROVE FALSE
  <2>1. x = <<a, t>>
    BY <1>5, <1>9 DEF Doing
  <2> QED
    BY ONLY <1>2, <2>1, a \in Linking \cup {"unserve", "listening"} DEF Linking
<1> QED
  BY <1>1, <1>6, <1>7, <1>8, <1>9, BegunHoused

\* wifi_remove closes all sockets, one after the other.
LEMMA RemoveHoused ==
    ASSUME Sane, Housed, WifiRemove
    PROVE  Housed'
<1>1. /\ UNCHANGED <<sockets, map, server, live, handles, flaws>> /\ work = <<>> /\ cmd' = <<>>
      /\ work' = [k \in 1..Cardinality(Socks) |-> <<"close", k - 1>>] \o <<<<"quit", 0>>>>
  BY DEF WifiRemove, wifi, Begin, Idle
<1>2. PICK J \in Seq(Task) : /\ work' = J /\ \A k \in 1..Len(J) : J[k][1] \in {"close", "quit"}
                             /\ \A k \in 1..Len(J) : k < Len(J) => J[k][1] = "close"
  BY <1>1, RemoveJobs
<1>3. PICK m \in Nat : m = Len(J)
  OBVIOUS
<1>4. \A k \in 1..m : J[k] \in Task
  BY <1>3
<1>5. \A a, b \in Task : a[1] \in {"close", "quit"} /\ b[1] \in {"close", "quit"} => Order(a, b)'
  BY DEF Order
<1>6. \A a, b \in Task : a[1] = "close" /\ b[1] \in {"close", "quit"} => Follows(a, b)
  BY DEF Follows, LastJobs, SoloJobs, FrontJobs
<1>7. Shape'
  <2>1. ASSUME NEW k \in 1..m, k > 1 PROVE Follows(J[k - 1], J[k])
    <3>1. k - 1 \in 1..m /\ k - 1 < m
      BY ONLY <2>1, k \in 1..m, m \in Nat
    <3>2. J[k - 1][1] = "close" /\ J[k - 1] \in Task
      BY <1>2, <1>3, <1>4, <3>1
    <3> QED
      BY <1>2, <1>3, <1>4, <1>6, <3>2
  <2>2. \A k \in 1..Len(work') : k > 1 => Follows(work'[k - 1], work'[k])
    BY <1>2, <1>3, <2>1
  <2>3. \A j, k \in 1..Len(work') : j < k => Order(work[j], work[k])'
    BY <1>2, <1>3, <1>4, <1>5
  <2> QED
    BY <1>1, <2>2, <2>3 DEF Shape
<1>8. \A a \in Task : a[1] \in {"close", "quit"} => Stands(a)' /\ Turn(a)'
  BY DEF Stands, Turn
<1>9. work' # <<>> => Head(work') \in Task /\ Head(work')[1] \in {"close", "quit"}
  BY <1>2
<1>10. Standing'
  <2>1. \A k \in 1..Len(work') : Stands(work[k])'
    BY <1>2, <1>3, <1>4, <1>8
  <2>2. work' # <<>> => Turn(Head(work))'
    BY <1>8, <1>9
  <2> QED
    BY <2>1, <2>2 DEF Standing
<1>11. ~Left("free")'
  BY <1>2 DEF Left
<1>12. ASSUME NEW t \in Socks, NEW a \in Linking \cup {"unserve", "listening"}, Doing(a, t)' PROVE FALSE
  <2>1. work' # <<>> /\ Head(work') = <<a, t>>
    BY <1>12 DEF Doing
  <2>2. Head(work')[1] = a
    BY ONLY <2>1
  <2> QED
    BY ONLY <1>9, <2>1, <2>2, a \in Linking \cup {"unserve", "listening"} DEF Linking
<1> QED
  BY <1>1, <1>7, <1>10, <1>11, <1>12, BegunHoused

\* wifi_socket_connect looks for a connection number.
LEMMA ConnectHoused ==
    ASSUME Sane, Housed, NEW s \in Socks, Connect(s)
    PROVE  Housed'
<1>0. "freed twice" \notin flaws /\ Linked
  BY DEF Housed, Buffers
<1>1. UNCHANGED <<sockets, map, server, live, handles, flaws>> /\ work = <<>> /\ cmd' = <<>>
  BY DEF Connect, Begin, Idle, wifi
<1>2. CASE work' = work
  BY <1>0, <1>1, <1>2, CalmHoused
<1>3. CASE s # server.id /\ sockets[s].state # "UNUSED" /\ work' = <<<<"claim", s>>>>
  <2>1. PICK x \in Task : x = <<"claim", s>> /\ x[1] = "claim" /\ x[2] = s
    BY TaskIs DEF JobNames
  <2>2. work' = <<x>>
    BY <1>3, <2>1
  <2>3. Stands(x)' /\ Turn(x)' /\ x[1] \notin {"free", "noserver", "unserve", "listening"}
    BY <1>1, <1>3, <2>1 DEF Stands, Turn, InUse
  <2>4. Linked'
    <3>1. \A t \in Socks : Mapped(t)' => Mapped(t) /\ sockets'[t].state = sockets[t].state
      BY <1>1 DEF Mapped
    <3> QED
      BY <1>0, <1>1, <3>1, LinkedKept DEF Linking
  <2>5. \A t \in Socks : Mild(t)
    BY <1>1 DEF Mild
  <2> QED
    BY <1>0, <1>1, <2>2, <2>3, <2>4, <2>5, OneHoused
<1> QED
  BY <1>2, <1>3 DEF Connect

\* What a call with no job leaves behind.
LEMMA IdleHoused ==
    ASSUME Housed, work = <<>>, work' = <<>>, cmd' = <<>>, "freed twice" \notin flaws', Linked', ServerHeld',
           \A j, k \in 1..Len(server'.clients) : j < k => server'.clients[j] < server'.clients[k],
           \A t \in Socks : Backlog(t)' => sockets'[t].cb # NULL,
           \A t \in Socks : Holder(t)' => sockets'[t].cb \in live' \cup {NULL},
           \A t, u \in Socks : Holder(t)' /\ Holder(u)' /\ sockets'[t].cb = sockets'[u].cb
                                  => t = u \/ sockets'[t].cb = NULL
    PROVE  Housed'
<1>1. /\ Shape' /\ Standing' /\ \A a, t : ~Left(a)' /\ ~Waits(a, t)' /\ ~Doing(a, t)'
  BY EmptyWork
<1>2. Backlogged'
  BY <1>1 DEF Backlogged
<1>3. Buffers'
  BY DEF Buffers, Holder, Sound
<1> QED
  BY <1>1, <1>2, <1>3 DEF Housed

\* A socket in use has a buffer, or none.
LEMMA HeldBuffers ==
    ASSUME Housed, work = <<>>
    PROVE  /\ \A t \in Socks : Holder(t) => sockets[t].cb \in live \cup {NULL}
           /\ \A t, u \in Socks : Holder(t) /\ Holder(u) /\ sockets[t].cb = sockets[u].cb
                                     => t = u \/ sockets[t].cb = NULL
           /\ \A t \in Socks : Backlog(t) => sockets[t].cb # NULL
           /\ \A t \in Socks : Mapped(t) => sockets[t].state \in {"CONNECTED", "WAITING_ACCEPT"}
<1>1. \A t \in Socks : ~Freed(t) /\ \A a : ~Doing(a, t)
  BY IdleNone
<1>2. Buffers /\ Backlogged /\ Linked
  BY DEF Housed
<1>3. \A t \in Socks : Holder(t) => sockets[t].cb \in live \cup {NULL}
  BY <1>1, <1>2 DEF Buffers, Holder
<1>4. \A t \in Socks : Mapped(t) => sockets[t].state \in {"CONNECTED", "WAITING_ACCEPT"}
  BY <1>1, <1>2 DEF Linked
<1> QED
  BY <1>2, <1>3, <1>4 DEF Buffers, Backlogged

\* What the idle sockets' buffers are sound for.
LEMMA IdleSound ==
    ASSUME work = <<>>, NEW t \in Socks
    PROVE  Sound(t) <=> /\ Backlog(t)
                        /\ \/ /\ ~Backlog(server.id)
                              /\ \E s \in Socks : server.id = s /\ sockets[s].state = "LISTENING"
                           \/ \E u \in Socks : Backlog(u) /\ InUse(u) /\ sockets[u].cb \in live /\ t < u
<1>1. ~Left("free") /\ ~Left("noserver") /\ \A s \in Socks : \A a : ~Doing(a, s)
  BY IdleNone
<1>2. ~Waits("free", t)
  <2>1. 1..Len(work) = {}
    BY ONLY work = <<>>, EmptySeq
  <2> QED
    BY <2>1 DEF Waits
<1>3. Offering <=> /\ ~Backlog(server.id)
                   /\ \E s \in Socks : server.id = s /\ sockets[s].state = "LISTENING"
  BY <1>1 DEF Offering
<1> QED
  BY <1>1, <1>2, <1>3 DEF Sound

LEMMA IdleSoundNext ==
    ASSUME work' = <<>>, cmd' = <<>>, NEW t \in Socks, Sound(t)'
    PROVE  /\ Backlog(t)'
           /\ \/ /\ ~Backlog(server.id)'
                 /\ \E s \in Socks : server'.id = s /\ sockets'[s].state = "LISTENING"
              \/ \E u \in Socks : Backlog(u)' /\ InUse(u)' /\ sockets'[u].cb \in live' /\ t < u
<1>1. \A a, s : ~Left(a)' /\ ~Waits(a, s)' /\ ~Doing(a, s)'
  BY EmptyWork
<1>2. Offering' => /\ ~Backlog(server.id)'
                   /\ \E s \in Socks : server'.id = s /\ sockets'[s].state = "LISTENING"
  BY <1>1 DEF Offering
<1> QED
  BY <1>1, <1>2 DEF Sound

\* wifi_socket_bind makes a socket the server.
LEMMA BindHoused ==
    ASSUME Sane, Housed, NEW s \in Socks, handles[s] > 0, Bind(s), Clean'
    PROVE  Housed'
<1>0. /\ "freed twice" \notin flaws /\ server \in Server /\ WifiTypes
  BY DEF Housed, Buffers, Sane, WifiTypes
<1>1. /\ UNCHANGED <<sockets, map, live, handles, work, cmd>> /\ work = <<>> /\ cmd = <<>>
      /\ server' = [server EXCEPT !.id = s] /\ sockets[s].state # "UNUSED" /\ server.id = INVALID_ID
      /\ flaws' = IF sockets[s].state # "DISCONNECTED" THEN flaws \cup {"twice"} ELSE flaws
  BY DEF Bind, app, Begin, Idle, Flaw
<1>2. sockets[s].state = "DISCONNECTED" /\ flaws' = flaws
  BY <1>1 DEF Clean, None
<1>3. server'.id = s /\ server'.clients = server.clients
  BY <1>0, <1>1 DEF Server
<1>4. /\ \A t \in Socks : Holder(t) => sockets[t].cb \in live \cup {NULL}
      /\ \A t, u \in Socks : Holder(t) /\ Holder(u) /\ sockets[t].cb = sockets[u].cb
                                => t = u \/ sockets[t].cb = NULL
      /\ \A t \in Socks : Backlog(t) => sockets[t].cb # NULL
      /\ \A t \in Socks : Mapped(t) => sockets[t].state \in {"CONNECTED", "WAITING_ACCEPT"}
  BY <1>1, HeldBuffers
<1>5. \A t \in Socks : (InUse(t)' <=> InUse(t)) /\ (Backlog(t)' <=> Backlog(t))
  BY <1>1, <1>3 DEF InUse, Backlog
<1>6. ASSUME NEW t \in Socks, Sound(t)' PROVE Sound(t)
  <2>1. /\ Backlog(t)'
        /\ \/ \E v \in Socks : server'.id = v /\ sockets'[v].state = "LISTENING"
           \/ \E u \in Socks : Backlog(u)' /\ InUse(u)' /\ sockets'[u].cb \in live' /\ t < u
    BY <1>1, <1>6, IdleSoundNext
  <2>2. Backlog(t) /\ \E u \in Socks : Backlog(u) /\ InUse(u) /\ sockets[u].cb \in live /\ t < u
    BY <1>1, <1>2, <1>3, <1>5, <2>1
  <2> QED
    BY <1>1, <2>2, IdleSound
<1>7. \A t \in Socks : Holder(t)' => Holder(t)
  BY <1>5, <1>6 DEF Holder
<1>8. Linked'
  <2>1. \A t \in Socks : Mapped(t)' => Mapped(t) /\ sockets'[t].state = sockets[t].state
    BY <1>1 DEF Mapped
  <2> QED
    BY <1>4, <2>1 DEF Linked
<1>9. ServerHeld'
  BY <1>1, <1>2, <1>3 DEF ServerHeld
<1>10. \A j, k \in 1..Len(server'.clients) : j < k => server'.clients[j] < server'.clients[k]
  BY <1>3 DEF Housed, Backlogged
<1> QED
  BY <1>0, <1>1, <1>2, <1>4, <1>5, <1>7, <1>8, <1>9, <1>10, IdleHoused

\* A new socket, with a new buffer.
LEMMA OpenHoused ==
    ASSUME Sane, Housed, Open
    PROVE  Housed'
<1>0. /\ "freed twice" \notin flaws /\ server \in Server /\ WifiTypes
      /\ handles \in [Socks -> Nat] /\ live \subseteq 1..Memory
  BY DEF Housed, Buffers, Sane, WifiTypes
<1>1. UNCHANGED <<map, server, work, cmd, flaws>> /\ work = <<>> /\ cmd = <<>>
  BY DEF Open, Begin, Idle
<1>2. CASE UNCHANGED <<sockets, live, handles>>
  BY <1>0, <1>1, <1>2, CalmHoused
<1>3. CASE ~UNCHANGED <<sockets, live, handles>>
  <2>1. PICK unused : unused = {s \in Socks : sockets[s].state = "UNUSED"}
    OBVIOUS
  <2>2. ~(unused = {} \/ FreeBufs = {})
    BY <1>3, <2>1 DEF Open
  <2>3. unused \in SUBSET Nat /\ FreeBufs \in SUBSET Nat
    BY <2>1, WifiAssumption DEF Socks, FreeBufs
  <2>4. PICK s, b : /\ s = First(unused) /\ b = First(FreeBufs) /\ s \in unused /\ b \in FreeBufs
                    /\ \A t \in unused : s <= t
    BY <2>2, <2>3, FirstFound
  <2>5. /\ sockets' = [sockets EXCEPT ![s].state = "DISCONNECTED", ![s].cb = b]
        /\ live' = live \cup {b} /\ handles' = [handles EXCEPT ![s] = @ + 1]
    BY <2>1, <2>2, <2>4 DEF Open
  <2>6. /\ s \in Socks /\ sockets[s].state = "UNUSED"
        /\ b \notin live /\ b # NULL /\ \A t \in Socks : t < s => InUse(t)
    <3>1. s \in Socks /\ sockets[s].state = "UNUSED"
      BY <2>1, <2>4
    <3>2. b \notin live /\ b # NULL
      BY <2>4 DEF FreeBufs, NULL
    <3>3. \A t \in Socks : t \in Nat
      BY WifiAssumption DEF Socks
    <3>4. ASSUME NEW t \in Socks, t < s, ~InUse(t) PROVE FALSE
      <4>1. t \in unused
        BY <2>1, <3>4 DEF InUse
      <4> QED
        BY ONLY <2>4, <3>1, <3>3, <3>4, <4>1
    <3> QED
      BY <3>1, <3>2, <3>4
  <2>7. \A t \in Socks : /\ sockets'[t].state = IF t = s THEN "DISCONNECTED" ELSE sockets[t].state
                         /\ sockets'[t].cb = IF t = s THEN b ELSE sockets[t].cb
    BY <1>0, <2>5, <2>6 DEF WifiTypes, Socket
  <2>8. /\ \A t \in Socks : Holder(t) => sockets[t].cb \in live \cup {NULL}
        /\ \A t, u \in Socks : Holder(t) /\ Holder(u) /\ sockets[t].cb = sockets[u].cb
                                  => t = u \/ sockets[t].cb = NULL
        /\ \A t \in Socks : Backlog(t) => sockets[t].cb # NULL
        /\ \A t \in Socks : Mapped(t) => sockets[t].state \in {"CONNECTED", "WAITING_ACCEPT"}
    BY <1>1, HeldBuffers
  <2>9. \A t \in Socks : (InUse(t)' <=> InUse(t) \/ t = s) /\ (Backlog(t)' <=> Backlog(t))
    BY <1>1, <2>7 DEF InUse, Backlog
  <2>10. ASSUME NEW t \in Socks, Sound(t)', t # s PROVE Holder(t)
    <3>1. /\ Backlog(t)'
          /\ \/ /\ ~Backlog(server.id)'
                /\ \E v \in Socks : server'.id = v /\ sockets'[v].state = "LISTENING"
             \/ \E u \in Socks : Backlog(u)' /\ InUse(u)' /\ sockets'[u].cb \in live' /\ t < u
      BY <1>1, <2>10, IdleSoundNext
    <3>2. Backlog(t)
      BY <2>9, <3>1
    <3>3. CASE ~Backlog(server.id)' /\ \E v \in Socks : server'.id = v /\ sockets'[v].state = "LISTENING"
      <4>1. ~Backlog(server.id) /\ \E v \in Socks : server.id = v /\ sockets[v].state = "LISTENING"
        BY <1>1, <2>7, <3>3 DEF Backlog
      <4>2. Sound(t)
        BY <1>1, <3>2, <4>1, IdleSound
      <4> QED
        BY <4>2 DEF Holder
    <3>4. ASSUME NEW u \in Socks, Backlog(u)', InUse(u)', sockets'[u].cb \in live', t < u PROVE Holder(t)
      <4>1. CASE u = s
        BY <2>6, <3>4, <4>1 DEF Holder
      <4>2. CASE u # s
        <5>1. Backlog(u) /\ InUse(u) /\ Holder(u)
          BY <2>9, <3>4, <4>2 DEF Holder
        <5>2. sockets[u].cb \in live
          BY <2>8, <5>1
        <5>3. Sound(t)
          BY <1>1, <3>2, <3>4, <5>1, <5>2, IdleSound
        <5> QED
          BY <5>3 DEF Holder
      <4> QED
        BY <4>1, <4>2
    <3> QED
      BY <3>1, <3>3, <3>4
  <2>11. \A t \in Socks : Holder(t)' => Holder(t) \/ t = s
    BY <2>9, <2>10 DEF Holder
  <2>12. \A t \in Socks : Holder(t)' => sockets'[t].cb \in live' \cup {NULL}
    <3>1. sockets'[s].cb = b /\ b \in live' /\ live \subseteq live'
      BY <2>5, <2>6, <2>7
    <3>2. ASSUME NEW t \in Socks, t # s, Holder(t)' PROVE sockets'[t].cb \in live' \cup {NULL}
      <4>1. sockets'[t].cb = sockets[t].cb /\ Holder(t)
        BY <2>7, <2>11, <3>2
      <4>2. sockets[t].cb \in live \cup {NULL}
        BY <2>8, <4>1
      <4> QED
        BY ONLY <3>1, <4>1, <4>2
    <3> QED
      BY ONLY <3>1, <3>2
  <2>13. \A t, u \in Socks : Holder(t)' /\ Holder(u)' /\ sockets'[t].cb = sockets'[u].cb
                                => t = u \/ sockets'[t].cb = NULL
    BY <2>6, <2>7, <2>8, <2>11
  <2>14. \A t \in Socks : Backlog(t)' => sockets'[t].cb # NULL
    BY <2>6, <2>7, <2>8, <2>9
  <2>15. Linked'
    <3>1. \A t \in Socks : Mapped(t)' => Mapped(t) /\ t # s
      BY <1>1, <2>6, <2>8 DEF Mapped
    <3> QED
      BY <2>7, <2>8, <3>1 DEF Linked
  <2>16. \A t \in Socks : (handles[t] > 0 => handles'[t] > 0) /\ handles'[s] > 0
    <3>1. PICK n \in Nat : n = handles[s]
      BY <1>0, <2>6
    <3>2. \A t \in Socks : handles'[t] = IF t = s THEN n + 1 ELSE handles[t]
      BY <1>0, <2>5, <2>6, <3>1
    <3>3. n + 1 > 0
      BY ONLY n \in Nat
    <3> QED
      BY ONLY <2>6, <3>2, <3>3
  <2>17. ServerHeld'
    <3>1. ServerHeld
      BY DEF Housed
    <3> QED
      BY <1>1, <2>7, <2>9, <2>16, <3>1 DEF ServerHeld
  <2>18. \A j, k \in 1..Len(server'.clients) : j < k => server'.clients[j] < server'.clients[k]
    BY <1>1, SMTT(30) DEF Housed, Backlogged
  <2> QED
    BY <1>0, <1>1, <2>12, <2>13, <2>14, <2>15, <2>17, <2>18, IdleHoused
<1> QED
  BY <1>2, <1>3

\* The buffers of the backlog are allocated, each for its own socket.
LEMMA TakenBuffers ==
    ASSUME Sane, NEW s \in Socks, sockets[s].cb \in live \cup {NULL}, NEW m \in Nat, NEW f \in Nat, NEW o \in {0, 1},
           NEW q \in Seq(Socks), NEW p \in [1..f -> FreeBufs], Takes(s, m, f, o, q, p)
    PROVE  /\ \A k \in 1..m : /\ q[k] \in Socks /\ sockets[q[k]].state = "UNUSED"
                              /\ sockets'[q[k]].state = "DISCONNECTED"
                              /\ sockets'[q[k]].cb \in live' /\ sockets'[q[k]].cb # NULL
                              /\ sockets'[q[k]].cb \in live => sockets'[q[k]].cb = sockets[s].cb
           /\ \A j, k \in 1..m : sockets'[q[j]].cb = sockets'[q[k]].cb => j = k
           /\ live \subseteq live'
<1>0. /\ sockets \in [Socks -> Socket] /\ Len(q) = m /\ Rising(p, f) /\ 2*m - o <= f
      /\ o = 1 <=> sockets[s].cb # NULL
      /\ live' = live \cup {p[k] : k \in 1..(2*m - o)}
  BY DEF Sane, WifiTypes, Takes
<1>1. \A k \in 1..m : q[k] \in Socks
  BY <1>0
<1> DEFINE b(k) == IF k = 1 /\ o = 1 THEN sockets[s].cb ELSE p[2*k - o]
<1>2. \A k \in 1..m : /\ sockets[q[k]].state = "UNUSED"
                      /\ sockets'[q[k]] = [sockets[q[k]] EXCEPT !.state = "DISCONNECTED", !.cb = b(k)]
  BY DEF Takes
<1> HIDE DEF b
<1>3. \A k \in 1..m : sockets'[q[k]].state = "DISCONNECTED" /\ sockets'[q[k]].cb = b(k)
  <2>1. \A k \in 1..m : sockets[q[k]] \in Socket
    BY <1>0, <1>1
  <2> QED
    BY ONLY <1>2, <2>1 DEF Socket
<1>4. ASSUME NEW k \in 1..m, ~(k = 1 /\ o = 1)
      PROVE  2*k - o \in 1..f /\ 2*k - o \in 1..(2*m - o)
  <2>1. CASE o = 0
    BY ONLY <1>0, <1>4, <2>1, k \in 1..m, m \in Nat, f \in Nat, SMTT(30)
  <2>2. CASE o = 1
    <3>1. k > 1
      BY ONLY <1>4, <2>2, k \in 1..m, m \in Nat
    <3> QED
      BY ONLY <1>0, <2>2, <3>1, k \in 1..m, m \in Nat, f \in Nat, SMTT(30)
  <2> QED
    BY ONLY <2>1, <2>2, o \in {0, 1}
<1>5. ASSUME NEW k \in 1..m, ~(k = 1 /\ o = 1)
      PROVE  b(k) = p[2*k - o] /\ b(k) \in live' /\ b(k) \notin live /\ b(k) # NULL
  <2>1. PICK i \in 1..f : i = 2*k - o /\ i \in 1..(2*m - o)
    BY <1>4, <1>5
  <2>2. b(k) = p[i] /\ p[i] \in FreeBufs
    BY <1>5, <2>1 DEF b
  <2>3. p[i] \in live'
    BY ONLY <1>0, <2>1
  <2>4. p[i] \notin live /\ p[i] # NULL
    BY <2>2 DEF FreeBufs, NULL
  <2> QED
    BY ONLY <2>1, <2>2, <2>3, <2>4
<1>6. o = 1 => b(1) = sockets[s].cb /\ b(1) # NULL /\ b(1) \in live /\ b(1) \in live'
  BY <1>0 DEF b
<1>7. ASSUME NEW k \in 1..m
      PROVE  b(k) \in live' /\ b(k) # NULL /\ (b(k) \in live => b(k) = sockets[s].cb)
  BY <1>5, <1>6
<1>8. ASSUME NEW j \in 1..m, NEW k \in 1..m, b(j) = b(k), j < k PROVE FALSE
  <2>1. k # 1
    BY ONLY <1>8, j \in 1..m, k \in 1..m, m \in Nat
  <2>2. b(k) = p[2*k - o] /\ b(k) \notin live
    BY <1>5, <2>1
  <2>3. ~(j = 1 /\ o = 1)
    BY ONLY <1>6, <1>8, <2>2
  <2>4. b(j) = p[2*j - o]
    BY <1>5, <2>3
  <2>5. 2*j - o \in 1..f /\ 2*k - o \in 1..f /\ 2*j - o < 2*k - o
    <3>1. 2*j - o \in 1..f /\ 2*k - o \in 1..f
      BY <1>4, <2>1, <2>3
    <3> QED
      BY ONLY <1>8, <3>1, j \in 1..m, k \in 1..m, m \in Nat, o \in {0, 1}
  <2>6. p[2*j - o] < p[2*k - o]
    BY <1>0, <2>5 DEF Rising
  <2>7. p[2*j - o] \in Nat
    <3>1. p[2*j - o] \in FreeBufs
      BY <2>5
    <3> QED
      BY <3>1 DEF FreeBufs
  <2> QED
    BY ONLY <1>8, <2>2, <2>4, <2>6, <2>7
<1>9. ASSUME NEW j \in 1..m, NEW k \in 1..m, b(j) = b(k) PROVE j = k
  <2>1. ~(j < k) /\ ~(k < j)
    BY <1>8, <1>9
  <2> QED
    BY ONLY <2>1, j \in 1..m, k \in 1..m, m \in Nat
<1>10. live \subseteq live'
  BY ONLY <1>0
<1>11. \A k \in 1..m : /\ sockets'[q[k]].cb \in live' /\ sockets'[q[k]].cb # NULL
                       /\ sockets'[q[k]].cb \in live => sockets'[q[k]].cb = sockets[s].cb
  BY ONLY <1>3, <1>7
<1>12. \A j, k \in 1..m : sockets'[q[j]].cb = sockets'[q[k]].cb => j = k
  BY ONLY <1>3, <1>9
<1> QED
  BY <1>1, <1>2, <1>3, <1>10, <1>11, <1>12

\* wifi_socket_listen moves the buffer of the server to the first socket of its backlog.
LEMMA ListenHoused ==
    ASSUME Sane, Serving, Housed, NEW s \in Socks, NEW back_log \in BackLogs, Listen(s, back_log), Clean'
    PROVE  Housed'
<1>0. /\ WifiTypes /\ "freed twice" \notin flaws /\ server \in Server /\ ServerHeld /\ sockets \in [Socks -> Socket]
  BY ZenonT(60) DEF Sane, Housed, Buffers, WifiTypes
<1>1. /\ work = <<>> /\ cmd = <<>> /\ server.id = s /\ UNCHANGED <<map, handles>>
      /\ sockets[s].state = "DISCONNECTED" /\ flaws' = flaws
  <2>1. sockets[s].state # "DISCONNECTED" => "twice" \in flaws'
    BY DEF Listen, Flaw
  <2>2. sockets[s].state = "DISCONNECTED"
    BY <2>1 DEF Clean, None
  <2> QED
    BY <2>2, ZenonT(60) DEF Listen, Flaw, Begin, Idle
<1>2. /\ \A t \in Socks : Holder(t) => sockets[t].cb \in live \cup {NULL}
      /\ \A t, u \in Socks : Holder(t) /\ Holder(u) /\ sockets[t].cb = sockets[u].cb
                                => t = u \/ sockets[t].cb = NULL
      /\ \A t \in Socks : Mapped(t) => sockets[t].state \in {"CONNECTED", "WAITING_ACCEPT"}
  BY <1>1, HeldBuffers
<1>3. InUse(s) /\ Holder(s) /\ handles[s] > 0 /\ sockets[s].cb \in live \cup {NULL}
  <2>1. InUse(s) /\ Holder(s)
    BY <1>1 DEF InUse, Holder
  <2> QED
    BY <1>0, <1>1, <1>2, <2>1 DEF ServerHeld
<1>4. PICK m \in Nat, f \in Nat, o \in {0, 1} : \E q \in Seq(Socks), p \in [1..f -> FreeBufs] :
              Takes(s, m, f, o, q, p)
  BY ListenTakes
<1>5. PICK q \in Seq(Socks), p \in [1..f -> FreeBufs] : Takes(s, m, f, o, q, p)
  BY <1>4
<1>6. /\ \A k \in 1..m : /\ q[k] \in Socks /\ sockets[q[k]].state = "UNUSED"
                         /\ sockets'[q[k]].state = "DISCONNECTED"
                         /\ sockets'[q[k]].cb \in live' /\ sockets'[q[k]].cb # NULL
                         /\ sockets'[q[k]].cb \in live => sockets'[q[k]].cb = sockets[s].cb
      /\ \A j, k \in 1..m : sockets'[q[j]].cb = sockets'[q[k]].cb => j = k
      /\ live \subseteq live'
  BY <1>3, <1>5, TakenBuffers
<1>7. /\ Len(q) = m /\ server'.clients = q /\ server'.id = s
      /\ \A j, k \in 1..m : j < k => q[j] < q[k]
      /\ \/ Run(<<"SERVER", TRUE>>) /\ work' = <<<<"listening", s>>>>
         \/ work' = [k \in 1..m |-> <<"free", q[k]>>] /\ UNCHANGED <<cmd, todo>>
  <2>1. Len(q) = m /\ Rising(q, m) /\ server' = [server EXCEPT !.clients = q]
    BY <1>5 DEF Takes
  <2>2. server'.clients = q /\ server'.id = s
    BY <1>0, <1>1, <2>1 DEF Server
  <2>3. \/ Run(<<"SERVER", TRUE>>) /\ work' = <<<<"listening", s>>>>
        \/ work' = [k \in 1..m |-> <<"free", q[k]>>] /\ UNCHANGED <<cmd, todo>>
    BY <1>5, Zenon DEF Takes
  <2> QED
    BY <2>1, <2>2, <2>3 DEF Rising
<1>8. \A t \in Socks : Backlog(t)' <=> \E k \in 1..m : q[k] = t
  BY <1>7 DEF Backlog, Contains
<1>9. ASSUME NEW t \in Socks, ~Backlog(t)'
      PROVE  /\ sockets'[t].state = sockets[t].state
             /\ sockets'[t].cb = IF t = s /\ m > 0 THEN NULL ELSE sockets[t].cb
  <2>1. sockets'[t] = IF t = s /\ m > 0 THEN [sockets[t] EXCEPT !.cb = NULL] ELSE sockets[t]
    BY <1>5, <1>8, <1>9 DEF Takes
  <2>2. sockets[t] \in Socket
    BY <1>0
  <2> QED
    BY ONLY <2>1, <2>2 DEF Socket
<1>10. ASSUME NEW t \in Socks, Backlog(t)'
       PROVE  /\ sockets[t].state = "UNUSED" /\ sockets'[t].state = "DISCONNECTED" /\ t # s /\ m > 0
              /\ sockets'[t].cb \in live' /\ sockets'[t].cb # NULL
              /\ sockets'[t].cb \in live => sockets'[t].cb = sockets[s].cb
  <2>1. PICK k \in 1..m : q[k] = t
    BY <1>8, <1>10
  <2>2. m > 0
    BY ONLY k \in 1..m, m \in Nat
  <2> QED
    BY <1>1, <1>6, <2>1, <2>2
<1>11. ~Backlog(s)' /\ ~Backlog(server.id)' /\ server'.id = s
  <2>1. ~Backlog(s)'
    BY <1>10
  <2> QED
    BY <1>7, <2>1 DEF Backlog
<1>12. \A t \in Socks : InUse(t)' <=> InUse(t) \/ Backlog(t)'
  BY <1>9, <1>10 DEF InUse
<1>13. \A t \in Socks : sockets'[t].state # "LISTENING"
  <2>1. \A t \in Socks : sockets[t].state # "LISTENING"
    BY <1>1 DEF Serving
  <2> QED
    BY <1>9, <1>10, <2>1
<1>14. Linked'
  <2>1. ASSUME NEW t \in Socks, Mapped(t)' PROVE sockets'[t].state \in {"CONNECTED", "WAITING_ACCEPT"}
    <3>1. Mapped(t)
      BY <1>1, <2>1 DEF Mapped
    <3>2. sockets[t].state \in {"CONNECTED", "WAITING_ACCEPT"}
      BY <1>2, <3>1
    <3> QED
      BY <1>9, <1>10, <3>2
  <2> QED
    BY <2>1 DEF Linked
<1>15. sockets'[s].state = "DISCONNECTED" /\ handles'[s] > 0
  BY <1>1, <1>3, <1>9, <1>11
<1>16. ServerHeld'
  BY <1>11, <1>15 DEF ServerHeld
<1>17. Buffers'
  <2>1. \A t \in Socks : Holder(t)' <=> InUse(t)'
    <3>1. \A t \in Socks : Sound(t)' => Backlog(t)'
      BY DEF Sound
    <3> QED
      BY <1>12, <3>1 DEF Holder
  <2>2. ASSUME NEW t \in Socks, InUse(t)', ~Backlog(t)'
        PROVE  Holder(t) /\ (t = s /\ m > 0 => sockets'[t].cb = NULL) /\ (t # s \/ ~(m > 0) => sockets'[t].cb = sockets[t].cb)
    BY <1>9, <1>12, <2>2 DEF Holder
  <2>3. ASSUME NEW t \in Socks, InUse(t)' PROVE sockets'[t].cb \in live' \cup {NULL}
    <3>1. CASE Backlog(t)'
      BY <1>10, <3>1
    <3>2. CASE ~Backlog(t)'
      <4>1. Holder(t) /\ sockets'[t].cb \in {NULL, sockets[t].cb}
        BY <2>2, <2>3, <3>2
      <4>2. sockets[t].cb \in live \cup {NULL}
        BY <1>2, <4>1
      <4> QED
        BY ONLY <1>6, <4>1, <4>2
    <3> QED
      BY <3>1, <3>2
  <2>4. \A t \in Socks : Sound(t)' => sockets'[t].cb \in live'
    <3>1. \A t \in Socks : Sound(t)' => Backlog(t)'
      BY DEF Sound
    <3> QED
      BY <1>10, <3>1
  <2>5. ASSUME NEW t \in Socks, NEW u \in Socks, Backlog(t)', ~Backlog(u)', InUse(u)',
               sockets'[t].cb = sockets'[u].cb
        PROVE  FALSE
    <3>1. /\ m > 0 /\ sockets'[t].cb # NULL /\ (sockets'[t].cb \in live => sockets'[t].cb = sockets[s].cb)
      BY <1>10, <2>5
    <3>2. Holder(u) /\ u # s /\ sockets'[u].cb = sockets[u].cb
      BY <2>2, <2>5, <3>1
    <3>3. sockets[u].cb \in live \cup {NULL}
      BY <1>2, <3>2
    <3>4. sockets[u].cb = sockets[s].cb /\ sockets[u].cb # NULL
      BY ONLY <2>5, <3>1, <3>2, <3>3
    <3> QED
      BY <1>2, <1>3, <3>2, <3>4
  <2>6. ASSUME NEW t \in Socks, NEW u \in Socks, Backlog(t)', Backlog(u)', sockets'[t].cb = sockets'[u].cb
        PROVE  t = u
    <3>1. PICK j \in 1..m : q[j] = t
      BY <1>8, <2>6
    <3>2. PICK k \in 1..m : q[k] = u
      BY <1>8, <2>6
    <3>3. j = k
      BY <1>6, <2>6, <3>1, <3>2
    <3> QED
      BY <3>1, <3>2, <3>3
  <2>7. ASSUME NEW t \in Socks, NEW u \in Socks, InUse(t)', InUse(u)', ~Backlog(t)', ~Backlog(u)',
               sockets'[t].cb = sockets'[u].cb
        PROVE  t = u \/ sockets'[t].cb = NULL
    <3>1. Holder(t) /\ (sockets'[t].cb = NULL \/ sockets'[t].cb = sockets[t].cb)
      BY <2>2, <2>7
    <3>2. Holder(u) /\ (sockets'[u].cb = NULL \/ sockets'[u].cb = sockets[u].cb)
      BY <2>2, <2>7
    <3> QED
      BY <1>2, <2>7, <3>1, <3>2
  <2>8. ASSUME NEW t \in Socks, NEW u \in Socks, InUse(t)', InUse(u)', sockets'[t].cb = sockets'[u].cb
        PROVE  t = u \/ sockets'[t].cb = NULL
    BY <2>5, <2>6, <2>7, <2>8
  <2> QED
    BY <1>0, <1>1, <2>1, <2>3, <2>4, <2>8 DEF Buffers
<1>18. /\ \A j, k \in 1..Len(server'.clients) : j < k => server'.clients[j] < server'.clients[k]
       /\ \A t \in Socks : Backlog(t)' => sockets'[t].cb # NULL
  BY <1>7, <1>10
<1>19. CASE Run(<<"SERVER", TRUE>>) /\ work' = <<<<"listening", s>>>>
  <2>1. PICK x \in Task : x = <<"listening", s>> /\ x[1] = "listening" /\ x[2] = s
    BY TaskIs DEF JobNames
  <2>2. work' = <<x>>
    BY <1>19, <2>1
  <2>3. Stands(x)' /\ Turn(x)'
    BY <1>11, <1>15, <2>1 DEF Stands, Turn
  <2>4. Shape' /\ Standing'
    BY <2>1, <2>2, <2>3, OneWork
  <2>5. ~Left("free")'
    BY <2>1, <2>2, OneLeft
  <2>6. Backlogged'
    BY <1>18, <2>5 DEF Backlogged
  <2> QED
    BY <1>14, <1>16, <1>17, <2>4, <2>6 DEF Housed
<1>20. CASE work' = [k \in 1..m |-> <<"free", q[k]>>] /\ UNCHANGED <<cmd, todo>>
  <2>1. PICK F : F = work' /\ F = [k \in 1..m |-> <<"free", q[k]>>]
    BY <1>20
  <2>2. \A k \in 1..m : F[k] = <<"free", q[k]>> /\ F[k] \in Task /\ F[k][1] = "free" /\ F[k][2] = q[k]
    BY <1>6, <2>1 DEF Task, JobNames
  <2>3. F \in Seq(Task) /\ Len(F) = m
    <3>1. F \in [1..m -> Task]
      BY ONLY <2>1, <2>2
    <3> QED
      BY ONLY <3>1, m \in Nat
  <2>4. Shape'
    <3>1. \A k \in 1..Len(work') : k > 1 => Follows(work'[k - 1], work'[k])
      <4>1. ASSUME NEW k \in 1..m, k > 1 PROVE Follows(F[k - 1], F[k])
        <5>1. k - 1 \in 1..m
          BY ONLY <4>1, k \in 1..m, m \in Nat
        <5>2. F[k - 1][1] = "free" /\ F[k][1] = "free"
          BY ONLY <2>2, <5>1, k \in 1..m
        <5> QED
          BY <5>2 DEF Follows, LastJobs, SoloJobs, FrontJobs
      <4> QED
        BY <2>1, <2>3, <4>1
    <3>2. \A j, k \in 1..Len(work') : j < k => Order(work[j], work[k])'
      <4>1. ASSUME NEW j \in 1..m, NEW k \in 1..m, j < k PROVE Order(work[j], work[k])'
        <5>1. /\ F[j][1] = "free" /\ F[k][1] = "free" /\ F[j][2] < F[k][2]
          BY <1>7, <2>2, <4>1
        <5> QED
          BY <2>1, <5>1 DEF Order
      <4> QED
        BY <2>1, <2>3, <4>1
    <3> QED
      BY <1>1, <1>20, <3>1, <3>2 DEF Shape
  <2>5. Standing'
    <3>1. \A x \in Task : x[1] = "free" /\ Backlog(x[2])' => Stands(x)' /\ Turn(x)'
      BY DEF Stands, Turn
    <3>2. \A k \in 1..m : F[k] \in Task /\ F[k][1] = "free" /\ Backlog(F[k][2])'
      BY <1>6, <1>8, <2>2, SMTT(30)
    <3>3. \A k \in 1..Len(work') : Stands(work[k])'
      BY <2>1, <2>3, <3>1, <3>2
    <3>4. work' # <<>> => Turn(Head(work))'
      <4>1. work' # <<>> => Head(work') = F[1] /\ 1 \in 1..m
        BY ONLY <2>1, <2>3, TaskAt
      <4> QED
        BY <3>1, <3>2, <4>1
    <3> QED
      BY <3>3, <3>4 DEF Standing
  <2>6. \A u \in Socks : Backlog(u)' => Waits("free", u)'
    <3>1. ASSUME NEW u \in Socks, Backlog(u)' PROVE Waits("free", u)'
      <4>1. PICK k \in 1..m : q[k] = u
        BY <1>8, <3>1
      <4>2. k \in 1..Len(work') /\ work'[k] = <<"free", u>>
        BY <2>1, <2>2, <2>3, <4>1
      <4> QED
        BY <4>2 DEF Waits
    <3> QED
      BY <3>1
  <2>7. Backlogged'
    BY <1>11, <1>13, <1>18, <2>6 DEF Backlogged
  <2> QED
    BY <1>14, <1>16, <1>17, <2>4, <2>5, <2>7 DEF Housed
<1> QED
  BY <1>7, <1>19, <1>20, Zenon

-----------------------------------------------------------------------------
(* Housed: the interrupt, and every step.                                  *)

\* A new client gets a socket of the backlog.
LEMMA DataHoused ==
    ASSUME Sane, Housed, NEW c \in Conns, Data(c), UNCHANGED <<work, cmd, live, handles>>, Clean'
    PROVE  Housed'
<1>0. /\ WifiTypes /\ "freed twice" \notin flaws /\ Linked /\ map \in [Conns -> Socks \cup {INVALID_ID}]
      /\ server.clients \in Seq(Socks) /\ INVALID_ID \notin Socks
  <2>1. INVALID_ID \notin Socks
    BY WifiAssumption DEF INVALID_ID, Socks
  <2> QED
    BY <2>1 DEF Sane, Housed, Buffers, WifiTypes, Server
<1>1. server' = server
  BY DEF Data, wifi
<1>2. CASE UNCHANGED <<sockets, map, flaws>>
  BY <1>0, <1>1, <1>2, CalmHoused
<1>3. CASE ~UNCHANGED <<sockets, map, flaws>>
  <2>1. /\ map[c] = INVALID_ID /\ Initialized # {}
    BY <1>3 DEF Data, wifi
  <2>2. PICK s \in Socks : s = server.clients[First(Initialized)] /\ sockets[s].state = "DISCONNECTED" /\ Backlog(s)
    <3>1. /\ server.clients[First(Initialized)] \in Socks
          /\ First(Initialized) \in DOMAIN server.clients
          /\ sockets[server.clients[First(Initialized)]].state = "DISCONNECTED"
      BY <1>0, <2>1, InitializedSocket
    <3>2. First(Initialized) \in 1..Len(server.clients)
      <4>1. PICK q \in Seq(Socks) : q = server.clients
        BY <1>0
      <4>2. DOMAIN q = 1..Len(q)
        BY ONLY <4>1
      <4> QED
        BY ONLY <3>1, <4>1, <4>2
    <3> QED
      BY <3>1, <3>2 DEF Backlog, Contains
  <2>3. /\ sockets' = Given(s, c) /\ map' = [map EXCEPT ![c] = s]
        /\ flaws' = flaws \cup (IF Mapped(s) THEN {"twice"} ELSE {})
                          \cup (IF sockets[s].cb \in live THEN {} ELSE {"freed"})
    BY <1>3, <2>1, <2>2 DEF Data, wifi
  <2>4. sockets[s].cb \in live /\ "freed twice" \notin flaws'
    BY <1>0, <2>3 DEF Clean, None
  <2>5. \A t \in Socks : /\ sockets'[t].state = IF t = s THEN "WAITING_ACCEPT" ELSE sockets[t].state
                         /\ sockets'[t].cb = sockets[t].cb
    BY <1>0, <2>3, ZenonT(60) DEF WifiTypes, Socket, Given
  <2>6. \A t \in Socks : t # s => (Mapped(t)' <=> Mapped(t))
    <3>1. \A d \in Conns : map'[d] = IF d = c THEN s ELSE map[d]
      BY <1>0, <2>3
    <3> QED
      BY <1>0, <2>1, <3>1 DEF Mapped
  <2>7. Linked'
    <3>1. \A t \in Socks : \A a : Doing(a, t)' <=> Doing(a, t)
      BY DEF Doing
    <3> QED
      BY <1>0, <2>5, <2>6, <3>1 DEF Linked
  <2>8. \A t \in Socks : Gentle(t)
    BY <2>2, <2>4, <2>5, <2>6 DEF Gentle, Mild, InUse
  <2> QED
    BY <1>1, <2>4, <2>7, <2>8, SameWork
<1> QED
  BY <1>2, <1>3

\* The peer has closed a connection.
LEMMA ClosedHoused ==
    ASSUME Sane, Matched, Housed, NEW c \in Conns, Closed(c), UNCHANGED <<work, cmd, server, live, handles, flaws>>
    PROVE  Housed'
<1>0. /\ WifiTypes /\ "freed twice" \notin flaws /\ Linked /\ map \in [Conns -> Socks \cup {INVALID_ID}]
      /\ INVALID_ID \notin Socks /\ c # INVALID_ID
  <2>1. INVALID_ID \notin Socks /\ c # INVALID_ID
    BY WifiAssumption DEF INVALID_ID, Socks, Conns
  <2> QED
    BY <2>1 DEF Sane, Housed, Buffers, WifiTypes
<1>1. CASE map[c] = INVALID_ID
  <2>1. UNCHANGED <<sockets, map>>
    BY <1>1 DEF Closed
  <2> QED
    BY <1>0, <2>1, CalmHoused
<1>2. CASE map[c] # INVALID_ID
  <2>1. PICK s \in Socks : s = map[c] /\ sockets[s].conn_id = c
    BY <1>0, <1>2 DEF Matched
  <2>2. /\ sockets' = [Down(s) EXCEPT ![s].conn_id = INVALID_ID]
        /\ map' = [map EXCEPT ![c] = INVALID_ID]
    BY <1>0, <1>2, <2>1 DEF Closed
  <2>3. \A t \in Socks : /\ sockets'[t].state = IF t = s THEN "DISCONNECTED" ELSE sockets[t].state
                         /\ sockets'[t].cb = sockets[t].cb
    BY <1>0, <2>2, ZenonT(60) DEF WifiTypes, Socket, Down
  <2>4. \A d \in Conns : map'[d] = IF d = c THEN INVALID_ID ELSE map[d]
    BY <1>0, <2>2
  <2>5. ~Mapped(s)' /\ \A t \in Socks : Mapped(t)' => Mapped(t)
    <3>1. ASSUME NEW d \in Conns, map[d] = s PROVE d = c
      BY <1>0, <2>1, <3>1 DEF Matched
    <3> QED
      BY <1>0, <2>4, <3>1 DEF Mapped
  <2>6. InUse(s)
    <3>1. Mapped(s)
      BY <2>1 DEF Mapped
    <3> QED
      BY <1>0, <3>1 DEF Linked, InUse
  <2>7. Linked'
    <3>1. \A t \in Socks : \A a : Doing(a, t)' <=> Doing(a, t)
      BY DEF Doing
    <3> QED
      BY <1>0, <2>3, <2>5, <3>1 DEF Linked
  <2>8. \A t \in Socks : Gentle(t)
    BY <2>3, <2>5, <2>6 DEF Gentle, Mild
  <2> QED
    BY <1>0, <2>7, <2>8, SameWork
<1> QED
  BY <1>1, <1>2

\* The interrupt takes one message of the module.
LEMMA InterruptHoused ==
    ASSUME Sane, Matched, Housed, Interrupt, Clean'
    PROVE  Housed'
<1>0. "freed twice" \notin flaws
  BY DEF Housed, Buffers
<1>1. line # <<>> /\ line \in Seq(Message)
  BY DEF Interrupt, Sane, LineTypes
<1>2. PICK msg \in Message : msg = Head(line)
  <2>1. Head(line) \in Message
    BY ONLY <1>1
  <2> QED
    BY <2>1
<1>3. UNCHANGED <<work, cmd, live, handles>>
  BY DEF Interrupt, app
<1>4. CASE msg[1] = "data" /\ Data(msg[2])
  <2>1. msg[2] \in Conns
    BY <1>4, MessageParts
  <2> QED
    BY <1>3, <1>4, <2>1, DataHoused
<1>5. CASE msg[1] = "closed" /\ Closed(msg[2]) /\ UNCHANGED <<server, flaws>>
  <2>1. msg[2] \in Conns
    BY <1>5, MessageParts
  <2> QED
    BY <1>3, <1>5, <2>1, ClosedHoused
<1>6. CASE UNCHANGED <<wifi, flaws>>
  <2>1. UNCHANGED <<sockets, map, server>>
    BY <1>6 DEF wifi
  <2> QED
    BY <1>0, <1>3, <1>6, <2>1, CalmHoused
<1> QED
  BY <1>2, <1>4, <1>5, <1>6 DEF Interrupt

\* The calls of the application.
LEMMA CallsHoused ==
    ASSUME Sane, Serving, Housed, Clean',
           \/ Open \/ WifiRemove
           \/ \E s \in {t \in Socks : handles[t] > 0} : Call(s)
    PROVE  Housed'
<1>1. CASE Open \/ WifiRemove
  BY <1>1, OpenHoused, RemoveHoused
<1>2. ASSUME NEW s \in Socks, handles[s] > 0, Call(s) PROVE Housed'
  BY <1>2, ConnectHoused, SimpleHoused, CloseCallHoused, BindHoused, ListenHoused DEF Call
<1> QED
  BY <1>1, <1>2

\* No step leaves the buffers in doubt.
LEMMA NextHousing == Sane /\ Serving /\ MapsBack /\ Housing /\ [Next]_vars => Housing'
<1> SUFFICES ASSUME Sane, Serving, MapsBack, Housing, [Next]_vars, Clean' PROVE Housed'
  BY DEF Housing
<1>1. Clean
  <2>1. flaws \subseteq flaws'
    BY NumbersChange
  <2> QED
    BY <2>1 DEF Clean, None
<1>2. Housed /\ Matched
  BY <1>1 DEF Housing, Clean, None, MapsBack, Matched
<1>3. CASE \/ Open \/ WifiRemove
           \/ \E s \in {t \in Socks : handles[t] > 0} : Call(s)
  BY <1>2, <1>3, CallsHoused
<1>4. CASE Jobs \/ Response \/ TimedOut
  BY <1>2, <1>4, JobsHoused, ResponseHoused
<1>5. CASE Interrupt
  BY <1>2, <1>5, InterruptHoused
<1>6. CASE \/ Answer \/ PeerConnects \/ UNCHANGED vars
           \/ \E c \in Conns : PeerSends(c) \/ PeerCloses(c)
  <2>1. UNCHANGED <<sockets, map, work, server, live, handles, cmd>>
    BY <1>6 DEF Answer, PeerConnects, PeerSends, PeerCloses, Peer, vars, wifi, app
  <2>2. \A f \in flaws' : f \in flaws \/ f = "silent"
    BY <1>6 DEF Answer, PeerConnects, PeerSends, PeerCloses, Flaw, vars
  <2>3. "freed twice" \notin flaws'
    BY <1>2, <2>2 DEF Housed, Buffers
  <2> QED
    BY <1>2, <2>1, <2>3, CalmHoused
<1> QED
  BY <1>3, <1>4, <1>5, <1>6 DEF Next

\* In the beginning no socket is in use.
LEMMA InitHousing == Init => Housing
<1> SUFFICES ASSUME Init PROVE Housed
  BY DEF Housing
<1>1. /\ work = <<>> /\ cmd = <<>> /\ flaws = {} /\ server.id = INVALID_ID /\ server.clients = <<>>
      /\ \A t \in Socks : sockets[t].state = "UNUSED"
      /\ \A c \in Conns : map[c] = INVALID_ID
  BY DEF Init, NoSockets, NoMap, NoServer
<1>2. 1..Len(work) = {} /\ 1..Len(server.clients) = {} /\ INVALID_ID \notin Socks
  <2>1. INVALID_ID \notin Socks
    BY WifiAssumption DEF INVALID_ID, Socks
  <2>2. 1..Len(work) = {} /\ 1..Len(server.clients) = {}
    BY ONLY <1>1, EmptySeq
  <2> QED
    BY <2>1, <2>2
<1>3. \A t : ~Backlog(t)
  BY <1>2 DEF Backlog, Contains
<1>4. Shape /\ Standing
  BY <1>1, <1>2 DEF Shape, Standing
<1>5. Linked /\ ServerHeld
  BY <1>1, <1>2 DEF Linked, Mapped, ServerHeld
<1>6. Backlogged
  BY <1>2, <1>3 DEF Backlogged, Left
<1>7. Buffers
  BY <1>1, <1>3 DEF Buffers, InUse, Sound, Holder
<1> QED
  BY <1>4, <1>5, <1>6, <1>7 DEF Housed

THEOREM WifiHousing == Spec => []Housing
<1>1. Sane /\ Serving /\ MapsBack /\ Housing /\ [Next]_vars => Housing'
  BY NextHousing
<1> QED
  BY <1>1, InitHousing, WifiSaneInvariance, WifiServing, WifiMapsBack, PTL DEF Spec

\* BuffersApart: a socket in use that no call is closing has a buffer of its own, which is
\* allocated, and no buffer is freed twice, whatever the calls, the interrupt and the module do,
\* as long as no socket was connected, bound or made to listen that is not just open, none was
\* given to a new client while a call was closing or connecting it, and none of the backlog was
\* freed that a client still had.
THEOREM WifiBuffersApart == Spec => []BuffersApart
<1>1. Sane /\ Housing => BuffersApart
  <2> SUFFICES ASSUME Sane, Housing, Clean PROVE
        /\ "freed twice" \notin flaws
        /\ LET used == {s \in Socks : /\ sockets[s].state # "UNUSED" /\ sockets[s].cb # NULL
                                      /\ \A k \in DOMAIN work : work[k][2] # s}
           IN \A s \in used : /\ sockets[s].cb \in live
                              /\ \A t \in used \ {s} : sockets[t].cb # sockets[s].cb
    BY DEF BuffersApart, Clean
  <2>1. Buffers /\ work \in Seq(Task)
    BY DEF Housing, Housed, Sane, LineTypes
  <2> DEFINE used == {s \in Socks : /\ sockets[s].state # "UNUSED" /\ sockets[s].cb # NULL
                                    /\ \A k \in DOMAIN work : work[k][2] # s}
  <2>2. ASSUME NEW s \in used PROVE s \in Socks /\ InUse(s) /\ Holder(s) /\ sockets[s].cb # NULL /\ ~Freed(s)
    <3>1. s \in Socks /\ InUse(s) /\ Holder(s) /\ sockets[s].cb # NULL
      BY <2>2 DEF InUse, Holder
    <3>2. ASSUME Freed(s) PROVE FALSE
      <4>1. Head(work)[2] = s /\ work # <<>>
        BY <3>1, <3>2, FreedHead DEF Freed, Doing
      <4>2. work[1] = Head(work) /\ 1 \in DOMAIN work
        BY ONLY <2>1, <4>1
      <4> QED
        BY <2>2, <4>1, <4>2, SMTT(30)
    <3> QED
      BY <3>1, <3>2
  <2>3. \A s \in used : sockets[s].cb \in live
    BY <2>1, <2>2 DEF Buffers
  <2>4. \A s \in used, t \in used : t # s => sockets[t].cb # sockets[s].cb
    BY <2>1, <2>2 DEF Buffers
  <2>5. "freed twice" \notin flaws
    BY <2>1 DEF Buffers
  <2> QED
    BY <2>3, <2>4, <2>5
<1> QED
  BY <1>1, WifiSaneInvariance, WifiHousing, PTL

-----------------------------------------------------------------------------
(* Delivered: where the parser puts the data of a connection.              *)

\* A connection is released: every other socket keeps its number.
LEMMA ReleasedNumbered ==
    ASSUME WifiTypes, NEW s \in Socks, Numbered(s), ReleasedMap(s), NEW t \in Socks, Numbered(t),
           sockets'[t].conn_id = IF t = s THEN INVALID_ID ELSE sockets[t].conn_id
    PROVE  Numbered(t)'
<1>1. PICK c \in Conns \cup {INVALID_ID}, d \in Conns \cup {INVALID_ID} :
         c = sockets[s].conn_id /\ d = sockets[t].conn_id
  BY DEF WifiTypes, Socket
<1>2. map \in [Conns -> Socks \cup {INVALID_ID}]
  BY DEF WifiTypes
<1>3. CASE t # s /\ d # INVALID_ID
  <2>1. map[d] = t /\ d \in Conns
    BY <1>1, <1>3 DEF Numbered
  <2>2. d = c => c = INVALID_ID
    BY <1>1, <1>3, <2>1 DEF Numbered
  <2>3. map'[d] = t
    BY <1>1, <1>2, <1>3, <2>1, <2>2 DEF ReleasedMap
  <2> QED
    BY <1>1, <1>3, <2>3 DEF Numbered
<1> QED
  BY <1>1, <1>3 DEF Numbered

\* A connection is given to a socket: every other socket keeps its number.
LEMMA GivenNumbered ==
    ASSUME WifiTypes, NEW c \in Conns, map[c] = INVALID_ID, NEW s \in Socks, map' = [map EXCEPT ![c] = s],
           NEW t \in Socks, Numbered(t) \/ t = s,
           sockets'[t].conn_id = IF t = s THEN c ELSE sockets[t].conn_id
    PROVE  Numbered(t)'
<1>1. PICK d \in Conns \cup {INVALID_ID} : d = sockets[t].conn_id
  BY DEF WifiTypes, Socket
<1>2. map \in [Conns -> Socks \cup {INVALID_ID}] /\ INVALID_ID \notin Socks
  BY WifiAssumption DEF WifiTypes, INVALID_ID, Socks
<1>3. \A x \in Conns : map'[x] = IF x = c THEN s ELSE map[x]
  BY <1>2
<1>4. CASE t = s
  BY <1>3, <1>4 DEF Numbered
<1>5. CASE t # s /\ d # INVALID_ID
  BY <1>1, <1>2, <1>3, <1>5 DEF Numbered
<1> QED
  BY <1>1, <1>4, <1>5 DEF Numbered

\* What is known of a socket that the step leaves alone.
LEMMA HandedKept ==
    ASSUME WifiTypes, NEW s \in Socks, Handed(s), UNCHANGED <<work, cmd>>,
           sockets'[s].state = sockets[s].state, sockets'[s].conn_id = sockets[s].conn_id,
           Numbered(s) => Numbered(s)', Undone' => Undone,
           Doing("start", s) => cmd = <<>>,
           \A c \in Conns : map[c] = s /\ (Doing("unmap", s) \/ Doing("unlink", s)) /\ Quieted(c) => Quieted(c)',
           \A c \in Conns : map[c] = s /\ (Undone' \/ cmd = <<>>) /\ Still(c) => Still(c)',
           \A c \in Conns : map[c] = s /\ cmd = <<"STOP", c>> /\ (Undone \/ Stops(line, c))
                                => Undone' \/ Stops(line', c)
    PROVE  Handed(s)'
<1>1. PICK c \in Conns \cup {INVALID_ID} : c = sockets[s].conn_id
  BY DEF WifiTypes, Socket
<1>2. \A a : Doing(a, s)' <=> Doing(a, s)
  BY DEF Doing
<1>3. Engaged(s)' <=> Engaged(s)
  BY <1>2 DEF Engaged
<1>4. CASE sockets[s].state # "WAITING_ACCEPT" /\ c # INVALID_ID
  <2>1. ASSUME NEW a \in Linking \cup {"stopped"}, Doing(a, s) PROVE map[c] = s
    BY <1>1, <1>4, <2>1 DEF Handed, Engaged, Numbered
  <2>2. Doing("start", s)' \/ (Doing("up", s)' /\ Undone') => Still(c)'
    <3>1. Doing("start", s) \/ (Doing("up", s) /\ Undone) => Still(c) /\ map[c] = s
      BY <1>1, <1>4, <2>1 DEF Handed, Linking
    <3> QED
      BY <1>1, <1>2, <1>4, <3>1
  <2>3. Doing("unmap", s)' \/ Doing("unlink", s)' => Quieted(c)'
    <3>1. Doing("unmap", s) \/ Doing("unlink", s) => Quieted(c) /\ map[c] = s
      BY <1>1, <1>4, <2>1 DEF Handed, Linking
    <3> QED
      BY <1>1, <1>2, <1>4, <3>1
  <2>6. ~Doing("parted", s)'
    BY <1>1, <1>2, <1>4 DEF Handed
  <2>4. Doing("stopped", s)' => cmd' = <<"STOP", c>> /\ (Undone' \/ Stops(line', c))
    BY <1>1, <1>2, <1>4, <2>1 DEF Handed
  <2>5. Engaged(s)' => Numbered(s)'
    BY <1>3 DEF Handed
  <2> QED
    BY <1>1, <2>2, <2>3, <2>4, <2>5, <2>6 DEF Handed
<1>5. CASE ~(sockets[s].state # "WAITING_ACCEPT" /\ c # INVALID_ID)
  BY <1>1, <1>3, <1>5 DEF Handed
<1> QED
  BY <1>4, <1>5

\* What is known of a socket that no call is connecting or disconnecting.
LEMMA HandedIdle ==
    ASSUME NEW s \in Socks, \A a \in ConnJobs \ {"claim"} : ~Doing(a, s)',
           sockets'[s].state \in Up \/ Doing("accept", s)' => Numbered(s)'
    PROVE  Handed(s)'
<1>2. Engaged(s)' => Numbered(s)'
  BY DEF Engaged, Up, ConnJobs, Linking
<1> QED
  BY <1>2 DEF Handed, ConnJobs

\* What is known of the sockets when a call goes on to the next job of connecting its socket.
LEMMA HandedGoes ==
    ASSUME NEW s \in Socks, NEW a \in {"start", "up", "unlink"}, work' # <<>>, Head(work') = <<a, s>>,
           \A t \in Socks : sockets'[t].state \in Up \/ t = s => Numbered(t)',
           sockets'[s].state # "WAITING_ACCEPT" /\ sockets'[s].conn_id # INVALID_ID =>
              IF a = "unlink" THEN Quieted(sockets[s].conn_id)' ELSE Still(sockets[s].conn_id)'
    PROVE  \A t \in Socks : Handed(t)'
<1>1. ASSUME NEW t \in Socks, NEW b, Doing(b, t)' PROVE b = a /\ t = s
  BY <1>1 DEF Doing
<1>2. ASSUME NEW t \in Socks PROVE Handed(t)'
  <2>1. Engaged(t)' => Numbered(t)'
    BY <1>1 DEF Engaged, Up, Linking
  <2>2. CASE t = s
    BY <1>1, <2>1, <2>2 DEF Handed
  <2>3. CASE t # s
    BY <1>1, <2>1, <2>3 DEF Handed
  <2> QED
    BY <2>2, <2>3
<1> QED
  BY <1>2

\* A socket that the interrupt has given to a client, or has closed.
LEMMA HandedTurned ==
    ASSUME NEW s \in Socks, Numbered(s)', sockets'[s].state = "WAITING_ACCEPT" \/ sockets'[s].conn_id = INVALID_ID
    PROVE  Handed(s)'
BY DEF Handed

LEMMA FirstAppend ==
    ASSUME NEW q \in Seq(Message), NEW x \in Message, NEW c, EndsFirst(q, c)
    PROVE  EndsFirst(Append(q, x), c)
<1>1. PICK n \in Nat : n = Len(q) /\ Len(Append(q, x)) = n + 1 /\ \A k \in 1..n : Append(q, x)[k] = q[k]
  BY AppendAt
<1>2. PICK j \in 1..n : q[j] = <<"closed", c>> /\ \A k \in 1..j : ~IsResponse(q[k])
  BY <1>1 DEF EndsFirst
<1>3. j \in 1..n + 1 /\ \A k \in 1..j : k \in 1..n
  OBVIOUS
<1> QED
  BY <1>1, <1>2, <1>3 DEF EndsFirst

LEMMA FirstTail ==
    ASSUME NEW q \in Seq(Message), q # <<>>, NEW c, EndsFirst(q, c), Head(q) # <<"closed", c>>
    PROVE  EndsFirst(Tail(q), c) /\ ~IsResponse(Head(q))
<1>1. PICK n \in Nat : /\ n = Len(q) /\ n >= 1 /\ Len(Tail(q)) = n - 1 /\ q[1] = Head(q)
                       /\ \A k \in 1..n - 1 : Tail(q)[k] = q[k + 1]
  BY TailAt
<1>2. PICK j \in 1..n : q[j] = <<"closed", c>> /\ \A k \in 1..j : ~IsResponse(q[k])
  BY <1>1 DEF EndsFirst
<1>3. j # 1 /\ 1 \in 1..j
  BY <1>1, <1>2
<1>4. PICK i \in 1..n - 1 : i + 1 = j /\ \A k \in 1..i : k \in 1..n - 1 /\ k + 1 \in 1..j
  <2>1. j - 1 \in 1..n - 1 /\ (j - 1) + 1 = j
    BY <1>3
  <2> QED
    BY <2>1
<1> QED
  BY <1>1, <1>2, <1>3, <1>4 DEF EndsFirst

\* A call runs its command after it has claimed its number.
LEMMA StartQuiet ==
    ASSUME Shape, NEW s \in Socks, Doing("start", s)
    PROVE  cmd = <<>>
<1>1. Head(work) = <<"start", s>>
  BY DEF Doing
<1>2. Head(work)[1] = "start"
  BY ONLY <1>1
<1> QED
  BY <1>2 DEF Shape

LEMMA StepHanded ==
    ASSUME WifiTypes, AllHanded, Stored', Shape,
           UNCHANGED <<sockets, map, work, cmd>>, Undone' => Undone,
           \A c \in Conns : map[c] # INVALID_ID /\ ~NoneDoing /\ Quieted(c) => Quieted(c)',
           \A c \in Conns : map[c] # INVALID_ID /\ (Undone' \/ cmd = <<>>) /\ Still(c) => Still(c)',
           \A c \in Conns : map[c] # INVALID_ID /\ cmd = <<"STOP", c>> /\ (Undone \/ Stops(line, c))
                                => Undone' \/ Stops(line', c)
    PROVE  AllHanded'
<1>1. ASSUME NEW s \in Socks PROVE Handed(s)'
  <2>1. /\ Handed(s) /\ s # INVALID_ID /\ (Numbered(s) => Numbered(s)')
        /\ Doing("unmap", s) \/ Doing("unlink", s) => ~NoneDoing
    BY WifiAssumption DEF AllHanded, Numbered, NoneDoing, ConnJobs, Socks, INVALID_ID
  <2>2. Doing("start", s) => cmd = <<>>
    BY StartQuiet
  <2> QED
    BY <2>1, <2>2, HandedKept
<1> QED
  BY <1>1 DEF AllHanded

LEMMA PeersHanded ==
    ASSUME Sane, Shape, AllHanded, Fresh', PeerConnects \/ \E c \in Conns : PeerSends(c) \/ PeerCloses(c)
    PROVE  AllHanded'
<1>1. /\ UNCHANGED <<sockets, map, at, work, cmd, todo, resp>>
      /\ WifiTypes /\ line \in Seq(Message)
  BY DEF PeerConnects, PeerSends, PeerCloses, Peer, app, parser, wifi, Sane, LineTypes
<1>0. Stored'
  BY <1>1 DEF AllHanded, Stored
<1>2. CASE PeerConnects
  <2>1. PICK c : /\ link' = link \cup {c} /\ line' = line
                 /\ map[c] = INVALID_ID \/ Contains(line, <<"closed", c>>)
    BY <1>2 DEF PeerConnects, Flaw, Fresh, None
  <2>2. map[c] = INVALID_ID \/ Has(line, <<"closed", c>>)
    BY <1>1, <2>1 DEF Contains, Has
  <2>3. \A d \in Conns : map[d] # INVALID_ID /\ Quieted(d) => Quieted(d)'
    BY <1>1, <2>1, <2>2 DEF Quieted
  <2>4. \A d \in Conns : map[d] # INVALID_ID /\ Still(d) => Still(d)'
    BY <1>1, <2>1, <2>3 DEF Still
  <2>5. Undone' = Undone
    BY <1>1, <2>1 DEF Undone
  <2> QED
    BY <1>0, <1>1, <2>1, <2>3, <2>4, <2>5, StepHanded
<1>3. ASSUME NEW c \in Conns, PeerSends(c) \/ PeerCloses(c) PROVE AllHanded'
  <2>1. PICK m \in Message : line' = Append(line, m) /\ m \in {<<"data", c>>, <<"closed", c>>}
    BY <1>3, MessageTypes DEF PeerSends, PeerCloses
  <2>2. c \in link /\ link' \subseteq link
    BY <1>3 DEF PeerSends, PeerCloses
  <2>3. \A n : (Has(line, n) => Has(line', n)) /\ (Has(line', n) => Has(line, n) \/ n = m)
    BY <1>1, <2>1, HasAppend
  <2>4. \A d \in Conns : Quieted(d) => Quieted(d)'
    BY <1>1, <2>1, <2>2, <2>3 DEF Quieted
  <2>5. \A d \in Conns : EndsFirst(line, d) => EndsFirst(line', d)
    BY <1>1, <2>1, FirstAppend
  <2>6. \A d \in Conns : Still(d) => Still(d)'
    BY <1>1, <2>4, <2>5 DEF Still
  <2>7. m # <<"error">>
    BY <2>1
  <2>8. Undone' = Undone
    BY <1>1, <2>3, <2>7 DEF Undone
  <2>9. \A d : Stops(line, d) => Stops(line', d)
    BY <1>1, <2>1, OrderAppend
  <2> QED
    BY <1>0, <1>1, <2>4, <2>6, <2>8, <2>9, StepHanded
<1> QED
  BY <1>2, <1>3

\* The module answers the command under way: when it says that it has not carried it out,
\* nothing is said of the connection.
LEMMA AnswerHanded ==
    ASSUME Sane, Exchange, Shape, AllHanded, Answer
    PROVE  AllHanded'
<1>1. /\ todo \in Seq(Command) /\ todo # <<>> /\ line \in Seq(Message) /\ WifiTypes
      /\ UNCHANGED <<sockets, map, at, work, cmd, resp>> /\ todo' = Tail(todo)
  BY AnswerSays DEF wifi, parser, app, Sane
<1>2. cmd # <<>> /\ todo = <<cmd>> /\ Head(todo) = cmd /\ NoResponse(line) /\ resp = <<>>
  BY <1>1 DEF Exchange
<1>3. PICK op, x : cmd = <<op, x>> /\ Says(op, x)
  BY <1>2, AnswerSays
<1>4. PICK e \in Message, k \in Message : e = <<"error">> /\ k = <<"ok">> /\ e # k
  BY MessageTypes
<1>5. Undone /\ todo' = <<>> /\ ~Has(line, <<"error">>) /\ ~Has(resp, "error")
  <2>1. todo' = <<>>
    BY <1>1, <1>2
  <2> QED
    BY <1>1, <1>2, <2>1 DEF Undone, NoResponse, IsResponse, Has
<1>6. \A s \in Socks : ~Doing("unmap", s) /\ ~Doing("unlink", s) /\ ~Doing("start", s)
  BY <1>2 DEF Shape, Doing
<1>7. ASSUME Undone' => line' = Append(line, e) /\ link' = link,
             \A c \in Conns : cmd = <<"STOP", c>> => Undone' \/ Stops(line', c)
      PROVE  AllHanded'
  <2>1. Stored'
    BY <1>1 DEF AllHanded, Stored
  <2>2. \A c \in Conns : Undone' /\ Still(c) => Still(c)'
    <3>1. CASE Undone'
      <4>1. \A n : Has(line', n) => Has(line, n) \/ n = e
        <5>1. line' = Append(line, e)
          BY <1>7, <3>1
        <5> QED
          BY <1>1, <5>1, HasAppend
      <4>2. \A c \in Conns : Quieted(c) => Quieted(c)'
        BY <1>1, <1>4, <1>7, <3>1, <4>1 DEF Quieted
      <4>3. \A c \in Conns : EndsFirst(line, c) => EndsFirst(line', c)
        BY <1>1, <1>7, <3>1, FirstAppend
      <4> QED
        BY <1>1, <4>2, <4>3 DEF Still
    <3> QED
      BY <3>1
  <2>3. ASSUME NEW s \in Socks PROVE Handed(s)'
    <3>1. Handed(s) /\ (Numbered(s) => Numbered(s)')
      BY <1>1 DEF AllHanded, Numbered
    <3> QED
      BY <1>1, <1>2, <1>5, <1>6, <1>7, <2>2, <3>1, HandedKept
  <2> QED
    BY <2>1, <2>3 DEF AllHanded
<1>8. CASE line' = Append(line, e) /\ link' = link
  <2>1. Has(line', <<"error">>)
    BY <1>1, <1>4, <1>8, HasAppend
  <2>2. Undone'
    BY <1>1, <1>2, <2>1 DEF Undone
  <2> QED
    BY <1>7, <1>8, <2>2
<1>9. CASE op # "STOP" /\ line' = Append(line, k)
  <2>1. \A n : Has(line', n) => Has(line, n) \/ n = k
    BY <1>1, <1>9, HasAppend
  <2>2. ~Undone'
    BY <1>1, <1>4, <1>5, <2>1 DEF Undone
  <2>3. \A c \in Conns : cmd # <<"STOP", c>>
    BY <1>3, <1>9
  <2> QED
    BY <1>7, <2>2, <2>3
<1>10. CASE op = "STOP" /\ x \in Conns /\ line' = Append(Append(line, <<"closed", x>>), k)
  <2>1. PICK d \in Message : d = <<"closed", x>> /\ d # e
    BY <1>4, <1>10, MessageTypes
  <2>2. PICK q \in Seq(Message) : q = Append(line, d)
    <3>1. Append(line, d) \in Seq(Message)
      BY <1>1, AppendAt
    <3> QED
      BY <3>1, Zenon
  <2>3. line' = Append(q, k)
    BY <1>10, <2>1, <2>2
  <2>4. Has(q, d) /\ \A n : Has(q, n) => Has(line, n) \/ n = d
    BY <1>1, <2>2, HasAppend
  <2>5. \A n : Has(line', n) => Has(q, n) \/ n = k
    BY <2>3, HasAppend
  <2>6. Stops(line', x)
    BY <1>4, <2>1, <2>3, <2>4, OrderAppend
  <2>7. ~Undone'
    BY <1>1, <1>4, <1>5, <2>1, <2>4, <2>5 DEF Undone
  <2>8. \A c \in Conns : cmd = <<"STOP", c>> => c = x
    BY <1>3
  <2> QED
    BY <1>7, <2>6, <2>7, <2>8
<1> QED
  BY <1>3, <1>4, <1>8, <1>9, <1>10 DEF Says

LEMMA HeldCb ==
    ASSUME WifiTypes, NEW c \in Conns, Data(c) \/ Closed(c)
    PROVE  \A t \in Socks : sockets'[t].cb = sockets[t].cb
<1>1. \/ sockets' = sockets
      \/ \E s, n : sockets' = [sockets EXCEPT ![s].state = "WAITING_ACCEPT", ![s].conn_id = n]
      \/ \E s : sockets' = [sockets EXCEPT ![s].state = "DISCONNECTED"]
      \/ \E s, n : sockets' = [sockets EXCEPT ![s].state = "DISCONNECTED", ![s].conn_id = n]
  BY Zenon DEF Data, Closed, Given, Down, wifi
<1>2. \A t \in Socks : sockets[t] \in Socket /\ t \in DOMAIN sockets
  BY DEF WifiTypes
<1>3. ASSUME NEW t \in Socks, NEW s, NEW n, NEW st,
             \/ sockets' = [sockets EXCEPT ![s].state = st]
             \/ sockets' = [sockets EXCEPT ![s].state = st, ![s].conn_id = n]
      PROVE  sockets'[t].cb = sockets[t].cb
  BY <1>2, <1>3 DEF Socket
<1> QED
  BY <1>1, <1>3, ZenonT(60)

\* Data of a connection: the parser stores them where the socket has its buffer.
LEMMA DataStored ==
    ASSUME WifiTypes, Stored, NEW c \in Conns, Data(c)
    PROVE  Stored' /\ \A d \in Conns : d # c => at'[d] = at[d]
<1>1. \A t \in Socks : sockets'[t].cb = sockets[t].cb /\ t # INVALID_ID
  BY HeldCb, WifiAssumption DEF Socks, INVALID_ID
<1>2. at \in [Conns -> 0..Memory] /\ map \in [Conns -> Socks \cup {INVALID_ID}]
  BY DEF WifiTypes
<1>3. CASE UNCHANGED <<sockets, map, at>>
  BY <1>3 DEF Stored
<1>4. ASSUME NEW s \in Socks, at' = [at EXCEPT ![c] = sockets[s].cb], map'[c] = s,
             \A d \in Conns : d # c => map'[d] = map[d]
      PROVE  Stored' /\ \A d \in Conns : d # c => at'[d] = at[d]
  <2>1. at'[c] = sockets[s].cb /\ \A d \in Conns : d # c => at'[d] = at[d]
    BY <1>2, <1>4
  <2>2. ASSUME NEW d \in Conns, at'[d] # NULL PROVE map'[d] # INVALID_ID /\ at'[d] = sockets'[map'[d]].cb
    <3>1. CASE d = c
      BY <1>1, <1>4, <2>1, <3>1
    <3>2. CASE d # c
      <4>1. PICK t \in Socks : t = map[d] /\ at[d] = sockets[t].cb
        BY <1>2, <2>1, <2>2, <3>2 DEF Stored
      <4> QED
        BY <1>1, <1>4, <2>1, <3>2, <4>1
    <3> QED
      BY <3>1, <3>2
  <2> QED
    BY <2>1, <2>2 DEF Stored
<1>5. CASE map[c] # INVALID_ID /\ at' = [at EXCEPT ![c] = sockets[map[c]].cb] /\ UNCHANGED wifi
  <2>1. PICK s \in Socks : s = map[c]
    BY <1>2, <1>5
  <2> QED
    BY <1>4, <1>5, <2>1 DEF wifi
<1>6. CASE at[c] = NULL /\ map[c] = INVALID_ID /\ Initialized # {}
  <2>1. PICK s \in Socks : s = server.clients[First(Initialized)]
    BY <1>6, InitializedSocket
  <2>2. map' = [map EXCEPT ![c] = s] /\ at' = [at EXCEPT ![c] = sockets[s].cb]
    BY <1>6, <2>1 DEF Data
  <2>3. map'[c] = s /\ \A d \in Conns : d # c => map'[d] = map[d]
    BY <1>2, <2>2
  <2> QED
    BY <1>4, <2>2, <2>3
<1> QED
  BY <1>3, <1>5, <1>6, Zenon DEF Data, wifi

LEMMA TailHas ==
    ASSUME NEW T, NEW q \in Seq(T), q # <<>>, NEW m, Has(Tail(q), m)
    PROVE  Has(q, m)
<1>1. PICK k \in 1..Len(Tail(q)) : Tail(q)[k] = m
  BY DEF Has
<1>2. k + 1 \in 1..Len(q) /\ q[k + 1] = m
  BY <1>1, OrderTail
<1> QED
  BY <1>2 DEF Has

LEMMA InterruptHanded ==
    ASSUME Sane, Shape, Matched, AllHanded, Fresh', Interrupt
    PROVE  AllHanded'
<1>1. /\ line \in Seq(Message) /\ line # <<>> /\ line' = Tail(line) /\ Head(line) \in Message
      /\ UNCHANGED <<work, cmd, todo, link>> /\ WifiTypes /\ resp \in Seq({"ok", "error"})
      /\ \/ Head(line)[1] = "data" /\ Data(Head(line)[2]) /\ resp' = resp
         \/ Head(line)[1] = "closed" /\ Closed(Head(line)[2]) /\ resp' = resp
         \/ /\ Head(line)[1] \in {"ok", "error"} /\ resp' = Append(resp, Head(line)[1])
            /\ UNCHANGED <<sockets, map, at>>
  BY DEF Sane, LineTypes, Interrupt, app, wifi
<1>2. \A m : (Has(line, m) => Head(line) = m \/ Has(line', m)) /\ (Has(line', m) => Has(line, m))
  BY <1>1, HasTail, TailHas
<1>3. Has(line, Head(line))
  BY <1>1, TailAt DEF Has
<1>4. \A c \in Conns : Head(line) # <<"closed", c>> /\ Stops(line, c) => Stops(line', c)
  BY <1>1, OrderTail
<1>5. \A s \in Socks : Handed(s) /\ s # INVALID_ID /\ (Doing("start", s) => cmd = <<>>)
  BY StartQuiet, WifiAssumption DEF AllHanded, Socks, INVALID_ID
<1>6. \A c \in Conns : Head(line) # <<"closed", c>> /\ EndsFirst(line, c) =>
                          EndsFirst(line', c) /\ ~IsResponse(Head(line))
  BY <1>1, FirstTail
<1>7. \A c \in Conns : at'[c] = at[c] /\ Quieted(c) => Quieted(c)'
  BY <1>1, <1>2 DEF Quieted
<1>8. /\ map \in [Conns -> Socks \cup {INVALID_ID}] /\ at \in [Conns -> 0..Memory]
      /\ Stored /\ "twice" \notin flaws'
  BY <1>1 DEF WifiTypes, AllHanded, Fresh, None
<1>9. ASSUME resp' = resp, Head(line)[1] \in {"data", "closed"}
      PROVE  /\ Undone' = Undone
             /\ \A c \in Conns : Head(line) # <<"closed", c>> /\ (Quieted(c) => Quieted(c)') /\ Still(c)
                                    => Still(c)'
  <2>1. Head(line) # <<"error">>
    BY <1>9
  <2>2. Undone' = Undone
    BY <1>1, <1>2, <1>9, <2>1 DEF Undone
  <2> QED
    BY <1>6, <1>9, <2>2 DEF Still
<1>10. CASE /\ Head(line)[1] \in {"ok", "error"} /\ resp' = Append(resp, Head(line)[1])
           /\ UNCHANGED <<sockets, map, at>>
  <2>1. Head(line) \in {<<"ok">>, <<"error">>}
    BY <1>1, <1>10, MessageParts
  <2>2. IsResponse(Head(line)) /\ \A c \in Conns : Head(line) # <<"closed", c>>
    BY <2>1 DEF IsResponse
  <2>3. PICK r \in {"ok", "error"} : r = Head(line)[1] /\ resp' = Append(resp, r)
    BY <1>10
  <2>4. Has(resp', r) /\ \A m : (Has(resp, m) => Has(resp', m)) /\ (Has(resp', m) => Has(resp, m) \/ m = r)
    BY <1>1, <2>3, HasAppend
  <2>5. Head(line) = <<"error">> <=> r = "error"
    BY <2>1, <2>3
  <2>6. Undone' = Undone
    BY <1>1, <1>2, <1>3, <2>4, <2>5 DEF Undone
  <2>7. \A c \in Conns : Still(c) => Still(c)'
    BY <1>6, <1>7, <1>10, <2>2 DEF Still
  <2>8. Stored'
    BY <1>8, <1>10 DEF Stored
  <2> QED
    BY <1>1, <1>4, <1>7, <1>10, <2>2, <2>6, <2>7, <2>8, StepHanded
<1>11. ASSUME NEW c \in Conns, Head(line) = <<"data", c>>, Data(c), resp' = resp PROVE AllHanded'
  <2>1. \A d \in Conns : Head(line) # <<"closed", d>>
    BY <1>11
  <2>2. Stored' /\ \A d \in Conns : d # c => at'[d] = at[d]
    BY <1>1, <1>8, <1>11, DataStored
  <2>3. \A d \in Conns : Quieted(d) => Quieted(d)'
    <3>1. ~Quieted(c)
      BY <1>3, <1>11 DEF Quieted
    <3> QED
      BY <1>7, <2>2, <3>1
  <2>4. Undone' = Undone /\ \A d \in Conns : Still(d) => Still(d)'
    BY <1>9, <1>11, <2>1, <2>3
  <2>5. CASE UNCHANGED <<sockets, map>>
    BY <1>1, <1>4, <2>1, <2>2, <2>3, <2>4, <2>5, StepHanded
  <2>6. ASSUME NEW s \in Socks, map[c] = INVALID_ID, map' = [map EXCEPT ![c] = s],
               \A t \in Socks :
                       /\ sockets'[t].state = IF t = s THEN "WAITING_ACCEPT" ELSE sockets[t].state
                       /\ sockets'[t].conn_id = IF t = s THEN c ELSE sockets[t].conn_id
        PROVE  AllHanded'
    <3>1. \A t \in Socks : Numbered(t) \/ t = s => Numbered(t)'
      BY <1>1, <2>6, GivenNumbered
    <3>2. Handed(s)'
      BY <2>6, <3>1, HandedTurned
    <3>3. ASSUME NEW t \in Socks, t # s PROVE Handed(t)'
      <4>1. sockets'[t].state = sockets[t].state /\ sockets'[t].conn_id = sockets[t].conn_id
        BY <2>6, <3>3
      <4> QED
        BY <1>1, <1>4, <1>5, <2>1, <2>3, <2>4, <3>1, <4>1, HandedKept
    <3> QED
      BY <2>2, <3>2, <3>3 DEF AllHanded
  <2> QED
    BY <1>1, <1>11, <2>5, <2>6, DataStates
<1>12. ASSUME NEW c \in Conns, Head(line) = <<"closed", c>>, Closed(c), resp' = resp PROVE AllHanded'
  <2>1. at'[c] = NULL /\ \A d \in Conns : d # c => at'[d] = at[d] /\ Head(line) # <<"closed", d>>
    BY <1>8, <1>12 DEF Closed, Forgotten
  <2>2. \A d \in Conns : Quieted(d) => Quieted(d)'
    <3>1. ~Quieted(c)
      BY <1>3, <1>12 DEF Quieted
    <3> QED
      BY <1>7, <2>1, <3>1
  <2>3. Undone' = Undone /\ \A d \in Conns : d # c /\ Still(d) => Still(d)'
    BY <1>9, <1>12, <2>1, <2>2
  <2>4. \A t \in Socks : sockets'[t].cb = sockets[t].cb
    BY <1>1, <1>12, HeldCb
  <2>5. CASE map[c] = INVALID_ID /\ UNCHANGED <<sockets, map>>
    <3>1. Stored'
      BY <1>8, <2>1, <2>5 DEF Stored
    <3> QED
      BY <1>1, <1>4, <2>1, <2>2, <2>3, <2>5, <3>1, StepHanded
  <2>6. ASSUME NEW s \in Socks, map[c] = s, ReleasedMap(s),
               \A t \in Socks :
                    /\ sockets'[t].state = IF t = s THEN "DISCONNECTED" ELSE sockets[t].state
                    /\ sockets'[t].conn_id = IF t = s THEN INVALID_ID ELSE sockets[t].conn_id
        PROVE  AllHanded'
    <3>1. c # INVALID_ID /\ s # INVALID_ID /\ sockets[s].conn_id = c
      BY <1>5, <2>6, WifiAssumption DEF Conns, INVALID_ID, Matched
    <3>2. \A d \in Conns : d # c => map'[d] = map[d]
      BY <1>8, <2>6, <3>1 DEF ReleasedMap
    <3>3. Stored'
      <4>1. ASSUME NEW d \in Conns, at'[d] # NULL PROVE map'[d] # INVALID_ID /\ at'[d] = sockets'[map'[d]].cb
        <5>1. PICK t \in Socks : t = map[d] /\ at[d] = sockets[t].cb
          BY <1>8, <2>1, <4>1 DEF Stored
        <5> QED
          BY <1>5, <2>1, <2>4, <3>2, <4>1, <5>1
      <4> QED
        BY <4>1 DEF Stored
    <3>4. Numbered(s)
      BY <2>6, <3>1 DEF Numbered
    <3>5. \A t \in Socks : Numbered(t) => Numbered(t)'
      BY <1>1, <2>6, <3>4, ReleasedNumbered
    <3>6. Handed(s)'
      BY <2>6, <3>4, <3>5, HandedTurned
    <3>7. ASSUME NEW t \in Socks, t # s PROVE Handed(t)'
      <4>1. sockets'[t].state = sockets[t].state /\ sockets'[t].conn_id = sockets[t].conn_id
        BY <2>6, <3>7
      <4>2. \A d \in Conns : map[d] = t => d # c
        BY <2>6, <3>7
      <4>3. \A d \in Conns : map[d] = t /\ Still(d) => Still(d)'
        BY <2>3, <4>2
      <4>4. \A d \in Conns : map[d] = t /\ cmd = <<"STOP", d>> /\ (Undone \/ Stops(line, d))
                                => Undone' \/ Stops(line', d)
        BY <1>4, <2>1, <2>3, <4>2
      <4> QED
        BY <1>1, <1>5, <2>2, <2>3, <3>5, <4>1, <4>3, <4>4, HandedKept
    <3> QED
      BY <3>3, <3>6, <3>7 DEF AllHanded
  <2> QED
    BY <1>1, <1>12, <2>5, <2>6, ClosedStates
<1> QED
  <2>1. Head(line)[1] \in {"data", "closed"} => \E c \in Conns : Head(line) = <<Head(line)[1], c>> /\ c = Head(line)[2]
    BY <1>1, MessageParts
  <2> QED
    BY <1>1, <1>10, <1>11, <1>12, <2>1

\* at_run_cmd returns: a connect that failed has left no trace.
LEMMA ResponseHanded ==
    ASSUME Sane, Shape, Serving, Exchange, AllHanded, Fresh', Response \/ TimedOut
    PROVE  AllHanded'
<1>1. /\ cmd # <<>> /\ cmd' = <<>> /\ resp # <<>> /\ UNCHANGED <<sockets, map, at, line, link>>
      /\ work # <<>> /\ resp \in Seq({"ok", "error"}) /\ WifiTypes
      /\ \/ Head(resp) = "ok" /\ UNCHANGED work
         \/ Head(resp) = "error" /\ Failed
  BY DEF Response, TimedOut, Fresh, None, wifi, module, Sane, LineTypes
<1>2. todo = <<>> /\ NoResponse(line) /\ Len(resp) = 1 /\ resp[1] = Head(resp)
  BY <1>1 DEF Exchange
<1>3. ~Has(line, <<"error">>) /\ \A c : ~Stops(line, c)
  BY <1>2 DEF Has, Stops, NoResponse, IsResponse
<1>4. ~Undone' /\ \A c : Quieted(c) => Quieted(c)'
  BY <1>1 DEF Undone, Quieted
<1>5. Stored'
  BY <1>1 DEF AllHanded, Stored
<1> SUFFICES ASSUME NEW s \in Socks PROVE Handed(s)'
  BY <1>5 DEF AllHanded
<1>6. Handed(s) /\ (Numbered(s) => Numbered(s)')
  BY <1>1 DEF AllHanded, Numbered
<1>7. CASE Head(resp) = "ok" /\ UNCHANGED work
  <2>1. ~Undone
    <3>1. ~Has(resp, "error")
      BY <1>2, <1>7 DEF Has
    <3> QED
      BY <1>2, <1>3, <3>1 DEF Undone
  <2>2. \A a : Doing(a, s)' <=> Doing(a, s)
    BY <1>7 DEF Doing
  <2>3. Engaged(s)' => Engaged(s)
    BY <1>1, <2>2 DEF Engaged
  <2>4. ~Doing("start", s)
    BY <1>1, StartQuiet
  <2> QED
    BY <1>1, <1>3, <1>4, <1>6, <2>1, <2>2, <2>3, <2>4 DEF Handed
<1>8. CASE Head(resp) = "error" /\ Failed
  <2>1. work' # <<>> => \/ Head(work')[1] \notin FrontJobs \cup {"accept"}
                        \/ /\ Head(work) = <<"up", Sock>> /\ Head(work') = <<"unmap", Sock>>
                           /\ Sock \in Socks
    BY <1>1, <1>8, FailedHead DEF Serving
  <2>2. ASSUME NEW a \in FrontJobs \cup {"accept"}, Doing(a, s)' PROVE a = "unmap" /\ Doing("up", s)
    BY <1>1, <2>1, <2>2 DEF Doing
  <2>3. /\ ~Doing("up", s)' /\ ~Doing("stopped", s)' /\ ~Doing("accept", s)' /\ ~Doing("start", s)'
        /\ ~Doing("parted", s)' /\ ~Doing("unlink", s)' /\ (Doing("unmap", s)' => Doing("up", s))
    BY <2>2 DEF FrontJobs
  <2>4. Engaged(s)' => Numbered(s)'
    BY <1>1, <1>6, <2>3 DEF Engaged, Handed, Linking
  <2>5. Undone
    BY <1>1, <1>2, <1>8 DEF Undone, Has
  <2>6. \A c : Still(c) => Quieted(c)'
    BY <1>1, <1>4 DEF Still
  <2> QED
    BY <1>1, <1>6, <2>3, <2>4, <2>5, <2>6 DEF Handed
<1> QED
  BY <1>1, <1>7, <1>8

\* wifi_socket_connect takes a number: its connection is closed, and so it will be known to
\* be before the response comes.
LEMMA ClaimHanded ==
    ASSUME Sane, Exchange, Announced, AllHanded, Fresh', JobClaim
    PROVE  AllHanded'
<1>1. /\ WifiTypes /\ cmd = <<>> /\ work # <<>> /\ Sock \in Socks /\ line \in Seq(Message) /\ found \in Conns
      /\ NoResponse(line) /\ resp = <<>>
      /\ map \in [Conns -> Socks \cup {INVALID_ID}]
  BY AtWork DEF LineTypes, WifiTypes, JobClaim, Exchange
<1>2. \A t \in Socks : Handed(t) /\ t # INVALID_ID
  BY WifiAssumption DEF AllHanded, Socks, INVALID_ID
<1>3. PICK s \in Socks : s = Sock
  BY <1>1
<1>4. PICK c \in Conns :
         /\ map[c] = INVALID_ID /\ map' = [map EXCEPT ![c] = s] /\ c \notin link
         /\ sockets' = [sockets EXCEPT ![s].conn_id = c]
         /\ UNCHANGED <<line, link, at, resp>>
  BY <1>1, <1>3 DEF JobClaim, Fresh, None
<1>5. AllHanded'
  <2>1. map'[c] = s /\ \A d \in Conns : d # c => map'[d] = map[d]
    BY <1>1, <1>4
  <2>2. \A t \in Socks : /\ sockets'[t].state = sockets[t].state /\ sockets'[t].cb = sockets[t].cb
                         /\ sockets'[t].conn_id = IF t = s THEN c ELSE sockets[t].conn_id
    BY <1>1, <1>4 DEF WifiTypes, Socket
  <2>3. at[c] = NULL
    BY <1>4 DEF AllHanded, Stored
  <2>4. Stored'
    <3>1. ASSUME NEW d \in Conns, at'[d] # NULL PROVE map'[d] # INVALID_ID /\ at'[d] = sockets'[map'[d]].cb
      <4>1. d # c /\ at[d] # NULL
        BY <1>1, <1>4, <2>3, <3>1
      <4>2. PICK t \in Socks : t = map[d] /\ at[d] = sockets[t].cb
        BY <1>1, <4>1 DEF AllHanded, Stored
      <4> QED
        BY <1>1, <1>4, <1>2, <2>1, <2>2, <4>1, <4>2
    <3> QED
      BY <3>1 DEF Stored
  <2>5. Still(c)
    <3>1. CASE Has(line, <<"closed", c>>)
      BY <1>1, <3>1, SMTT(30) DEF Still, EndsFirst, Has, NoResponse
    <3>2. CASE ~Has(line, <<"closed", c>>)
      <4>1. \A k \in 1..Len(line) : ~EndsAfter(line, k, c)
        BY <3>2 DEF Has, EndsAfter
      <4>2. ~Has(line, <<"data", c>>)
        BY <1>4, <4>1 DEF Has, Announced
      <4> QED
        BY <1>4, <2>3, <3>2, <4>2 DEF Still, Quieted
    <3> QED
      BY <3>1, <3>2
  <2>6. Still(c)'
    BY <1>1, <1>4, <2>5 DEF Still, Quieted
  <2>7. \A t \in Socks : Numbered(t) \/ t = s => Numbered(t)'
    BY <1>1, <1>4, <2>2, GivenNumbered
  <2>8. work' # <<>> /\ Head(work') = <<"start", s>>
    BY <1>1, <1>3, GoesOn DEF JobClaim, JobNames
  <2>9. \A t \in Socks : sockets'[t].state \in Up \/ t = s => Numbered(t)'
    BY <1>2, <2>2, <2>7 DEF Engaged, Handed, Up
  <2>10. Still(sockets[s].conn_id)'
    BY <2>2, <2>6
  <2> QED
    BY <2>4, <2>8, <2>9, <2>10, HandedGoes DEF AllHanded
<1> QED
  BY <1>5

\* A step that changes the buffers of sockets without a connection.
LEMMA StoredKept ==
    ASSUME WifiTypes, Stored, UNCHANGED <<map, at>>,
           \A t \in Socks : Mapped(t) => sockets'[t].cb = sockets[t].cb
    PROVE  Stored'
<1>1. ASSUME NEW c \in Conns, at[c] # NULL PROVE map[c] # INVALID_ID /\ at[c] = sockets'[map[c]].cb
  <2>1. PICK t \in Socks : t = map[c] /\ at[c] = sockets[t].cb /\ map[c] # INVALID_ID
    BY <1>1 DEF WifiTypes, Stored
  <2>2. Mapped(t)
    BY <2>1 DEF Mapped
  <2> QED
    BY <2>1, <2>2
<1> QED
  BY <1>1 DEF Stored

LEMMA CallsHanded ==
    ASSUME Sane, Linked, AllHanded, Fresh', Open \/ WifiRemove \/ \E s \in Socks : Call(s)
    PROVE  AllHanded'
<1>1. WifiTypes /\ \A t \in Socks : Handed(t)
  BY DEF Sane, AllHanded
<1>2. NoneAsked /\ \A t \in Socks : \A a \in ConnJobs \ {"claim"} : ~Doing(a, t)'
  BY CallJobs DEF NoneAsked, ConnJobs, Linking
<1>3. /\ UNCHANGED <<map, at>>
      /\ \A t \in Socks : /\ sockets'[t].state \in {sockets[t].state, "DISCONNECTED"}
                          /\ sockets'[t].conn_id = sockets[t].conn_id
                          /\ Mapped(t) => sockets'[t].cb = sockets[t].cb
  <2>0. work = <<>> => \A t \in Socks : Mapped(t) => sockets[t].state \in Up
    BY DEF Linked, Doing, Up
  <2>1. CASE Open
    <3>1. work = <<>> /\ UNCHANGED <<map, at>>
      BY <2>1 DEF Open, Begin, Idle, parser
    <3>2. \/ sockets' = sockets
          \/ \E s \in Socks : \E b : /\ sockets' = [sockets EXCEPT ![s].state = "DISCONNECTED", ![s].cb = b]
                                    /\ sockets[s].state = "UNUSED"
      <4> DEFINE unused == {s \in Socks : sockets[s].state = "UNUSED"}
      <4>1. unused \in SUBSET Nat
        BY WifiAssumption DEF Socks
      <4>2. unused # {} => First(unused) \in unused
        BY <4>1, FirstFound
      <4> QED
        BY <2>1, <4>2 DEF Open
    <3>3. ASSUME NEW t \in Socks, Mapped(t) PROVE sockets'[t].cb = sockets[t].cb
      <4>1. sockets[t].state # "UNUSED" /\ t \in DOMAIN sockets
        BY <1>1, <2>0, <3>1, <3>3 DEF Up, WifiTypes
      <4>2. ASSUME NEW s \in Socks, NEW b, sockets' = [sockets EXCEPT ![s].state = "DISCONNECTED", ![s].cb = b],
                   sockets[s].state = "UNUSED"
            PROVE  sockets'[t] = sockets[t]
        BY <4>1, <4>2
      <4> QED
        BY <3>2, <4>2
    <3> QED
      BY <1>1, <2>1, <3>1, <3>3, OpenStates
  <2>2. ASSUME NEW s \in Socks, NEW b \in BackLogs, Listen(s, b)
        PROVE  /\ UNCHANGED <<map, at>>
               /\ \A t \in Socks : Mapped(t) => sockets'[t].cb = sockets[t].cb
    <3>1. work = <<>> /\ UNCHANGED <<map, at>> /\ sockets[s].state = "DISCONNECTED"
      BY <2>2 DEF Listen, Begin, Idle, parser, Flaw, Fresh, None
    <3>2. PICK m \in Nat, f \in Nat, o \in {0, 1} : \E q \in Seq(Socks), p \in [1..f -> FreeBufs] :
              Takes(s, m, f, o, q, p)
      BY <2>2, ListenTakes
    <3>3. PICK q \in Seq(Socks), p \in [1..f -> FreeBufs] : Takes(s, m, f, o, q, p)
      BY <3>2
    <3>4. ASSUME NEW t \in Socks, Mapped(t) PROVE sockets'[t] = sockets[t]
      <4>1. sockets[t].state \in Up
        BY <2>0, <3>1, <3>4
      <4>2. t # s /\ sockets[t].state # "UNUSED"
        BY <3>1, <4>1 DEF Up
      <4>3. \A k \in 1..m : sockets[q[k]].state = "UNUSED"
        BY <3>3, Zenon DEF Takes
      <4>4. (\A k \in 1..m : q[k] # t) =>
               sockets'[t] = IF t = s /\ m > 0 THEN [sockets[t] EXCEPT !.cb = NULL] ELSE sockets[t]
        BY <3>3, Zenon DEF Takes
      <4>5. \A k \in 1..m : q[k] # t
        BY <4>2, <4>3
      <4> QED
        BY <4>2, <4>4, <4>5
    <3> QED
      BY <3>1, <3>4, SMTT(30)
  <2>3. CASE WifiRemove \/ \E s \in Socks : \/ Connect(s) \/ Disconnect(s) \/ Close(s) \/ Send(s)
                                          \/ Bind(s) \/ Accept(s)
    BY <2>3 DEF WifiRemove, Connect, Disconnect, Close, Send, Bind, Accept, wifi, parser
  <2> QED
    BY <2>1, <2>2, <2>3, ListenSockets DEF Call
<1>4. Stored'
  BY <1>1, <1>3, StoredKept DEF AllHanded
<1>5. ASSUME NEW t \in Socks PROVE Handed(t)'
  <2>1. sockets'[t].state \in Up \/ Doing("accept", t)' => Numbered(t)
    BY <1>1, <1>2, <1>3 DEF NoneAsked, Handed, Engaged, Up
  <2>2. Numbered(t) => Numbered(t)'
    BY <1>3 DEF Numbered
  <2> QED
    BY <1>2, <2>1, <2>2, HandedIdle
<1> QED
  BY <1>4, <1>5 DEF AllHanded

\* After a job every socket that is connected has its own number, and the parser knows where
\* its data go.
LEMMA JobsNumbered ==
    ASSUME Sane, Standing, Linked, AllHanded, Fresh', Jobs, ~JobClaim
    PROVE  Stored' /\ \A t \in Socks : sockets'[t].state \in Up => Numbered(t)'
<1>1. PICK name : /\ cmd = <<>> /\ work # <<>> /\ Sock \in Socks /\ WifiTypes /\ Job(name)
                  /\ Head(work) = <<name, Sock>>
  BY JobsAtWork
<1>2. Stored /\ \A t \in Socks : Handed(t) /\ t # INVALID_ID
  BY WifiAssumption DEF AllHanded, Socks, INVALID_ID
<1>3. "retaken" \notin flaws' /\ "overtaken" \notin flaws' /\ Clean'
  BY DEF Fresh, Clean, None
<1>4. PICK s \in Socks : s = Sock
  BY <1>1
<1>5. \A t \in Socks : sockets[t].state \in Up => Numbered(t)
  BY <1>2 DEF Handed, Engaged, Up
<1>6. ASSUME UNCHANGED <<map, at>>, Numbered(s) \/ sockets'[s].state \notin Up,
             \A t \in Socks : /\ sockets'[t].conn_id = sockets[t].conn_id
                              /\ t # s => sockets'[t].state \in {sockets[t].state, "UNUSED"}
                              /\ Mapped(t) => sockets'[t].cb = sockets[t].cb
      PROVE  Stored' /\ \A t \in Socks : sockets'[t].state \in Up => Numbered(t)'
  <2>1. Stored'
    BY <1>1, <1>2, <1>6, StoredKept
  <2>2. ASSUME NEW t \in Socks, sockets'[t].state \in Up PROVE Numbered(t)'
    <3>1. Numbered(t)
      BY <1>5, <1>6, <2>2 DEF Up
    <3> QED
      BY <1>6, <3>1 DEF Numbered
  <2> QED
    BY <2>1, <2>2
<1>7. ASSUME UNCHANGED <<map, at, sockets>>
      PROVE  Stored' /\ \A t \in Socks : sockets'[t].state \in Up => Numbered(t)'
  BY <1>5, <1>6, <1>7
<1>8. CASE JobGone
  <2>1. /\ \A c \in Conns : at'[c] = NULL
        /\ \A t \in Socks : sockets'[t].state = "UNUSED"
    BY <1>8 DEF JobGone, NoSockets
  <2> QED
    BY <2>1 DEF Stored, Up
<1>9. CASE \/ JobClose \/ JobDisconnect \/ JobUnserve \/ JobFree \/ JobHandle \/ JobSend \/ JobSent \/ JobQuit
           \/ JobStopped \/ JobStart \/ JobUnmap
  <2>1. UNCHANGED <<map, at, sockets>>
    BY <1>9, Zenon DEF JobClose, JobDisconnect, JobUnserve, JobFree, JobHandle, JobSend, JobSent,
                       JobQuit, JobStopped, JobStart, JobUnmap, wifi, parser
  <2> QED
    BY <1>7, <2>1
<1>10. ASSUME NEW st \in States, UNCHANGED <<map, at>>, sockets' = [sockets EXCEPT ![s].state = st],
              Numbered(s) \/ st \notin Up
       PROVE  Stored' /\ \A t \in Socks : sockets'[t].state \in Up => Numbered(t)'
  <2>1. \A t \in Socks : /\ sockets'[t].state = IF t = s THEN st ELSE sockets[t].state
                         /\ sockets'[t].conn_id = sockets[t].conn_id
                         /\ sockets'[t].cb = sockets[t].cb
    BY <1>1, <1>10 DEF WifiTypes, Socket
  <2> QED
    BY <1>6, <1>10, <2>1
<1>11. CASE JobNoServer \/ JobDown \/ JobListening
  <2>1. PICK st \in {"DISCONNECTED", "LISTENING"} :
           UNCHANGED <<map, at>> /\ sockets' = [sockets EXCEPT ![s].state = st]
    BY <1>4, <1>11 DEF JobNoServer, JobDown, JobListening
  <2> QED
    BY <1>10, <2>1 DEF Up, States
<1>12. CASE JobUp \/ JobAccept
  <2>1. UNCHANGED <<map, at>> /\ sockets' = [sockets EXCEPT ![s].state = "CONNECTED"]
    BY <1>4, <1>12 DEF JobUp, JobAccept, parser
  <2>2. Doing("up", s) \/ Doing("accept", s)
    BY <1>1, <1>4, <1>12 DEF Doing, JobUp, JobAccept, Job
  <2>3. Numbered(s)
    BY <1>2, <2>2 DEF Handed, Engaged, Linking
  <2> QED
    BY <1>10, <2>1, <2>3 DEF States
<1>13. CASE JobTail
  <2>1. UNCHANGED <<map, at>>
    BY <1>13 DEF JobTail
  <2>2. \A t \in Socks : /\ sockets'[t].state \in {sockets[t].state, "UNUSED"}
                         /\ sockets'[t].conn_id = sockets[t].conn_id
                         /\ t = s => sockets'[t].state = "UNUSED"
    BY <1>1, <1>4, <1>13, TailStates
  <2>3. sockets[s].state # "WAITING_ACCEPT" /\ \A t \in Socks : t # s => sockets'[t].cb = sockets[t].cb
    <3>1. JobTail /\ Clean' /\ s = Sock
      BY <1>3, <1>4, <1>13
    <3>2. sockets[s].state # "WAITING_ACCEPT"
      BY <3>1, TailSockets, Zenon
    <3>3. ASSUME NEW t \in Socks, t # s PROVE sockets'[t].cb = sockets[t].cb
      BY <3>1, <3>3, TailSockets, Zenon
    <3> QED
      BY <3>2, <3>3
  <2>4. ~Mapped(s)
    <3>1. Head(work) = <<"tail", s>>
      BY <1>1, <1>4, <1>13 DEF JobTail, Job
    <3>2. sockets[s].state = "DISCONNECTED" /\ \A a \in Linking : ~Doing(a, s)
      BY <1>1, <2>3, <3>1 DEF Standing, Turn, Doing, Linking
    <3> QED
      BY <3>2, SMTT(30) DEF Linked
  <2> QED
    BY <1>6, <2>1, <2>2, <2>3, <2>4, SMTT(30) DEF Up
<1>14. CASE JobParted \/ JobUnlink
  <2>0. ReleaseFound /\ at' = at /\ found \in Conns
    BY <1>14 DEF JobParted, JobUnlink, Sane, LineTypes
  <2>1. ReleaseConn(s) /\ sockets[s].state # "WAITING_ACCEPT" /\ at' = at
    BY <1>1, <1>3, <1>4, <2>0, FoundReleased
  <2>2. PICK c \in Conns \cup {INVALID_ID} : c = sockets[s].conn_id
    BY <1>1 DEF WifiTypes, Socket
  <2>3. CASE c = INVALID_ID
    BY <1>7, <2>1, <2>2, <2>3 DEF ReleaseConn
  <2>4. CASE c # INVALID_ID
    <3>2. ~Doing("parted", s)
      BY <1>2, <2>1, <2>2, <2>4 DEF Handed
    <3>3. Doing("unlink", s)
      BY <1>1, <1>4, <1>14, <3>2 DEF Doing, JobParted, JobUnlink, Job
    <3>4. Quieted(c) /\ Numbered(s)
      BY <1>2, <2>1, <2>2, <2>4, <3>3 DEF Handed, Engaged, Linking
    <3>5. ReleasedMap(s)
      BY <2>1, ReleasedTable
    <3>6. \A t \in Socks : /\ sockets'[t].state = sockets[t].state
                           /\ sockets'[t].conn_id = IF t = s THEN INVALID_ID ELSE sockets[t].conn_id
      BY <1>1, <2>1, StateKept
    <3>7. \A t \in Socks : Numbered(t) => Numbered(t)'
      BY <1>1, <3>4, <3>5, <3>6, ReleasedNumbered
    <3>8. /\ \A t \in Socks : sockets'[t].cb = sockets[t].cb
          /\ map \in [Conns -> Socks \cup {INVALID_ID}]
      <4>1. sockets' = [sockets EXCEPT ![s].conn_id = INVALID_ID]
        BY <2>1, <2>2, <2>4 DEF ReleaseConn
      <4> QED
        BY <1>1, <4>1 DEF WifiTypes, Socket
    <3>9. \A d \in Conns : d # c => map'[d] = map[d]
      BY <2>2, <2>4, <3>5, <3>8 DEF ReleasedMap
    <3>10. Stored'
      <4>1. ASSUME NEW d \in Conns, at'[d] # NULL PROVE map'[d] # INVALID_ID /\ at'[d] = sockets'[map'[d]].cb
        <5>1. d # c /\ at[d] # NULL
          BY <2>1, <3>4, <4>1 DEF Quieted
        <5>2. PICK t \in Socks : t = map[d] /\ at[d] = sockets[t].cb
          BY <1>2, <3>8, <5>1 DEF Stored
        <5> QED
          BY <1>2, <2>1, <3>8, <3>9, <5>1, <5>2
      <4> QED
        BY <4>1 DEF Stored
    <3> QED
      BY <1>5, <3>6, <3>7, <3>10
  <2> QED
    BY <2>3, <2>4
<1> QED
  BY <1>8, <1>9, <1>11, <1>12, <1>13, <1>14 DEF Jobs

LEMMA JobsHanded ==
    ASSUME Sane, Serving, Exchange, Announced, Standing, Linked, AllHanded, Fresh', Jobs
    PROVE  AllHanded'
<1>0. CASE JobClaim
  BY <1>0, ClaimHanded
<1> SUFFICES ASSUME ~JobClaim PROVE AllHanded'
  BY <1>0
<1>1. Stored' /\ \A t \in Socks : sockets'[t].state \in Up => Numbered(t)'
  BY JobsNumbered
<1>2. CASE JobDisconnect /\ Goes(<<<<"stopped", Sock>>>>)
  <2>1. PICK s \in Socks :
         /\ sockets[s].state \in Up /\ sockets' = sockets /\ map' = map
         /\ work' # <<>> /\ Head(work') = <<"stopped", s>>
         /\ cmd' = <<"STOP", sockets[s].conn_id>> /\ Undone'
    BY <1>2, StopRun
  <2>2. ASSUME NEW t \in Socks PROVE Handed(t)'
    <3>1. /\ \A a \in Linking \cup {"parted", "accept"} : ~Doing(a, t)'
          /\ Doing("stopped", t)' => t = s
      BY <2>1 DEF Doing, Linking
    <3>2. Engaged(t)' => Numbered(t)'
      BY <1>1, <2>1, <3>1 DEF Engaged, Up
    <3>4. /\ ~Doing("start", t)' /\ ~Doing("up", t)' /\ ~Doing("unmap", t)' /\ ~Doing("unlink", t)'
          /\ ~Doing("parted", t)'
      BY <3>1 DEF Linking
    <3>3. Doing("stopped", t)' => cmd' = <<"STOP", sockets'[t].conn_id>>
      BY <2>1, <3>1
    <3> QED
      BY <2>1, <3>2, <3>3, <3>4 DEF Handed
  <2> QED
    BY <1>1, <2>2 DEF AllHanded
<1>3. PICK s \in Socks : s = Sock /\ WifiTypes /\ cmd = <<>> /\ work # <<>> /\ Handed(s)
  BY JobsAtWork DEF AllHanded
<1>4. PICK c \in Conns \cup {INVALID_ID} : c = sockets[s].conn_id
  BY <1>3 DEF WifiTypes, Socket
<1>5. CASE JobStopped /\ Goes(<<<<"parted", Sock>>>>)
  <2>1. Doing("stopped", s)
    BY <1>3, <1>5, AtWork DEF JobStopped, Doing
  <2>2. work' # <<>> /\ Head(work') = <<"parted", s>>
    BY <1>3, <1>5, GoesOn DEF JobNames
  <2>3. c # INVALID_ID
    <3>1. \/ c # INVALID_ID
          \/ Goes(<<<<"down", Sock>>>>)
      BY <1>3, <1>4, <1>5 DEF JobStopped, LoadNumber
    <3>2. Goes(<<<<"down", Sock>>>>) => Head(work') = <<"down", s>>
      BY <1>3, GoesOn DEF JobNames
    <3>3. <<"down", s>> # <<"parted", s>>
      OBVIOUS
    <3> QED
      BY <2>2, <3>1, <3>2, <3>3
  <2>4. sockets[s].state # "WAITING_ACCEPT"
    BY <1>3, <1>5 DEF JobStopped, Flaw, Retaken, Fresh, None
  <2>5. cmd = <<"STOP", c>>
    BY <1>3, <1>4, <2>1, <2>3, <2>4 DEF Handed
  <2> QED
    BY ONLY <1>3, <2>5
<1>6. CASE JobStart
  <2>1. Doing("start", s) /\ UNCHANGED <<sockets, map, at, line, link, resp>>
    BY <1>3, <1>6, AtWork DEF JobStart, Doing, wifi, KeepJob
  <2>2. work' # <<>> /\ Head(work') = <<"up", s>>
    BY <1>3, <1>6, GoesOn DEF JobStart, JobNames
  <2>3. Numbered(s)'
    BY <1>3, <2>1 DEF Handed, Engaged, Linking, Numbered
  <2>4. sockets[s].state # "WAITING_ACCEPT" /\ c # INVALID_ID => Still(c)'
    BY <1>3, <1>4, <2>1 DEF Handed, Still, Quieted
  <2>5. sockets'[s].state # "WAITING_ACCEPT" /\ sockets'[s].conn_id # INVALID_ID => Still(sockets[s].conn_id)'
    BY <1>4, <2>1, <2>4
  <2> QED
    BY <1>1, <2>2, <2>3, <2>5, HandedGoes DEF AllHanded
<1>7. CASE JobUnmap /\ Goes(<<<<"unlink", Sock>>>>)
  <2>1. Doing("unmap", s) /\ UNCHANGED <<sockets, map, at, line, link>>
    BY <1>3, <1>7, AtWork DEF JobUnmap, Doing, wifi, parser
  <2>2. work' # <<>> /\ Head(work') = <<"unlink", s>>
    BY <1>3, <1>7, GoesOn DEF JobNames
  <2>3. Numbered(s)'
    BY <1>3, <2>1 DEF Handed, Engaged, Linking, Numbered
  <2>4. sockets[s].state # "WAITING_ACCEPT" /\ c # INVALID_ID => Quieted(c)'
    BY <1>3, <1>4, <2>1 DEF Handed, Quieted
  <2>5. sockets'[s].state # "WAITING_ACCEPT" /\ sockets'[s].conn_id # INVALID_ID => Quieted(sockets[s].conn_id)'
    BY <1>4, <2>1, <2>4
  <2> QED
    BY <1>1, <2>2, <2>3, <2>5, HandedGoes DEF AllHanded
<1>8. CASE /\ ~(JobDisconnect /\ Goes(<<<<"stopped", Sock>>>>))
           /\ ~(JobStopped /\ Goes(<<<<"parted", Sock>>>>)) /\ ~JobStart
           /\ ~(JobUnmap /\ Goes(<<<<"unlink", Sock>>>>))
  <2>1. NoneDoing' /\ NoAccept'
    BY <1>8, JobsDoing
  <2>2. ASSUME NEW t \in Socks PROVE Handed(t)'
    BY <1>1, <2>1, HandedIdle DEF NoAccept, NoneDoing
  <2> QED
    BY <1>1, <2>2 DEF AllHanded
<1> QED
  BY <1>2, <1>5, <1>6, <1>7, <1>8

LEMMA NextDelivered ==
    Sane /\ Serving /\ MapsBack /\ Paired /\ Announced /\ Housing /\ Delivered /\ [Next]_vars
        => Delivered'
<1> SUFFICES ASSUME Sane, Serving, MapsBack, Paired, Announced, Housing, Delivered, [Next]_vars, Fresh'
             PROVE  AllHanded'
  BY DEF Delivered
<1>1. Fresh
  <2>1. flaws \subseteq flaws'
    BY NumbersChange
  <2> QED
    BY <2>1 DEF Fresh, None
<1>2. AllHanded /\ Matched /\ Exchange /\ Housed
  BY <1>1 DEF Delivered, Fresh, None, MapsBack, Matched, Paired, Housing, Clean
<1>3. Shape /\ Standing /\ Linked
  BY <1>2 DEF Housed
<1>4. CASE UNCHANGED vars
  <2>1. UNCHANGED <<sockets, map, at, work, cmd, todo, line, resp, link>>
    BY <1>4 DEF vars, wifi, app, parser, module
  <2>2. Stored' /\ Undone' = Undone /\ \A c : Quieted(c)' = Quieted(c) /\ Still(c)' = Still(c)
    BY <1>2, <2>1 DEF AllHanded, Stored, Undone, Quieted, Still
  <2> QED
    BY <1>2, <1>3, <2>1, <2>2, StepHanded DEF Sane
<1>5. CASE Open \/ WifiRemove \/ \E s \in Socks : Call(s)
  BY <1>2, <1>3, <1>5, CallsHanded
<1>6. CASE Jobs
  BY <1>2, <1>3, <1>6, JobsHanded
<1>7. CASE Response \/ TimedOut
  BY <1>2, <1>3, <1>7, ResponseHanded
<1>8. CASE Interrupt
  BY <1>2, <1>3, <1>8, InterruptHanded
<1>9. CASE Answer
  BY <1>2, <1>3, <1>9, AnswerHanded
<1>10. CASE PeerConnects \/ \E c \in Conns : PeerSends(c) \/ PeerCloses(c)
  BY <1>2, <1>3, <1>10, PeersHanded
<1> QED
  BY <1>4, <1>5, <1>6, <1>7, <1>8, <1>9, <1>10 DEF Next

LEMMA InitDelivered == Init => Delivered
<1> SUFFICES ASSUME Init PROVE AllHanded
  BY DEF Delivered
<1>1. Stored
  BY DEF Init, Stored
<1>2. ASSUME NEW s \in Socks PROVE Handed(s)
  <2>1. sockets[s].state = "UNUSED" /\ \A a : ~Doing(a, s)
    BY DEF Init, NoSockets, Doing
  <2> QED
    BY <2>1 DEF Handed, Engaged
<1> QED
  BY <1>1, <1>2 DEF AllHanded

\* The parser stores the data of a connection in the buffer of the socket that has it; a connect
\* that fails leaves no trace of its connection, and a disconnect that succeeds finds it closed.
THEOREM WifiDelivered == Spec => []Delivered
BY InitDelivered, NextDelivered, WifiSaneInvariance, WifiServing, WifiMapsBack, WifiPaired,
   WifiAnnounced, WifiHousing, PTL DEF Spec

\* Of the run: the data of a connection go to the buffer of the socket that it belongs to, which
\* is allocated.
THEOREM WifiDataToOwner == Spec => []DataToOwner
<1>1. ASSUME Sane, Housing, Delivered PROVE DataToOwner
  <2> SUFFICES ASSUME Fresh, NEW c \in Conns, at[c] # NULL
               PROVE  map[c] # INVALID_ID /\ at[c] = sockets[map[c]].cb /\ at[c] \in live
    BY DEF DataToOwner, Fresh
  <2>1. map[c] # INVALID_ID /\ at[c] = sockets[map[c]].cb
    BY <1>1 DEF Delivered, AllHanded, Stored
  <2>2. PICK s \in Socks : s = map[c]
    BY <1>1, <2>1 DEF Sane, WifiTypes
  <2>3. Linked /\ Buffers
    BY <1>1 DEF Fresh, Housing, Clean, None, Housed
  <2>4. \/ sockets[s].state \in {"CONNECTED", "WAITING_ACCEPT"}
        \/ sockets[s].state = "DISCONNECTED" /\ (\E a \in Linking : Doing(a, s))
    BY <2>2, <2>3 DEF Linked, Mapped
  <2>5. InUse(s) /\ ~Freed(s)
    BY <2>4 DEF InUse, Freed, Doing, Linking
  <2>6. sockets[s].cb \in live \cup {NULL}
    BY <2>3, <2>5 DEF Buffers
  <2> QED
    BY <2>1, <2>2, <2>6
<1> QED
  BY <1>1, WifiSaneInvariance, WifiHousing, WifiDelivered, PTL

=============================================================================
