------------------------- MODULE WifiSocketsProofs -------------------------
(***************************************************************************)
(* Proofs about WifiSockets for any number of connections, any memory and  *)
(* any number of calls, peers and failures: the types, the agreement of    *)
(* the two tables, that a connected socket has a connection, that the      *)
(* buffers of the sockets in use are apart, and that the data received on  *)
(* a connection go to the buffer of its socket.                            *)
(*                                                                         *)
(* The invariants, which WifiInvariants defines, each resting on the ones  *)
(* before it: types and what a call has left to do (Sane); the two tables  *)
(* (MapsBack); the server and its jobs (Serving); a command and its one    *)
(* response (Paired); what the module tells of a connection (Announced);   *)
(* from all of these, what is known of a socket by what is being done      *)
(* about it (Tracked); from the first three, which buffer is whose, and in *)
(* which order the jobs of a call free them (Housing); and, from all but   *)
(* Tracked, where the parser puts data (Delivered).                        *)
(***************************************************************************)
EXTENDS WifiInvariants, FiniteSetTheorems, SequenceTheorems, WellFoundedInduction, TLAPS

-----------------------------------------------------------------------------
(* The loops over an array.                                                *)

Less == {p \in Nat \X Nat : p[1] < p[2]}

\* A set of natural numbers has a first one.
LEMMA LeastNat ==
    ASSUME NEW S \in SUBSET Nat, S # {}
    PROVE  \E x \in S : \A y \in S : x <= y
<1>1. IsWellFoundedOn(Less, Nat)
  BY NatLessThanWellFounded DEF OpToRel, Less
<1>2. PICK x \in S : \A y \in S : ~(<<y, x>> \in Less)
  BY <1>1, WFMin
<1>3. \A y \in S : x <= y
  <2>1. \A a, b \in Nat : <<a, b>> \notin Less => b <= a
    BY DEF Less
  <2> QED
    BY <1>2, <2>1
<1> QED
  BY <1>3

LEMMA FirstFound ==
    ASSUME NEW S \in SUBSET Nat, S # {}
    PROVE  First(S) \in S /\ \A y \in S : First(S) <= y
BY LeastNat DEF First

Rising(q, n) == \A j, k \in 1..n : j < k => q[j] < q[k]

\* A finite set of natural numbers can be gone through in order.
LEMMA RisingExists ==
    ASSUME NEW S \in SUBSET Nat, IsFiniteSet(S)
    PROVE  \E q \in [1..Cardinality(S) -> S] : Rising(q, Cardinality(S))
<1> DEFINE Good(n, U) == \E q \in [1..n -> U] : Rising(q, n)
           Bad == {n \in Nat : \E U \in SUBSET Nat :
                                  IsFiniteSet(U) /\ Cardinality(U) = n /\ ~Good(n, U)}
<1>1. ASSUME Bad # {} PROVE FALSE
  <2>1. PICK n \in Bad : \A m \in Bad : n <= m
    BY <1>1, LeastNat
  <2>2. PICK U \in SUBSET Nat : IsFiniteSet(U) /\ Cardinality(U) = n /\ ~Good(n, U)
    BY <2>1
  <2>3. n \in Nat
    BY <2>1
  <2>4. CASE n = 0
    <3>1. <<>> \in [1..n -> U] /\ Rising(<<>>, n)
      BY <2>4 DEF Rising
    <3> QED
      BY <2>2, <3>1
  <2>5. CASE n # 0
    <3>1. U # {}
      BY <2>2, <2>5, FS_EmptySet
    <3>2. PICK m \in U : \A y \in U : m <= y
      BY <3>1, LeastNat
    <3>3. IsFiniteSet(U \ {m}) /\ Cardinality(U \ {m}) = n - 1
      BY <2>2, FS_RemoveElement
    <3>4. n - 1 \in Nat /\ n - 1 \notin Bad
      BY <2>1, <2>3, <2>5
    <3>5. PICK p \in [1..n - 1 -> U \ {m}] : Rising(p, n - 1)
      BY <3>3, <3>4
    <3> DEFINE q == [k \in 1..n |-> IF k = 1 THEN m ELSE p[k - 1]]
    <3>6. \A k \in 1..n : k # 1 => k - 1 \in 1..n - 1
      BY <2>3
    <3>7. q \in [1..n -> U]
      BY <3>6
    <3>8. ASSUME NEW j \in 1..n, NEW k \in 1..n, j < k PROVE q[j] < q[k]
      <4>1. k # 1 /\ q[k] = p[k - 1] /\ k - 1 \in 1..n - 1
        BY <2>3, <3>6, <3>8
      <4>2. p[k - 1] \in U \ {m} /\ m <= p[k - 1] /\ p[k - 1] \in Nat /\ m \in Nat
        BY <3>2, <4>1
      <4>3. CASE j = 1
        BY <4>1, <4>2, <4>3
      <4>4. CASE j # 1
        <5>1. q[j] = p[j - 1] /\ j - 1 \in 1..n - 1 /\ j - 1 < k - 1
          BY <2>3, <3>6, <3>8, <4>4
        <5> QED
          BY <3>5, <4>1, <5>1 DEF Rising
      <4> QED
        BY <4>3, <4>4
    <3>9. Rising(q, n)
      BY <3>8 DEF Rising
    <3> HIDE DEF q
    <3> QED
      BY <2>2, <3>7, <3>9
  <2> QED
    BY <2>4, <2>5
<1>2. Cardinality(S) \in Nat /\ Cardinality(S) \notin Bad
  BY <1>1, FS_CardinalityType
<1> QED
  BY <1>2

LEMMA InOrderFound ==
    ASSUME NEW S \in SUBSET Nat, IsFiniteSet(S)
    PROVE  /\ Cardinality(S) \in Nat
           /\ InOrder(S) \in [1..Cardinality(S) -> S] /\ Rising(InOrder(S), Cardinality(S))
<1>1. Cardinality(S) \in Nat
  BY FS_CardinalityType
<1> QED
  BY <1>1, RisingExists DEF InOrder, Rising

-----------------------------------------------------------------------------
(* The jobs that are left.                                                 *)

\* Jobs that a job may turn into.
Plain(J) ==
    J \in Seq(Task) /\ \A k \in 1..Len(J) : J[k][1] \notin {"handle", "accept"}

\* R is what is left of the jobs W after the first, and perhaps some more.
RestOf(R, W) ==
    \E d \in 1..Len(W) : /\ R \in Seq(Task) /\ Len(R) = Len(W) - d
                         /\ \A k \in 1..Len(R) : R[k] = W[k + d]

LEMMA TailRest ==
    ASSUME NEW W \in Seq(Task), W # <<>>
    PROVE  /\ RestOf(Tail(W), W) /\ W[1] = Head(W) /\ W[1] \in Task /\ 1 \in 1..Len(W)
           /\ Tail(W) \in Seq(Task) /\ Len(Tail(W)) = Len(W) - 1
<1>1. /\ Tail(W) \in Seq(Task) /\ Len(Tail(W)) = Len(W) - 1 /\ 1 \in 1..Len(W)
      /\ \A k \in 1..Len(Tail(W)) : Tail(W)[k] = W[k + 1]
      /\ W[1] = Head(W) /\ W[1] \in Task
  OBVIOUS
<1> QED
  BY <1>1 DEF RestOf

\* An error takes away the end of the close and the return of the descriptor.
LEMMA AbortedPlaces ==
    ASSUME NEW W \in Seq(Task), W # <<>>
    PROVE  \E n \in 0..2 :
              /\ n + 1 \in 1..Len(W)
              /\ Aborted(Tail(W)) \in Seq(Task) /\ Len(Aborted(Tail(W))) = Len(W) - (n + 1)
              /\ \A k \in 1..Len(Aborted(Tail(W))) : Aborted(Tail(W))[k] = W[k + (n + 1)]
              /\ n = 0 => Len(W) = 1 \/ W[2][1] # "tail"
              /\ n > 0 => Len(W) > 1 /\ W[2][1] = "tail"
              /\ n = 1 => Len(W) = 2 \/ W[3][1] # "handle"
              /\ n = 2 => Len(W) > 2 /\ W[3][1] = "handle"
<1>1. PICK T \in Seq(Task) : /\ T = Tail(W) /\ Len(T) = Len(W) - 1 /\ 1 \in 1..Len(W)
                             /\ \A k \in 1..Len(T) : T[k] = W[k + 1]
  <2>1. /\ Tail(W) \in Seq(Task) /\ Len(Tail(W)) = Len(W) - 1 /\ 1 \in 1..Len(W)
        /\ \A k \in 1..Len(Tail(W)) : Tail(W)[k] = W[k + 1]
    OBVIOUS
  <2> QED
    BY <2>1, Zenon
<1>2. PICK n \in 0..2 : /\ n <= Len(T) /\ Aborted(T) = SubSeq(T, n + 1, Len(T))
                        /\ n = IF T = <<>> \/ T[1][1] # "tail" THEN 0
                               ELSE IF Len(T) > 1 /\ T[2][1] = "handle" THEN 2 ELSE 1
  <2>1. /\ 0 \in 0..2 /\ 1 \in 0..2 /\ 2 \in 0..2 /\ 0 <= Len(T)
        /\ T # <<>> => 1 <= Len(T)
        /\ Len(T) > 1 => 2 <= Len(T)
    BY <1>1
  <2>2. PICK n \in 0..2 : n = IF T = <<>> \/ T[1][1] # "tail" THEN 0
                             ELSE IF Len(T) > 1 /\ T[2][1] = "handle" THEN 2 ELSE 1
    BY <2>1
  <2>3. Aborted(T) = SubSeq(T, n + 1, Len(T))
    BY <2>2, Zenon DEF Aborted
  <2>4. n <= Len(T)
    BY <2>1, <2>2
  <2> QED
    BY <2>2, <2>3, <2>4
<1>3. PICK l \in Nat : l = Len(T)
  OBVIOUS
<1>4. SubSeq(T, n + 1, l) \in Seq(Task) /\ Len(SubSeq(T, n + 1, l)) = l - n
      /\ \A k \in 1..l - n : SubSeq(T, n + 1, l)[k] = T[k + n]
  <2>1. PICK m \in Int : m = n + 1 /\ m >= 1 /\ m <= l + 1
    BY <1>2, <1>3
  <2>2. \A k \in m..l : T[k] \in Task
    BY <1>1, <1>3, <2>1
  <2>3. /\ SubSeq(T, m, l) \in Seq(Task)
        /\ Len(SubSeq(T, m, l)) = IF m <= l THEN l - m + 1 ELSE 0
        /\ \A k \in 1..l - m + 1 : SubSeq(T, m, l)[k] = T[m + k - 1]
    BY <2>2, SubSeqProperties
  <2>4. (IF m <= l THEN l - m + 1 ELSE 0) = l - n /\ l - m + 1 = l - n
    <3>1. n <= l
      BY <1>2, <1>3
    <3> QED
      BY ONLY <2>1, <3>1, n \in 0..2, l \in Nat, m \in Int
  <2>5. \A k \in 1..l - n : m + k - 1 = k + n
    BY <2>1
  <2> QED
    BY <2>1, <2>3, <2>4, <2>5
<1>5. PICK R : R = SubSeq(T, n + 1, l)
  OBVIOUS
<1>6. /\ R \in Seq(Task) /\ Len(R) = Len(W) - (n + 1) /\ n + 1 \in 1..Len(W)
      /\ \A k \in 1..Len(R) : R[k] = W[k + (n + 1)]
  <2>1. R \in Seq(Task) /\ Len(R) = l - n /\ Len(W) = l + 1
    <3>1. PICK x \in Nat : x = Len(W)
      OBVIOUS
    <3>2. x = l + 1
      BY <1>1, <1>3, <3>1
    <3> QED
      BY <1>4, <1>5, <3>1, <3>2
  <2>2. n + 1 \in 1..Len(W)
    BY <1>2, <1>3, <2>1, SMTT(30)
  <2>3. ASSUME NEW k \in 1..Len(R) PROVE R[k] = W[k + (n + 1)]
    <3>1. R[k] = T[k + n] /\ k + n \in 1..Len(T)
      BY <1>2, <1>3, <1>4, <1>5, <2>1
    <3>2. T[k + n] = W[(k + n) + 1]
      BY <1>1, <3>1
    <3>3. (k + n) + 1 = k + (n + 1)
      BY <2>1
    <3> QED
      BY <3>1, <3>2, <3>3, SMTT(30)
  <2> QED
    BY <2>1, <2>2, <2>3
<1>7. /\ n = 0 => Len(W) = 1 \/ W[2][1] # "tail"
      /\ n > 0 => Len(W) > 1 /\ W[2][1] = "tail"
      /\ n = 1 => Len(W) = 2 \/ W[3][1] # "handle"
      /\ n = 2 => Len(W) > 2 /\ W[3][1] = "handle"
  <2>1. PICK x \in Nat : x = Len(W) /\ x = l + 1
    <3>1. PICK x \in Nat : x = Len(W)
      OBVIOUS
    <3>2. x = l + 1
      BY <1>1, <1>3, <3>1
    <3> QED
      BY <3>1, <3>2
  <2>2. /\ l >= 1 => T[1] = W[2]
        /\ l >= 2 => T[2] = W[3]
    <3>1. /\ l >= 1 => T[1] = W[1 + 1]
          /\ l >= 2 => T[2] = W[2 + 1]
      BY ONLY <1>1, <1>3, l \in Nat
    <3> QED
      BY ONLY <3>1
  <2>3. T = <<>> <=> l = 0
    BY <1>3, EmptySeq
  <2> HIDE DEF Aborted
  <2>4. n = IF l = 0 \/ T[1][1] # "tail" THEN 0 ELSE IF l > 1 /\ T[2][1] = "handle" THEN 2 ELSE 1
    BY <1>2, <1>3, <2>3
  <2>5. CASE l = 0
    BY ONLY <2>1, <2>4, <2>5, l \in Nat
  <2>6. CASE l = 1
    BY ONLY <2>1, <2>2, <2>4, <2>6, l \in Nat
  <2>7. CASE l > 1
    BY ONLY <2>1, <2>2, <2>4, <2>7, l \in Nat
  <2> QED
    BY ONLY <2>5, <2>6, <2>7, l \in Nat
<1>8. R = Aborted(Tail(W))
  BY <1>1, <1>2, <1>3, <1>5
<1> QED
  BY ONLY <1>6, <1>7, <1>8, n \in 0..2

LEMMA AbortedRest ==
    ASSUME NEW W \in Seq(Task), W # <<>>
    PROVE  RestOf(Aborted(Tail(W)), W)
<1>1. PICK n \in 0..2 :
              /\ n + 1 \in 1..Len(W)
              /\ Aborted(Tail(W)) \in Seq(Task) /\ Len(Aborted(Tail(W))) = Len(W) - (n + 1)
              /\ \A k \in 1..Len(Aborted(Tail(W))) : Aborted(Tail(W))[k] = W[k + (n + 1)]
  BY AbortedPlaces, Zenon
<1>2. PICK d \in 1..Len(W) : d = n + 1
  BY <1>1, Zenon
<1> QED
  BY <1>1, <1>2, Zenon DEF RestOf

\* Job k of q is one of the new jobs J, or one of the rest of W, the last of W the last of q.
JoinedFrom(q, J, W, k) ==
    \/ k \in 1..Len(J) /\ q[k] = J[k]
    \/ /\ k > Len(J)
       /\ \E m \in 2..Len(W) : /\ q[k] = W[m]
                               /\ m = Len(W) <=> k = Len(q)

\* Where the jobs of a concatenation come from.
LEMMA JoinedJobs ==
    ASSUME NEW J \in Seq(Task), NEW W \in Seq(Task), NEW R, RestOf(R, W)
    PROVE  /\ J \o R \in Seq(Task) /\ Len(J \o R) = Len(J) + Len(R)
           /\ \A k \in 1..Len(J \o R) : JoinedFrom(J \o R, J, W, k)
<1>1. PICK d \in 1..Len(W) : /\ R \in Seq(Task) /\ Len(R) = Len(W) - d
                             /\ \A k \in 1..Len(R) : R[k] = W[k + d]
  BY DEF RestOf
<1>2. J \o R \in Seq(Task) /\ Len(J \o R) = Len(J) + Len(R)
  BY <1>1, ConcatProperties
<1>3. ASSUME NEW k \in 1..Len(J \o R), k > Len(J)
      PROVE  \E m \in 2..Len(W) : /\ (J \o R)[k] = W[m]
                                  /\ m = Len(W) <=> k = Len(J \o R)
  <2>0. k - Len(J) \in 1..Len(R)
    BY <1>1, <1>2, <1>3
  <2>1. PICK x \in 1..Len(R) : x = k - Len(J)
    BY <2>0, Zenon
  <2>2. (J \o R)[k] = R[x] /\ R[x] = W[x + d]
    BY <1>1, <1>3, <2>1, SMTT(30)
  <2>3. x + d \in 2..Len(W) /\ (x + d = Len(W) <=> k = Len(J \o R))
    BY <1>1, <1>2, <2>1
  <2> QED
    BY <2>2, <2>3
<1>4. ASSUME NEW k \in 1..Len(J \o R), ~(k > Len(J))
      PROVE  k \in 1..Len(J) /\ (J \o R)[k] = J[k]
  BY <1>1, <1>4
<1>5. ASSUME NEW k \in 1..Len(J \o R) PROVE JoinedFrom(J \o R, J, W, k)
  <2>1. CASE k > Len(J)
    BY <1>3, <2>1, Zenon DEF JoinedFrom
  <2>2. CASE ~(k > Len(J))
    BY <1>4, <2>2, Zenon DEF JoinedFrom
  <2> QED
    BY <2>1, <2>2
<1> QED
  BY <1>2, <1>5, Zenon

\* Jobs that are put before the rest of a call leave it in order.
LEMMA GoesOrderly ==
    ASSUME handles \in [Socks -> Nat], work \in Seq(Task), Orderly(work, handles, server),
           NEW J, Plain(J), NEW R, RestOf(R, work), work' = J \o R,
           \A s \in Socks : handles[s] > 0 => handles'[s] > 0
    PROVE  work' \in Seq(Task) /\ Orderly(work', handles', server')
<1>0. J \in Seq(Task) /\ \A k \in 1..Len(J) : J[k][1] \notin {"handle", "accept"}
  BY DEF Plain
<1>1. work' \in Seq(Task)
  BY <1>0, JoinedJobs
<1>2. ASSUME NEW k \in 1..Len(work')
      PROVE  /\ work'[k][1] = "handle" => k = Len(work') /\ handles'[work'[k][2]] > 0
             /\ work'[k][1] = "accept" => Len(work') = 1 /\ server'.id # INVALID_ID
  <2>1. CASE work'[k][1] \notin {"handle", "accept"}
    BY <2>1
  <2>2. CASE work'[k][1] \in {"handle", "accept"}
    <3>1. PICK m \in 2..Len(work) : work'[k] = work[m] /\ (m = Len(work) <=> k = Len(work'))
      <4>1. \/ k \in 1..Len(J) /\ (J \o R)[k] = J[k]
            \/ \E m \in 2..Len(work) : /\ (J \o R)[k] = work[m]
                                       /\ m = Len(work) <=> k = Len(J \o R)
        <5>1. k \in 1..Len(J \o R)
          OBVIOUS
        <5>2. \A i \in 1..Len(J \o R) : JoinedFrom(J \o R, J, work, i)
          BY <1>0, JoinedJobs
        <5> QED
          BY <5>1, <5>2, Zenon DEF JoinedFrom
      <4>2. ~(k \in 1..Len(J) /\ work'[k] = J[k])
        BY <1>0, <2>2
      <4> QED
        BY <4>1, <4>2, Zenon
    <3>2. m \in 1..Len(work) /\ Len(work) # 1 /\ work[m] \in Task
      BY <3>1
    <3>3. work[m][1] # "accept" /\ m = Len(work) /\ handles[work[m][2]] > 0
      BY <2>2, <3>1, <3>2 DEF Orderly
    <3>4. work[m][2] \in Socks
      BY <3>2 DEF Task
    <3> QED
      BY <2>2, <3>1, <3>3, <3>4
  <2> QED
    BY <2>1, <2>2
<1> QED
  BY <1>1, <1>2 DEF Orderly

\* A job has been done.
LEMMA JobSane ==
    ASSUME Sane, cmd = <<>>, work # <<>>,
           NEW J, Plain(J), Goes(J), WifiTypes', \A s \in Socks : handles[s] > 0 => handles'[s] > 0,
           UNCHANGED <<cmd, todo>> \/ (J # <<>> /\ \E c \in Command : Run(c)),
           line' \in Seq(Message), resp' \in Seq({"ok", "error"}), link' \subseteq Conns /\ found' \in Conns
    PROVE  Sane'
<1>1. /\ WifiTypes /\ LineTypes /\ work \in Seq(Task) /\ Orderly(work, handles, server)
      /\ handles \in [Socks -> Nat] /\ todo \in Seq(Command)
  BY DEF Sane, WifiTypes, LineTypes
<1>2. work' = J \o Tail(work) /\ RestOf(Tail(work), work)
  BY <1>1, TailRest DEF Goes
<1>3. work' \in Seq(Task) /\ Orderly(work', handles', server')
  BY <1>1, <1>2, GoesOrderly
<1>4. /\ cmd' \in Command \cup {<<>>} /\ todo' \in Seq(Command)
      /\ cmd' # <<>> => J # <<>>
  <2>1. CASE UNCHANGED <<cmd, todo>>
    BY <1>1, <2>1
  <2>2. CASE J # <<>> /\ \E c \in Command : Run(c)
    <3>1. PICK c \in Command : cmd' = c /\ todo' = Append(todo, c)
      BY <2>2 DEF Run
    <3> QED
      BY <1>1, <2>2, <3>1
  <2> QED
    BY <2>1, <2>2
<1>5. J # <<>> => work' # <<>>
  <2>1. Tail(work) \in Seq(Task) /\ J \in Seq(Task)
    BY <1>1, TailRest DEF Plain
  <2> QED
    BY <1>2, <2>1, ConcatEqualIffEmpty
<1> QED
  BY <1>3, <1>4, <1>5 DEF Sane, LineTypes

\* The jobs that a job turns into.
LEMMA NewJobs ==
    ASSUME NEW s \in Socks, NEW a \in JobNames \ {"handle", "accept"}
    PROVE  /\ Plain(<<>>) /\ Plain(<<<<a, s>>>>) /\ <<<<a, s>>>> # <<>>
           /\ <<a, s>> \in Task /\ <<a, s>>[1] = a /\ <<a, s>>[2] = s
<1>1. <<a, s>> \in Task
  BY DEF Task
<1>2. <<>> \in Seq(Task) /\ <<<<a, s>>>> \in Seq(Task) /\ <<<<a, s>>>> # <<>>
  BY <1>1
<1>3. \A k \in 1..Len(<<>>) : <<>>[k][1] \notin {"handle", "accept"}
  OBVIOUS
<1>4. \A k \in 1..Len(<<<<a, s>>>>) : <<<<a, s>>>>[k][1] \notin {"handle", "accept"}
  OBVIOUS
<1>5. <<a, s>>[1] = a /\ <<a, s>>[2] = s
  OBVIOUS
<1> QED
  BY <1>1, <1>2, <1>3, <1>4, <1>5, Zenon DEF Plain

LEMMA TwoJobs ==
    ASSUME NEW s \in Socks, NEW a \in JobNames \ {"handle", "accept"},
           NEW b \in JobNames \ {"handle", "accept"}
    PROVE  Plain(<<<<a, s>>, <<b, s>>>>)
<1>1. PICK x \in Task, y \in Task : /\ x = <<a, s>> /\ y = <<b, s>> /\ x[1] = a /\ y[1] = b
  <2>1. <<a, s>> \in Task /\ <<a, s>>[1] = a /\ <<b, s>> \in Task /\ <<b, s>>[1] = b
    BY NewJobs, Zenon
  <2> QED
    BY <2>1, Zenon
<1>2. <<x, y>> \in Seq(Task) /\ \A k \in 1..Len(<<x, y>>) : <<x, y>>[k][1] \in {a, b}
  BY <1>1
<1> QED
  BY <1>1, <1>2, Zenon DEF Plain

LEMMA AtWork ==
    ASSUME Sane, NEW name, Job(name)
    PROVE  /\ cmd = <<>> /\ work # <<>> /\ work \in Seq(Task) /\ Sock \in Socks
           /\ Head(work) = <<name, Sock>> /\ Head(work) \in Task /\ name \in JobNames
           /\ WifiTypes /\ LineTypes /\ Orderly(work, handles, server)
<1>1. cmd = <<>> /\ work # <<>> /\ work \in Seq(Task) /\ WifiTypes /\ LineTypes
      /\ Orderly(work, handles, server) /\ Head(work)[1] = name
  BY DEF Sane, LineTypes, Job
<1>2. Head(work) \in Task
  BY <1>1, TailRest
<1> QED
  BY <1>1, <1>2 DEF Task, Sock

LEMMA JobsAtWork ==
    ASSUME Sane, Jobs
    PROVE  \E name : /\ Job(name) /\ cmd = <<>> /\ work # <<>> /\ work \in Seq(Task)
                     /\ Sock \in Socks /\ Head(work) = <<name, Sock>> /\ WifiTypes
<1>1. PICK name : Job(name)
  BY DEF Jobs, JobClose, JobDisconnect, JobUnserve, JobNoServer, JobFree, JobStopped, JobParted,
         JobDown, JobTail, JobHandle, JobClaim, JobStart, JobUp, JobUnmap, JobUnlink,
         JobListening, JobAccept, JobSend, JobSent, JobQuit, JobGone
<1> QED
  BY <1>1, AtWork, ZenonT(60)

\* The jobs of a backlog.
LEMMA FreesJobs ==
    ASSUME server \in Server
    PROVE  Frees \in Seq(Task) /\ \A k \in 1..Len(Frees) : Frees[k][1] = "free"
<1>1. PICK q \in Seq(Socks) : q = server.clients
  BY DEF Server
<1>2. PICK n \in Nat : n = Len(q) /\ DOMAIN q = 1..n /\ \A k \in 1..n : q[k] \in Socks
  BY <1>1
<1>3. PICK F : F = Frees /\ F = [k \in 1..n |-> <<"free", q[k]>>]
  BY <1>1, <1>2 DEF Frees
<1>4. \A k \in 1..n : F[k] \in Task /\ F[k][1] = "free"
  BY <1>2, <1>3 DEF Task, JobNames
<1>5. F \in [1..n -> Task]
  BY <1>3, <1>4
<1>6. F \in Seq(Task) /\ Len(F) = n
  BY <1>5
<1> QED
  BY <1>3, <1>4, <1>6

LEMMA BacklogJobs ==
    ASSUME server \in Server, NEW s \in Socks
    PROVE  /\ Plain(Frees)
           /\ Frees \o <<<<"noserver", s>>>> \in Seq(Task)
           /\ \A k \in 1..Len(Frees \o <<<<"noserver", s>>>>) :
                 \/ (Frees \o <<<<"noserver", s>>>>)[k][1] = "free"
                 \/ (Frees \o <<<<"noserver", s>>>>)[k] = <<"noserver", s>>
           /\ Plain(Frees \o <<<<"noserver", s>>>>)
<1>1. PICK F \in Seq(Task) : F = Frees /\ \A k \in 1..Len(F) : F[k][1] = "free"
  BY FreesJobs
<1>2. "noserver" \in JobNames \ {"handle", "accept"}
  BY DEF JobNames
<1>3. PICK x \in Task : x = <<"noserver", s>> /\ x[1] = "noserver"
  <2>1. <<"noserver", s>> \in Task /\ <<"noserver", s>>[1] = "noserver"
    BY <1>2, NewJobs, Zenon
  <2> QED
    BY <2>1, Zenon
<1>4. PICK G \in Seq(Task) : G = <<x>> /\ Len(G) = 1 /\ G[1] = x
  <2>1. <<x>> \in Seq(Task) /\ Len(<<x>>) = 1 /\ <<x>>[1] = x
    OBVIOUS
  <2> QED
    BY <2>1, Zenon
<1>5. F \o G \in Seq(Task) /\ Len(F \o G) = Len(F) + 1
  BY <1>4
<1>6. ASSUME NEW k \in 1..Len(F \o G)
      PROVE  (F \o G)[k][1] = "free" \/ (F \o G)[k] = x
  <2>1. PICK n \in Nat : n = Len(F)
    OBVIOUS
  <2>2. CASE k <= n
    BY <1>1, <1>4, <2>1, <2>2
  <2>3. CASE ~(k <= n)
    <3>1. k = n + 1
      BY <1>5, <2>1, <2>3
    <3> QED
      BY <1>4, <2>1, <3>1
  <2> QED
    BY <2>2, <2>3
<1>7. Plain(F)
  BY <1>1 DEF Plain
<1>8. Plain(F \o G)
  BY <1>3, <1>5, <1>6 DEF Plain
<1> QED
  BY <1>1, <1>3, <1>4, <1>5, <1>6, <1>7, <1>8, Zenon

LEMMA SocketTypes ==
    ASSUME sockets \in [Socks -> Socket], NEW s \in Socks, NEW st \in States,
           NEW c \in Conns \cup {INVALID_ID}
    PROVE  /\ [sockets EXCEPT ![s].state = st] \in [Socks -> Socket]
           /\ [sockets EXCEPT ![s].conn_id = c] \in [Socks -> Socket]
           /\ [sockets EXCEPT ![s].state = st, ![s].conn_id = c] \in [Socks -> Socket]
<1>1. sockets[s] \in Socket
  OBVIOUS
<1>2. /\ [sockets[s] EXCEPT !.state = st] \in Socket
      /\ [sockets[s] EXCEPT !.conn_id = c] \in Socket
      /\ [[sockets[s] EXCEPT !.state = st] EXCEPT !.conn_id = c] \in Socket
  BY <1>1 DEF Socket
<1> QED
  BY <1>2

LEMMA ReleaseTypes ==
    ASSUME WifiTypes, Sock \in Socks, ReleaseFound
    PROVE  sockets' \in [Socks -> Socket] /\ map' \in [Conns -> Socks \cup {INVALID_ID}]
<1>1. /\ sockets' = [sockets EXCEPT ![Sock].conn_id = INVALID_ID]
      /\ map' = [map EXCEPT ![found] = INVALID_ID] /\ INVALID_ID \in Conns \cup {INVALID_ID}
  BY DEF ReleaseFound
<1>2. sockets' \in [Socks -> Socket]
  BY <1>1, SocketTypes DEF WifiTypes, States
<1> QED
  BY <1>1, <1>2 DEF WifiTypes

\* The jobs that change a socket and the tables.
LEMMA SocketJobsSane ==
    ASSUME Sane, JobNoServer \/ JobParted \/ JobDown \/ JobUp \/ JobUnlink \/ JobListening
    PROVE  Sane'
<1>1. /\ cmd = <<>> /\ work # <<>> /\ Sock \in Socks /\ WifiTypes /\ LineTypes
  <2>1. \E name : Job(name)
    BY DEF JobNoServer, JobParted, JobDown, JobUp, JobUnlink, JobListening
  <2> QED
    BY <2>1, AtWork
<1>2. /\ UNCHANGED <<cmd, todo, line, resp, link, found, live, at, handles>>
      /\ Done \/ Goes(<<<<"down", Sock>>>>)
  BY DEF JobNoServer, JobParted, JobDown, JobUp, JobUnlink, JobListening, Quiet, KeepJob
<1>3. sockets' \in [Socks -> Socket] /\ map' \in [Conns -> Socks \cup {INVALID_ID}]
  <2>1. CASE ReleaseFound
    BY <1>1, <2>1, ReleaseTypes
  <2>2. CASE map' = map /\ \E st \in States : sockets' = [sockets EXCEPT ![Sock].state = st]
    <3>1. PICK st \in States : sockets' = [sockets EXCEPT ![Sock].state = st]
      BY <2>2
    <3>2. INVALID_ID \in Conns \cup {INVALID_ID}
      OBVIOUS
    <3>3. sockets \in [Socks -> Socket] /\ map \in [Conns -> Socks \cup {INVALID_ID}]
      BY <1>1 DEF WifiTypes
    <3>4. [sockets EXCEPT ![Sock].state = st] \in [Socks -> Socket]
      BY <1>1, <3>2, <3>3, SocketTypes, Zenon
    <3> QED
      BY <2>2, <3>1, <3>3, <3>4
  <2> QED
    BY <2>1, <2>2 DEF JobNoServer, JobParted, JobDown, JobUp, JobUnlink, JobListening, States
<1>4. server' \in Server
  <2>1. server' = server \/ server' = [server EXCEPT !.id = INVALID_ID]
    BY DEF JobNoServer, JobParted, JobDown, JobUp, JobUnlink, JobListening
  <2> QED
    BY <1>1, <2>1 DEF WifiTypes, Server
<1>5. WifiTypes'
  BY <1>1, <1>2, <1>3, <1>4 DEF WifiTypes
<1>6. Plain(<<>>) /\ Plain(<<<<"down", Sock>>>>)
  <2>1. "down" \in JobNames \ {"handle", "accept"}
    BY DEF JobNames
  <2> QED
    BY <1>1, <2>1, NewJobs, Zenon
<1>7. line' \in Seq(Message) /\ resp' \in Seq({"ok", "error"}) /\ link' \subseteq Conns /\ found' \in Conns
  BY <1>1, <1>2 DEF LineTypes
<1>8. CASE Done
  BY <1>1, <1>2, <1>5, <1>6, <1>7, <1>8, JobSane DEF Done
<1>9. CASE Goes(<<<<"down", Sock>>>>)
  BY <1>1, <1>2, <1>5, <1>6, <1>7, <1>9, JobSane
<1> QED
  BY <1>2, <1>8, <1>9

\* The jobs that load a number.
LEMMA LoadJobsSane ==
    ASSUME Sane, JobStopped \/ JobUnmap
    PROVE  Sane'
<1>1. /\ cmd = <<>> /\ work # <<>> /\ Sock \in Socks /\ WifiTypes /\ LineTypes
  <2>1. \E name : Job(name)
    BY DEF JobStopped, JobUnmap
  <2> QED
    BY <2>1, AtWork
<1>2. /\ UNCHANGED <<wifi, live, at, handles, cmd, todo, line, resp, link>>
      /\ found' \in {found, sockets[Sock].conn_id} /\ (found' # found => found' # INVALID_ID)
      /\ \/ Goes(<<<<"parted", Sock>>>>) \/ Goes(<<<<"down", Sock>>>>)
         \/ Goes(<<<<"unlink", Sock>>>>) \/ Goes(<<>>)
  BY DEF JobStopped, JobUnmap, LoadNumber, parser
<1>3. WifiTypes'
  BY <1>1, <1>2 DEF WifiTypes, wifi
<1>4. sockets[Sock].conn_id \in Conns \cup {INVALID_ID}
  BY <1>1 DEF WifiTypes, Socket
<1>5. /\ line' \in Seq(Message) /\ resp' \in Seq({"ok", "error"})
      /\ link' \subseteq Conns /\ found' \in Conns
      /\ \A s \in Socks : handles[s] > 0 => handles'[s] > 0
  BY <1>1, <1>2, <1>4 DEF LineTypes
<1>6. ASSUME NEW J, Plain(J), Goes(J) PROVE Sane'
  BY <1>1, <1>2, <1>3, <1>5, <1>6, JobSane
<1>7. \A a \in {"parted", "down", "unlink"} : a \in JobNames \ {"handle", "accept"}
  BY DEF JobNames
<1>8. Plain(<<>>) /\ \A a \in {"parted", "down", "unlink"} : Plain(<<<<a, Sock>>>>)
  BY <1>1, <1>7, NewJobs, Zenon
<1> QED
  BY <1>2, <1>6, <1>8

\* The number that was found is stored.
LEMMA JobClaimSane ==
    ASSUME Sane, JobClaim
    PROVE  Sane'
<1>1. /\ cmd = <<>> /\ work # <<>> /\ Sock \in Socks /\ WifiTypes /\ LineTypes
  BY AtWork DEF JobClaim
<1>2. /\ UNCHANGED <<server, live, resp, handles, cmd, found, todo, link>>
      /\ Goes(<<<<"start", Sock>>>>)
      /\ at' = at \/ at' = [at EXCEPT ![found] = NULL]
      /\ line' = line \/ (line # <<>> /\ line' = Tail(line))
      /\ \/ map' = [map EXCEPT ![found] = Sock]
         \/ /\ map' = [map EXCEPT ![found] = Sock, ![sockets[Sock].conn_id] = INVALID_ID]
            /\ sockets[Sock].conn_id # INVALID_ID
      /\ \/ sockets' = [sockets EXCEPT ![Sock].conn_id = found]
         \/ sockets' = [sockets EXCEPT ![Sock].state = "DISCONNECTED", ![Sock].conn_id = found]
  BY DEF JobClaim, Forgotten, Down
<1>3. /\ found \in Conns /\ sockets \in [Socks -> Socket]
      /\ map \in [Conns -> Socks \cup {INVALID_ID}] /\ sockets[Sock] \in Socket
  BY <1>1 DEF LineTypes, WifiTypes
<1>4. sockets' \in [Socks -> Socket]
  <2>1. found \in Conns \cup {INVALID_ID} /\ "DISCONNECTED" \in States
    BY <1>3 DEF States
  <2>2. /\ [sockets EXCEPT ![Sock].conn_id = found] \in [Socks -> Socket]
        /\ [sockets EXCEPT ![Sock].state = "DISCONNECTED", ![Sock].conn_id = found]
              \in [Socks -> Socket]
    BY <1>1, <1>3, <2>1, SocketTypes, Zenon
  <2> QED
    BY <1>2, <2>2
<1>5. map' \in [Conns -> Socks \cup {INVALID_ID}]
  BY <1>1, <1>2, <1>3
<1>6. WifiTypes'
  <2>1. at' \in [Conns -> 0..Memory]
    <3>1. 0 \in 0..Memory
      BY WifiAssumption
    <3> QED
      BY <1>1, <1>2, <3>1 DEF WifiTypes, NULL
  <2> QED
    BY <1>1, <1>2, <1>4, <1>5, <2>1 DEF WifiTypes
<1>7. /\ line' \in Seq(Message) /\ resp' \in Seq({"ok", "error"})
      /\ link' \subseteq Conns /\ found' \in Conns
  <2>1. line \in Seq(Message)
    BY <1>1 DEF LineTypes
  <2>2. line # <<>> => Tail(line) \in Seq(Message)
    BY <2>1
  <2> QED
    BY <1>1, <1>2, <2>1, <2>2 DEF LineTypes
<1>8. Plain(<<<<"start", Sock>>>>) /\ \A s \in Socks : handles[s] > 0 => handles'[s] > 0
  <2>1. "start" \in JobNames \ {"handle", "accept"}
    BY DEF JobNames
  <2> QED
    BY <1>1, <1>2, <2>1, NewJobs, Zenon
<1> QED
  BY <1>1, <1>2, <1>6, <1>7, <1>8, JobSane

\* The jobs that only turn into others, or start a command.
LEMMA QuietJobsSane ==
    ASSUME Sane, JobClose \/ JobUnserve \/ JobFree \/ JobSent
    PROVE  Sane'
<1>1. /\ cmd = <<>> /\ work # <<>> /\ Sock \in Socks /\ WifiTypes /\ LineTypes
  <2>1. \E name : Job(name)
    BY DEF JobClose, JobUnserve, JobFree, JobSent
  <2> QED
    BY <2>1, AtWork
<1>2. /\ UNCHANGED <<cmd, todo, line, resp, link, found, found>> /\ UNCHANGED <<wifi, at, handles>>
      /\ live' \subseteq live
  BY DEF JobClose, JobUnserve, JobFree, JobSent, Quiet, KeepJob, CbRemove
<1>3. WifiTypes'
  BY <1>1, <1>2 DEF WifiTypes, wifi
<1>4. /\ line' \in Seq(Message) /\ resp' \in Seq({"ok", "error"}) /\ link' \subseteq Conns /\ found' \in Conns
      /\ \A s \in Socks : handles[s] > 0 => handles'[s] > 0
  BY <1>1, <1>2 DEF LineTypes
<1>5. ASSUME NEW J, Plain(J), Goes(J) PROVE Sane'
  BY <1>1, <1>2, <1>3, <1>4, <1>5, JobSane
<1>6. /\ "disc" \in JobNames \ {"handle", "accept"} /\ "tail" \in JobNames \ {"handle", "accept"}
      /\ "close" \in JobNames \ {"handle", "accept"} /\ "send" \in JobNames \ {"handle", "accept"}
  BY DEF JobNames
<1>7. CASE JobClose
  <2>1. Plain(<<>>) /\ Plain(<<<<"disc", Sock>>, <<"tail", Sock>>>>)
    BY <1>1, <1>6, NewJobs, TwoJobs, Zenon
  <2>2. Goes(<<>>) \/ Goes(<<<<"disc", Sock>>, <<"tail", Sock>>>>)
    BY <1>7 DEF JobClose, Goes
  <2> QED
    BY <1>5, <2>1, <2>2, Zenon
<1>8. CASE JobUnserve
  <2>1. Goes(Frees \o <<<<"noserver", Sock>>>>)
    BY <1>8 DEF JobUnserve
  <2>2. Plain(Frees \o <<<<"noserver", Sock>>>>)
    BY <1>1, BacklogJobs, Zenon DEF WifiTypes
  <2> QED
    BY <1>5, <2>1, <2>2, Zenon
<1>9. CASE JobFree
  <2>1. Goes(<<<<"close", Sock>>>>) /\ Plain(<<<<"close", Sock>>>>)
    BY <1>1, <1>6, <1>9, NewJobs, Zenon DEF JobFree
  <2> QED
    BY <1>5, <2>1, Zenon
<1>10. CASE JobSent
  <2>1. Goes(<<>>) \/ Goes(<<<<"send", Sock>>>>)
    BY <1>10, Zenon DEF JobSent, Done
  <2>2. Plain(<<>>) /\ Plain(<<<<"send", Sock>>>>)
    BY <1>1, <1>6, NewJobs, Zenon
  <2> QED
    BY <1>5, <2>1, <2>2, Zenon
<1> QED
  BY <1>7, <1>8, <1>9, <1>10

\* The jobs that start a command.
LEMMA CommandJobsSane ==
    ASSUME Sane, JobDisconnect \/ JobStart \/ JobSend \/ JobQuit
    PROVE  Sane'
<1>1. /\ cmd = <<>> /\ work # <<>> /\ Sock \in Socks /\ WifiTypes /\ LineTypes
  <2>1. \E name : Job(name)
    BY DEF JobDisconnect, JobStart, JobSend, JobQuit
  <2> QED
    BY <2>1, AtWork
<1>2. /\ UNCHANGED <<line, resp, link, found>> /\ UNCHANGED <<wifi, live, at, handles>>
  BY DEF JobDisconnect, JobStart, JobSend, JobQuit, KeepJob
<1>3. WifiTypes'
  BY <1>1, <1>2 DEF WifiTypes, wifi
<1>4. /\ line' \in Seq(Message) /\ resp' \in Seq({"ok", "error"}) /\ link' \subseteq Conns /\ found' \in Conns
      /\ \A s \in Socks : handles[s] > 0 => handles'[s] > 0
  BY <1>1, <1>2 DEF LineTypes
<1>5. ASSUME NEW J, Plain(J), J # <<>>, Goes(J), NEW c \in Command, Run(c) PROVE Sane'
  BY <1>1, <1>2, <1>3, <1>4, <1>5, JobSane
<1>6. /\ "unserve" \in JobNames \ {"handle", "accept"} /\ "stopped" \in JobNames \ {"handle", "accept"}
      /\ "sent" \in JobNames \ {"handle", "accept"} /\ "gone" \in JobNames \ {"handle", "accept"}
      /\ "up" \in JobNames \ {"handle", "accept"} /\ 0 \in Socks
  BY WifiAssumption DEF JobNames, Socks
<1>7. /\ Plain(<<>>) /\ Plain(<<<<"unserve", Sock>>>>) /\ <<<<"unserve", Sock>>>> # <<>>
      /\ Plain(<<<<"stopped", Sock>>>>) /\ <<<<"stopped", Sock>>>> # <<>>
      /\ Plain(<<<<"sent", Sock>>>>) /\ <<<<"sent", Sock>>>> # <<>>
      /\ Plain(<<<<"up", Sock>>>>) /\ <<<<"up", Sock>>>> # <<>>
      /\ Plain(<<<<"gone", 0>>>>) /\ <<<<"gone", 0>>>> # <<>>
  BY <1>1, <1>6, NewJobs, Zenon
<1>8. sockets[Sock].conn_id \in Conns \cup {INVALID_ID}
  BY <1>1 DEF WifiTypes, Socket
<1>9. /\ <<"STOP", sockets[Sock].conn_id>> \in Command /\ <<"SEND", sockets[Sock].conn_id>> \in Command
      /\ <<"START", sockets[Sock].conn_id>> \in Command
      /\ <<"SERVER", FALSE>> \in Command /\ <<"QUIT", 0>> \in Command
  BY <1>8 DEF Command
<1>10. CASE JobDisconnect
  <2>1. CASE Done /\ UNCHANGED <<cmd, todo>>
    BY <1>1, <1>2, <1>3, <1>4, <1>7, <2>1, JobSane DEF Done
  <2>2. CASE Run(<<"SERVER", FALSE>>) /\ Goes(<<<<"unserve", Sock>>>>)
    BY <1>5, <1>7, <1>9, <2>2, Zenon
  <2>3. CASE Run(<<"STOP", sockets[Sock].conn_id>>) /\ Goes(<<<<"stopped", Sock>>>>)
    BY <1>5, <1>7, <1>9, <2>3, Zenon
  <2> QED
    BY <1>10, <2>1, <2>2, <2>3, Zenon DEF JobDisconnect
<1>11. CASE JobSend
  BY <1>5, <1>7, <1>9, <1>11, Zenon DEF JobSend
<1>12. CASE JobQuit
  BY <1>5, <1>7, <1>9, <1>12, Zenon DEF JobQuit
<1>13. CASE JobStart
  BY <1>5, <1>7, <1>9, <1>13, Zenon DEF JobStart
<1> QED
  BY <1>10, <1>11, <1>12, <1>13

LEMMA JobTailSane ==
    ASSUME Sane, JobTail
    PROVE  Sane'
<1>1. /\ cmd = <<>> /\ work # <<>> /\ Sock \in Socks /\ WifiTypes /\ LineTypes
  <2>1. \E name : Job(name)
    BY DEF JobTail
  <2> QED
    BY <2>1, AtWork
<1>2. /\ UNCHANGED <<cmd, todo, line, resp, link, found, found>> /\ UNCHANGED <<map, server, at, handles>>
      /\ live' \subseteq live /\ Goes(<<>>)
  BY DEF JobTail, Quiet, KeepJob, CbRemove, Done
<1>3. sockets' \in [Socks -> Socket]
  <2> DEFINE out == IF ~Backlog(Sock) \/ Sock # server.id THEN {Sock}
                    ELSE {Sock} \cup ToSet(server.clients)
  <2>1. sockets' = [t \in Socks |->
                IF t \notin out THEN sockets[t]
                ELSE [sockets[t] EXCEPT !.state = "UNUSED",
                                        !.cb = IF t = Sock /\ Owned(Sock) THEN NULL ELSE @]]
    BY Zenon DEF JobTail
  <2> HIDE DEF out
  <2>2. ASSUME NEW t \in Socks, NEW x \in BOOLEAN
        PROVE  /\ sockets[t] \in Socket
               /\ [sockets[t] EXCEPT !.state = "UNUSED", !.cb = IF x THEN NULL ELSE @] \in Socket
    <3>1. sockets[t] \in Socket
      BY <1>1 DEF WifiTypes
    <3>2. 0 \in 0..Memory
      BY WifiAssumption
    <3> QED
      BY <3>1, <3>2 DEF Socket, States, NULL
  <2> QED
    BY <2>1, <2>2
<1>4. WifiTypes'
  BY <1>1, <1>2, <1>3 DEF WifiTypes
<1>5. /\ line' \in Seq(Message) /\ resp' \in Seq({"ok", "error"}) /\ link' \subseteq Conns /\ found' \in Conns
      /\ \A s \in Socks : handles[s] > 0 => handles'[s] > 0
  BY <1>1, <1>2 DEF LineTypes
<1>6. Plain(<<>>)
  BY DEF Plain
<1> QED
  BY <1>1, <1>2, <1>4, <1>5, <1>6, JobSane

\* The job that gives the descriptor back is the last one.
LEMMA JobHandleSane ==
    ASSUME Sane, JobHandle
    PROVE  Sane'
<1>1. /\ cmd = <<>> /\ work # <<>> /\ Sock \in Socks /\ WifiTypes /\ LineTypes
      /\ Head(work) = <<"handle", Sock>> /\ work \in Seq(Task) /\ Orderly(work, handles, server)
  BY AtWork DEF JobHandle
<1>2. /\ UNCHANGED <<cmd, todo, line, resp, link, found, found>> /\ UNCHANGED <<wifi, live, at>>
      /\ handles' = [handles EXCEPT ![Sock] = @ - 1] /\ work' = <<>> \o Tail(work)
  BY DEF JobHandle, Quiet, KeepJob, Done, Goes
<1>3. 1 \in 1..Len(work) /\ work[1] = Head(work) /\ Len(Tail(work)) = Len(work) - 1
      /\ Tail(work) \in Seq(Task)
  BY <1>1, TailRest
<1>4. Len(work) = 1 /\ handles[Sock] > 0
  <2>1. work[1][1] = "handle" /\ work[1][2] = Sock
    BY <1>1, <1>3
  <2>2. 1 = Len(work) /\ handles[work[1][2]] > 0
    BY <1>1, <1>3, <2>1, Zenon DEF Orderly
  <2> QED
    BY <2>1, <2>2
<1>5. work' = <<>>
  BY <1>2, <1>3, <1>4
<1>6. handles' \in [Socks -> Nat]
  BY <1>1, <1>2, <1>4 DEF WifiTypes
<1>7. WifiTypes'
  BY <1>1, <1>2, <1>6 DEF WifiTypes, wifi
<1>8. work' \in Seq(Task) /\ Orderly(work', handles', server')
  BY <1>5 DEF Orderly
<1>9. LineTypes' /\ cmd' = <<>>
  BY <1>1, <1>2, <1>8 DEF LineTypes
<1> QED
  BY <1>7, <1>8, <1>9 DEF Sane

LEMMA JobAcceptSane ==
    ASSUME Sane, JobAccept
    PROVE  Sane'
<1>1. /\ cmd = <<>> /\ work # <<>> /\ Sock \in Socks /\ WifiTypes /\ LineTypes
      /\ Head(work) = <<"accept", Sock>> /\ work \in Seq(Task) /\ Orderly(work, handles, server)
  BY AtWork DEF JobAccept
<1>2. /\ UNCHANGED <<cmd, todo, line, resp, link, found, found>> /\ UNCHANGED <<map, server, live, at>>
      /\ sockets' = [sockets EXCEPT ![Sock].state = "CONNECTED"]
      /\ \/ Goes(<<>>) /\ handles' = [handles EXCEPT ![Sock] = @ + 1]
         \/ Goes(<<<<"close", server.id>>>>) /\ handles' = handles
  BY DEF JobAccept, Done, parser, module
<1>3. server.id \in Socks
  <2>1. 1 \in 1..Len(work) /\ work[1] = Head(work)
    BY <1>1, TailRest
  <2>2. server.id # INVALID_ID
    BY <1>1, <2>1 DEF Orderly
  <2> QED
    BY <1>1, <2>2 DEF WifiTypes, Server
<1>4. sockets' \in [Socks -> Socket]
  <2>1. "CONNECTED" \in States /\ INVALID_ID \in Conns \cup {INVALID_ID}
    BY DEF States
  <2>2. sockets \in [Socks -> Socket]
    BY <1>1 DEF WifiTypes
  <2> QED
    BY <1>1, <1>2, <2>1, <2>2, SocketTypes, Zenon
<1>5. handles' \in [Socks -> Nat] /\ \A s \in Socks : handles[s] > 0 => handles'[s] > 0
  <2>1. handles \in [Socks -> Nat]
    BY <1>1 DEF WifiTypes
  <2>2. CASE handles' = [handles EXCEPT ![Sock] = @ + 1]
    BY <1>1, <2>1, <2>2
  <2>3. CASE handles' = handles
    BY <2>1, <2>3
  <2> QED
    BY <1>2, <2>2, <2>3
<1>6. WifiTypes'
  BY <1>1, <1>2, <1>4, <1>5 DEF WifiTypes
<1>7. Plain(<<>>) /\ Plain(<<<<"close", server.id>>>>)
  <2>1. "close" \in JobNames \ {"handle", "accept"}
    BY DEF JobNames
  <2> QED
    BY <1>3, <2>1, NewJobs, Zenon
<1>8. /\ line' \in Seq(Message) /\ resp' \in Seq({"ok", "error"}) /\ link' \subseteq Conns /\ found' \in Conns
  BY <1>1, <1>2 DEF LineTypes
<1>9. ASSUME NEW J, Plain(J), Goes(J) PROVE Sane'
  BY <1>1, <1>2, <1>5, <1>6, <1>8, <1>9, JobSane
<1> QED
  BY <1>2, <1>7, <1>9, Zenon

\* at_remove and free.
LEMMA EmptyTypes ==
    /\ NoSockets \in [Socks -> Socket] /\ NoMap \in [Conns -> Socks \cup {INVALID_ID}]
    /\ NoServer \in Server /\ [c \in Conns |-> NULL] \in [Conns -> 0..Memory]
<1>1. 0 \in Conns /\ 0 \in 0..Memory
  BY WifiAssumption DEF Conns
<1>2. [state |-> "UNUSED", conn_id |-> 0, cb |-> NULL] \in Socket
  BY <1>1 DEF Socket, States, NULL
<1>3. NoServer \in Server
  BY DEF NoServer, Server
<1> QED
  BY <1>1, <1>2, <1>3 DEF NoSockets, NoMap, NULL

LEMMA JobGoneSane ==
    ASSUME Sane, JobGone
    PROVE  Sane'
<1>1. /\ cmd = <<>> /\ work # <<>> /\ WifiTypes /\ LineTypes
  BY AtWork DEF JobGone
<1>2. /\ UNCHANGED <<cmd, todo, resp, live, handles, found>> /\ Goes(<<>>)
      /\ sockets' = NoSockets /\ map' = NoMap /\ server' = NoServer
      /\ at' = [c \in Conns |-> NULL] /\ line' = <<>> /\ link' = {}
  BY DEF JobGone, Done
<1>3. WifiTypes'
  BY <1>1, <1>2, EmptyTypes DEF WifiTypes
<1>4. /\ line' \in Seq(Message) /\ resp' \in Seq({"ok", "error"}) /\ link' \subseteq Conns /\ found' \in Conns
      /\ \A s \in Socks : handles[s] > 0 => handles'[s] > 0
  BY <1>1, <1>2 DEF LineTypes
<1>5. Plain(<<>>)
  BY DEF Plain
<1> QED
  BY <1>1, <1>2, <1>3, <1>4, <1>5, JobSane

LEMMA JobsSane ==
    ASSUME Sane, Jobs
    PROVE  Sane'
BY SocketJobsSane, LoadJobsSane, JobClaimSane, QuietJobsSane, CommandJobsSane, JobTailSane, JobHandleSane, JobAcceptSane,
   JobGoneSane DEF Jobs

-----------------------------------------------------------------------------
(* Sane: the command that the call waits for.                              *)

LEMMA FailedOrderly ==
    ASSUME Sane, cmd # <<>>, Failed, UNCHANGED <<handles, server>>
    PROVE  work' \in Seq(Task) /\ Orderly(work', handles', server')
<1>1. /\ work \in Seq(Task) /\ work # <<>> /\ Orderly(work, handles, server)
      /\ handles \in [Socks -> Nat] /\ server \in Server
  BY DEF Sane, WifiTypes, LineTypes
<1>2. /\ RestOf(Tail(work), work) /\ RestOf(Aborted(Tail(work)), work) /\ Sock \in Socks
  BY <1>1, TailRest, AbortedRest DEF Sock, Task
<1>3. \A s \in Socks : handles[s] > 0 => handles'[s] > 0
  OBVIOUS
<1>4. ASSUME NEW J, Plain(J), NEW R, RestOf(R, work), work' = J \o R
      PROVE  work' \in Seq(Task) /\ Orderly(work', handles', server')
  BY <1>1, <1>3, <1>4, GoesOrderly
<1>5. CASE Head(work)[1] = "up"
  <2>1. work' = <<<<"unmap", Sock>>>> \o Tail(work)
    BY <1>5 DEF Failed
  <2>2. "unmap" \in JobNames \ {"handle", "accept"}
    BY DEF JobNames
  <2>3. Plain(<<<<"unmap", Sock>>>>)
    BY <1>2, <2>2, NewJobs, Zenon
  <2> QED
    BY <1>2, <1>4, <2>1, <2>3, Zenon
<1>6. CASE Head(work)[1] = "listening"
  <2>1. work' = Frees \o Tail(work)
    BY <1>6 DEF Failed
  <2>2. Plain(Frees)
    BY <1>1, <1>2, BacklogJobs, Zenon
  <2> QED
    BY <1>2, <1>4, <2>1, <2>2, Zenon
<1>7. CASE Head(work)[1] = "gone"
  BY <1>1, <1>7 DEF Failed
<1>8. CASE Head(work)[1] \notin {"up", "listening", "gone"}
  <2>1. work' = Aborted(Tail(work))
    BY <1>8 DEF Failed
  <2>2. Aborted(Tail(work)) \in Seq(Task)
    BY <1>2 DEF RestOf
  <2>3. work' = <<>> \o Aborted(Tail(work))
    BY <2>1, <2>2
  <2>4. Plain(<<>>)
    BY DEF Plain
  <2> QED
    BY <1>2, <1>4, <2>3, <2>4, Zenon
<1> QED
  BY <1>5, <1>6, <1>7, <1>8

LEMMA ResponseSane ==
    ASSUME Sane, Response \/ TimedOut
    PROVE  Sane'
<1>1. /\ cmd # <<>> /\ cmd' = <<>> /\ UNCHANGED <<wifi, live, at, handles, module>>
      /\ resp' \in {resp, <<>>, SubSeq(resp, 1, Len(resp) - 1)} /\ (work' = work \/ Failed)
      /\ found' = found
  BY DEF Response, TimedOut, parser
<1>2. work' \in Seq(Task) /\ Orderly(work', handles', server')
  <2>1. CASE work' = work
    BY <1>1, <2>1 DEF Sane, LineTypes, wifi
  <2>2. CASE Failed
    BY <1>1, <2>2, FailedOrderly DEF wifi
  <2> QED
    BY <1>1, <2>1, <2>2
<1>3. WifiTypes'
  BY <1>1 DEF Sane, WifiTypes, wifi
<1>4. LineTypes'
  <2>1. LineTypes /\ UNCHANGED <<todo, line, link, found>>
    BY <1>1 DEF Sane, module
  <2>2. resp' \in Seq({"ok", "error"}) /\ todo' \in Seq(Command) /\ line' \in Seq(Message)
        /\ link' \subseteq Conns /\ found' \in Conns
    <3>1. CASE resp' = resp
      BY <2>1, <3>1 DEF LineTypes
    <3>2. CASE resp' = <<>>
      BY <2>1, <3>2 DEF LineTypes
    <3>3. CASE resp' = SubSeq(resp, 1, Len(resp) - 1)
      <4>1. resp \in Seq({"ok", "error"}) /\ 1 \in Int /\ Len(resp) - 1 \in Int
        BY <2>1 DEF LineTypes
      <4>2. \A j \in 1..Len(resp) - 1 : resp[j] \in {"ok", "error"}
        BY <4>1
      <4>3. SubSeq(resp, 1, Len(resp) - 1) \in Seq({"ok", "error"})
        BY <4>1, <4>2, SubSeqProperties
      <4> QED
        BY <1>1, <2>1, <3>3, <4>3 DEF LineTypes
    <3> QED
      BY <1>1, <3>1, <3>2, <3>3
  <2> QED
    BY <1>1, <1>2, <2>2 DEF LineTypes
<1> QED
  BY <1>1, <1>2, <1>3, <1>4 DEF Sane

-----------------------------------------------------------------------------
(* Sane: the application's calls.                                          *)

LEMMA PlainOrderly ==
    ASSUME NEW J, Plain(J), NEW H, NEW S
    PROVE  J \in Seq(Task) /\ Orderly(J, H, S)
BY DEF Plain, Orderly

LEMMA CallSane ==
    ASSUME Sane, Idle, WifiTypes', work' \in Seq(Task), Orderly(work', handles', server'),
           UNCHANGED <<cmd, todo>> \/ (work' # <<>> /\ \E c \in Command : Run(c)),
           UNCHANGED <<line, link, resp>>, found' \in Conns
    PROVE  Sane'
<1>1. LineTypes /\ todo \in Seq(Command) /\ cmd = <<>>
  BY DEF Sane, LineTypes, Idle
<1>2. /\ cmd' \in Command \cup {<<>>} /\ todo' \in Seq(Command)
      /\ cmd' # <<>> => work' # <<>>
  <2>1. CASE UNCHANGED <<cmd, todo>>
    BY <1>1, <2>1
  <2>2. CASE work' # <<>> /\ \E c \in Command : Run(c)
    <3>1. PICK c \in Command : cmd' = c /\ todo' = Append(todo, c)
      BY <2>2 DEF Run
    <3> QED
      BY <1>1, <2>2, <3>1
  <2> QED
    BY <2>1, <2>2
<1> QED
  BY <1>1, <1>2 DEF Sane, LineTypes

LEMMA OpenSane ==
    ASSUME Sane, Open
    PROVE  Sane'
<1>1. /\ Idle /\ WifiTypes /\ LineTypes /\ UNCHANGED <<line, link, resp, work, cmd, todo, found>>
      /\ UNCHANGED <<map, server, at>>
  BY DEF Sane, Open, Begin, KeepModule, parser
<1>2. work' = <<>>
  BY <1>1 DEF Idle
<1>3. sockets' \in [Socks -> Socket] /\ live' \subseteq 1..Memory /\ handles' \in [Socks -> Nat]
  <2> DEFINE unused == {s \in Socks : sockets[s].state = "UNUSED"}
  <2>1. CASE unused = {} \/ FreeBufs = {}
    BY <1>1, <2>1 DEF Open, WifiTypes
  <2>2. CASE ~(unused = {} \/ FreeBufs = {})
    <3>1. unused \in SUBSET Nat /\ FreeBufs \in SUBSET Nat
      BY WifiAssumption DEF Socks, FreeBufs
    <3>2. PICK s, b : s = First(unused) /\ b = First(FreeBufs) /\ s \in unused /\ b \in FreeBufs
      BY <2>2, <3>1, FirstFound
    <3>3. /\ sockets' = [sockets EXCEPT ![s].state = "DISCONNECTED", ![s].cb = b]
          /\ live' = live \cup {b} /\ handles' = [handles EXCEPT ![s] = @ + 1]
      BY <2>2, <3>2 DEF Open
    <3>4. b \in 1..Memory /\ b \in 0..Memory /\ s \in Socks
      BY <3>2, WifiAssumption DEF FreeBufs
    <3>5. sockets[s] \in Socket
      BY <1>1, <3>4 DEF WifiTypes
    <3>6. [sockets[s] EXCEPT !.state = "DISCONNECTED", !.cb = b] \in Socket
      BY <3>4, <3>5 DEF Socket, States
    <3>7. sockets' \in [Socks -> Socket]
      <4>1. sockets' = [sockets EXCEPT ![s] = [sockets[s] EXCEPT !.state = "DISCONNECTED", !.cb = b]]
        BY <1>1, <3>3, <3>4 DEF WifiTypes, Socket
      <4> QED
        BY <1>1, <3>4, <3>6, <4>1 DEF WifiTypes
    <3> QED
      BY <1>1, <3>3, <3>4, <3>7 DEF WifiTypes
  <2> QED
    BY <2>1, <2>2
<1>4. WifiTypes'
  BY <1>1, <1>3 DEF WifiTypes
<1>5. work' \in Seq(Task) /\ Orderly(work', handles', server')
  BY <1>2 DEF Orderly
<1> QED
  BY <1>1, <1>4, <1>5, CallSane DEF LineTypes

LEMMA ConnectSane ==
    ASSUME Sane, NEW s \in Socks, Connect(s)
    PROVE  Sane'
<1>1. /\ Idle /\ WifiTypes /\ LineTypes /\ UNCHANGED <<line, link, resp>>
      /\ UNCHANGED <<wifi, sockets, map, server, at, live, handles, cmd, todo>> /\ work = <<>>
  BY DEF Sane, Connect, Begin, parser, wifi, Idle
<1>2. CASE UNCHANGED <<work, found>>
  BY <1>1, <1>2, CallSane DEF Sane, WifiTypes, LineTypes
<1>3. CASE UnusedConns # {} /\ found' = First(UnusedConns) /\ work' = <<<<"claim", s>>>>
  <2>1. found' \in Conns
    <3>1. UnusedConns \in SUBSET Nat
      BY WifiAssumption DEF UnusedConns, Conns
    <3> QED
      BY <1>3, <3>1, FirstFound DEF UnusedConns
  <2>2. WifiTypes'
    BY <1>1 DEF WifiTypes
  <2>3. Plain(<<<<"claim", s>>>>)
    <3>1. "claim" \in JobNames \ {"handle", "accept"}
      BY DEF JobNames
    <3> QED
      BY <3>1, NewJobs, Zenon
  <2>4. work' \in Seq(Task) /\ Orderly(work', handles', server')
    BY <1>3, <2>3, PlainOrderly, Zenon
  <2> QED
    BY <1>1, <2>1, <2>2, <2>4, CallSane
<1> QED
  BY <1>2, <1>3, Zenon DEF Connect

\* Calls that only leave jobs.
LEMMA SimpleCallsSane ==
    ASSUME Sane, NEW s \in Socks, handles[s] > 0,
           Disconnect(s) \/ Close(s) \/ Send(s) \/ Bind(s) \/ Accept(s)
    PROVE  Sane'
<1>1. /\ Idle /\ WifiTypes /\ LineTypes /\ UNCHANGED <<line, link, resp, cmd, todo, found>>
      /\ UNCHANGED <<sockets, map, at, live, handles>> /\ work = <<>>
      /\ server' = server \/ server' = [server EXCEPT !.id = s]
  BY DEF Sane, Disconnect, Close, Send, Bind, Accept, Begin, KeepModule, parser, Idle, wifi, app
<1>2. WifiTypes'
  BY <1>1 DEF WifiTypes, Server
<1>3. ASSUME work' \in Seq(Task), Orderly(work', handles', server') PROVE Sane'
  BY <1>1, <1>2, <1>3, CallSane DEF LineTypes
<1>4. CASE work' = <<>>
  <2>1. work' \in Seq(Task) /\ Orderly(work', handles', server')
    BY <1>4 DEF Orderly
  <2> QED
    BY <1>3, <2>1
<1>5. ASSUME NEW a \in {"disc", "send"}, work' = <<<<a, s>>>> PROVE Sane'
  <2>1. a \in JobNames \ {"handle", "accept"}
    BY <1>5 DEF JobNames
  <2>2. Plain(<<<<a, s>>>>)
    BY <2>1, NewJobs, Zenon
  <2>3. work' \in Seq(Task) /\ Orderly(work', handles', server')
    BY <1>5, <2>2, PlainOrderly, Zenon
  <2> QED
    BY <1>3, <2>3
<1>6. CASE work' = <<<<"close", s>>, <<"handle", s>>>>
  <2>1. <<"close", s>> \in Task /\ <<"handle", s>> \in Task
    BY DEF Task, JobNames
  <2>2. PICK x \in Task, y \in Task : /\ x = <<"close", s>> /\ y = <<"handle", s>>
                                      /\ x[1] = "close" /\ y[2] = s /\ y[1] = "handle"
    <3>1. <<"close", s>>[1] = "close" /\ <<"handle", s>>[1] = "handle" /\ <<"handle", s>>[2] = s
      OBVIOUS
    <3> QED
      BY <2>1, <3>1, Zenon
  <2>3. /\ <<x, y>> \in Seq(Task) /\ Len(<<x, y>>) = 2
        /\ \A k \in 1..2 : (k = 1 => <<x, y>>[k] = x) /\ (k = 2 => <<x, y>>[k] = y) /\ k \in {1, 2}
    OBVIOUS
  <2>4. work' = <<x, y>>
    BY <1>6, <2>2, Zenon
  <2>5. work' \in Seq(Task) /\ Orderly(work', handles', server')
    BY <1>1, <2>2, <2>3, <2>4 DEF Orderly
  <2> QED
    BY <1>3, <2>5
<1>7. CASE Accept(s) /\ work' # <<>>
  <2> DEFINE waiting == {t \in Socks : sockets[t].state = "WAITING_ACCEPT"}
  <2>1. waiting # {} /\ work' = <<<<"accept", First(waiting)>>>> /\ server.id = s /\ server' = server
    BY <1>7, Zenon DEF Accept, wifi
  <2>2. waiting \in SUBSET Nat
    BY WifiAssumption DEF Socks
  <2>3. PICK t \in Socks : t = First(waiting)
    BY <2>1, <2>2, FirstFound
  <2>4. PICK x \in Task : x = <<"accept", t>> /\ x[1] = "accept"
    <3>1. <<"accept", t>> \in Task /\ <<"accept", t>>[1] = "accept"
      BY DEF Task, JobNames
    <3> QED
      BY <3>1, Zenon
  <2>5. work' = <<x>>
    BY <2>1, <2>3, <2>4, Zenon
  <2>6. <<x>> \in Seq(Task) /\ Len(<<x>>) = 1 /\ <<x>>[1] = x /\ \A k \in 1..1 : k = 1
    OBVIOUS
  <2>7. s # INVALID_ID
    BY WifiAssumption DEF Socks, INVALID_ID
  <2>8. work' \in Seq(Task) /\ Orderly(work', handles', server')
    BY <2>1, <2>4, <2>5, <2>6, <2>7 DEF Orderly
  <2> QED
    BY <1>3, <2>8
<1>8. CASE Disconnect(s) \/ Send(s)
  BY <1>5, <1>8 DEF Disconnect, Send
<1>9. CASE Close(s)
  BY <1>6, <1>9 DEF Close
<1>10. CASE Bind(s)
  BY <1>1, <1>4, <1>10 DEF Bind, app
<1> QED
  BY <1>4, <1>7, <1>8, <1>9, <1>10

\* What wifi_socket_listen takes: the m sockets of q, and the first 2*m - o of the f buffers of p
\* that are free, two for each socket, but one for the first when the server has a buffer itself.
Takes(s, m, f, o, q, p) ==
    /\ o = 1 <=> sockets[s].cb # NULL
    /\ 2*m - o <= f /\ Len(q) = m /\ Rising(q, m) /\ Rising(p, f)
    /\ server' = [server EXCEPT !.clients = q]
    /\ live' = live \cup {p[k] : k \in 1..(2*m - o)}
    /\ \A k \in 1..m :
          /\ sockets[q[k]].state = "UNUSED"
          /\ sockets'[q[k]] = [sockets[q[k]] EXCEPT !.state = "DISCONNECTED",
                                  !.cb = IF k = 1 /\ o = 1 THEN sockets[s].cb ELSE p[2*k - o]]
    /\ \A t \in Socks : (\A k \in 1..m : q[k] # t) =>
          sockets'[t] = IF t = s /\ m > 0 THEN [sockets[t] EXCEPT !.cb = NULL] ELSE sockets[t]
    /\ sockets' = [t \in Socks |-> sockets'[t]]
    /\ \/ Run(<<"SERVER", TRUE>>) /\ work' = <<<<"listening", s>>>>
       \/ work' = [k \in 1..m |-> <<"free", q[k]>>] /\ UNCHANGED <<cmd, todo>>

LEMMA ListenTakes ==
    ASSUME Sane, NEW s \in Socks, NEW back_log \in BackLogs, Listen(s, back_log)
    PROVE  \E m, f \in Nat, o \in {0, 1} : \E q \in Seq(Socks), p \in [1..f -> FreeBufs] :
              Takes(s, m, f, o, q, p)
<1> DEFINE want == IF back_log = 0 \/ back_log > MAX_CONNECTIONS THEN MAX_CONNECTIONS ELSE back_log
           unused == {t \in Socks : sockets[t].state = "UNUSED"}
           own == IF sockets[s].cb # NULL THEN 1 ELSE 0
           room == (Cardinality(FreeBufs) + own) \div 2
           few == IF Cardinality(unused) < room THEN Cardinality(unused) ELSE room
           n == IF want < few THEN want ELSE few
           ids == SubSeq(InOrder(unused), 1, n)
           bufs == InOrder(FreeBufs)
           buf(k) == IF k = 1 /\ own = 1 THEN sockets[s].cb ELSE bufs[2*k - own]
<1>2. /\ sockets' = [t \in Socks |->
                IF Contains(ids, t)
                THEN [sockets[t] EXCEPT !.state = "DISCONNECTED",
                                        !.cb = buf(CHOOSE k \in 1..n : ids[k] = t)]
                ELSE IF t = s /\ n > 0 THEN [sockets[t] EXCEPT !.cb = NULL] ELSE sockets[t]]
      /\ server' = [server EXCEPT !.clients = ids]
      /\ live' = live \cup {bufs[k] : k \in 1..(2*n - own)}
      /\ \/ n = want /\ Run(<<"SERVER", TRUE>>) /\ work' = <<<<"listening", s>>>>
         \/ /\ n < want /\ work' = [k \in 1..n |-> <<"free", ids[k]>>]
            /\ UNCHANGED <<cmd, todo>>
  BY Zenon DEF Listen
<1>3. /\ unused \in SUBSET Nat /\ IsFiniteSet(unused) /\ FreeBufs \in SUBSET Nat
      /\ IsFiniteSet(FreeBufs)
  <2>1. MAX_CONNECTIONS \in Nat /\ Memory \in Nat
    BY WifiAssumption
  <2>2. IsFiniteSet(0..MAX_CONNECTIONS) /\ IsFiniteSet(1..Memory)
    BY <2>1, FS_Interval
  <2>3. unused \subseteq 0..MAX_CONNECTIONS /\ FreeBufs \subseteq 1..Memory
    BY DEF FreeBufs, Socks
  <2>4. IsFiniteSet(unused) /\ IsFiniteSet(FreeBufs)
    BY <2>2, <2>3, FS_Subset
  <2> QED
    BY <2>1, <2>3, <2>4
<1>4. PICK u \in Nat, f \in Nat : /\ u = Cardinality(unused) /\ f = Cardinality(FreeBufs)
                                  /\ InOrder(unused) \in [1..u -> unused]
                                  /\ Rising(InOrder(unused), u)
                                  /\ bufs \in [1..f -> FreeBufs] /\ Rising(bufs, f)
  <2>1. /\ Cardinality(unused) \in Nat /\ InOrder(unused) \in [1..Cardinality(unused) -> unused]
        /\ Rising(InOrder(unused), Cardinality(unused))
        /\ Cardinality(FreeBufs) \in Nat
        /\ InOrder(FreeBufs) \in [1..Cardinality(FreeBufs) -> FreeBufs]
        /\ Rising(InOrder(FreeBufs), Cardinality(FreeBufs))
    BY <1>3, InOrderFound
  <2> QED
    BY <2>1
<1>5. PICK o \in {0, 1} : o = own /\ (o = 1 <=> sockets[s].cb # NULL)
  OBVIOUS
<1>6. PICK m \in Nat : m = n /\ m <= u /\ 2*m - o <= f
  <2>1. PICK r \in Nat : r = (f + o) \div 2 /\ 2*r <= f + o
    <3>1. f + o \in Nat
      OBVIOUS
    <3>2. \A x \in Nat : x \div 2 \in Nat /\ 2 * (x \div 2) <= x
      OBVIOUS
    <3> QED
      BY <3>1, <3>2
  <2>2. PICK w \in Nat : w = want
    BY WifiAssumption
  <2>3. r = room
    BY <1>4, <1>5, <2>1
  <2>4. PICK x \in Nat : x = few /\ x <= u /\ x <= r
    <3>1. few = IF u < r THEN u ELSE r
      BY <1>4, <2>3
    <3> HIDE DEF few
    <3> QED
      BY <3>1
  <2>5. n = IF w < x THEN w ELSE x
    BY <2>2, <2>4
  <2> HIDE DEF n
  <2>6. n \in Nat /\ n <= x
    BY <2>5
  <2> QED
    BY <2>1, <2>4, <2>6
<1>7. PICK p \in [1..f -> FreeBufs] : p = bufs /\ Rising(p, f)
  BY <1>4
<1>8. PICK q \in Seq(Socks) : /\ q = ids /\ Len(q) = m /\ Rising(q, m)
                              /\ \A k \in 1..m : sockets[q[k]].state = "UNUSED" /\ q[k] \in Socks
  <2>1. PICK g : g = InOrder(unused) /\ g \in [1..u -> unused] /\ Rising(g, u)
    BY <1>4
  <2>3. \A k \in 1..m : k \in 1..u
    <3>1. m <= u
      BY <1>6
    <3> QED
      BY ONLY <3>1, m \in Nat, u \in Nat
  <2>4. \A k \in 1..m : g[k] \in unused
    <3> HIDE DEF unused
    <3> QED
      BY <2>1, <2>3
  <2>5. \A k \in 1..m : g[k] \in Socks /\ sockets[g[k]].state = "UNUSED"
    BY <2>4
  <2>6. /\ SubSeq(g, 1, m) \in Seq(Socks) /\ Len(SubSeq(g, 1, m)) = m
        /\ \A k \in 1..m : SubSeq(g, 1, m)[k] = g[k]
    <3>1. /\ SubSeq(g, 1, m) \in Seq(Socks)
          /\ Len(SubSeq(g, 1, m)) = IF 1 <= m THEN m - 1 + 1 ELSE 0
          /\ \A k \in 1..m - 1 + 1 : SubSeq(g, 1, m)[k] = g[1 + k - 1]
      BY <2>5, SubSeqProperties
    <3>2. (IF 1 <= m THEN m - 1 + 1 ELSE 0) = m /\ m - 1 + 1 = m /\ \A k \in 1..m : 1 + k - 1 = k
      BY ONLY m \in Nat
    <3> QED
      BY ONLY <3>1, <3>2
  <2>7. ids = SubSeq(g, 1, m)
    BY <1>6, <2>1
  <2>8. PICK h : h = SubSeq(g, 1, m)
    OBVIOUS
  <2>9. \A k \in 1..m : h[k] = g[k]
    BY ONLY <2>6, <2>8
  <2>10. Rising(h, m)
    BY <2>1, <2>3, <2>9 DEF Rising
  <2>11. h = ids /\ h \in Seq(Socks) /\ Len(h) = m
    BY ONLY <2>6, <2>7, <2>8
  <2>12. \A k \in 1..m : sockets[h[k]].state = "UNUSED" /\ h[k] \in Socks
    BY ONLY <2>5, <2>9
  <2> HIDE DEF ids
  <2> QED
    BY <2>10, <2>11, <2>12, Zenon
<1> DEFINE b(k) == IF k = 1 /\ o = 1 THEN sockets[s].cb ELSE p[2*k - o]
<1>9. \A k : buf(k) = b(k)
  BY <1>5, <1>7
<1> DEFINE E(t) == IF Contains(ids, t)
                   THEN [sockets[t] EXCEPT !.state = "DISCONNECTED",
                                           !.cb = buf(CHOOSE k \in 1..n : ids[k] = t)]
                   ELSE IF t = s /\ n > 0 THEN [sockets[t] EXCEPT !.cb = NULL] ELSE sockets[t]
<1>10. sockets' = [t \in Socks |-> E(t)]
  BY <1>2, Zenon
<1> HIDE DEF want, unused, own, room, few, n, ids, bufs, buf, b
<1>11. sockets' = [t \in Socks |-> sockets'[t]] /\ \A t \in Socks : sockets'[t] = E(t)
  <2> HIDE DEF E
  <2> QED
    BY <1>10
<1>12. \A t : Contains(ids, t) <=> \E k \in 1..m : q[k] = t
  BY <1>8 DEF Contains
<1>13. ASSUME NEW k \in 1..m
       PROVE  sockets'[q[k]] = [sockets[q[k]] EXCEPT !.state = "DISCONNECTED", !.cb = b(k)]
  <2>1. PICK t \in Socks : t = q[k]
    BY <1>8
  <2>2. Contains(ids, t)
    BY <1>12, <2>1
  <2>3. PICK i : i = CHOOSE j \in 1..m : q[j] = t
    OBVIOUS
  <2>4. i \in 1..m /\ q[i] = t
    BY <2>1, <2>3
  <2>5. i = k
    <3>1. \A x, y \in 1..m : x < y => q[x] < q[y]
      BY <1>8 DEF Rising
    <3>2. t \in Nat /\ ~(t < t)
      BY WifiAssumption DEF Socks
    <3>3. i < k \/ k < i \/ i = k
      BY ONLY <2>4, k \in 1..m, m \in Nat
    <3> QED
      BY ONLY <2>1, <2>4, <3>1, <3>2, <3>3, k \in 1..m
  <2>6. sockets'[t] = [sockets[t] EXCEPT !.state = "DISCONNECTED", !.cb = buf(i)]
    BY <1>6, <1>8, <1>11, <2>2, <2>3
  <2> QED
    BY <1>9, <2>1, <2>5, <2>6
<1>14. \A t \in Socks : (\A k \in 1..m : q[k] # t) =>
          sockets'[t] = IF t = s /\ m > 0 THEN [sockets[t] EXCEPT !.cb = NULL] ELSE sockets[t]
  BY <1>6, <1>11, <1>12
<1>15. live' = live \cup {p[k] : k \in 1..(2*m - o)}
  BY <1>2, <1>5, <1>6, <1>7
<1>16. server' = [server EXCEPT !.clients = q]
  BY <1>2, <1>8
<1>17. \/ Run(<<"SERVER", TRUE>>) /\ work' = <<<<"listening", s>>>>
       \/ work' = [k \in 1..m |-> <<"free", q[k]>>] /\ UNCHANGED <<cmd, todo>>
  <2>1. CASE Run(<<"SERVER", TRUE>>) /\ work' = <<<<"listening", s>>>>
    BY <2>1, Zenon
  <2>2. CASE work' = [k \in 1..n |-> <<"free", ids[k]>>] /\ UNCHANGED <<cmd, todo>>
    BY <1>6, <1>8, <2>2
  <2> QED
    BY <1>2, <2>1, <2>2, ZenonT(60)
<1>18. \A k \in 1..m : sockets'[q[k]] = [sockets[q[k]] EXCEPT !.state = "DISCONNECTED",
                                            !.cb = IF k = 1 /\ o = 1 THEN sockets[s].cb ELSE p[2*k - o]]
  BY <1>13 DEF b
<1>19. 2*m - o <= f
  BY <1>6
<1> HIDE DEF E
<1>20. Takes(s, m, f, o, q, p)
  BY <1>19, <1>5, <1>7, <1>8, <1>11, <1>14, <1>15, <1>16, <1>17, <1>18, Zenon DEF Takes
<1> QED
  BY <1>20, ZenonT(60)

\* The client sockets and their buffers are taken from the lists in order.
LEMMA ListenSane ==
    ASSUME Sane, NEW s \in Socks, NEW back_log \in BackLogs, Listen(s, back_log)
    PROVE  Sane'
<1>1. /\ Idle /\ WifiTypes /\ LineTypes /\ UNCHANGED <<line, link, resp, found>>
      /\ UNCHANGED <<map, at, handles>> /\ server.id = s
  BY DEF Sane, Listen, Begin, KeepModule, parser
<1>2. PICK m \in Nat, f \in Nat, o \in {0, 1} : \E q \in Seq(Socks), p \in [1..f -> FreeBufs] :
         Takes(s, m, f, o, q, p)
  BY ListenTakes, Zenon
<1>3. PICK q \in Seq(Socks), p \in [1..f -> FreeBufs] : Takes(s, m, f, o, q, p)
  BY <1>2, Zenon
<1>4. \A k \in 1..f : p[k] \in 1..Memory
  BY DEF FreeBufs
<1>5. 2*m - o <= f /\ Len(q) = m
  BY <1>3 DEF Takes
<1>6. \A k \in 1..m : (IF k = 1 /\ o = 1 THEN sockets[s].cb ELSE p[2*k - o]) \in 0..Memory
  <2> SUFFICES ASSUME NEW k \in 1..m
               PROVE  (IF k = 1 /\ o = 1 THEN sockets[s].cb ELSE p[2*k - o]) \in 0..Memory
    OBVIOUS
  <2>1. sockets[s].cb \in 0..Memory
    BY <1>1 DEF WifiTypes, Socket
  <2>2. CASE ~(k = 1 /\ o = 1)
    <3>1. 2*k - o \in 1..f
      BY ONLY <1>5, <2>2, k \in 1..m, m \in Nat, f \in Nat, o \in {0, 1}, SMTT(30)
    <3>2. p[2*k - o] \in 1..Memory
      BY <1>4, <3>1
    <3> QED
      BY <2>2, <3>2, WifiAssumption, SMTT(30)
  <2> QED
    BY <2>1, <2>2
<1>7. live' \subseteq 1..Memory
  <2>1. \A k \in 1..(2*m - o) : k \in 1..f
    BY ONLY <1>5, m \in Nat, f \in Nat, o \in {0, 1}, SMTT(30)
  <2>2. live' = live \cup {p[k] : k \in 1..(2*m - o)}
    BY <1>3 DEF Takes
  <2> QED
    BY <1>1, <1>4, <2>1, <2>2 DEF WifiTypes
<1>8. sockets' \in [Socks -> Socket]
  <2>1. ASSUME NEW t \in Socks PROVE sockets'[t] \in Socket
    <3>1. sockets[t] \in Socket /\ 0 \in 0..Memory
      BY <1>1, WifiAssumption DEF WifiTypes
    <3>2. ASSUME NEW k \in 1..m, q[k] = t PROVE sockets'[t] \in Socket
      <4>1. PICK x \in 0..Memory : x = IF k = 1 /\ o = 1 THEN sockets[s].cb ELSE p[2*k - o]
        BY <1>6
      <4>2. sockets'[t] = [sockets[t] EXCEPT !.state = "DISCONNECTED", !.cb = x]
        BY <1>3, <3>2, <4>1 DEF Takes
      <4> QED
        BY <3>1, <4>2 DEF Socket, States
    <3>3. CASE \A k \in 1..m : q[k] # t
      <4>1. sockets'[t] = IF t = s /\ m > 0 THEN [sockets[t] EXCEPT !.cb = NULL] ELSE sockets[t]
        BY <1>3, <3>3 DEF Takes
      <4> QED
        BY <3>1, <4>1, SMTT(30) DEF Socket, NULL
    <3> QED
      BY <3>2, <3>3
  <2>2. sockets' = [t \in Socks |-> sockets'[t]]
    BY <1>3, Zenon DEF Takes
  <2> QED
    BY ONLY <2>1, <2>2
<1>9. server' \in Server
  <2>1. server' = [server EXCEPT !.clients = q]
    BY <1>3 DEF Takes
  <2> QED
    BY <1>1, <2>1 DEF WifiTypes, Server
<1>10. WifiTypes'
  BY <1>1, <1>7, <1>8, <1>9 DEF WifiTypes
<1>11. CASE Run(<<"SERVER", TRUE>>) /\ work' = <<<<"listening", s>>>>
  <2>1. "listening" \in JobNames \ {"handle", "accept"}
    BY DEF JobNames
  <2>2. Plain(<<<<"listening", s>>>>) /\ <<<<"listening", s>>>> # <<>>
    BY <2>1, NewJobs, Zenon
  <2>3. work' \in Seq(Task) /\ Orderly(work', handles', server') /\ work' # <<>>
    BY <1>11, <2>2, PlainOrderly, Zenon
  <2>4. <<"SERVER", TRUE>> \in Command
    BY DEF Command
  <2> QED
    BY <1>1, <1>10, <1>11, <2>3, <2>4, CallSane DEF LineTypes
<1>12. CASE work' = [k \in 1..m |-> <<"free", q[k]>>] /\ UNCHANGED <<cmd, todo>>
  <2>1. PICK F : F = work' /\ F = [k \in 1..m |-> <<"free", q[k]>>]
    BY <1>12
  <2>2. \A k \in 1..m : F[k] \in Task /\ F[k][1] = "free"
    BY <1>5, <2>1 DEF Task, JobNames
  <2>3. F \in [1..m -> Task]
    BY <2>1, <2>2
  <2>4. F \in Seq(Task) /\ Len(F) = m
    BY <2>3
  <2>5. Plain(F)
    BY <2>2, <2>4 DEF Plain
  <2>6. work' \in Seq(Task) /\ Orderly(work', handles', server')
    BY <2>1, <2>5, PlainOrderly, Zenon
  <2> QED
    BY <1>1, <1>10, <1>12, <2>6, CallSane DEF LineTypes
<1> QED
  BY <1>3, <1>11, <1>12, ZenonT(60) DEF Takes

\* wifi_remove closes all sockets, one after the other.
LEMMA RemoveJobs ==
    LET J == [k \in 1..Cardinality(Socks) |-> <<"close", k - 1>>] \o <<<<"quit", 0>>>>
    IN  /\ J \in Seq(Task) /\ \A k \in 1..Len(J) : J[k][1] \in {"close", "quit"}
        /\ \A k \in 1..Len(J) : k < Len(J) => J[k][1] = "close"
<1>2. PICK m \in Nat : m = Cardinality(Socks) /\ m = MAX_CONNECTIONS + 1
  BY FS_Interval, WifiAssumption DEF Socks
<1>3. PICK F : F = [k \in 1..m |-> <<"close", k - 1>>]
  OBVIOUS
<1>4. \A k \in 1..m : F[k] \in Task /\ F[k][1] = "close"
  <2>1. \A k \in 1..m : k - 1 \in Socks
    <3>1. MAX_CONNECTIONS \in Nat
      BY WifiAssumption
    <3> QED
      BY <1>2, <3>1 DEF Socks
  <2> QED
    BY <1>3, <2>1 DEF Task, JobNames
<1>5. F \in [1..m -> Task]
  BY <1>3, <1>4
<1>6. F \in Seq(Task) /\ Len(F) = m
  BY <1>5
<1>7. PICK x \in Task : x = <<"quit", 0>> /\ x[1] = "quit"
  <2>1. 0 \in Socks /\ "quit" \in JobNames \ {"handle", "accept"}
    BY WifiAssumption DEF Socks, JobNames
  <2>2. <<"quit", 0>> \in Task /\ <<"quit", 0>>[1] = "quit"
    BY <2>1, NewJobs, Zenon
  <2> QED
    BY <2>2, Zenon
<1>8. F \o <<x>> \in Seq(Task) /\ Len(F \o <<x>>) = m + 1
  BY <1>6
<1>9. ASSUME NEW k \in 1..m + 1
      PROVE  (F \o <<x>>)[k][1] \in {"close", "quit"} /\ (k < m + 1 => (F \o <<x>>)[k][1] = "close")
  <2>1. CASE k <= m
    BY <1>4, <1>6, <2>1
  <2>2. CASE k = m + 1
    BY <1>6, <1>7, <2>2
  <2>3. k <= m \/ k = m + 1
    OBVIOUS
  <2> QED
    BY <2>1, <2>2, <2>3
<1>10. PICK J : J = F \o <<x>>
  OBVIOUS
<1>11. J = [k \in 1..Cardinality(Socks) |-> <<"close", k - 1>>] \o <<<<"quit", 0>>>>
  BY <1>2, <1>3, <1>7, <1>10, Zenon
<1>12. /\ J \in Seq(Task) /\ \A k \in 1..Len(J) : J[k][1] \in {"close", "quit"}
       /\ \A k \in 1..Len(J) : k < Len(J) => J[k][1] = "close"
  BY <1>8, <1>9, <1>10
<1> QED
  BY <1>11, <1>12, Zenon

LEMMA WifiRemoveSane ==
    ASSUME Sane, WifiRemove
    PROVE  Sane'
<1>1. /\ Idle /\ WifiTypes /\ LineTypes /\ UNCHANGED <<line, link, resp, cmd, todo, found>>
      /\ UNCHANGED <<sockets, map, server, at, live, handles>>
      /\ work' = [k \in 1..Cardinality(Socks) |-> <<"close", k - 1>>] \o <<<<"quit", 0>>>>
  BY DEF Sane, WifiRemove, Begin, KeepModule, parser, wifi
<1>2. Plain(work')
  BY <1>1, RemoveJobs DEF Plain
<1>3. work' \in Seq(Task) /\ Orderly(work', handles', server')
  BY <1>2, PlainOrderly, Zenon
<1>4. WifiTypes'
  BY <1>1 DEF WifiTypes
<1> QED
  BY <1>1, <1>3, <1>4, CallSane DEF LineTypes

-----------------------------------------------------------------------------
(* Sane: the interrupt, the module and the peers.                          *)

LEMMA MessageParts ==
    ASSUME NEW msg \in Message
    PROVE  /\ msg[1] \in {"data", "closed"} => msg[2] \in Conns /\ msg = <<msg[1], msg[2]>>
           /\ msg[1] = "ok" => msg = <<"ok">>
           /\ msg[1] = "error" => msg = <<"error">>
<1>1. CASE msg \in {"data", "closed"} \X Conns
  <2>1. PICK a \in {"data", "closed"}, c \in Conns : msg = <<a, c>>
    BY <1>1
  <2> QED
    BY <2>1
<1>2. CASE msg = <<"ok">>
  BY <1>2
<1>3. CASE msg = <<"error">>
  BY <1>3
<1> QED
  BY <1>1, <1>2, <1>3 DEF Message

LEMMA MessageTypes ==
    /\ <<"ok">> \in Message /\ <<"error">> \in Message
    /\ \A c \in Conns : <<"data", c>> \in Message /\ <<"closed", c>> \in Message
BY DEF Message

\* The socket that is given a new connection is one of the backlog.
LEMMA InitializedSocket ==
    ASSUME WifiTypes, Initialized # {}
    PROVE  /\ server.clients[First(Initialized)] \in Socks
           /\ First(Initialized) \in DOMAIN server.clients
           /\ sockets[server.clients[First(Initialized)]].state = "DISCONNECTED"
<1>1. PICK q \in Seq(Socks) : q = server.clients
  BY DEF WifiTypes, Server
<1>2. Initialized \in SUBSET Nat /\ Initialized \subseteq DOMAIN q
  BY <1>1 DEF Initialized
<1>3. First(Initialized) \in Initialized
  BY <1>2, FirstFound, SMTT(30)
<1>4. sockets[server.clients[First(Initialized)]].state = "DISCONNECTED"
  BY <1>3 DEF Initialized
<1>5. PICK k \in DOMAIN q : k = First(Initialized)
  BY <1>2, <1>3
<1>6. q[k] \in Socks
  OBVIOUS
<1> QED
  BY <1>1, <1>4, <1>5, <1>6

LEMMA DataTypes ==
    ASSUME WifiTypes, NEW c \in Conns, Data(c), UNCHANGED <<live, handles>>
    PROVE  WifiTypes' /\ server' = server
<1>1. CASE UNCHANGED <<wifi, at>>
  BY <1>1 DEF WifiTypes, wifi
<1>2. CASE map[c] # INVALID_ID /\ at' = [at EXCEPT ![c] = sockets[map[c]].cb] /\ UNCHANGED wifi
  <2>1. map[c] \in Socks
    BY <1>2 DEF WifiTypes
  <2>2. sockets[map[c]].cb \in 0..Memory
    BY <2>1 DEF WifiTypes, Socket
  <2> QED
    BY <1>2, <2>2 DEF WifiTypes, wifi
<1>3. CASE at[c] = NULL /\ map[c] = INVALID_ID /\ Initialized # {}
  <2>1. PICK s \in Socks : s = server.clients[First(Initialized)]
    BY <1>3, InitializedSocket
  <2>2. /\ sockets' = [sockets EXCEPT ![s].state = "WAITING_ACCEPT", ![s].conn_id = c]
        /\ map' = [map EXCEPT ![c] = s] /\ at' = [at EXCEPT ![c] = sockets[s].cb]
        /\ UNCHANGED server
    BY <1>3, <2>1, Zenon DEF Data, Given
  <2>3. sockets' \in [Socks -> Socket]
    <3>1. "WAITING_ACCEPT" \in States /\ c \in Conns \cup {INVALID_ID} /\ sockets \in [Socks -> Socket]
      BY DEF States, WifiTypes
    <3> QED
      BY <2>2, <3>1, SocketTypes, Zenon
  <2>4. sockets[s].cb \in 0..Memory
    BY DEF WifiTypes, Socket
  <2> QED
    BY <2>2, <2>3, <2>4 DEF WifiTypes
<1> QED
  BY <1>1, <1>2, <1>3, Zenon DEF Data

LEMMA ClosedTypes ==
    ASSUME WifiTypes, NEW c \in Conns, Closed(c), UNCHANGED <<live, handles, server>>
    PROVE  WifiTypes'
<1>1. at' \in [Conns -> 0..Memory]
  <2>1. NULL \in 0..Memory
    BY WifiAssumption DEF NULL
  <2> QED
    BY <2>1 DEF Closed, Forgotten, WifiTypes
<1>2. CASE UNCHANGED <<sockets, map>>
  BY <1>1, <1>2 DEF WifiTypes
<1>3. CASE map[c] # INVALID_ID /\ ~UNCHANGED <<sockets, map>>
  <2>1. PICK s \in Socks : s = map[c]
    BY <1>3 DEF WifiTypes
  <2>2. PICK d \in Conns \cup {INVALID_ID} : d = sockets[s].conn_id
    BY DEF WifiTypes, Socket
  <2>3. /\ sockets \in [Socks -> Socket] /\ map \in [Conns -> Socks \cup {INVALID_ID}]
        /\ "DISCONNECTED" \in States /\ INVALID_ID \in Conns \cup {INVALID_ID}
    BY DEF WifiTypes, States
  <2>4. /\ [sockets EXCEPT ![s].state = "DISCONNECTED"] \in [Socks -> Socket]
        /\ [sockets EXCEPT ![s].state = "DISCONNECTED", ![s].conn_id = INVALID_ID]
              \in [Socks -> Socket]
    BY <2>3, SocketTypes, Zenon
  <2>5. CASE d = INVALID_ID /\ sockets' = [sockets EXCEPT ![s].state = "DISCONNECTED"]
             /\ UNCHANGED map
    BY <1>1, <2>4, <2>5 DEF WifiTypes
  <2>6. CASE d # INVALID_ID /\ map' = [map EXCEPT ![d] = INVALID_ID]
             /\ sockets' = [sockets EXCEPT ![s].state = "DISCONNECTED", ![s].conn_id = INVALID_ID]
    BY <1>1, <2>2, <2>3, <2>4, <2>6 DEF WifiTypes
  <2> QED
    BY <1>3, <2>1, <2>2, <2>5, <2>6 DEF Closed, Down
<1> QED
  BY <1>2, <1>3 DEF Closed

LEMMA InterruptSane ==
    ASSUME Sane, Interrupt
    PROVE  Sane'
<1>1. /\ WifiTypes /\ LineTypes /\ line \in Seq(Message) /\ line # <<>> /\ line' = Tail(line)
      /\ UNCHANGED <<live, handles, work, cmd, todo, link, found>>
      /\ resp \in Seq({"ok", "error"})
  BY DEF Sane, LineTypes, Interrupt, app
<1>2. Head(line) \in Message /\ line' \in Seq(Message)
  BY <1>1
<1>3. WifiTypes' /\ UNCHANGED server /\ resp' \in Seq({"ok", "error"})
  <2>1. CASE Head(line)[1] = "data" /\ Data(Head(line)[2]) /\ UNCHANGED resp
    <3>1. Head(line)[2] \in Conns
      BY <1>2, <2>1, MessageParts
    <3>2. WifiTypes' /\ UNCHANGED server
      BY <1>1, <2>1, <3>1, DataTypes
    <3> QED
      BY <1>1, <2>1, <3>2
  <2>2. CASE Head(line)[1] = "closed" /\ Closed(Head(line)[2]) /\ UNCHANGED <<server, resp>>
    <3>1. Head(line)[2] \in Conns
      BY <1>2, <2>2, MessageParts
    <3>2. WifiTypes'
      BY <1>1, <2>2, <3>1, ClosedTypes
    <3> QED
      BY <1>1, <2>2, <3>2
  <2>3. CASE /\ Head(line)[1] \in {"ok", "error"} /\ resp' = Append(resp, Head(line)[1])
             /\ UNCHANGED <<wifi, at>>
    <3>1. WifiTypes' /\ UNCHANGED server
      BY <1>1, <2>3 DEF WifiTypes, wifi
    <3>2. resp' \in Seq({"ok", "error"})
      BY <1>1, <2>3
    <3> QED
      BY <3>1, <3>2
  <2> QED
    BY <2>1, <2>2, <2>3 DEF Interrupt
<1>4. LineTypes'
  BY <1>1, <1>2, <1>3 DEF LineTypes
<1> QED
  BY <1>1, <1>3, <1>4 DEF Sane

LEMMA AnswerSane ==
    ASSUME Sane, Answer
    PROVE  Sane'
<1>1. /\ WifiTypes /\ LineTypes /\ todo \in Seq(Command) /\ todo # <<>> /\ todo' = Tail(todo)
      /\ UNCHANGED <<wifi, live, at, resp, handles, work, cmd, found>>
      /\ line \in Seq(Message) /\ link \subseteq Conns
  BY DEF Sane, LineTypes, Answer, app, parser
<1>2. todo' \in Seq(Command) /\ Head(todo) \in Command
  BY <1>1
<1>3. PICK op, x : Head(todo) = <<op, x>> /\ op = Head(todo)[1] /\ x = Head(todo)[2]
  BY <1>2 DEF Command
<1>4. WifiTypes'
  BY <1>1 DEF WifiTypes, wifi
<1>5. line' \in Seq(Message) /\ link' \subseteq Conns
  <2>1. CASE line' = Append(line, <<"error">>) /\ UNCHANGED link
    BY <1>1, <2>1, MessageTypes
  <2>2. CASE x \in Conns /\ link' = link \cup {x} /\ line' = Append(line, <<"ok">>)
    BY <1>1, <1>3, <2>2, MessageTypes
  <2>3. CASE x \in link /\ link' = link \ {x} /\ line' = line \o <<<<"closed", x>>, <<"ok">>>>
    <3>1. PICK a \in Message, b \in Message : a = <<"closed", x>> /\ b = <<"ok">>
      BY <1>1, <2>3, MessageTypes
    <3>2. <<a, b>> \in Seq(Message)
      OBVIOUS
    <3>3. line \o <<a, b>> \in Seq(Message)
      BY <1>1, <3>2
    <3> QED
      BY <1>1, <2>3, <3>1, <3>3
  <2>4. CASE line' = Append(line, <<"ok">>) /\ UNCHANGED link
    BY <1>1, <2>4, MessageTypes
  <2> QED
    BY <1>3, <2>1, <2>2, <2>3, <2>4, Zenon DEF Answer
<1>6. LineTypes'
  BY <1>1, <1>2, <1>5 DEF LineTypes
<1> QED
  BY <1>1, <1>4, <1>6 DEF Sane, wifi

LEMMA PeersSane ==
    ASSUME Sane, PeerConnects \/ \E c \in Conns : PeerSends(c) \/ PeerCloses(c)
    PROVE  Sane'
<1>1. /\ WifiTypes /\ LineTypes /\ UNCHANGED <<wifi, live, at, resp, handles, work, cmd, todo, found>>
      /\ line \in Seq(Message) /\ link \subseteq Conns
  BY DEF Sane, LineTypes, PeerConnects, PeerSends, PeerCloses, Peer, app, parser
<1>2. WifiTypes'
  BY <1>1 DEF WifiTypes, wifi
<1>3. line' \in Seq(Message) /\ link' \subseteq Conns
  <2>1. CASE PeerConnects
    <3>1. Conns \ link \in SUBSET Nat /\ Conns \ link # {}
      BY <2>1, WifiAssumption DEF PeerConnects, Conns
    <3>2. First(Conns \ link) \in Conns
      BY <3>1, FirstFound
    <3> QED
      BY <1>1, <2>1, <3>2 DEF PeerConnects
  <2>2. CASE \E c \in Conns : PeerSends(c) \/ PeerCloses(c)
    <3>1. PICK c \in Conns : PeerSends(c) \/ PeerCloses(c)
      BY <2>2
    <3> QED
      <4>1. CASE PeerSends(c)
        <5>1. PICK m \in Message : m = <<"data", c>>
          BY MessageTypes
        <5>2. line' = Append(line, m) /\ link' = link
          BY <4>1, <5>1 DEF PeerSends
        <5> QED
          BY <1>1, <5>2
      <4>2. CASE PeerCloses(c)
        <5>1. PICK m \in Message : m = <<"closed", c>>
          BY MessageTypes
        <5>2. line' = Append(line, m) /\ link' = link \ {c}
          BY <4>2, <5>1 DEF PeerCloses
        <5> QED
          BY <1>1, <5>2
      <4> QED
        BY <3>1, <4>1, <4>2
  <2> QED
    BY <2>1, <2>2
<1>4. LineTypes'
  BY <1>1, <1>3 DEF LineTypes
<1> QED
  BY <1>1, <1>2, <1>4 DEF Sane, wifi

LEMMA InitSane == Init => Sane
<1> SUFFICES ASSUME Init PROVE Sane
  OBVIOUS
<1>1. WifiTypes
  <2>1. [s \in Socks |-> 0] \in [Socks -> Nat]
    OBVIOUS
  <2> QED
    BY <2>1, EmptyTypes DEF Init, WifiTypes
<1>2. LineTypes
  BY WifiAssumption DEF Init, LineTypes, Conns
<1> QED
  BY <1>1, <1>2 DEF Sane, Orderly, Init

LEMMA NextSane == Sane /\ [Next]_vars => Sane'
<1> SUFFICES ASSUME Sane, [Next]_vars PROVE Sane'
  OBVIOUS
<1>1. ASSUME NEW s \in Socks, handles[s] > 0,
             Call(s)
      PROVE  Sane'
  BY <1>1, ConnectSane, SimpleCallsSane, ListenSane DEF Call
<1>2. CASE UNCHANGED vars
  BY <1>2 DEF vars, wifi, parser, app, module, Sane, WifiTypes, LineTypes
<1> QED
  BY <1>1, <1>2, OpenSane, WifiRemoveSane, JobsSane, ResponseSane, InterruptSane, AnswerSane,
     PeersSane DEF Next

\* The types of the state and of what is on its way, and the order of the jobs of a call,
\* whatever the calls, the peers and the failures of commands.
THEOREM WifiSaneInvariance == Spec => []Sane
<1> QED
  BY InitSane, NextSane, PTL DEF Spec

\* The values of the sockets, of the tables and of the parser stay in their ranges; no
\* descriptor is given back that the application does not have.
THEOREM WifiTypesHold == Spec => []TypeOK
<1>1. Sane => TypeOK
  <2> SUFFICES ASSUME Sane PROVE TypeOK
    OBVIOUS
  <2>1. PICK q \in Seq(Socks) : q = server.clients
    BY DEF Sane, WifiTypes, Server
  <2>2. ToSet(server.clients) \subseteq Socks
    BY <2>1 DEF ToSet
  <2> QED
    BY <2>2, SMTT(30) DEF Sane, WifiTypes, LineTypes, TypeOK, Server, Socket, States
<1> QED
  BY <1>1, WifiSaneInvariance, PTL

-----------------------------------------------------------------------------
(* The numbers of the connections, in the two tables.                      *)

SameNumbers ==
    map' = map /\ \A t \in Socks : sockets'[t].conn_id = sockets[t].conn_id

\* Socket s is given the connection c.
NumberGiven(s, c) ==
    /\ map' = [map EXCEPT ![c] = s] /\ (Mapped(s) => "twice" \in flaws')
    /\ \A t \in Socks : sockets'[t].conn_id = IF t = s THEN c ELSE sockets[t].conn_id

\* The connection of socket s is released.
NumberReleased(s) ==
    /\ map' = [map EXCEPT ![sockets[s].conn_id] = INVALID_ID]
    /\ sockets[s].conn_id # INVALID_ID
    /\ \A t \in Socks : sockets'[t].conn_id = IF t = s THEN INVALID_ID ELSE sockets[t].conn_id

\* Socket s is given the connection c, while the one that it had is closed.
NumberMoved(s, c) ==
    /\ map' = [map EXCEPT ![c] = s, ![sockets[s].conn_id] = INVALID_ID]
    /\ sockets[s].conn_id # INVALID_ID
    /\ \A t \in Socks : sockets'[t].conn_id = IF t = s THEN c ELSE sockets[t].conn_id

\* The connection c is released, and its socket does not know.
NumberLost(c) ==
    /\ map' = [map EXCEPT ![c] = INVALID_ID]
    /\ \A t \in Socks : sockets'[t].conn_id = sockets[t].conn_id

NumberStep ==
    \/ SameNumbers \/ map' = NoMap \/ "retaken" \in flaws'
    \/ \E s \in Socks :
          NumberReleased(s) \/ \E c \in Conns : NumberGiven(s, c) \/ NumberMoved(s, c)
    \/ \E c \in Conns : NumberLost(c)

\* Both entries of the connection of a socket are cleared.
ReleaseConn(s) ==
    LET c == sockets[s].conn_id
    IN IF c = INVALID_ID THEN UNCHANGED <<sockets, map>>
       ELSE /\ sockets' = [sockets EXCEPT ![s].conn_id = INVALID_ID]
            /\ map' = [map EXCEPT ![c] = INVALID_ID]

\* What _wifi_release_conn clears of the number it has loaded, unless the socket has another
\* connection by then.
LEMMA FoundReleased ==
    ASSUME WifiTypes, Sock \in Socks, found \in Conns, ReleaseFound, "retaken" \notin flaws'
    PROVE  /\ \/ sockets[Sock].conn_id = found /\ ReleaseConn(Sock)
              \/ /\ sockets[Sock].conn_id = INVALID_ID
                 /\ sockets' = sockets /\ map' = [map EXCEPT ![found] = INVALID_ID]
           /\ "overtaken" \notin flaws' => ReleaseConn(Sock)
           /\ sockets[Sock].state # "WAITING_ACCEPT"
<1>1. /\ sockets' = [sockets EXCEPT ![Sock].conn_id = INVALID_ID]
      /\ map' = [map EXCEPT ![found] = INVALID_ID]
      /\ sockets[Sock].conn_id \in {found, INVALID_ID} /\ sockets[Sock].state # "WAITING_ACCEPT"
      /\ "overtaken" \notin flaws' /\ sockets[Sock].conn_id = INVALID_ID =>
            map[found] = INVALID_ID
  BY DEF ReleaseFound, Retaken
<1>2. found # INVALID_ID
  BY DEF Conns, INVALID_ID
<1>3. CASE sockets[Sock].conn_id = found
  BY <1>1, <1>2, <1>3 DEF ReleaseConn
<1>4. CASE sockets[Sock].conn_id = INVALID_ID
  <2>1. sockets' = sockets
    BY <1>1, <1>4 DEF WifiTypes, Socket
  <2>2. map[found] = INVALID_ID => map' = map
    BY <1>1 DEF WifiTypes
  <2> QED
    BY <1>1, <1>4, <2>1, <2>2 DEF ReleaseConn
<1> QED
  BY <1>1, <1>3, <1>4

LEMMA StateNumbers ==
    ASSUME WifiTypes, NEW s \in Socks, NEW st, map' = map,
           sockets' = [sockets EXCEPT ![s].state = st]
    PROVE  NumberStep
BY DEF WifiTypes, Socket, NumberStep, SameNumbers

LEMMA ReleaseNumbers ==
    ASSUME WifiTypes, NEW s \in Socks, ReleaseConn(s)
    PROVE  NumberStep
<1>1. CASE sockets[s].conn_id = INVALID_ID
  BY <1>1 DEF ReleaseConn, NumberStep, SameNumbers
<1>2. CASE sockets[s].conn_id # INVALID_ID
  <2>1. NumberReleased(s)
    BY <1>2 DEF ReleaseConn, NumberReleased, WifiTypes, Socket
  <2> QED
    BY <2>1 DEF NumberStep
<1> QED
  BY <1>1, <1>2

LEMMA JobNumbers ==
    ASSUME Sane, Jobs
    PROVE  NumberStep /\ flaws \subseteq flaws'
<1>1. flaws \subseteq flaws'
  <2>1. CASE \/ JobClose \/ JobDisconnect \/ JobUnserve \/ JobNoServer \/ JobFree \/ JobStopped
             \/ JobParted \/ JobDown \/ JobTail \/ JobHandle \/ JobClaim
    BY <2>1, Zenon DEF JobClose, JobDisconnect, JobUnserve, JobNoServer, JobFree, JobStopped,
       JobParted, JobDown, JobTail, JobHandle, JobClaim, ReleaseFound, Flaw
  <2>2. CASE \/ JobStart \/ JobUp \/ JobUnmap \/ JobUnlink \/ JobListening \/ JobAccept
             \/ JobSend \/ JobSent \/ JobQuit \/ JobGone
    BY <2>2, Zenon DEF JobStart, JobUp, JobUnmap, JobUnlink, JobListening, JobAccept, JobSend,
       JobSent, JobQuit, JobGone, ReleaseFound, Flaw
  <2> QED
    BY <2>1, <2>2 DEF Jobs
<1>2. WifiTypes /\ Sock \in Socks
  <2>1. \E name : Job(name)
    BY DEF Jobs, JobClose, JobDisconnect, JobUnserve, JobNoServer, JobFree, JobStopped, JobParted,
           JobDown, JobTail, JobHandle, JobClaim, JobStart, JobUp, JobUnmap, JobUnlink,
           JobListening, JobAccept, JobSend, JobSent, JobQuit, JobGone
  <2> QED
    BY <2>1, AtWork, SMTT(30)
<1>3. CASE \/ JobClose \/ JobDisconnect \/ JobUnserve \/ JobFree \/ JobHandle \/ JobSend \/ JobSent
           \/ JobQuit \/ JobStopped \/ JobUnmap \/ JobStart
  <2>1. map' = map /\ sockets' = sockets
    BY <1>3, Zenon DEF JobClose, JobDisconnect, JobUnserve, JobFree, JobHandle, JobSend, JobSent,
                       JobQuit, JobStopped, JobUnmap, JobStart, wifi
  <2> QED
    BY <1>1, <2>1 DEF NumberStep, SameNumbers
<1>4. CASE JobNoServer \/ JobDown \/ JobUp \/ JobListening \/ JobAccept
  <2>1. map' = map /\ \E st \in States : sockets' = [sockets EXCEPT ![Sock].state = st]
    <3>1. "DISCONNECTED" \in States /\ "CONNECTED" \in States /\ "LISTENING" \in States
      BY DEF States
    <3> QED
      BY <1>4, <3>1, Zenon DEF JobNoServer, JobDown, JobUp, JobListening, JobAccept
  <2>2. PICK st \in States : sockets' = [sockets EXCEPT ![Sock].state = st]
    BY <2>1
  <2> QED
    BY <1>1, <1>2, <2>1, <2>2, StateNumbers, Zenon
<1>5. CASE JobParted \/ JobUnlink
  <2>1. ReleaseFound /\ found \in Conns
    BY <1>5 DEF JobParted, JobUnlink, Sane, LineTypes
  <2>2. CASE ReleaseConn(Sock)
    BY <1>1, <1>2, <2>2, ReleaseNumbers
  <2>3. CASE sockets' = sockets /\ map' = [map EXCEPT ![found] = INVALID_ID]
    BY <1>1, <2>1, <2>3 DEF NumberStep, NumberLost
  <2> QED
    BY <1>1, <1>2, <2>1, <2>2, <2>3, FoundReleased DEF NumberStep
<1>6. CASE JobTail
  <2> DEFINE out == IF ~Backlog(Sock) \/ Sock # server.id THEN {Sock}
                    ELSE {Sock} \cup ToSet(server.clients)
  <2>1. sockets' = [t \in Socks |->
                IF t \notin out THEN sockets[t]
                ELSE [sockets[t] EXCEPT !.state = "UNUSED",
                                        !.cb = IF t = Sock /\ Owned(Sock) THEN NULL ELSE @]]
    BY <1>6, Zenon DEF JobTail
  <2> HIDE DEF out
  <2>2. map' = map
    BY <1>6 DEF JobTail
  <2>3. ASSUME NEW t \in Socks PROVE sockets'[t].conn_id = sockets[t].conn_id
    <3>1. sockets[t] \in Socket
      BY <1>2 DEF WifiTypes
    <3>2. \/ sockets'[t] = sockets[t]
          \/ \E b : sockets'[t] = [sockets[t] EXCEPT !.state = "UNUSED", !.cb = b]
      BY <2>1
    <3> QED
      BY <3>1, <3>2 DEF Socket
  <2> QED
    BY <1>1, <2>2, <2>3 DEF NumberStep, SameNumbers
<1>7. CASE JobGone
  BY <1>7 DEF JobGone, NumberStep
<1>8. CASE JobClaim
  <2>1. found \in Conns
    BY DEF Sane, LineTypes
  <2>2. CASE /\ map' = [map EXCEPT ![found] = Sock]
             /\ sockets' = [sockets EXCEPT ![Sock].conn_id = found]
             /\ Mapped(Sock) => "twice" \in flaws'
    <3>1. NumberGiven(Sock, found)
      BY <1>2, <2>1, <2>2 DEF NumberGiven, WifiTypes, Socket
    <3> QED
      BY <1>1, <1>2, <2>1, <3>1 DEF NumberStep
  <2>3. CASE /\ map' = [map EXCEPT ![found] = Sock, ![sockets[Sock].conn_id] = INVALID_ID]
             /\ sockets[Sock].conn_id # INVALID_ID
             /\ sockets' = [Down(Sock) EXCEPT ![Sock].conn_id = found]
    <3>1. NumberMoved(Sock, found)
      BY <1>2, <2>1, <2>3 DEF NumberMoved, WifiTypes, Socket, Down
    <3> QED
      BY <1>1, <1>2, <2>1, <3>1 DEF NumberStep
  <2> QED
    BY <1>8, <2>2, <2>3 DEF JobClaim
<1> QED
  BY <1>1, <1>3, <1>4, <1>5, <1>6, <1>7, <1>8, SMTT(30) DEF Jobs

\* wifi_socket_listen opens the sockets of the backlog and moves the buffer of the server.
LEMMA ListenSockets ==
    ASSUME Sane, NEW s \in Socks, NEW back_log \in BackLogs, Listen(s, back_log)
    PROVE  \A t \in Socks : /\ sockets'[t].conn_id = sockets[t].conn_id
                             /\ sockets'[t].state \in {sockets[t].state, "DISCONNECTED"}
<1> SUFFICES ASSUME NEW t \in Socks
             PROVE  /\ sockets'[t].conn_id = sockets[t].conn_id
                    /\ sockets'[t].state \in {sockets[t].state, "DISCONNECTED"}
  OBVIOUS
<1>1. sockets[t] \in Socket
  BY SMTT(30) DEF Sane, WifiTypes
<1>2. \/ sockets'[t] = sockets[t] \/ sockets'[t] = [sockets[t] EXCEPT !.cb = NULL]
      \/ \E b : sockets'[t] = [sockets[t] EXCEPT !.state = "DISCONNECTED", !.cb = b]
  BY DEF Listen
<1> QED
  BY <1>1, <1>2 DEF Socket

LEMMA CallNumbers ==
    ASSUME Sane, Open \/ WifiRemove \/ \E s \in Socks : Call(s)
    PROVE  NumberStep /\ flaws \subseteq flaws'
<1>1. WifiTypes
  BY DEF Sane
<1>2. CASE Open
  <2>1. map' = map /\ flaws' = flaws
    BY <1>2 DEF Open
  <2>2. \/ sockets' = sockets
        \/ \E s, b : sockets' = [sockets EXCEPT ![s].state = "DISCONNECTED", ![s].cb = b]
    BY <1>2 DEF Open
  <2>3. ASSUME NEW t \in Socks PROVE sockets'[t].conn_id = sockets[t].conn_id
    <3>1. sockets[t] \in Socket /\ t \in DOMAIN sockets
      BY <1>1 DEF WifiTypes
    <3>2. CASE sockets' = sockets
      BY <3>2
    <3>3. ASSUME NEW s, NEW b, sockets' = [sockets EXCEPT ![s].state = "DISCONNECTED", ![s].cb = b]
          PROVE  sockets'[t].conn_id = sockets[t].conn_id
      BY <3>1, <3>3 DEF Socket
    <3> QED
      BY <2>2, <3>2, <3>3
  <2> QED
    BY <2>1, <2>3 DEF NumberStep, SameNumbers
<1>3. CASE WifiRemove
  BY <1>3 DEF WifiRemove, wifi, NumberStep, SameNumbers
<1>4. ASSUME NEW s \in Socks,
             Connect(s) \/ Disconnect(s) \/ Close(s) \/ Send(s) \/ Bind(s) \/ Accept(s)
      PROVE  NumberStep /\ flaws \subseteq flaws'
  BY <1>4 DEF Connect, Disconnect, Close, Send, Bind, Accept, wifi, Flaw, NumberStep, SameNumbers
<1>6. ASSUME NEW s \in Socks, NEW b \in BackLogs, Listen(s, b)
      PROVE  NumberStep /\ flaws \subseteq flaws'
  <2>1. map' = map /\ flaws \subseteq flaws'
    BY <1>6 DEF Listen, Flaw
  <2>2. \A t \in Socks : sockets'[t].conn_id = sockets[t].conn_id
    BY <1>6, ListenSockets
  <2> QED
    BY <2>1, <2>2, SMTT(30) DEF NumberStep, SameNumbers
<1> QED
  BY <1>2, <1>3, <1>4, <1>6 DEF Call

LEMMA EventNumbers ==
    ASSUME Sane, Interrupt
    PROVE  NumberStep /\ flaws \subseteq flaws'
<1>1. WifiTypes /\ line \in Seq(Message) /\ line # <<>> /\ Head(line) \in Message
  BY DEF Sane, LineTypes, Interrupt
<1>2. ASSUME NEW c \in Conns, Data(c) PROVE NumberStep /\ flaws \subseteq flaws'
  <2>1. CASE UNCHANGED <<wifi, flaws>>
    BY <2>1 DEF NumberStep, SameNumbers, wifi
  <2>2. CASE at[c] = NULL /\ map[c] = INVALID_ID /\ Initialized # {}
    <3>1. PICK s \in Socks : s = server.clients[First(Initialized)]
      BY <1>1, <2>2, InitializedSocket
    <3>2. /\ sockets' = [sockets EXCEPT ![s].state = "WAITING_ACCEPT", ![s].conn_id = c]
          /\ map' = [map EXCEPT ![c] = s]
          /\ flaws \subseteq flaws' /\ (Mapped(s) => "twice" \in flaws')
      BY <1>2, <2>2, <3>1 DEF Data, Given
    <3>3. NumberGiven(s, c)
      BY <1>1, <3>2 DEF NumberGiven, WifiTypes, Socket
    <3> QED
      BY <3>2, <3>3 DEF NumberStep
  <2> QED
    BY <1>2, <2>1, <2>2, Zenon DEF Data
<1>3. ASSUME NEW c \in Conns, Closed(c) PROVE NumberStep
  <2>1. CASE UNCHANGED <<sockets, map>>
    BY <2>1 DEF NumberStep, SameNumbers
  <2>2. CASE map[c] # INVALID_ID /\ ~UNCHANGED <<sockets, map>>
    <3>1. PICK s \in Socks : s = map[c]
      BY <1>1, <2>2 DEF WifiTypes
    <3>2. CASE sockets' = [sockets EXCEPT ![s].state = "DISCONNECTED"] /\ UNCHANGED map
      BY <1>1, <3>2, StateNumbers
    <3>3. CASE /\ sockets' = [sockets EXCEPT ![s].state = "DISCONNECTED", ![s].conn_id = INVALID_ID]
               /\ map' = [map EXCEPT ![sockets[s].conn_id] = INVALID_ID]
               /\ sockets[s].conn_id # INVALID_ID
      <4>1. NumberReleased(s)
        BY <1>1, <3>3 DEF NumberReleased, WifiTypes, Socket
      <4> QED
        BY <4>1 DEF NumberStep
    <3> QED
      BY <1>3, <2>2, <3>1, <3>2, <3>3 DEF Closed, Down
  <2> QED
    BY <1>3, <2>1, <2>2 DEF Closed
<1>4. CASE Head(line)[1] = "data" /\ Data(Head(line)[2])
  BY <1>1, <1>2, <1>4, MessageParts
<1>5. CASE Head(line)[1] = "closed" /\ Closed(Head(line)[2]) /\ UNCHANGED flaws
  BY <1>1, <1>3, <1>5, MessageParts
<1>6. CASE UNCHANGED <<wifi, flaws>>
  BY <1>6 DEF NumberStep, SameNumbers, wifi
<1> QED
  BY <1>4, <1>5, <1>6 DEF Interrupt

LEMMA NumbersChange ==
    ASSUME Sane, [Next]_vars
    PROVE  NumberStep /\ flaws \subseteq flaws'
<1>1. CASE Response \/ TimedOut \/ Answer \/ PeerConnects \/ \E c \in Conns : PeerSends(c) \/ PeerCloses(c)
  BY <1>1 DEF Response, TimedOut, Answer, PeerConnects, PeerSends, PeerCloses, Peer, Flaw, wifi,
              NumberStep, SameNumbers
<1>2. CASE UNCHANGED vars
  BY <1>2 DEF vars, wifi, NumberStep, SameNumbers
<1> QED
  BY <1>1, <1>2, JobNumbers, CallNumbers, EventNumbers DEF Next

LEMMA NumberStepMapsBack ==
    ASSUME Sane, WifiTypes', MapsBack, NumberStep, flaws \subseteq flaws'
    PROVE  MapsBack'
<1> SUFFICES ASSUME "twice" \notin flaws', "retaken" \notin flaws', NEW c \in Conns, map'[c] # INVALID_ID
             PROVE  sockets'[map'[c]].conn_id = c
  BY DEF MapsBack, None
<1>1. /\ "twice" \notin flaws /\ "retaken" \notin flaws
      /\ \A d \in Conns : map[d] # INVALID_ID => sockets[map[d]].conn_id = d
  BY DEF MapsBack, None
<1>2. /\ sockets \in [Socks -> Socket] /\ map \in [Conns -> Socks \cup {INVALID_ID}]
      /\ \A d \in Conns : map[d] # INVALID_ID => map[d] \in Socks
  BY DEF Sane, WifiTypes
<1>3. CASE SameNumbers
  BY <1>1, <1>2, <1>3 DEF SameNumbers
<1>4. CASE map' = NoMap
  BY <1>4 DEF NoMap
<1>5. ASSUME NEW s \in Socks, NEW d \in Conns, NumberGiven(s, d)
      PROVE  sockets'[map'[c]].conn_id = c
  <2>1. CASE c = d
    BY <1>2, <1>5, <2>1 DEF NumberGiven
  <2>2. CASE c # d
    <3>1. map'[c] = map[c] /\ map[c] \in Socks /\ map[c] # s
      BY <1>2, <1>5, <2>2 DEF NumberGiven, Mapped
    <3> QED
      BY <1>1, <1>5, <3>1 DEF NumberGiven
  <2> QED
    BY <2>1, <2>2
<1>6. ASSUME NEW s \in Socks, NumberReleased(s)
      PROVE  sockets'[map'[c]].conn_id = c
  <2>1. PICK d \in Conns : d = sockets[s].conn_id
    BY <1>2, <1>6 DEF NumberReleased, Socket
  <2>2. map' = [map EXCEPT ![d] = INVALID_ID]
    BY <1>6, <2>1 DEF NumberReleased
  <2>3. c # d /\ map'[c] = map[c] /\ map[c] \in Socks
    BY <1>2, <2>2
  <2>4. map[c] # s
    BY <1>1, <2>1, <2>3
  <2> QED
    BY <1>1, <1>6, <2>3, <2>4 DEF NumberReleased
<1>7. ASSUME NEW s \in Socks, NEW d \in Conns, NumberMoved(s, d)
      PROVE  sockets'[map'[c]].conn_id = c
  <2>1. PICK e \in Conns : e = sockets[s].conn_id
    BY <1>2, <1>7 DEF NumberMoved, Socket
  <2>2. map' = [map EXCEPT ![d] = s, ![e] = INVALID_ID]
    BY <1>7, <2>1 DEF NumberMoved
  <2>3. c # e /\ map'[c] = IF c = d THEN s ELSE map[c]
    BY <1>2, <2>2
  <2>4. CASE c = d
    BY <1>2, <1>7, <2>3, <2>4 DEF NumberMoved
  <2>5. CASE c # d
    <3>1. map[c] \in Socks /\ map[c] # s
      BY <1>1, <1>2, <2>1, <2>3, <2>5
    <3> QED
      BY <1>1, <1>7, <2>3, <2>5, <3>1 DEF NumberMoved
  <2> QED
    BY <2>4, <2>5
<1>8. ASSUME NEW d \in Conns, NumberLost(d)
      PROVE  sockets'[map'[c]].conn_id = c
  <2>1. c # d /\ map'[c] = map[c] /\ map[c] \in Socks
    BY <1>2, <1>8 DEF NumberLost
  <2> QED
    BY <1>1, <1>8, <2>1 DEF NumberLost
<1> QED
  BY <1>3, <1>4, <1>5, <1>6, <1>7, <1>8 DEF NumberStep

\* conn_id_to_sock_id and the conn_id of the sockets agree, as long as no socket that has
\* a connection is given a second one, or loses a second one to the release of its first:
\* "the connection's socket" is then well defined.
THEOREM WifiMapsBack == Spec => []MapsBack
<1>1. Init => MapsBack
  BY DEF Init, MapsBack, NoMap
<1>2. Sane /\ Sane' /\ MapsBack /\ [Next]_vars => MapsBack'
  BY NumbersChange, NumberStepMapsBack DEF Sane
<1> QED
  BY <1>1, <1>2, WifiSaneInvariance, PTL DEF Spec

-----------------------------------------------------------------------------
(* Serving: the socket that listens is the server.                         *)

\* Jobs that are not about the server, and wait for no command.
Behind(J) == J \in Seq(Task) /\ \A k \in 1..Len(J) : J[k][1] \notin FrontJobs \cup {"noserver", "accept"}

BehindNames == JobNames \ (FrontJobs \cup {"noserver", "accept"})

LEMMA BehindJobs ==
    ASSUME NEW s \in Socks
    PROVE  /\ Behind(<<>>)
           /\ \A a \in BehindNames : Behind(<<<<a, s>>>>)
           /\ \A a, b \in BehindNames : Behind(<<<<a, s>>, <<b, s>>>>)
<1>1. Behind(<<>>)
  BY DEF Behind
<1>2. ASSUME NEW a \in BehindNames, NEW b \in BehindNames
      PROVE  Behind(<<<<a, s>>>>) /\ Behind(<<<<a, s>>, <<b, s>>>>)
  <2>1. <<a, s>> \in Task /\ <<a, s>>[1] = a /\ <<b, s>> \in Task /\ <<b, s>>[1] = b
    BY DEF Task, BehindNames
  <2>2. PICK x \in Task, y \in Task : x = <<a, s>> /\ y = <<b, s>> /\ x[1] = a /\ y[1] = b
    BY <2>1, Zenon
  <2>3. /\ <<x>> \in Seq(Task) /\ Len(<<x>>) = 1 /\ \A k \in 1..1 : <<x>>[k] = x
        /\ <<x, y>> \in Seq(Task) /\ Len(<<x, y>>) = 2 /\ \A k \in 1..2 : <<x, y>>[k] \in {x, y}
    OBVIOUS
  <2>4. Behind(<<x>>) /\ Behind(<<x, y>>)
    BY <2>2, <2>3 DEF Behind, BehindNames
  <2> QED
    BY <2>2, <2>4, Zenon
<1> QED
  BY <1>1, <1>2

LEMMA BehindServer ==
    ASSUME NEW J, Behind(J), NEW id
    PROVE  J \in Seq(Task) /\ ServerJobs(J, id)
BY DEF Behind, ServerJobs, FrontJobs

LEMMA FreesBehind ==
    ASSUME server \in Server
    PROVE  Behind(Frees)
BY FreesJobs DEF Behind, FrontJobs

\* A job of its own at the front.
LEMMA FrontServer ==
    ASSUME NEW s \in Socks, NEW a \in JobNames, NEW id,
           a = "noserver" => id \in {s, INVALID_ID}, a \in {"unserve", "listening"} => id = s
    PROVE  <<<<a, s>>>> \in Seq(Task) /\ ServerJobs(<<<<a, s>>>>, id)
<1>1. <<a, s>> \in Task /\ <<a, s>>[1] = a /\ <<a, s>>[2] = s
  BY DEF Task
<1>2. PICK x \in Task : x = <<a, s>> /\ x[1] = a /\ x[2] = s
  BY <1>1, Zenon
<1>3. <<x>> \in Seq(Task) /\ Len(<<x>>) = 1 /\ \A k \in 1..1 : k = 1 /\ <<x>>[k] = x
  OBVIOUS
<1>4. ServerJobs(<<x>>, id)
  BY <1>2, <1>3 DEF ServerJobs
<1> QED
  BY <1>2, <1>3, <1>4, Zenon

LEMMA JoinedServer ==
    ASSUME NEW W \in Seq(Task), NEW id, ServerJobs(W, id), NEW R, RestOf(R, W),
           NEW J \in Seq(Task), NEW new \in {id, INVALID_ID}, ServerJobs(J, new)
    PROVE  ServerJobs(J \o R, new)
<1>0. \A k \in 1..Len(J \o R) : JoinedFrom(J \o R, J, W, k)
  BY JoinedJobs
<1>1. \A k \in 1..Len(J \o R) :
         \/ k \in 1..Len(J) /\ (J \o R)[k] = J[k]
         \/ \E m \in 2..Len(W) : (J \o R)[k] = W[m]
  BY <1>0, Zenon DEF JoinedFrom
<1>2. ASSUME NEW k \in 1..Len(J \o R), NEW x, x = (J \o R)[k]
      PROVE  /\ x[1] \in FrontJobs => k = 1
             /\ x[1] = "noserver" => new \in {x[2], INVALID_ID}
             /\ x[1] \in {"unserve", "listening"} => new = x[2]
  <2>1. CASE k \in 1..Len(J) /\ (J \o R)[k] = J[k]
    BY <1>2, <2>1 DEF ServerJobs
  <2>2. ASSUME NEW m \in 2..Len(W), (J \o R)[k] = W[m]
        PROVE  /\ x[1] \notin FrontJobs
               /\ x[1] = "noserver" => new \in {x[2], INVALID_ID}
    <3>1. m \in 1..Len(W) /\ m # 1 /\ x = W[m]
      BY <1>2, <2>2
    <3>2. (x[1] \in FrontJobs => m = 1) /\ (x[1] = "noserver" => id \in {x[2], INVALID_ID})
      BY <3>1 DEF ServerJobs
    <3> QED
      BY <3>1, <3>2
  <2> QED
    BY <1>1, <2>1, <2>2 DEF FrontJobs
<1> QED
  BY <1>2 DEF ServerJobs

\* What a job leaves of the conditions on the server.
LEMMA GoesServer ==
    ASSUME Sane, work # <<>>, ServerJobs(work, server.id), NEW J \in Seq(Task), Goes(J),
           server'.id \in {server.id, INVALID_ID}, ServerJobs(J, server'.id)
    PROVE  ServerJobs(work', server'.id)
<1>1. work \in Seq(Task) /\ RestOf(Tail(work), work) /\ work' = J \o Tail(work)
  BY TailRest, SMTT(30) DEF Sane, LineTypes, Goes
<1> QED
  BY <1>1, JoinedServer

LEMMA JobJobs ==
    ASSUME Sane, Serving, Jobs
    PROVE  ServerJobs(work', server'.id)
<1>1. Sane /\ ServerJobs(work, server.id) /\ server \in Server
  BY DEF Serving, Sane, WifiTypes
<1>2. PICK name : Job(name) /\ Sock \in Socks /\ work # <<>> /\ work \in Seq(Task)
                  /\ Head(work) = <<name, Sock>> /\ cmd = <<>>
  BY JobsAtWork
<1>3. server'.id \in {server.id, INVALID_ID}
  <2>1. \/ server' = server \/ server' = [server EXCEPT !.id = INVALID_ID] \/ server' = NoServer
    BY DEF Jobs, JobClose, JobDisconnect, JobUnserve, JobNoServer, JobFree, JobStopped, JobParted,
           JobDown, JobTail, JobHandle, JobClaim, JobStart, JobUp, JobUnmap, JobUnlink,
           JobListening, JobAccept, JobSend, JobSent, JobQuit, JobGone, wifi
  <2> QED
    BY <1>1, <2>1, SMTT(30) DEF Server, NoServer
<1>4. ASSUME NEW J, Behind(J), Goes(J) PROVE ServerJobs(work', server'.id)
  BY <1>1, <1>2, <1>3, <1>4, BehindServer, GoesServer
<1>5. Behind(<<>>) /\ \A s \in Socks : \A a \in BehindNames : Behind(<<<<a, s>>>>)
  BY <1>2, BehindJobs
<1>6. {"disc", "tail", "close", "down", "send", "sent", "gone"} \subseteq BehindNames /\ 0 \in Socks
  BY WifiAssumption DEF BehindNames, JobNames, FrontJobs, Socks
<1>7. CASE Goes(<<>>)
  BY <1>4, <1>5, <1>7
<1>13. ASSUME NEW a \in {"stopped", "parted", "start", "up", "unlink"}, Goes(<<<<a, Sock>>>>)
       PROVE  ServerJobs(work', server'.id)
  <2>1. <<<<a, Sock>>>> \in Seq(Task) /\ ServerJobs(<<<<a, Sock>>>>, server'.id)
    BY <1>2, FrontServer DEF JobNames
  <2> QED
    BY <1>1, <1>2, <1>3, <1>13, <2>1, GoesServer
<1>8. CASE JobClose /\ ~Goes(<<>>)
  <2>1. Goes(<<<<"disc", Sock>>, <<"tail", Sock>>>>)
    BY <1>8 DEF JobClose
  <2>2. Behind(<<<<"disc", Sock>>, <<"tail", Sock>>>>)
    BY <1>2, <1>6, BehindJobs
  <2> QED
    BY <1>4, <2>1, <2>2
<1>9. CASE JobDisconnect /\ ~Goes(<<>>)
  <2>1. server' = server
    BY <1>9 DEF JobDisconnect, wifi
  <2>2. CASE Sock = server.id /\ Goes(<<<<"unserve", Sock>>>>)
    <3>1. <<<<"unserve", Sock>>>> \in Seq(Task) /\ ServerJobs(<<<<"unserve", Sock>>>>, server'.id)
      BY <1>2, <2>1, <2>2, FrontServer DEF JobNames
    <3> QED
      BY <1>1, <1>2, <1>3, <2>2, <3>1, GoesServer
  <2> QED
    BY <1>9, <1>13, <2>2 DEF JobDisconnect, Done
<1>10. CASE JobUnserve
  <2>1. server' = server /\ Goes(Frees \o <<<<"noserver", Sock>>>>)
    BY <1>10 DEF JobUnserve, wifi
  <2>2. server.id = Sock
    <3>1. 1 \in 1..Len(work) /\ work[1] = <<"unserve", Sock>>
      BY <1>2, <1>10, TailRest DEF JobUnserve, Job
    <3> QED
      BY <1>1, <3>1 DEF ServerJobs
  <2>3. PICK J \in Seq(Task) : /\ J = Frees \o <<<<"noserver", Sock>>>>
                               /\ \A k \in 1..Len(J) : J[k][1] = "free" \/ J[k] = <<"noserver", Sock>>
    BY <1>1, <1>2, BacklogJobs, Zenon
  <2>4. ServerJobs(J, server'.id)
    <3>1. server'.id = Sock
      BY <2>1, <2>2
    <3>2. \A k \in 1..Len(J) : J[k][1] = "free" \/ (J[k][1] = "noserver" /\ J[k][2] = Sock)
      BY <2>3
    <3> QED
      BY ONLY <3>1, <3>2, SMTT(30) DEF ServerJobs, FrontJobs
  <2> QED
    BY <1>1, <1>2, <1>3, <2>1, <2>3, <2>4, GoesServer
<1>11. CASE JobFree \/ JobParted \/ JobSend \/ (JobSent /\ ~Goes(<<>>)) \/ JobQuit
  <2>1. \E s \in Socks : \E a \in BehindNames : Goes(<<<<a, s>>>>)
    BY <1>2, <1>6, <1>11 DEF JobFree, JobParted, JobSend, JobSent, JobQuit, Done
  <2> QED
    BY <1>4, <1>5, <2>1
<1>14. CASE (JobStopped \/ JobClaim \/ JobStart \/ JobUnmap) /\ ~Goes(<<>>)
  <2>1. CASE Goes(<<<<"down", Sock>>>>)
    BY <1>2, <1>4, <1>5, <1>6, <2>1
  <2>2. ~Goes(<<<<"down", Sock>>>>) =>
           \E a \in {"parted", "start", "up", "unlink"} : Goes(<<<<a, Sock>>>>)
    BY <1>14 DEF JobStopped, JobClaim, JobStart, JobUnmap, LoadNumber
  <2> QED
    BY <1>13, <2>1, <2>2
<1>12. CASE JobAccept /\ ~Goes(<<>>)
  <2>1. Goes(<<<<"close", server.id>>>>)
    BY <1>12 DEF JobAccept, Done
  <2>2. server.id \in Socks
    <3>1. 1 \in 1..Len(work) /\ work[1] = <<"accept", Sock>>
      BY <1>2, <1>12, TailRest DEF JobAccept, Job
    <3>2. server.id # INVALID_ID
      BY <1>1, <3>1 DEF Sane, Orderly
    <3> QED
      BY <1>1, <3>2 DEF Server
  <2> QED
    BY <1>4, <1>5, <1>6, <2>1, <2>2
<1> QED
  BY <1>7, <1>8, <1>9, <1>10, <1>11, <1>12, <1>14
     DEF Jobs, JobNoServer, JobDown, JobTail, JobHandle, JobUp, JobUnlink, JobListening, JobGone, Done

\* What the helpers change in the sockets.
LEMMA StateSet ==
    ASSUME WifiTypes, NEW s \in Socks, NEW st, sockets' = [sockets EXCEPT ![s].state = st]
    PROVE  \A t \in Socks : /\ sockets'[t].state = IF t = s THEN st ELSE sockets[t].state
                            /\ sockets'[t].conn_id = sockets[t].conn_id
BY DEF WifiTypes, Socket

LEMMA StateKept ==
    ASSUME WifiTypes, NEW s \in Socks, ReleaseConn(s)
    PROVE  \A t \in Socks : /\ sockets'[t].state = sockets[t].state
                            /\ sockets'[t].conn_id = IF t = s THEN INVALID_ID ELSE sockets[t].conn_id
<1>1. CASE sockets[s].conn_id = INVALID_ID
  BY <1>1 DEF ReleaseConn
<1>2. CASE sockets[s].conn_id # INVALID_ID
  BY <1>2 DEF ReleaseConn, WifiTypes, Socket
<1> QED
  BY <1>1, <1>2

LEMMA TailStates ==
    ASSUME WifiTypes, JobTail
    PROVE  \A t \in Socks : /\ sockets'[t].state \in {sockets[t].state, "UNUSED"}
                            /\ sockets'[t].conn_id = sockets[t].conn_id
                            /\ t = Sock => sockets'[t].state = "UNUSED"
<1> DEFINE out == IF ~Backlog(Sock) \/ Sock # server.id THEN {Sock}
                  ELSE {Sock} \cup ToSet(server.clients)
<1>1. sockets' = [t \in Socks |->
                IF t \notin out THEN sockets[t]
                ELSE [sockets[t] EXCEPT !.state = "UNUSED",
                                        !.cb = IF t = Sock /\ Owned(Sock) THEN NULL ELSE @]]
  BY Zenon DEF JobTail
<1>2. Sock \in out
  OBVIOUS
<1> HIDE DEF out
<1> SUFFICES ASSUME NEW t \in Socks
             PROVE  /\ sockets'[t].state \in {sockets[t].state, "UNUSED"}
                    /\ sockets'[t].conn_id = sockets[t].conn_id
                    /\ t = Sock => sockets'[t].state = "UNUSED"
  OBVIOUS
<1>3. sockets[t] \in Socket
  BY DEF WifiTypes
<1>4. CASE t \notin out
  BY <1>1, <1>2, <1>4
<1>5. CASE t \in out
  <2>1. \E b : sockets'[t] = [sockets[t] EXCEPT !.state = "UNUSED", !.cb = b]
    BY <1>1, <1>5
  <2> QED
    BY <1>3, <2>1 DEF Socket
<1> QED
  BY <1>4, <1>5

LEMMA OpenStates ==
    ASSUME WifiTypes, Open
    PROVE  \A t \in Socks : /\ sockets'[t].state \in {sockets[t].state, "DISCONNECTED"}
                            /\ sockets'[t].conn_id = sockets[t].conn_id
<1>1. \/ sockets' = sockets
      \/ \E s, b : sockets' = [sockets EXCEPT ![s].state = "DISCONNECTED", ![s].cb = b]
  BY DEF Open
<1> SUFFICES ASSUME NEW t \in Socks
             PROVE  /\ sockets'[t].state \in {sockets[t].state, "DISCONNECTED"}
                    /\ sockets'[t].conn_id = sockets[t].conn_id
  OBVIOUS
<1>2. sockets[t] \in Socket /\ t \in DOMAIN sockets
  BY DEF WifiTypes
<1>3. CASE sockets' = sockets
  BY <1>3
<1>4. ASSUME NEW s, NEW b, sockets' = [sockets EXCEPT ![s].state = "DISCONNECTED", ![s].cb = b]
      PROVE  /\ sockets'[t].state \in {sockets[t].state, "DISCONNECTED"}
             /\ sockets'[t].conn_id = sockets[t].conn_id
  BY <1>2, <1>4 DEF Socket
<1> QED
  BY <1>1, <1>3, <1>4

\* A new client: the socket, and the number of its connection.
LEMMA DataStates ==
    ASSUME WifiTypes, NEW c \in Conns, Data(c)
    PROVE  \/ UNCHANGED <<sockets, map>>
           \/ \E s \in Socks :
                 /\ map[c] = INVALID_ID /\ map' = [map EXCEPT ![c] = s]
                 /\ Mapped(s) => "twice" \in flaws'
                 /\ sockets[s].state = "DISCONNECTED"
                 /\ \A t \in Socks :
                       /\ sockets'[t].state = IF t = s THEN "WAITING_ACCEPT" ELSE sockets[t].state
                       /\ sockets'[t].conn_id = IF t = s THEN c ELSE sockets[t].conn_id
<1>1. CASE UNCHANGED wifi
  BY <1>1 DEF wifi
<1>2. CASE at[c] = NULL /\ map[c] = INVALID_ID /\ Initialized # {}
  <2>1. PICK s \in Socks : s = server.clients[First(Initialized)] /\ sockets[s].state = "DISCONNECTED"
    BY <1>2, InitializedSocket
  <2>2. /\ sockets' = [sockets EXCEPT ![s].state = "WAITING_ACCEPT", ![s].conn_id = c]
        /\ map' = [map EXCEPT ![c] = s] /\ (Mapped(s) => "twice" \in flaws')
    BY <1>2, <2>1 DEF Data, Given
  <2>3. \A t \in Socks :
           /\ sockets'[t].state = IF t = s THEN "WAITING_ACCEPT" ELSE sockets[t].state
           /\ sockets'[t].conn_id = IF t = s THEN c ELSE sockets[t].conn_id
    BY <2>2 DEF WifiTypes, Socket
  <2> QED
    BY <1>2, <2>1, <2>2, <2>3
<1> QED
  BY <1>1, <1>2, Zenon DEF Data

\* The number that the socket had, if it had one, is free again.
ReleasedMap(s) ==
    IF sockets[s].conn_id = INVALID_ID THEN map' = map
    ELSE map' = [map EXCEPT ![sockets[s].conn_id] = INVALID_ID]

\* A connection that is closed: its socket, and the number the socket has.
LEMMA ClosedStates ==
    ASSUME WifiTypes, NEW c \in Conns, Closed(c)
    PROVE  \/ map[c] = INVALID_ID /\ UNCHANGED <<sockets, map>>
           \/ /\ map[c] \in Socks /\ ReleasedMap(map[c])
              /\ \A t \in Socks :
                    /\ sockets'[t].state = IF t = map[c] THEN "DISCONNECTED" ELSE sockets[t].state
                    /\ sockets'[t].conn_id = IF t = map[c] THEN INVALID_ID ELSE sockets[t].conn_id
<1>1. CASE map[c] = INVALID_ID /\ UNCHANGED <<sockets, map>>
  BY <1>1
<1>2. CASE map[c] # INVALID_ID
  <2>1. PICK s \in Socks : s = map[c]
    BY <1>2 DEF WifiTypes
  <2>2. CASE sockets[s].conn_id = INVALID_ID
    <3>1. sockets' = [sockets EXCEPT ![s].state = "DISCONNECTED"] /\ map' = map
      BY <1>2, <2>1, <2>2 DEF Closed, Down
    <3>2. \A t \in Socks :
             /\ sockets'[t].state = IF t = s THEN "DISCONNECTED" ELSE sockets[t].state
             /\ sockets'[t].conn_id = sockets[t].conn_id
      BY <3>1, StateSet, Zenon
    <3>3. ReleasedMap(s)
      BY <2>2, <3>1 DEF ReleasedMap
    <3>4. ASSUME NEW t \in Socks
          PROVE  sockets'[t].conn_id = IF t = s THEN INVALID_ID ELSE sockets[t].conn_id
      BY <2>2, <3>2
    <3> QED
      BY <2>1, <3>2, <3>3, <3>4
  <2>3. CASE sockets[s].conn_id # INVALID_ID
    <3>1. /\ sockets' = [sockets EXCEPT ![s].state = "DISCONNECTED", ![s].conn_id = INVALID_ID]
          /\ map' = [map EXCEPT ![sockets[s].conn_id] = INVALID_ID]
      BY <1>2, <2>1, <2>3 DEF Closed, Down
    <3>2. \A t \in Socks :
             /\ sockets'[t].state = IF t = s THEN "DISCONNECTED" ELSE sockets[t].state
             /\ sockets'[t].conn_id = IF t = s THEN INVALID_ID ELSE sockets[t].conn_id
      BY <3>1 DEF WifiTypes, Socket
    <3> QED
      BY <2>1, <2>3, <3>1, <3>2 DEF ReleasedMap
  <2> QED
    BY <2>2, <2>3
<1> QED
  BY <1>1, <1>2 DEF Closed

LEMMA ReleasedTable ==
    ASSUME NEW s \in Socks, ReleaseConn(s)
    PROVE  ReleasedMap(s)
BY DEF ReleaseConn, ReleasedMap

\* A socket that listens is the server, whatever the step.
LEMMA NextListens ==
    ASSUME Sane, Serving, [Next]_vars, NEW t \in Socks, sockets'[t].state = "LISTENING"
    PROVE  server'.id = t
<1>1. WifiTypes /\ server \in Server /\ (sockets[t].state = "LISTENING" => server.id = t)
  BY DEF Sane, WifiTypes, Serving
<1>2. CASE server' = server /\ sockets'[t].state = sockets[t].state
  BY <1>1, <1>2
<1>3. CASE Jobs
  <2>1. Sock \in Socks /\ Head(work) = work[1] /\ 1 \in 1..Len(work)
    BY <1>3, JobsAtWork, TailRest
  <2>2. CASE UNCHANGED wifi
    BY <1>2, <2>2 DEF wifi
  <2>3. CASE JobNoServer
    <3>1. t # Sock /\ server.id = t
      <4>1. sockets' = [sockets EXCEPT ![Sock].state = "DISCONNECTED"]
        BY <2>3 DEF JobNoServer
      <4>2. sockets'[t].state = IF t = Sock THEN "DISCONNECTED" ELSE sockets[t].state
        <5>1. PICK st \in {"DISCONNECTED"} : st = "DISCONNECTED"
          OBVIOUS
        <5>2. sockets' = [sockets EXCEPT ![Sock].state = st]
          BY <4>1, <5>1
        <5>3. sockets'[t].state = IF t = Sock THEN st ELSE sockets[t].state
          BY <1>1, <2>1, <5>2, StateSet, ZenonT(60)
        <5> QED
          BY <5>1, <5>3
      <4> QED
        BY <1>1, <4>2
    <3>2. server.id \in {Sock, INVALID_ID}
      BY <2>1, <2>3 DEF JobNoServer, Job, Serving, ServerJobs, Sock
    <3>3. t # INVALID_ID
      BY WifiAssumption DEF Socks, INVALID_ID
    <3> QED
      BY <3>1, <3>2, <3>3
  <2>4. CASE JobParted \/ JobUnlink \/ JobClaim
    <3>1. /\ server' = server
          /\ \E c : \/ sockets' = [sockets EXCEPT ![Sock].conn_id = c]
                   \/ sockets' = [Down(Sock) EXCEPT ![Sock].conn_id = c]
      BY <2>4 DEF JobParted, JobUnlink, JobClaim, ReleaseFound
    <3>2. PICK c : \/ sockets' = [sockets EXCEPT ![Sock].conn_id = c]
                   \/ sockets' = [sockets EXCEPT ![Sock].state = "DISCONNECTED", ![Sock].conn_id = c]
      BY <3>1 DEF Down
    <3>3. sockets'[t].state \in {sockets[t].state, "DISCONNECTED"}
      <4>1. PICK x \in Socks : x = Sock
        BY <2>1
      <4>2. sockets \in [Socks -> Socket]
        BY <1>1 DEF WifiTypes
      <4>3. CASE sockets' = [sockets EXCEPT ![x].conn_id = c]
        BY ONLY t \in Socks, <4>2, <4>3 DEF Socket
      <4>4. CASE sockets' = [sockets EXCEPT ![x].state = "DISCONNECTED", ![x].conn_id = c]
        BY ONLY t \in Socks, <4>2, <4>4 DEF Socket
      <4> QED
        BY <3>2, <4>1, <4>3, <4>4
    <3> QED
      BY <1>1, <3>1, <3>3
  <2>5. CASE JobDown \/ JobUp \/ JobAccept
    <3>1. server' = server /\ \E st \in {"DISCONNECTED", "CONNECTED"} :
                                  sockets' = [sockets EXCEPT ![Sock].state = st]
      BY <2>5 DEF JobDown, JobUp, JobAccept
    <3>2. PICK st \in {"DISCONNECTED", "CONNECTED"} : sockets' = [sockets EXCEPT ![Sock].state = st]
      BY <3>1
    <3>3. sockets'[t].state = IF t = Sock THEN st ELSE sockets[t].state
      BY <1>1, <2>1, <3>2, StateSet, ZenonT(60)
    <3> QED
      BY <1>1, <3>1, <3>3
  <2>6. CASE JobTail
    BY <1>1, <2>6, TailStates DEF JobTail
  <2>7. CASE JobListening
    <3>1. server.id = Sock
      BY <2>1, <2>7 DEF JobListening, Job, Serving, ServerJobs, Sock
    <3>2. sockets' = [sockets EXCEPT ![Sock].state = "LISTENING"] /\ server' = server
      BY <2>7 DEF JobListening
    <3>3. sockets'[t].state = IF t = Sock THEN "LISTENING" ELSE sockets[t].state
      BY <1>1, <2>1, <3>2, StateSet
    <3> QED
      BY <1>1, <3>1, <3>2, <3>3
  <2>8. CASE JobGone
    BY <2>8 DEF JobGone, NoSockets
  <2> QED
    BY <1>3, <2>2, <2>3, <2>4, <2>5, <2>6, <2>7, <2>8
       DEF Jobs, JobClose, JobDisconnect, JobUnserve, JobFree, JobHandle, JobSend, JobSent, JobQuit,
           JobStopped, JobUnmap, JobStart
<1>4. CASE Open
  BY <1>1, <1>4, OpenStates DEF Open
<1>6. ASSUME NEW s \in Socks, Connect(s) \/ Disconnect(s) \/ Close(s) \/ Send(s) \/ Accept(s)
      PROVE  server'.id = t
  BY <1>2, <1>6 DEF Connect, Disconnect, Close, Send, Accept, wifi
<1>7. ASSUME NEW s \in Socks, Bind(s) PROVE server'.id = t
  <2>1. sockets' = sockets /\ server.id = INVALID_ID
    BY <1>7 DEF Bind
  <2>2. t # INVALID_ID
    BY WifiAssumption DEF Socks, INVALID_ID
  <2> QED
    BY <1>1, <2>1, <2>2
<1>8. ASSUME NEW s \in Socks, NEW b \in BackLogs, Listen(s, b) PROVE server'.id = t
  <2>1. server'.id = server.id
    BY <1>1, <1>8 DEF Listen, Server
  <2> QED
    BY <1>1, <1>8, <2>1, ListenSockets, SMTT(30)
<1>9. CASE Interrupt
  <2>1. Head(line) \in Message /\ line # <<>>
    BY <1>9 DEF Sane, LineTypes, Interrupt
  <2>2. CASE Head(line)[1] = "data" /\ Data(Head(line)[2])
    <3>1. PICK c \in Conns : c = Head(line)[2]
      BY <2>1, <2>2, MessageParts
    <3>2. server' = server
      BY <1>1, <2>2, <3>1 DEF Data, wifi
    <3> QED
      BY <1>1, <2>2, <3>1, <3>2, DataStates
  <2>3. CASE Head(line)[1] = "closed" /\ Closed(Head(line)[2]) /\ UNCHANGED server
    <3>1. PICK c \in Conns : c = Head(line)[2]
      BY <2>1, <2>3, MessageParts
    <3> QED
      BY <1>1, <2>3, <3>1, ClosedStates
  <2>4. CASE UNCHANGED wifi
    BY <1>2, <2>4 DEF wifi
  <2> QED
    BY <1>9, <2>2, <2>3, <2>4 DEF Interrupt
<1>10. CASE \/ WifiRemove \/ Response \/ TimedOut \/ Answer \/ PeerConnects
            \/ \E c \in Conns : PeerSends(c) \/ PeerCloses(c)
  BY <1>2, <1>10 DEF WifiRemove, Response, TimedOut, Answer, PeerConnects, PeerSends, PeerCloses,
                     Peer, wifi
<1>11. CASE UNCHANGED vars
  BY <1>2, <1>11 DEF vars, wifi
<1> QED
  BY <1>3, <1>4, <1>6, <1>7, <1>8, <1>9, <1>10, <1>11 DEF Next, Call

LEMMA FailedServer ==
    ASSUME Sane, ServerJobs(work, server.id), work # <<>>, Failed, UNCHANGED server
    PROVE  ServerJobs(work', server'.id)
<1>1. /\ work \in Seq(Task) /\ server \in Server
  BY DEF Sane, WifiTypes, LineTypes
<1>2. /\ RestOf(Tail(work), work) /\ RestOf(Aborted(Tail(work)), work) /\ Sock \in Socks
  BY <1>1, TailRest, AbortedRest DEF Sock, Task
<1>3. ASSUME NEW J \in Seq(Task), ServerJobs(J, server.id), NEW R, RestOf(R, work), work' = J \o R
      PROVE  ServerJobs(work', server'.id)
  BY <1>1, <1>3, JoinedServer
<1>4. CASE Head(work)[1] = "up"
  <2>1. work' = <<<<"unmap", Sock>>>> \o Tail(work)
    BY <1>4 DEF Failed
  <2>2. <<<<"unmap", Sock>>>> \in Seq(Task) /\ ServerJobs(<<<<"unmap", Sock>>>>, server.id)
    BY <1>2, FrontServer DEF JobNames
  <2> QED
    BY <1>2, <1>3, <2>1, <2>2
<1>5. CASE Head(work)[1] = "listening"
  <2>1. work' = Frees \o Tail(work)
    BY <1>5 DEF Failed
  <2>2. Frees \in Seq(Task) /\ ServerJobs(Frees, server.id)
    BY <1>1, FreesBehind, BehindServer
  <2> QED
    BY <1>2, <1>3, <2>1, <2>2
<1>6. CASE Head(work)[1] = "gone"
  BY <1>1, <1>6 DEF Failed
<1>7. CASE Head(work)[1] \notin {"up", "listening", "gone"}
  <2>1. work' = Aborted(Tail(work))
    BY <1>7 DEF Failed
  <2>2. Aborted(Tail(work)) \in Seq(Task)
    BY <1>2 DEF RestOf
  <2>3. work' = <<>> \o Aborted(Tail(work))
    BY <2>1, <2>2
  <2>4. <<>> \in Seq(Task) /\ ServerJobs(<<>>, server.id)
    BY DEF ServerJobs
  <2> QED
    BY <1>2, <1>3, <2>3, <2>4
<1> QED
  BY <1>4, <1>5, <1>6, <1>7

\* A call has asked the module for nothing about a connection when it begins.
NoneAsked ==
    \A s \in Socks :
       /\ \A a \in Linking \cup {"stopped", "parted"} : ~Doing(a, s)'
       /\ Doing("claim", s)' => Connect(s) /\ sockets[s].state \notin {"UNUSED", "CONNECTED"}
                               /\ s # server.id
       /\ Doing("accept", s)' => sockets[s].state = "WAITING_ACCEPT"

LEMMA CallJobs ==
    ASSUME Sane, Open \/ WifiRemove \/ \E s \in Socks : Call(s)
    PROVE  /\ ServerJobs(work', server'.id)
           /\ NoneAsked
<1>1. Idle /\ server \in Server
  <2>1. Begin
    <3>1. CASE Open \/ WifiRemove
      BY <3>1, Zenon DEF Open, WifiRemove
    <3>2. ASSUME NEW s \in Socks,
                 \/ Connect(s) \/ Disconnect(s) \/ Close(s) \/ Send(s) \/ Bind(s) \/ Accept(s)
          PROVE  Begin
      BY <3>2, Zenon DEF Connect, Disconnect, Close, Send, Bind, Accept
    <3>3. ASSUME NEW s \in Socks, NEW b \in BackLogs, Listen(s, b) PROVE Begin
      BY <3>3, Zenon DEF Listen
    <3> QED
      BY <3>1, <3>2, <3>3 DEF Call
  <2> QED
    BY <2>1 DEF Sane, WifiTypes, Begin
<1>2. ASSUME Behind(work')
      PROVE  /\ ServerJobs(work', server'.id)
             /\ NoneAsked
  <2>1. work' \in Seq(Task) /\ ServerJobs(work', server'.id)
    BY <1>2, BehindServer
  <2>2. ASSUME work' # <<>> PROVE Head(work')[1] \notin FrontJobs \cup {"accept"}
    <3>1. Head(work') = work'[1] /\ 1 \in 1..Len(work')
      BY <2>1, <2>2
    <3> QED
      BY <1>2, <3>1 DEF Behind
  <2> QED
    BY <2>1, <2>2 DEF FrontJobs, NoneAsked, Doing, Linking
<1>3. Behind(<<>>)
  BY DEF Behind
<1>4. CASE Open
  <2>1. work' = <<>>
    BY <1>1, <1>4 DEF Open, Idle
  <2> QED
    BY <1>2, <1>3, <2>1
<1>5. CASE WifiRemove
  <2>1. work' = [k \in 1..Cardinality(Socks) |-> <<"close", k - 1>>] \o <<<<"quit", 0>>>>
    BY <1>5 DEF WifiRemove
  <2>2. Behind(work')
    BY <2>1, RemoveJobs DEF Behind, FrontJobs
  <2> QED
    BY <1>2, <2>2
<1>6. ASSUME NEW s \in Socks, Connect(s)
      PROVE  /\ ServerJobs(work', server'.id)
             /\ NoneAsked
  <2>1. CASE work' = work
    BY <1>1, <1>2, <1>3, <2>1 DEF Idle
  <2>2. CASE work' = <<<<"claim", s>>>> /\ s # server.id /\ sockets[s].state \notin {"UNUSED", "CONNECTED"}
    <3>1. ServerJobs(work', server'.id)
      BY <2>2, FrontServer DEF JobNames
    <3>2. NoneAsked
      BY <1>6, <2>2 DEF NoneAsked, Doing, Linking
    <3> QED
      BY <3>1, <3>2
  <2> QED
    BY <1>6, <2>1, <2>2 DEF Connect
<1>7. ASSUME NEW s \in Socks, Disconnect(s) \/ Close(s) \/ Send(s) \/ Bind(s) \/ Accept(s)
      PROVE  ServerJobs(work', server'.id) /\ NoneAsked
  <2>1. "disc" \in BehindNames /\ "send" \in BehindNames /\ "close" \in BehindNames
        /\ "handle" \in BehindNames
    BY DEF BehindNames, JobNames, FrontJobs
  <2>2. CASE Disconnect(s) \/ Send(s) \/ Close(s)
    <3>1. \/ work' = <<<<"disc", s>>>> \/ work' = <<<<"send", s>>>>
          \/ work' = <<<<"close", s>>, <<"handle", s>>>>
      BY <2>2, Zenon DEF Disconnect, Send, Close
    <3> QED
      BY <1>2, <2>1, <3>1, BehindJobs
  <2>3. CASE Bind(s)
    BY <1>1, <1>2, <1>3, <2>3 DEF Bind, app, Idle
  <2>4. CASE Accept(s)
    <3> DEFINE waiting == {t \in Socks : sockets[t].state = "WAITING_ACCEPT"}
    <3>1. CASE waiting = {}
      BY <1>2, <1>3, <2>4, <3>1 DEF Accept
    <3>2. CASE waiting # {}
      <4>1. waiting \in SUBSET Nat
        BY WifiAssumption DEF Socks
      <4>2. PICK t \in Socks : t = First(waiting) /\ sockets[t].state = "WAITING_ACCEPT"
        BY <3>2, <4>1, FirstFound
      <4>3. work' = <<<<"accept", t>>>>
        BY <2>4, <3>2, <4>2, Zenon DEF Accept
      <4>4. ServerJobs(work', server'.id)
        BY <4>3, FrontServer DEF JobNames
      <4>5. NoneAsked
        <5>1. Head(work') = <<"accept", t>> /\ <<"accept", t>>[1] = "accept"
          BY <4>3
        <5>2. ASSUME NEW x \in Socks, NEW a, Doing(a, x)' PROVE a = "accept" /\ x = t
          BY <5>1, <5>2 DEF Doing
        <5> QED
          BY <4>2, <5>2 DEF NoneAsked, Linking
      <4> QED
        BY <4>4, <4>5
    <3> QED
      BY <3>1, <3>2
  <2> QED
    BY <1>7, <2>2, <2>3, <2>4
<1>8. ASSUME NEW s \in Socks, NEW b \in BackLogs, Listen(s, b)
      PROVE  /\ ServerJobs(work', server'.id)
             /\ NoneAsked
  <2>1. work' \in Seq(Task)
    BY <1>8, ListenSane DEF Sane, LineTypes
  <2>2. CASE work' = <<<<"listening", s>>>>
    <3>1. server'.id = s
      BY <1>1, <1>8 DEF Listen, Server
    <3>2. ServerJobs(work', server'.id)
      BY <2>2, <3>1, FrontServer DEF JobNames
    <3>3. NoneAsked
      BY <2>2 DEF NoneAsked, Doing, Linking
    <3> QED
      BY <3>2, <3>3, SMTT(30)
  <2>3. ASSUME \A k \in DOMAIN work' : work'[k][1] = "free" PROVE Behind(work')
    <3>1. DOMAIN work' = 1..Len(work')
      BY <2>1
    <3> QED
      BY <2>1, <2>3, <3>1 DEF Behind, FrontJobs
  <2>4. work' = <<<<"listening", s>>>> \/ \A k \in DOMAIN work' : work'[k][1] = "free"
    <3>0. PICK n \in Nat, f \in Nat, o \in {0, 1} : \E q \in Seq(Socks), p \in [1..f -> FreeBufs] :
              Takes(s, n, f, o, q, p)
      BY <1>8, ListenTakes
    <3>1. PICK q \in Seq(Socks) :
             work' = <<<<"listening", s>>>> \/ work' = [k \in 1..n |-> <<"free", q[k]>>]
      BY <3>0, Zenon DEF Takes
    <3>2. CASE work' = [k \in 1..n |-> <<"free", q[k]>>]
      <4>1. DOMAIN work' = 1..n /\ \A k \in 1..n : work'[k] = <<"free", q[k]>>
        BY <3>2
      <4>2. ASSUME NEW k \in 1..n PROVE work'[k][1] = "free"
        BY <4>1
      <4> QED
        BY <4>1, <4>2
    <3> QED
      BY <3>1, <3>2
  <2> QED
    BY <1>2, <2>2, <2>3, <2>4
<1> QED
  BY <1>2, <1>4, <1>5, <1>6, <1>7, <1>8 DEF Call

LEMMA NextServing == Sane /\ Serving /\ [Next]_vars => Serving'
<1> SUFFICES ASSUME Sane, Serving, [Next]_vars PROVE Serving'
  OBVIOUS
<1>1. ServerJobs(work, server.id)
  BY DEF Serving
<1>2. ServerJobs(work', server'.id)
  <2>1. CASE Jobs
    BY <2>1, JobJobs
  <2>2. CASE UNCHANGED <<work, server>>
    BY <1>1, <2>2
  <2>3. CASE Response \/ TimedOut
    <3>1. work # <<>> /\ UNCHANGED server /\ (UNCHANGED work \/ Failed)
      BY <2>3 DEF Response, TimedOut, wifi, Sane
    <3> QED
      BY <2>2, <3>1, <1>1, FailedServer
  <2>4. CASE Interrupt
    <3>1. UNCHANGED work
      BY <2>4 DEF Interrupt, app
    <3>2. server' = server
      BY <2>4 DEF Interrupt, wifi, Data
    <3> QED
      BY <2>2, <3>1, <3>2
  <2>5. CASE Answer \/ PeerConnects \/ (\E c \in Conns : PeerSends(c) \/ PeerCloses(c)) \/ UNCHANGED vars
    BY <2>2, <2>5 DEF Answer, PeerConnects, PeerSends, PeerCloses, Peer, app, wifi, vars
  <2> QED
    BY <2>1, <2>3, <2>4, <2>5, CallJobs DEF Next
<1> QED
  BY <1>2, NextListens DEF Serving

\* The one socket that listens is the server, and what a call has still to do about the
\* server is about that socket, whatever comes between.
THEOREM WifiServing == Spec => []Serving
<1>1. Init => Serving
  BY DEF Init, Serving, ServerJobs, NoSockets
<1> QED
  BY <1>1, NextServing, WifiSaneInvariance, PTL DEF Spec

-----------------------------------------------------------------------------
(* Messages in a queue.                                                    *)

\* What is read from a queue and what is put behind it.
LEMMA AppendAt ==
    ASSUME NEW T, NEW q \in Seq(T), NEW x \in T
    PROVE  /\ Append(q, x) \in Seq(T) /\ Len(Append(q, x)) = Len(q) + 1 /\ Len(q) \in Nat
           /\ Append(q, x)[Len(q) + 1] = x
           /\ \A k \in 1..Len(q) : Append(q, x)[k] = q[k] /\ k \in 1..Len(q) + 1
           /\ \A k \in 1..Len(q) + 1 : k \in 1..Len(q) \/ k = Len(q) + 1
OBVIOUS

LEMMA AppendFound ==
    ASSUME NEW T, NEW q \in Seq(T), NEW x \in T, NEW k \in 1..Len(Append(q, x))
    PROVE  (k \in 1..Len(q) /\ Append(q, x)[k] = q[k]) \/ (k = Len(q) + 1 /\ Append(q, x)[k] = x)
<1>1. k \in 1..Len(q) + 1
  BY AppendAt
<1> QED
  BY <1>1, AppendAt

LEMMA TailAt ==
    ASSUME NEW T, NEW q \in Seq(T), q # <<>>
    PROVE  /\ Tail(q) \in Seq(T) /\ Len(Tail(q)) = Len(q) - 1 /\ Len(q) \in Nat /\ Len(q) >= 1
           /\ q[1] = Head(q) /\ 1 \in 1..Len(q)
           /\ \A k \in 1..Len(q) - 1 : Tail(q)[k] = q[k + 1] /\ k + 1 \in 2..Len(q)
           /\ \A k \in 2..Len(q) : k - 1 \in 1..Len(q) - 1 /\ Tail(q)[k - 1] = q[k]
<1>1. PICK n \in Nat : n = Len(q) /\ n >= 1
  OBVIOUS
<1>2. /\ Tail(q) \in Seq(T) /\ Len(Tail(q)) = n - 1 /\ q[1] = Head(q)
      /\ \A k \in 1..n - 1 : Tail(q)[k] = q[k + 1]
  BY <1>1
<1>3. ASSUME NEW k \in 2..n PROVE k - 1 \in 1..n - 1 /\ Tail(q)[k - 1] = q[k]
  <2>1. PICK i \in 1..n - 1 : i = k - 1 /\ i + 1 = k
    BY <1>1
  <2> QED
    BY <1>2, <2>1
<1>4. \A k \in 1..n - 1 : k + 1 \in 2..n
  BY <1>1
<1> QED
  BY <1>1, <1>2, <1>3, <1>4

LEMMA HasAppend ==
    ASSUME NEW T, NEW q \in Seq(T), NEW x \in T
    PROVE  /\ Has(Append(q, x), x)
           /\ \A m : Has(q, m) => Has(Append(q, x), m)
           /\ \A m : Has(Append(q, x), m) => Has(q, m) \/ m = x
<1>1. Len(q) + 1 \in 1..Len(Append(q, x))
  BY AppendAt
<1>2. Has(Append(q, x), x)
  BY <1>1, AppendAt DEF Has
<1>3. ASSUME NEW m, Has(q, m) PROVE Has(Append(q, x), m)
  BY <1>3, AppendAt DEF Has
<1>4. ASSUME NEW m, Has(Append(q, x), m) PROVE Has(q, m) \/ m = x
  BY <1>4, AppendAt DEF Has
<1> QED
  BY <1>2, <1>3, <1>4

LEMMA HasTail ==
    ASSUME NEW T, NEW q \in Seq(T), q # <<>>, NEW m, Has(q, m)
    PROVE  Head(q) = m \/ Has(Tail(q), m)
<1>1. PICK k \in 1..Len(q) : q[k] = m
  BY DEF Has
<1>2. CASE k = 1
  BY <1>1, <1>2, TailAt
<1>3. CASE k # 1
  <2>1. k \in 2..Len(q)
    BY <1>3
  <2>2. k - 1 \in 1..Len(Tail(q)) /\ Tail(q)[k - 1] = q[k]
    BY <2>1, TailAt
  <2> QED
    BY <1>1, <2>2 DEF Has
<1> QED
  BY <1>2, <1>3

LEMMA ResponseAppend ==
    ASSUME NEW T, NEW q \in Seq(T), NEW x \in T
    PROVE  /\ NoResponse(q) /\ ~IsResponse(x) => NoResponse(Append(q, x))
           /\ NoResponse(q) /\ IsResponse(x) => OneResponse(Append(q, x))
           /\ OneResponse(q) /\ ~IsResponse(x) => OneResponse(Append(q, x))
<1>1. /\ Len(Append(q, x)) = Len(q) + 1 /\ Len(q) \in Nat /\ Append(q, x)[Len(q) + 1] = x
      /\ \A k \in 1..Len(q) : Append(q, x)[k] = q[k] /\ k \in 1..Len(q) + 1
      /\ \A k \in 1..Len(q) + 1 : k \in 1..Len(q) \/ k = Len(q) + 1
  BY AppendAt
<1> HIDE DEF IsResponse
<1>2. CASE NoResponse(q) /\ ~IsResponse(x)
  BY <1>1, <1>2 DEF NoResponse, OneResponse
<1>3. CASE NoResponse(q) /\ IsResponse(x)
  <2>1. Len(q) + 1 \in 1..Len(Append(q, x)) /\ IsResponse(Append(q, x)[Len(q) + 1])
    BY <1>1, <1>3
  <2>2. ASSUME NEW j \in 1..Len(Append(q, x)), IsResponse(Append(q, x)[j]) PROVE j = Len(q) + 1
    BY <1>1, <1>3, <2>2 DEF NoResponse
  <2> QED
    BY <1>3, <2>1, <2>2 DEF OneResponse, NoResponse
<1>4. CASE OneResponse(q) /\ ~IsResponse(x)
  <2>1. PICK k \in 1..Len(q) : IsResponse(q[k]) /\ \A j \in 1..Len(q) : IsResponse(q[j]) => j = k
    BY <1>4 DEF OneResponse
  <2>2. k \in 1..Len(Append(q, x)) /\ IsResponse(Append(q, x)[k])
    BY <1>1, <2>1
  <2>3. ASSUME NEW j \in 1..Len(Append(q, x)), IsResponse(Append(q, x)[j]) PROVE j = k
    <3>1. j # Len(q) + 1
      BY <1>1, <1>4, <2>3
    <3>2. j \in 1..Len(q)
      BY <1>1, <3>1
    <3>3. IsResponse(q[j])
      BY <1>1, <2>3, <3>2
    <3> QED
      BY <2>1, <3>2, <3>3
  <2>4. OneResponse(Append(q, x))
    BY <2>2, <2>3 DEF OneResponse
  <2>5. ~NoResponse(q)
    BY <2>1 DEF NoResponse
  <2> QED
    BY <1>4, <2>4, <2>5
<1> QED
  BY <1>2, <1>3, <1>4

LEMMA ResponseTail ==
    ASSUME NEW T, NEW q \in Seq(T), q # <<>>
    PROVE  /\ NoResponse(q) => NoResponse(Tail(q)) /\ ~IsResponse(Head(q))
           /\ OneResponse(q) /\ IsResponse(Head(q)) => NoResponse(Tail(q))
           /\ OneResponse(q) /\ ~IsResponse(Head(q)) => OneResponse(Tail(q))
<1>1. /\ Len(Tail(q)) = Len(q) - 1 /\ Len(q) \in Nat /\ q[1] = Head(q) /\ 1 \in 1..Len(q)
      /\ \A k \in 1..Len(q) - 1 : Tail(q)[k] = q[k + 1] /\ k + 1 \in 2..Len(q)
      /\ \A k \in 2..Len(q) : k - 1 \in 1..Len(q) - 1 /\ Tail(q)[k - 1] = q[k]
  BY TailAt
<1>2. CASE NoResponse(q)
  <2>1. ~IsResponse(Head(q))
    BY <1>1, <1>2 DEF NoResponse
  <2>2. ASSUME NEW k \in 1..Len(Tail(q)) PROVE ~IsResponse(Tail(q)[k])
    <3>1. k + 1 \in 1..Len(q) /\ Tail(q)[k] = q[k + 1]
      BY <1>1
    <3> QED
      BY <1>2, <3>1 DEF NoResponse
  <2> QED
    BY <1>1, <2>1, <2>2 DEF NoResponse, OneResponse
<1>3. CASE OneResponse(q)
  <2>1. PICK k \in 1..Len(q) : IsResponse(q[k]) /\ \A j \in 1..Len(q) : IsResponse(q[j]) => j = k
    BY <1>3 DEF OneResponse
  <2>2. CASE IsResponse(Head(q))
    <3>1. k = 1
      BY <1>1, <2>1, <2>2
    <3>2. ASSUME NEW i \in 1..Len(Tail(q)) PROVE ~IsResponse(Tail(q)[i])
      <4>1. i + 1 \in 1..Len(q) /\ Tail(q)[i] = q[i + 1] /\ i + 1 # 1
        BY <1>1
      <4> QED
        BY <2>1, <3>1, <4>1
    <3> QED
      BY <1>1, <2>1, <2>2, <3>1, <3>2 DEF NoResponse
  <2>3. CASE ~IsResponse(Head(q))
    <3>1. k \in 2..Len(q)
      BY <1>1, <2>1, <2>3
    <3>2. k - 1 \in 1..Len(Tail(q)) /\ IsResponse(Tail(q)[k - 1])
      BY <1>1, <2>1, <3>1
    <3>3. ASSUME NEW i \in 1..Len(Tail(q)), IsResponse(Tail(q)[i]) PROVE i = k - 1
      <4>1. i + 1 \in 1..Len(q) /\ Tail(q)[i] = q[i + 1]
        BY <1>1
      <4>2. i + 1 = k
        BY <2>1, <3>3, <4>1
      <4> QED
        BY <4>2
    <3> QED
      BY <2>1, <2>3, <3>2, <3>3 DEF OneResponse, NoResponse
  <2> QED
    BY <2>2, <2>3
<1> QED
  BY <1>2, <1>3

\* The end of a connection is still behind its data, and before the response.
LEMMA OrderAppend ==
    ASSUME NEW T, NEW q \in Seq(T), NEW x \in T, NEW c
    PROVE  /\ \A k \in 1..Len(q) : EndsAfter(q, k, c) => EndsAfter(Append(q, x), k, c)
           /\ \A k \in 1..Len(q) : x = <<"closed", c>> => EndsAfter(Append(q, x), k, c)
           /\ Stops(q, c) => Stops(Append(q, x), c)
           /\ Has(q, <<"closed", c>>) /\ x = <<"ok">> => Stops(Append(q, x), c)
<1>1. /\ Len(Append(q, x)) = Len(q) + 1 /\ Len(q) \in Nat /\ Append(q, x)[Len(q) + 1] = x
      /\ \A k \in 1..Len(q) : Append(q, x)[k] = q[k] /\ k \in 1..Len(q) + 1
      /\ Len(q) + 1 \in 1..Len(q) + 1 /\ \A k \in 1..Len(q) : k < Len(q) + 1
  BY AppendAt
<1>2. ASSUME NEW k \in 1..Len(q), EndsAfter(q, k, c) PROVE EndsAfter(Append(q, x), k, c)
  BY <1>1, <1>2 DEF EndsAfter
<1>3. ASSUME NEW k \in 1..Len(q), x = <<"closed", c>> PROVE EndsAfter(Append(q, x), k, c)
  BY <1>1, <1>3 DEF EndsAfter
<1>4. ASSUME Stops(q, c) PROVE Stops(Append(q, x), c)
  BY <1>1, <1>4 DEF Stops
<1>5. ASSUME Has(q, <<"closed", c>>), x = <<"ok">> PROVE Stops(Append(q, x), c)
  BY <1>1, <1>5 DEF Stops, Has
<1> QED
  BY <1>2, <1>3, <1>4, <1>5

LEMMA OrderTail ==
    ASSUME NEW T, NEW q \in Seq(T), q # <<>>, NEW c
    PROVE  /\ \A k \in 1..Len(Tail(q)) :
                 /\ k + 1 \in 1..Len(q) /\ Tail(q)[k] = q[k + 1]
                 /\ EndsAfter(q, k + 1, c) => EndsAfter(Tail(q), k, c)
           /\ EndsAfter(q, 1, c) => Has(Tail(q), <<"closed", c>>)
           /\ Stops(q, c) /\ Head(q) # <<"closed", c>> => Stops(Tail(q), c)
<1>1. /\ Len(Tail(q)) = Len(q) - 1 /\ Len(q) \in Nat /\ q[1] = Head(q) /\ 1 \in 1..Len(q)
      /\ \A k \in 1..Len(q) - 1 : Tail(q)[k] = q[k + 1] /\ k + 1 \in 2..Len(q)
      /\ \A k \in 2..Len(q) : k - 1 \in 1..Len(q) - 1 /\ Tail(q)[k - 1] = q[k]
  BY TailAt
<1>2. ASSUME NEW k \in 1..Len(Tail(q)), EndsAfter(q, k + 1, c) PROVE EndsAfter(Tail(q), k, c)
  <2>1. PICK j \in 1..Len(q) : j > k + 1 /\ q[j] = <<"closed", c>>
    BY <1>2 DEF EndsAfter
  <2>2. j \in 2..Len(q)
    BY <1>1, <2>1
  <2>3. j - 1 \in 1..Len(Tail(q)) /\ j - 1 > k /\ Tail(q)[j - 1] = <<"closed", c>>
    BY <1>1, <2>1, <2>2
  <2> QED
    BY <2>3 DEF EndsAfter
<1>3. ASSUME EndsAfter(q, 1, c) PROVE Has(Tail(q), <<"closed", c>>)
  <2>1. PICK j \in 1..Len(q) : j > 1 /\ q[j] = <<"closed", c>>
    BY <1>3 DEF EndsAfter
  <2>2. j \in 2..Len(q)
    BY <1>1, <2>1
  <2>3. j - 1 \in 1..Len(Tail(q)) /\ Tail(q)[j - 1] = <<"closed", c>>
    BY <1>1, <2>1, <2>2
  <2> QED
    BY <2>3 DEF Has
<1>4. ASSUME Stops(q, c), Head(q) # <<"closed", c>> PROVE Stops(Tail(q), c)
  <2>1. PICK j \in 1..Len(q), k \in 1..Len(q) : j < k /\ q[j] = <<"closed", c>> /\ q[k] = <<"ok">>
    BY <1>4 DEF Stops
  <2>2. j # 1
    BY <1>1, <1>4, <2>1
  <2>3. j \in 2..Len(q) /\ k \in 2..Len(q)
    BY <2>1, <2>2
  <2>4. /\ j - 1 \in 1..Len(Tail(q)) /\ k - 1 \in 1..Len(Tail(q)) /\ j - 1 < k - 1
        /\ Tail(q)[j - 1] = <<"closed", c>> /\ Tail(q)[k - 1] = <<"ok">>
    BY <1>1, <2>1, <2>3
  <2> QED
    BY <2>4 DEF Stops
<1>5. \A k \in 1..Len(Tail(q)) : k + 1 \in 1..Len(q) /\ Tail(q)[k] = q[k + 1]
  BY <1>1
<1> QED
  BY <1>2, <1>3, <1>4, <1>5

-----------------------------------------------------------------------------
(* Paired: a command has one response.                                     *)

\* What the module says: the command is not carried out, or it is.
Says(op, x) ==
    \/ line' = Append(line, <<"error">>) /\ link' = link
    \/ op = "START" /\ x \in Conns /\ link' = link \cup {x} /\ line' = Append(line, <<"ok">>)
    \/ /\ op = "STOP" /\ x \in Conns /\ x \in link /\ link' = link \ {x}
       /\ line' = Append(Append(line, <<"closed", x>>), <<"ok">>)
    \/ op \notin {"START", "STOP"} /\ link' = link /\ line' = Append(line, <<"ok">>)

LEMMA AnswerSays ==
    ASSUME Sane, Answer
    PROVE  /\ todo \in Seq(Command) /\ todo # <<>> /\ todo' = Tail(todo) /\ line \in Seq(Message)
           /\ UNCHANGED <<wifi, live, parser, app, counts, flaws>>
           /\ \E op, x : Head(todo) = <<op, x>> /\ Says(op, x)
<1>1. /\ todo \in Seq(Command) /\ todo # <<>> /\ todo' = Tail(todo) /\ line \in Seq(Message)
      /\ UNCHANGED <<wifi, live, parser, app, counts, flaws>> /\ link \subseteq Conns
  BY DEF Sane, LineTypes, Answer
<1>2. Head(todo) \in Command
  BY <1>1
<1>3. PICK op, x : Head(todo) = <<op, x>> /\ op = Head(todo)[1] /\ x = Head(todo)[2]
  BY <1>2 DEF Command
<1>4. ASSUME x \in Conns
      PROVE  line \o <<<<"closed", x>>, <<"ok">>>> = Append(Append(line, <<"closed", x>>), <<"ok">>)
  <2>1. PICK a \in Message, b \in Message : a = <<"closed", x>> /\ b = <<"ok">>
    BY <1>4, MessageTypes
  <2>2. line \o <<a, b>> = Append(Append(line, a), b)
    BY <1>1
  <2> QED
    BY <2>1, <2>2
<1>5. \/ line' = Append(line, <<"error">>) /\ link' = link
      \/ op = "START" /\ x \in Conns /\ link' = link \cup {x} /\ line' = Append(line, <<"ok">>)
      \/ op = "STOP" /\ x \in link /\ link' = link \ {x} /\ line' = line \o <<<<"closed", x>>, <<"ok">>>>
      \/ op \notin {"START", "STOP"} /\ link' = link /\ line' = Append(line, <<"ok">>)
  <2>1. \/ line' = Append(line, <<"error">>) /\ link' = link
        \/ op = "START" /\ x \in Conns /\ link' = link \cup {x} /\ line' = Append(line, <<"ok">>)
        \/ op = "STOP" /\ x \in link /\ link' = link \ {x} /\ line' = line \o <<<<"closed", x>>, <<"ok">>>>
        \/ op \in {"SERVER", "SEND", "QUIT"} /\ link' = link /\ line' = Append(line, <<"ok">>)
    BY <1>3, Zenon DEF Answer
  <2> QED
    BY <2>1
<1>6. Says(op, x)
  BY <1>1, <1>3, <1>4, <1>5 DEF Says
<1> QED
  BY <1>1, <1>3, <1>6

LEMMA ResponseMessages ==
    /\ IsResponse(<<"ok">>) /\ IsResponse(<<"error">>)
    /\ \A c : ~IsResponse(<<"data", c>>) /\ ~IsResponse(<<"closed", c>>)
BY DEF IsResponse

LEMMA AnswerPaired ==
    ASSUME Sane, Answer, Exchange
    PROVE  Exchange'
<1>1. PICK op, x :
         /\ \/ line' = Append(line, <<"error">>)
            \/ line' = Append(line, <<"ok">>)
            \/ x \in Conns /\ line' = Append(Append(line, <<"closed", x>>), <<"ok">>)
  BY AnswerSays DEF Says
<1>2. /\ todo # <<>> /\ todo' = Tail(todo) /\ line \in Seq(Message) /\ cmd' = cmd /\ resp' = resp
  BY AnswerSays DEF app, parser
<1>3. cmd # <<>> /\ todo = <<cmd>> /\ NoResponse(line) /\ resp = <<>>
  BY <1>2 DEF Exchange
<1>4. todo' = <<>>
  BY <1>2, <1>3
<1>5. OneResponse(line')
  <2>1. CASE line' = Append(line, <<"error">>) \/ line' = Append(line, <<"ok">>)
    BY <1>2, <1>3, <2>1, ResponseAppend, ResponseMessages, MessageTypes
  <2>2. CASE x \in Conns /\ line' = Append(Append(line, <<"closed", x>>), <<"ok">>)
    <3>1. PICK a \in Message, b \in Message : a = <<"closed", x>> /\ b = <<"ok">>
      BY <2>2, MessageTypes
    <3>2. Append(line, a) \in Seq(Message)
      BY <1>2
    <3>3. ~IsResponse(a) /\ IsResponse(b)
      BY <3>1, ResponseMessages
    <3>4. NoResponse(Append(line, a))
      BY <1>2, <1>3, <3>3, ResponseAppend
    <3>5. OneResponse(Append(Append(line, a), b))
      BY <3>2, <3>3, <3>4, ResponseAppend
    <3> QED
      BY <2>2, <3>1, <3>5
  <2> QED
    BY <1>1, <2>1, <2>2
<1> QED
  BY <1>2, <1>3, <1>4, <1>5 DEF Exchange

LEMMA InterruptPaired ==
    ASSUME Sane, Interrupt, Exchange
    PROVE  Exchange'
<1>1. /\ line \in Seq(Message) /\ line # <<>> /\ line' = Tail(line) /\ UNCHANGED <<cmd, todo>>
      /\ Head(line) \in Message
      /\ \/ Head(line)[1] \in {"data", "closed"} /\ resp' = resp
         \/ Head(line)[1] \in {"ok", "error"} /\ resp' = Append(resp, Head(line)[1])
  BY DEF Sane, LineTypes, Interrupt, app
<1>2. CASE Head(line)[1] \in {"data", "closed"} /\ resp' = resp
  <2>1. ~IsResponse(Head(line))
    <3>1. PICK a, c : Head(line) = <<a, c>> /\ a \in {"data", "closed"}
      BY <1>1, <1>2, MessageParts
    <3> QED
      BY <3>1, ResponseMessages
  <2>2. /\ NoResponse(line) => NoResponse(line')
        /\ OneResponse(line) => OneResponse(line')
    BY <1>1, <2>1, ResponseTail
  <2> QED
    BY <1>1, <1>2, <2>2 DEF Exchange
<1>3. CASE Head(line)[1] \in {"ok", "error"} /\ resp' = Append(resp, Head(line)[1])
  <2>1. IsResponse(Head(line))
    BY <1>1, <1>3, MessageParts, ResponseMessages
  <2>2. ~NoResponse(line)
    BY <1>1, <2>1, ResponseTail
  <2>3. cmd # <<>> /\ todo = <<>> /\ OneResponse(line) /\ resp = <<>>
    BY <2>2 DEF Exchange
  <2>4. NoResponse(line')
    BY <1>1, <2>1, <2>3, ResponseTail
  <2>5. Len(resp') = 1
    BY <1>3, <2>3
  <2> QED
    BY <1>1, <2>3, <2>4, <2>5 DEF Exchange
<1> QED
  BY <1>1, <1>2, <1>3

LEMMA NextPaired == Sane /\ Sane' /\ Paired /\ [Next]_vars => Paired'
<1> SUFFICES ASSUME Sane, Sane', Paired, [Next]_vars, "unsure" \notin flaws' PROVE Exchange'
  BY DEF Paired, None
<1>1. "unsure" \notin flaws /\ Exchange
  BY NumbersChange DEF Paired, None
<1>2. /\ todo \in Seq(Command) /\ line \in Seq(Message) /\ resp \in Seq({"ok", "error"})
      /\ cmd \in Command \cup {<<>>}
  BY DEF Sane, LineTypes
<1>3. CASE UNCHANGED <<cmd, todo, line, resp>>
  BY <1>1, <1>3 DEF Exchange
<1>4. ASSUME NEW c \in Command, cmd = <<>>, Run(c), UNCHANGED <<line, resp>> PROVE Exchange'
  <2>1. c # <<>>
    BY DEF Command
  <2>2. todo' = <<c>>
    BY <1>1, <1>2, <1>4 DEF Exchange, Run
  <2> QED
    BY <1>1, <1>4, <2>1, <2>2 DEF Exchange, Run
<1>5. CASE Jobs
  <2>1. cmd = <<>>
    BY <1>5, Zenon DEF Job, Jobs, JobClose, JobDisconnect, JobUnserve, JobNoServer, JobFree, JobStopped, JobParted,
       JobDown, JobTail, JobHandle, JobClaim, JobStart, JobUp, JobUnmap, JobUnlink,
       JobListening, JobAccept, JobSend, JobSent, JobQuit, JobGone
  <2>2. CASE JobGone
    <3>1. UNCHANGED <<cmd, todo, resp>> /\ line' = <<>>
      BY <2>2 DEF JobGone
    <3> QED
      BY <1>1, <2>1, <3>1 DEF Exchange, NoResponse
  <2>3. CASE UNCHANGED <<line, resp>> /\ \E c : Run(c)
    <3>1. PICK c : cmd' = c /\ todo' = Append(todo, c)
      BY <2>3 DEF Run
    <3>2. todo = <<>> /\ todo' = <<c>> /\ todo' \in Seq(Command)
      <4>1. todo = <<>> /\ todo' \in Seq(Command)
        BY <1>1, <2>1 DEF Exchange, Sane, LineTypes
      <4> QED
        BY <3>1, <4>1
    <3>3. c \in Command
      BY <3>2, SMTT(30)
    <3> QED
      BY <1>4, <2>1, <2>3, <3>1, <3>3 DEF Run
  <2>4. CASE JobClaim /\ line # <<>> /\ line' = Tail(line) /\ \E c \in Conns : Head(line) = <<"closed", c>>
    <3>1. UNCHANGED <<cmd, todo, resp>>
      BY <2>4 DEF JobClaim
    <3>2. NoResponse(line) => NoResponse(line')
      BY <1>2, <2>4, ResponseTail, ResponseMessages
    <3> QED
      BY <1>1, <2>1, <3>1, <3>2 DEF Exchange
  <2>5. CASE JobClaim /\ line' = line
    BY <1>3, <2>5, SMTT(30) DEF JobClaim
  <2>6. ASSUME ~JobGone, ~JobClaim
        PROVE  UNCHANGED <<line, resp>> /\ (UNCHANGED <<cmd, todo>> \/ \E c : Run(c))
    BY <1>5, <2>6 DEF Jobs, JobClose, JobDisconnect, JobUnserve, JobNoServer, JobFree, JobStopped, JobParted,
       JobDown, JobTail, JobHandle, JobStart, JobUp, JobUnmap, JobUnlink, JobListening, JobAccept,
       JobSend, JobSent, JobQuit, Quiet, KeepJob, parser, module
  <2>7. JobClaim => \/ line' = line
                    \/ line # <<>> /\ line' = Tail(line) /\ \E c \in Conns : Head(line) = <<"closed", c>>
    BY DEF JobClaim, Sane, LineTypes
  <2> QED
    BY <1>3, <2>2, <2>3, <2>4, <2>5, <2>6, <2>7
<1>6. ASSUME NEW s \in Socks, Call(s)
      PROVE  Exchange'
  <2>1. UNCHANGED <<line, resp>> /\ cmd = <<>> /\ (UNCHANGED <<cmd, todo>> \/ \E c : Run(c))
    BY <1>6, ZenonT(60) DEF Call, Connect, Disconnect, Close, Send, Bind, Accept, Listen, Begin, Idle, KeepModule,
                parser, app
  <2>2. CASE \E c : Run(c)
    <3>1. PICK c : cmd' = c /\ todo' = Append(todo, c)
      BY <2>2 DEF Run
    <3>2. cmd' \in Command \cup {<<>>} /\ todo = <<>> /\ todo' \in Seq(Command)
      BY <1>1, <2>1 DEF Exchange, Sane, LineTypes
    <3>3. c \in Command
      BY <3>1, <3>2
    <3> QED
      BY <1>4, <2>1, <3>1, <3>3 DEF Run
  <2> QED
    BY <1>3, <2>1, <2>2, SMTT(30)
<1>7. CASE Open \/ WifiRemove
  BY <1>3, <1>7 DEF Open, WifiRemove, KeepModule, parser
<1>8. CASE Response
  <2>1. /\ cmd' = <<>> /\ resp # <<>> /\ UNCHANGED <<line, todo>>
        /\ resp' = <<>> \/ resp' = SubSeq(resp, 1, Len(resp) - 1)
    BY <1>8 DEF Response, module
  <2>2. todo = <<>> /\ NoResponse(line) /\ Len(resp) = 1
    BY <1>1, <2>1 DEF Exchange
  <2>3. resp' = <<>>
    BY <1>2, <2>1, <2>2
  <2> QED
    BY <2>1, <2>2, <2>3 DEF Exchange
<1>9. CASE TimedOut
  BY <1>9 DEF TimedOut
<1>10. CASE PeerConnects \/ \E c \in Conns : PeerSends(c) \/ PeerCloses(c)
  <2>1. UNCHANGED <<cmd, todo, resp>>
    BY <1>10 DEF PeerConnects, PeerSends, PeerCloses, Peer, app, parser
  <2>2. line' = line \/ \E m \in Message : ~IsResponse(m) /\ line' = Append(line, m)
    BY <1>10, MessageTypes, ResponseMessages DEF PeerConnects, PeerSends, PeerCloses
  <2>3. /\ NoResponse(line) => NoResponse(line')
        /\ OneResponse(line) => OneResponse(line')
    BY <1>2, <2>2, ResponseAppend
  <2> QED
    BY <1>1, <2>1, <2>3 DEF Exchange
<1>11. CASE UNCHANGED vars
  BY <1>3, <1>11 DEF vars, app, parser, module
<1> QED
  BY <1>1, <1>5, <1>6, <1>7, <1>8, <1>9, <1>10, <1>11, AnswerPaired, InterruptPaired DEF Next

\* As long as no command's outcome was in doubt, a command has one response and the
\* response is waited for: what at_run_cmd returns is the answer to the command it sent.
THEOREM WifiPaired == Spec => []Paired
<1>1. Init => Paired
  BY DEF Init, Paired, Exchange, NoResponse
<1>2. Sane /\ Sane' /\ Paired /\ [Next]_vars => Paired'
  BY NextPaired
<1> QED
  BY <1>1, <1>2, WifiSaneInvariance, PTL DEF Spec

-----------------------------------------------------------------------------
(* Announced: the module tells the end of a connection behind its data.    *)

LEMMA AppendAnnounced ==
    ASSUME Announced, line \in Seq(Message), NEW m \in Message, line' = Append(line, m),
           \A c \in link : c \in link' \/ m = <<"closed", c>>,
           \A c \in Conns : m = <<"data", c>> => c \in link', link \subseteq Conns
    PROVE  Announced'
<1> SUFFICES ASSUME NEW k \in 1..Len(line'), NEW c \in Conns, line'[k] = <<"data", c>>
             PROVE  c \in link' \/ EndsAfter(line', k, c)
  BY DEF Announced
<1>1. (k \in 1..Len(line) /\ line'[k] = line[k]) \/ (k = Len(line) + 1 /\ line'[k] = m)
  BY AppendFound
<1>2. CASE k \in 1..Len(line)
  <2>1. line[k] = <<"data", c>>
    BY <1>2, AppendAt
  <2>2. c \in link \/ EndsAfter(line, k, c)
    BY <1>2, <2>1 DEF Announced
  <2>3. EndsAfter(line, k, c) => EndsAfter(line', k, c)
    BY <1>2, OrderAppend
  <2>4. m = <<"closed", c>> => EndsAfter(line', k, c)
    BY <1>2, OrderAppend
  <2> QED
    BY <2>2, <2>3, <2>4
<1> QED
  BY <1>1, <1>2

LEMMA NextAnnounced == Sane /\ Announced /\ [Next]_vars => Announced'
<1> SUFFICES ASSUME Sane, Announced, [Next]_vars PROVE Announced'
  OBVIOUS
<1>1. line \in Seq(Message) /\ link \subseteq Conns
  BY DEF Sane, LineTypes
<1>2. CASE UNCHANGED <<line, link>>
  BY <1>2 DEF Announced, EndsAfter
<1>3. ASSUME NEW m \in Message, line' = Append(line, m), ~\E c \in Conns : m = <<"data", c>>,
             link \subseteq link'
      PROVE  Announced'
  BY <1>1, <1>3, AppendAnnounced
<1>4. CASE Answer
  <2>1. PICK x :
           \/ line' = Append(line, <<"error">>) /\ link \subseteq link'
           \/ line' = Append(line, <<"ok">>) /\ link \subseteq link'
           \/ x \in Conns /\ link' = link \ {x} /\ line' = Append(Append(line, <<"closed", x>>), <<"ok">>)
    BY <1>4, AnswerSays DEF Says
  <2>2. /\ <<"ok">> \in Message /\ ~\E c \in Conns : <<"ok">> = <<"data", c>>
        /\ <<"error">> \in Message /\ ~\E c \in Conns : <<"error">> = <<"data", c>>
    BY MessageTypes
  <2>3. CASE x \in Conns /\ link' = link \ {x} /\ line' = Append(Append(line, <<"closed", x>>), <<"ok">>)
    <3>1. PICK a \in Message, b \in Message : a = <<"closed", x>> /\ b = <<"ok">>
      BY <2>3, MessageTypes
    <3>0. Append(line, a) \in Seq(Message) /\ line' = Append(Append(line, a), b)
      BY <1>1, <2>3, <3>1
    <3>2. PICK q \in Seq(Message) : q = Append(line, a) /\ line' = Append(q, b)
      BY <3>0, Zenon
    <3> SUFFICES ASSUME NEW k \in 1..Len(line'), NEW c \in Conns, line'[k] = <<"data", c>>
                 PROVE  c \in link' \/ EndsAfter(line', k, c)
      BY DEF Announced
    <3>3. a # <<"data", c>> /\ b # <<"data", c>>
      BY <3>1
    <3>4. k \in 1..Len(q) /\ q[k] = <<"data", c>>
      BY <3>2, <3>3, AppendFound
    <3>5. k \in 1..Len(line) /\ line[k] = <<"data", c>>
      BY <1>1, <3>2, <3>3, <3>4, AppendFound
    <3>6. c \in link \/ EndsAfter(line, k, c)
      BY <3>5 DEF Announced
    <3>7. c = x \/ EndsAfter(line, k, c) => EndsAfter(q, k, c)
      BY <1>1, <3>1, <3>2, <3>5, OrderAppend
    <3>8. EndsAfter(q, k, c) => EndsAfter(line', k, c)
      BY <3>2, <3>4, OrderAppend
    <3> QED
      BY <2>3, <3>6, <3>7, <3>8
  <2> QED
    BY <1>3, <2>1, <2>2, <2>3
<1>5. CASE PeerConnects
  BY <1>1, <1>5 DEF PeerConnects, Announced, EndsAfter
<1>6. ASSUME NEW c \in Conns, PeerSends(c) \/ PeerCloses(c) PROVE Announced'
  <2>1. CASE PeerSends(c)
    <3>1. PICK m \in Message : m = <<"data", c>>
      BY MessageTypes
    <3>2. line' = Append(line, m) /\ link' = link /\ c \in link
      BY <2>1, <3>1 DEF PeerSends
    <3>3. \A d \in Conns : m = <<"data", d>> => d \in link'
      BY <3>1, <3>2
    <3> QED
      BY <1>1, <3>2, <3>3, AppendAnnounced
  <2>2. CASE PeerCloses(c)
    <3>1. PICK m \in Message : m = <<"closed", c>>
      BY MessageTypes
    <3>2. line' = Append(line, m) /\ link' = link \ {c}
      BY <2>2, <3>1 DEF PeerCloses
    <3>3. \A d \in Conns : m # <<"data", d>>
      BY <3>1
    <3>4. \A d \in link : d \in link' \/ m = <<"closed", d>>
      BY <3>1, <3>2
    <3> QED
      BY <1>1, <3>2, <3>3, <3>4, AppendAnnounced
  <2> QED
    BY <1>6, <2>1, <2>2
<1>7. CASE line # <<>> /\ line' = Tail(line) /\ link' = link
  <2>1. line # <<>> /\ line' = Tail(line) /\ link' = link
    BY <1>7
  <2> SUFFICES ASSUME NEW k \in 1..Len(line'), NEW c \in Conns, line'[k] = <<"data", c>>
               PROVE  c \in link' \/ EndsAfter(line', k, c)
    BY DEF Announced
  <2>2. /\ k + 1 \in 1..Len(line) /\ line'[k] = line[k + 1]
        /\ EndsAfter(line, k + 1, c) => EndsAfter(line', k, c)
    BY <1>1, <2>1, OrderTail
  <2> QED
    BY <2>1, <2>2 DEF Announced
<1>8. CASE JobGone
  <2>1. line' = <<>>
    BY <1>8 DEF JobGone
  <2> QED
    BY <2>1 DEF Announced
<1>9. CASE Jobs /\ ~JobGone
  <2>1. CASE JobClaim
    BY <1>2, <1>7, <2>1 DEF JobClaim
  <2>2. CASE ~JobClaim
    BY <1>2, <1>9, <2>2 DEF Jobs, JobClose, JobDisconnect, JobUnserve, JobNoServer, JobFree, JobStopped,
       JobParted, JobDown, JobTail, JobHandle, JobStart, JobUp, JobUnmap, JobUnlink, JobListening,
       JobAccept, JobSend, JobSent, JobQuit, Quiet, KeepJob, module
  <2> QED
    BY <2>1, <2>2
<1>10. CASE Open \/ WifiRemove \/ Response \/ TimedOut \/ UNCHANGED vars
  BY <1>2, <1>10 DEF Open, WifiRemove, Response, TimedOut, KeepModule, module, vars
<1>11. ASSUME NEW s \in Socks, Call(s)
       PROVE  Announced'
  <2>1. UNCHANGED <<line, link>>
    BY <1>11 DEF Call, Connect, Disconnect, Close, Send, Bind, Accept, Listen, KeepModule
  <2> QED
    BY <1>2, <2>1, SMTT(30)
<1>12. CASE Interrupt
  BY <1>7, <1>12 DEF Interrupt
<1> QED
  BY <1>4, <1>5, <1>6, <1>8, <1>9, <1>10, <1>11, <1>12 DEF Next

LEMMA WifiAnnounced == Spec => []Announced
<1>1. Init => Announced
  BY DEF Init, Announced
<1> QED
  BY <1>1, NextAnnounced, WifiSaneInvariance, PTL DEF Spec

-----------------------------------------------------------------------------
(* Tracked: a socket that is connected keeps its connection.               *)

Up == {"CONNECTED", "WAITING_ACCEPT"}

LEMMA AttachedKept ==
    ASSUME WifiTypes, NEW t \in Socks, Attached(t), sockets'[t].conn_id = sockets[t].conn_id,
           sockets'[t].state \in Up => sockets[t].state \in Up,
           \A c \in Conns : map[c] = t => map'[c] = t,
           \A c \in Conns : map[c] = t /\ Alive(c) => Alive(c)'
    PROVE  Attached(t)'
<1>1. sockets[t].conn_id \in Conns \cup {INVALID_ID}
  BY DEF WifiTypes, Socket
<1>2. PICK c \in Conns \cup {INVALID_ID} : c = sockets[t].conn_id
  BY <1>1
<1>3. CASE sockets'[t].state \in Up
  <2>1. c # INVALID_ID /\ map[c] = t /\ Alive(c) /\ c \in Conns
    BY <1>2, <1>3 DEF Attached, Numbered, Up
  <2>2. map'[c] = t /\ Alive(c)' /\ sockets'[t].conn_id = c
    BY <1>2, <2>1
  <2> QED
    BY <2>1, <2>2 DEF Attached, Numbered
<1>4. CASE sockets'[t].state \notin Up
  BY <1>4 DEF Attached, Up
<1> QED
  BY <1>3, <1>4

LEMMA NumberedKept ==
    ASSUME WifiTypes, NEW t \in Socks, Numbered(t), sockets'[t].conn_id = sockets[t].conn_id,
           \A c \in Conns : map[c] = t => map'[c] = t
    PROVE  Numbered(t)'
<1>1. sockets[t].conn_id \in Conns \cup {INVALID_ID}
  BY DEF WifiTypes, Socket
<1> QED
  BY <1>1 DEF Numbered

\* The job at the front of what is left.
LEMMA JoinedHead ==
    ASSUME Sane, ServerJobs(work, server.id), NEW J \in Seq(Task), NEW R, RestOf(R, work),
           work' = J \o R, work' # <<>>
    PROVE  /\ work' \in Seq(Task)
           /\ \/ Head(work')[1] \notin FrontJobs \cup {"accept"}
              \/ J # <<>> /\ Head(work') = Head(J)
<1>1. work \in Seq(Task)
  BY DEF Sane, LineTypes
<1>2. /\ work' \in Seq(Task)
      /\ \A k \in 1..Len(work') :
                 \/ k \in 1..Len(J) /\ work'[k] = J[k]
                 \/ \E m \in 2..Len(work) : work'[k] = work[m]
  <2>1. work' \in Seq(Task) /\ \A k \in 1..Len(work') : JoinedFrom(work', J, work, k)
    BY <1>1, JoinedJobs
  <2> QED
    BY <2>1, Zenon DEF JoinedFrom
<1>3. 1 \in 1..Len(work') /\ work'[1] = Head(work')
  BY <1>2
<1>4. CASE 1 \in 1..Len(J) /\ work'[1] = J[1]
  BY <1>2, <1>3, <1>4
<1>5. ASSUME NEW m \in 2..Len(work), work'[1] = work[m]
      PROVE  work'[1][1] \notin FrontJobs \cup {"accept"}
  <2>0. PICK n \in Nat : n = Len(work)
    BY <1>1
  <2>1. m \in 1..Len(work) /\ m # 1 /\ Len(work) # 1
    BY <2>0
  <2>2. work[m][1] \notin FrontJobs
    BY <2>1 DEF ServerJobs
  <2>3. work[m][1] # "accept"
    BY <2>1 DEF Sane, Orderly
  <2> QED
    BY <1>5, <2>2, <2>3
<1> QED
  BY <1>2, <1>3, <1>4, <1>5

LEMMA GoesHead ==
    ASSUME Sane, work # <<>>, ServerJobs(work, server.id), NEW J \in Seq(Task), Goes(J), work' # <<>>
    PROVE  /\ work' \in Seq(Task)
           /\ \/ Head(work')[1] \notin FrontJobs \cup {"accept"}
              \/ J # <<>> /\ Head(work') = Head(J)
<1>1. work \in Seq(Task) /\ RestOf(Tail(work), work) /\ work' = J \o Tail(work)
  BY TailRest DEF Sane, LineTypes, Goes
<1> QED
  BY <1>1, JoinedHead

\* The jobs about the connection of a socket.
ConnJobs == {"claim", "start", "up", "unmap", "unlink", "stopped", "parted"}

NoneDoing == \A s \in Socks : \A a \in ConnJobs : ~Doing(a, s)
NoAccept == \A s \in Socks : ~Doing("accept", s)

\* The job that this one turned into.
LEMMA GoesOn ==
    ASSUME Sane, work # <<>>, Sock \in Socks, NEW a \in JobNames, Goes(<<<<a, Sock>>>>)
    PROVE  work' # <<>> /\ Head(work') = <<a, Sock>>
<1>1. <<a, Sock>> \in Task
  BY DEF Task
<1>2. PICK x \in Task : x = <<a, Sock>>
  BY <1>1
<1>3. Tail(work) \in Seq(Task)
  BY TailAt DEF Sane, LineTypes
<1>4. PICK R \in Seq(Task) : R = Tail(work)
  BY <1>3
<1>5. work' = <<x>> \o R
  BY <1>2, <1>4 DEF Goes
<1>6. Len(<<x>> \o R) > 0 /\ Head(<<x>> \o R) = x /\ Len(<<>>) = 0
  OBVIOUS
<1> QED
  BY <1>2, <1>5, <1>6

\* After a job, the next one is not about a connection, unless the job turned into it.
LEMMA JobsDoing ==
    ASSUME Sane, Serving, Jobs, ~(JobDisconnect /\ Goes(<<<<"stopped", Sock>>>>)),
           ~(JobStopped /\ Goes(<<<<"parted", Sock>>>>)), ~JobClaim, ~JobStart,
           ~(JobUnmap /\ Goes(<<<<"unlink", Sock>>>>))
    PROVE  NoneDoing' /\ NoAccept'
<1>1. Sane /\ ServerJobs(work, server.id) /\ server \in Server
  BY DEF Serving, Sane, WifiTypes
<1>2. work # <<>> /\ Sock \in Socks
  BY JobsAtWork
<1>3. ASSUME NEW J, J \in Seq(Task), Goes(J),
             J # <<>> => Head(J)[1] \notin ConnJobs \cup {"accept"}
      PROVE  NoneDoing' /\ NoAccept'
  <2>1. work' # <<>> => Head(work')[1] \notin ConnJobs \cup {"accept"}
    BY <1>1, <1>2, <1>3, GoesHead DEF FrontJobs, ConnJobs
  <2> QED
    BY <2>1 DEF NoneDoing, NoAccept, Doing
<1>5. ASSUME NEW s \in Socks, NEW a \in JobNames \ (ConnJobs \cup {"accept"}), Goes(<<<<a, s>>>>)
      PROVE  NoneDoing' /\ NoAccept'
  <2>1. <<a, s>> \in Task /\ <<a, s>>[1] = a
    BY DEF Task
  <2>2. PICK x \in Task : x = <<a, s>> /\ x[1] = a
    BY <2>1, Zenon
  <2>3. <<x>> \in Seq(Task) /\ Head(<<x>>) = x
    OBVIOUS
  <2> QED
    BY <1>3, <1>5, <2>2, <2>3
<1>6. <<>> \in Seq(Task) /\ 0 \in Socks
  BY WifiAssumption DEF Socks
<1>7. CASE Goes(<<>>)
  BY <1>3, <1>6, <1>7
<1>8. CASE JobClose /\ ~Goes(<<>>)
  <2>1. Goes(<<<<"disc", Sock>>, <<"tail", Sock>>>>)
    BY <1>8 DEF JobClose
  <2>2. <<"disc", Sock>> \in Task /\ <<"tail", Sock>> \in Task /\ <<"disc", Sock>>[1] = "disc"
    BY <1>2 DEF Task, JobNames
  <2>3. PICK x \in Task, y \in Task : x = <<"disc", Sock>> /\ y = <<"tail", Sock>> /\ x[1] = "disc"
    BY <2>2, Zenon
  <2>4. <<x, y>> \in Seq(Task) /\ Head(<<x, y>>) = x
    OBVIOUS
  <2> QED
    BY <1>3, <2>1, <2>3, <2>4 DEF ConnJobs
<1>9. CASE JobUnserve
  <2>1. Goes(Frees \o <<<<"noserver", Sock>>>>)
    BY <1>9 DEF JobUnserve
  <2>2. PICK J \in Seq(Task) : /\ J = Frees \o <<<<"noserver", Sock>>>>
                               /\ \A k \in 1..Len(J) : J[k][1] = "free" \/ J[k] = <<"noserver", Sock>>
    BY <1>1, <1>2, BacklogJobs, Zenon
  <2>3. J # <<>> => Head(J)[1] \in {"free", "noserver"}
    <3>1. J # <<>> => 1 \in 1..Len(J) /\ Head(J) = J[1]
      OBVIOUS
    <3> QED
      BY <2>2, <3>1
  <2> QED
    BY <1>3, <2>1, <2>2, <2>3 DEF ConnJobs
<1>10. CASE JobAccept /\ ~Goes(<<>>)
  <2>1. Goes(<<<<"close", server.id>>>>)
    BY <1>10 DEF JobAccept, Done
  <2>2. server.id \in Socks
    <3>1. 1 \in 1..Len(work) /\ work[1][1] = "accept"
      BY <1>1, <1>2, <1>10, TailRest DEF JobAccept, Job, Sane, LineTypes
    <3>2. server.id # INVALID_ID
      BY <1>1, <3>1 DEF Sane, Orderly
    <3> QED
      BY <1>1, <3>2 DEF Server
  <2> QED
    BY <1>5, <2>1, <2>2 DEF JobNames, ConnJobs
<1>11. CASE \/ (JobDisconnect /\ ~Goes(<<>>)) \/ JobFree \/ JobStopped \/ JobParted \/ JobSend
            \/ (JobSent /\ ~Goes(<<>>)) \/ JobQuit
  <2>1. \E s \in Socks : \E a \in {"unserve", "close", "down", "sent", "send", "gone"} : Goes(<<<<a, s>>>>)
    BY <1>2, <1>6, <1>11 DEF JobDisconnect, JobFree, JobStopped, JobParted, JobSend, JobSent, JobQuit,
       Done, LoadNumber
  <2> QED
    BY <1>5, <2>1 DEF JobNames, ConnJobs
<1> QED
  BY <1>7, <1>8, <1>9, <1>10, <1>11
     DEF Jobs, JobNoServer, JobDown, JobTail, JobHandle, JobUp, JobUnmap, JobUnlink, JobListening,
         JobGone, Done, LoadNumber

AllKept == \A s \in Socks : Kept(s)

LEMMA KeptAll ==
    ASSUME \A t \in Socks : Attached(t)', NoneDoing'
    PROVE  AllKept'
BY DEF AllKept, Kept, NoneDoing, ConnJobs

\* The next job is about the connection of socket s, which is not connected.
LEMMA KeptTurn ==
    ASSUME \A t \in Socks : Attached(t)', NEW s \in Socks, NEW a \in {"start", "unlink", "parted"},
           work' # <<>>, Head(work') = <<a, s>>, sockets'[s].state # "CONNECTED", Numbered(s)'
    PROVE  AllKept'
<1>1. ASSUME NEW t \in Socks, NEW b, Doing(b, t)' PROVE b = a /\ t = s
  BY <1>1 DEF Doing
<1> QED
  BY <1>1 DEF AllKept, Kept

\* A connection is released whose socket is not connected any more.
LEMMA ReleaseAttached ==
    ASSUME Sane, AllKept, NEW s \in Socks, ReleaseConn(s), sockets[s].state \notin Up, Numbered(s),
           UNCHANGED <<line, link>>
    PROVE  \A t \in Socks : Attached(t)'
<1>1. WifiTypes /\ \A t \in Socks : Attached(t)
  BY DEF Sane, AllKept, Kept
<1>2. \A t \in Socks : /\ sockets'[t].state = sockets[t].state
                       /\ sockets'[t].conn_id = IF t = s THEN INVALID_ID ELSE sockets[t].conn_id
  BY <1>1, StateKept
<1> SUFFICES ASSUME NEW t \in Socks PROVE Attached(t)'
  OBVIOUS
<1>3. CASE t = s
  BY <1>2, <1>3 DEF Attached, Up
<1>4. CASE t # s
  <2>1. ASSUME NEW c \in Conns, map[c] = t PROVE map'[c] = t
    <3>1. CASE sockets[s].conn_id = INVALID_ID
      BY <2>1, <3>1 DEF ReleaseConn
    <3>2. CASE sockets[s].conn_id # INVALID_ID
      <4>1. map' = [map EXCEPT ![sockets[s].conn_id] = INVALID_ID] /\ map[sockets[s].conn_id] = s
        BY <3>2 DEF ReleaseConn, Numbered
      <4>2. c # sockets[s].conn_id
        BY <1>4, <2>1, <4>1
      <4> QED
        BY <1>1, <2>1, <4>1, <4>2 DEF WifiTypes
    <3> QED
      BY <3>1, <3>2
  <2>2. \A c \in Conns : Alive(c) => Alive(c)'
    BY DEF Alive, Has
  <2>3. sockets'[t].conn_id = sockets[t].conn_id /\ (sockets'[t].state \in Up => sockets[t].state \in Up)
    BY <1>2, <1>4
  <2> QED
    BY <1>1, <2>1, <2>2, <2>3, AttachedKept
<1> QED
  BY <1>3, <1>4

\* wifi_socket_disconnect asks the module to stop the connection.
LEMMA StopRun ==
    ASSUME Sane, Serving, JobDisconnect, Goes(<<<<"stopped", Sock>>>>)
    PROVE  \E s \in Socks :
              /\ sockets[s].state \in Up /\ sockets' = sockets /\ map' = map
              /\ work' # <<>> /\ Head(work') = <<"stopped", s>>
              /\ cmd' = <<"STOP", sockets[s].conn_id>> /\ Undone'
<1>1. /\ cmd = <<>> /\ work # <<>> /\ Sock \in Socks /\ ServerJobs(work, server.id)
      /\ work \in Seq(Task) /\ WifiTypes /\ todo \in Seq(Command)
  BY AtWork DEF JobDisconnect, Serving, Sane, LineTypes
<1>0. PICK s \in Socks : s = Sock
  BY <1>1
<1>2. <<"stopped", s>> \in Task /\ <<"unserve", s>> \in Task
  BY DEF Task, JobNames
<1>3. PICK x \in Task, y \in Task : x = <<"stopped", s>> /\ y = <<"unserve", s>>
  BY <1>2
<1>4. PICK R \in Seq(Task) : R = Tail(work)
  <2>1. Tail(work) \in Seq(Task)
    BY <1>1, TailAt
  <2> QED
    BY <2>1, Zenon
<1>5. /\ <<x>> \o R # R /\ <<x>> \o R # <<>> \o R /\ Head(<<x>> \o R) = x
      /\ Head(<<y>> \o R) = y /\ <<x>> \o R # <<>>
  <2>1. Len(<<x>> \o R) = Len(R) + 1 /\ Len(R) \in Nat /\ <<>> \o R = R
    OBVIOUS
  <2> QED
    BY <2>1
<1>6. work' = <<x>> \o R /\ work' # <<>> /\ Head(work') = x
  BY <1>0, <1>3, <1>4, <1>5 DEF Goes
<1>7. /\ sockets[s].state \notin {"UNUSED", "DISCONNECTED"} /\ s # server.id
      /\ Run(<<"STOP", sockets[s].conn_id>>)
  <2>1. ~Done
    BY <1>4, <1>5, <1>6 DEF Done, Goes
  <2>2. x # y
    BY <1>3
  <2>3. ~Goes(<<<<"unserve", Sock>>>>)
    BY <1>0, <1>3, <1>4, <1>5, <1>6, <2>2 DEF Goes
  <2> QED
    BY <1>0, <2>1, <2>3 DEF JobDisconnect
<1>8. sockets[s].state \in Up
  <2>1. sockets[s].state \in States /\ sockets[s].state # "LISTENING"
    BY <1>1, <1>7 DEF WifiTypes, Socket, Serving
  <2> QED
    BY <1>7, <2>1 DEF States, Up
<1>9. sockets' = sockets /\ map' = map
  BY DEF JobDisconnect, wifi
<1>10. cmd' = <<"STOP", sockets[s].conn_id>> /\ Undone'
  <2>1. sockets[s].conn_id \in Conns \cup {INVALID_ID}
    BY <1>1 DEF WifiTypes, Socket
  <2>2. <<"STOP", sockets[s].conn_id>> \in Command
    BY <2>1 DEF Command
  <2>3. PICK z \in Command : z = <<"STOP", sockets[s].conn_id>>
    BY <2>2
  <2>4. cmd' = z /\ todo' = Append(todo, z) /\ z # <<>>
    BY <1>7, <2>3 DEF Run
  <2>5. todo' # <<>>
    BY <1>1, <2>4
  <2> QED
    BY <2>3, <2>4, <2>5 DEF Undone
<1>11. Head(work') = <<"stopped", s>>
  BY <1>3, <1>6
<1> QED
  BY <1>6, <1>8, <1>9, <1>10, <1>11

LEMMA StopAsked ==
    ASSUME Sane, Serving, AllKept, JobDisconnect, Goes(<<<<"stopped", Sock>>>>),
           \A t \in Socks : Attached(t)'
    PROVE  AllKept'
<1>1. PICK s \in Socks :
         /\ sockets[s].state \in Up /\ sockets' = sockets /\ map' = map
         /\ work' # <<>> /\ Head(work') = <<"stopped", s>>
         /\ cmd' = <<"STOP", sockets[s].conn_id>> /\ Undone'
  BY StopRun
<1>2. Stopping(s)'
  <2>1. Numbered(s)
    BY <1>1 DEF AllKept, Kept, Attached, Up
  <2>2. Numbered(s)'
    BY <1>1, <2>1 DEF Numbered
  <2> QED
    BY <1>1, <2>2 DEF Stopping
<1>3. ASSUME NEW t \in Socks PROVE Kept(t)'
  <2>1. \A a : Doing(a, t)' => a = "stopped"
    BY <1>1 DEF Doing
  <2>2. Doing("stopped", t)' => t = s
    BY <1>1 DEF Doing
  <2>3. CASE t = s
    BY <1>2, <2>1, <2>3 DEF Kept
  <2>4. CASE t # s
    BY <2>1, <2>2, <2>4 DEF Kept
  <2> QED
    BY <2>3, <2>4
<1> QED
  BY <1>3 DEF AllKept

LEMMA JobsAttached ==
    ASSUME Sane, Serving, Matched, AllKept, Jobs, Told'
    PROVE  \A t \in Socks : Attached(t)'
<1>1. PICK name : /\ cmd = <<>> /\ work # <<>> /\ Sock \in Socks /\ WifiTypes /\ Job(name)
                  /\ Head(work) = <<name, Sock>>
  BY JobsAtWork
<1>2. \A t \in Socks : Attached(t)
  BY DEF AllKept, Kept
<1>3. \A f \in {"raced", "retaken", "twice", "overtaken"} : f \notin flaws'
  BY DEF Told, None
<1>4. PICK s \in Socks : s = Sock
  BY <1>1
<1>5. CASE JobGone
  BY <1>5, SMTT(30) DEF JobGone, NoSockets, Attached
<1>6. ASSUME ~JobGone PROVE UNCHANGED <<line, link>>
  <2>1. CASE JobClaim
    BY <1>3, <2>1, SMTT(30) DEF JobClaim
  <2>2. CASE ~JobClaim
    BY <1>6, <2>2 DEF Jobs, JobClose, JobDisconnect, JobUnserve, JobNoServer, JobFree, JobStopped, JobParted,
       JobDown, JobTail, JobHandle, JobStart, JobUp, JobUnmap, JobUnlink, JobListening, JobAccept,
       JobSend, JobSent, JobQuit, Quiet, KeepJob, module
  <2> QED
    BY <2>1, <2>2
<1>7. ASSUME ~JobGone PROVE \A c \in Conns : Alive(c) => Alive(c)'
  BY <1>6, <1>7 DEF Alive, Has
<1>8. ASSUME ~JobGone, map' = map,
             \A t \in Socks : /\ sockets'[t].conn_id = sockets[t].conn_id
                              /\ sockets'[t].state \in Up => sockets[t].state \in Up
      PROVE  \A t \in Socks : Attached(t)'
  BY <1>1, <1>2, <1>7, <1>8, AttachedKept
<1>9. CASE ~JobGone /\ (JobClose \/ JobDisconnect \/ JobUnserve \/ JobFree \/ JobHandle \/ JobSend
                         \/ JobSent \/ JobQuit \/ JobStopped \/ JobStart \/ JobUnmap)
  <2>1. map' = map /\ sockets' = sockets
    BY <1>9, Zenon DEF JobClose, JobDisconnect, JobUnserve, JobFree, JobHandle, JobSend, JobSent,
                       JobQuit, JobStopped, JobStart, JobUnmap, wifi
  <2> QED
    BY <1>8, <1>9, <2>1
<1>10. CASE ~JobGone /\ (JobNoServer \/ JobDown \/ JobListening)
  <2>1. PICK st \in {"DISCONNECTED", "LISTENING"} :
           map' = map /\ sockets' = [sockets EXCEPT ![s].state = st]
    BY <1>4, <1>10 DEF JobNoServer, JobDown, JobListening
  <2>2. \A t \in Socks : /\ sockets'[t].state = IF t = s THEN st ELSE sockets[t].state
                         /\ sockets'[t].conn_id = sockets[t].conn_id
    BY <1>1, <2>1, StateSet
  <2> QED
    BY <1>8, <1>10, <2>1, <2>2 DEF Up
<1>11. CASE ~JobGone /\ JobTail
  <2>1. map' = map
    BY <1>11 DEF JobTail
  <2>2. \A t \in Socks : /\ sockets'[t].state \in {sockets[t].state, "UNUSED"}
                         /\ sockets'[t].conn_id = sockets[t].conn_id
    BY <1>1, <1>11, TailStates
  <2> QED
    BY <1>8, <1>11, <2>1, <2>2 DEF Up
<1>12. CASE ~JobGone /\ (JobParted \/ JobUnlink)
  <2>1. ReleaseConn(s) /\ sockets[s].state # "WAITING_ACCEPT"
    BY <1>1, <1>3, <1>4, <1>12, FoundReleased DEF JobParted, JobUnlink, Sane, LineTypes
  <2>2. Doing("parted", s) \/ Doing("unlink", s)
    BY <1>1, <1>4, <1>12 DEF Doing, JobParted, JobUnlink, Job
  <2>4. Numbered(s) /\ sockets[s].state # "CONNECTED"
    BY <2>2 DEF AllKept, Kept
  <2>5. sockets[s].state \notin Up
    BY <2>1, <2>4 DEF Up
  <2> QED
    BY <1>6, <1>12, <2>1, <2>4, <2>5, ReleaseAttached
<1>13. CASE ~JobGone /\ JobUp
  <2>1. map' = map /\ sockets' = [sockets EXCEPT ![s].state = "CONNECTED"] /\ Mapped(s)
    BY <1>3, <1>4, <1>13 DEF JobUp, Flaw
  <2>2. Connecting(s)
    <3>1. Doing("up", s)
      BY <1>1, <1>4, <1>13 DEF Doing, JobUp, Job
    <3> QED
      BY <3>1 DEF AllKept, Kept
  <2>3. PICK c \in Conns : map[c] = s
    BY <2>1 DEF Mapped
  <2>4. c # INVALID_ID /\ s # INVALID_ID
    BY WifiAssumption DEF Conns, Socks, INVALID_ID
  <2>5. sockets[s].conn_id = c
    BY <2>3, <2>4 DEF Matched
  <2>6. Alive(c)'
    BY <1>1, <1>7, <1>13, <2>2, <2>3 DEF Connecting, Undone
  <2>7. \A t \in Socks : /\ sockets'[t].state = IF t = s THEN "CONNECTED" ELSE sockets[t].state
                         /\ sockets'[t].conn_id = sockets[t].conn_id
    BY <1>1, <2>1, StateSet
  <2>8. ASSUME NEW t \in Socks PROVE Attached(t)'
    <3>1. CASE t = s
      <4>1. sockets'[t].conn_id = c /\ map'[c] = t
        BY <2>1, <2>3, <2>5, <2>7, <3>1
      <4> QED
        BY <2>4, <2>6, <4>1 DEF Attached, Numbered
    <3>2. CASE t # s
      <4>1. sockets'[t].conn_id = sockets[t].conn_id /\ (sockets'[t].state \in Up => sockets[t].state \in Up)
        BY <2>7, <3>2
      <4> QED
        BY <1>1, <1>2, <1>7, <1>13, <2>1, <4>1, AttachedKept
    <3> QED
      BY <3>1, <3>2
  <2> QED
    BY <2>8
<1>14. CASE ~JobGone /\ JobAccept
  <2>1. /\ map' = map /\ sockets' = [sockets EXCEPT ![s].state = "CONNECTED"]
        /\ sockets[s].state = "WAITING_ACCEPT"
    BY <1>3, <1>4, <1>14 DEF JobAccept, Flaw
  <2>2. \A t \in Socks : /\ sockets'[t].state = IF t = s THEN "CONNECTED" ELSE sockets[t].state
                         /\ sockets'[t].conn_id = sockets[t].conn_id
    BY <1>1, <2>1, StateSet
  <2> QED
    BY <1>8, <1>14, <2>1, <2>2 DEF Up
<1>15. CASE ~JobGone /\ JobClaim
  <2>1. \A t \in Socks : /\ t # s => Attached(t)'
                         /\ sockets'[t].state = sockets[t].state
    <3>1. PICK c \in Conns : c = found
      BY DEF Sane, LineTypes
    <3>2. /\ map' = [map EXCEPT ![c] = s] /\ sockets' = [sockets EXCEPT ![s].conn_id = c]
          /\ map[c] = INVALID_ID
      BY <1>3, <1>4, <1>15, <3>1 DEF JobClaim
    <3>3. \A t \in Socks : /\ sockets'[t].state = sockets[t].state
                           /\ sockets'[t].conn_id = IF t = s THEN c ELSE sockets[t].conn_id
      BY <1>1, <3>2 DEF WifiTypes, Socket
    <3>4. \A t \in Socks : t # INVALID_ID
      BY WifiAssumption DEF Socks, INVALID_ID
    <3>5. \A t \in Socks, d \in Conns : t # s /\ map[d] = t => map'[d] = t
      BY <1>1, <3>2, <3>4 DEF WifiTypes
    <3>6. ASSUME NEW t \in Socks, t # s PROVE Attached(t)'
      <4>1. sockets'[t].conn_id = sockets[t].conn_id /\ (sockets'[t].state \in Up => sockets[t].state \in Up)
        BY <3>3, <3>6
      <4>2. \A d \in Conns : map[d] = t => map'[d] = t
        BY <3>5, <3>6
      <4> QED
        BY <1>1, <1>2, <1>7, <1>15, <4>1, <4>2, AttachedKept
    <3> QED
      BY <3>3, <3>6
  <2>2. sockets[s].state \notin Up
    <3>1. ~Mapped(s) /\ Doing("claim", s)
      BY <1>1, <1>3, <1>4, <1>15 DEF JobClaim, Doing, Job
    <3>2. sockets[s].state # "CONNECTED"
      BY <3>1 DEF AllKept, Kept
    <3>3. sockets[s].conn_id \in Conns \cup {INVALID_ID}
      BY <1>1 DEF WifiTypes, Socket
    <3> QED
      BY <1>2, <3>1, <3>2, <3>3 DEF Attached, Numbered, Mapped, Up
  <2>3. Attached(s)'
    BY <2>1, <2>2 DEF Attached, Up
  <2> QED
    BY <2>1, <2>3
<1> QED
  BY <1>5, <1>9, <1>10, <1>11, <1>12, <1>13, <1>14, <1>15 DEF Jobs

\* A number is taken, or one that is loaded is about to be released: the socket is not
\* connected, and the number is its own.
LEMMA NumbersTracked ==
    ASSUME Sane, AllKept, Told', NEW s \in Socks, s = Sock,
           NEW a, a \in {"stopped", "unmap", "claim", "start"}, Job(a),
           IF a = "claim" THEN JobClaim ELSE UNCHANGED <<sockets, map>>
    PROVE  sockets'[s].state # "CONNECTED" /\ Numbered(s)'
<1>1. cmd = <<>> /\ WifiTypes /\ found \in Conns /\ Kept(s) /\ Doing(a, s)
  BY AtWork DEF AllKept, Doing, LineTypes
<1>2. CASE a # "claim"
  <2>1. cmd # <<"STOP", sockets[s].conn_id>>
    BY <1>1
  <2>2. sockets[s].state # "CONNECTED" /\ Numbered(s)
    BY <1>1, <1>2, <2>1 DEF Kept, Stopping
  <2> QED
    BY <1>2, <2>2 DEF Numbered
<1>3. CASE a = "claim"
  <2>1. PICK c \in Conns : c = found
    BY <1>1
  <2>2. map' = [map EXCEPT ![c] = s] /\ sockets' = [sockets EXCEPT ![s].conn_id = c]
    BY <1>3, <2>1 DEF JobClaim, Told, None
  <2>3. sockets'[s].state = sockets[s].state /\ sockets'[s].conn_id = c /\ map'[c] = s
    BY <1>1, <2>2 DEF WifiTypes, Socket
  <2>4. sockets[s].state # "CONNECTED"
    BY <1>1, <1>3 DEF Kept
  <2> QED
    BY <2>3, <2>4 DEF Numbered
<1> QED
  BY <1>2, <1>3

\* The module is asked for the connection whose number the socket has.
LEMMA StartTracked ==
    ASSUME Sane, Matched, AllKept, Told', JobStart, \A t \in Socks : Attached(t)'
    PROVE  AllKept'
<1>1. PICK s \in Socks : s = Sock /\ work # <<>> /\ WifiTypes /\ todo \in Seq(Command)
  BY AtWork DEF JobStart, LineTypes
<1>2. UNCHANGED <<sockets, map>> /\ Job("start")
  BY DEF JobStart, wifi
<1>3. sockets'[s].state # "CONNECTED" /\ Numbered(s)'
  BY <1>1, <1>2, NumbersTracked
<1>4. work' # <<>> /\ Head(work') = <<"up", s>>
  BY <1>1, GoesOn DEF JobStart, JobNames
<1>5. PICK c \in Conns \cup {INVALID_ID} : c = sockets[s].conn_id
  BY <1>1 DEF WifiTypes, Socket
<1>6. cmd' = <<"START", c>> /\ cmd'[1] = "START" /\ cmd'[2] = c /\ Undone'
  <2>1. <<"START", c>> \in Command
    BY DEF Command
  <2>2. PICK z \in Command : z = <<"START", c>> /\ z # <<>>
    BY <2>1
  <2>3. cmd' = z /\ todo' = Append(todo, z)
    BY <1>1, <1>5, <2>2 DEF JobStart, Run
  <2>4. todo' # <<>>
    BY <1>1, <2>3
  <2> QED
    BY <2>2, <2>3, <2>4 DEF Undone
<1>7. \A d \in Conns : map'[d] = s => cmd'[2] = d
  <2>1. s # INVALID_ID
    BY WifiAssumption DEF Socks, INVALID_ID
  <2> QED
    BY <1>2, <1>5, <1>6, <2>1 DEF Matched
<1>8. Connecting(s)'
  BY <1>3, <1>6, <1>7 DEF Connecting
<1>9. ASSUME NEW t \in Socks, NEW b, Doing(b, t)' PROVE b = "up" /\ t = s
  BY <1>4, <1>9 DEF Doing
<1> QED
  BY <1>8, <1>9 DEF AllKept, Kept

LEMMA JobsTracked ==
    ASSUME Sane, Serving, Exchange, Matched, AllKept, Jobs, Told'
    PROVE  AllKept'
<1>1. \A t \in Socks : Attached(t)'
  BY JobsAttached
<1>2. CASE JobDisconnect /\ Goes(<<<<"stopped", Sock>>>>)
  BY <1>1, <1>2, StopAsked
<1>3. CASE JobStart
  BY <1>1, <1>3, StartTracked
<1>4. ASSUME NEW a \in {"stopped", "unmap", "claim"}, Job(a),
             IF a = "claim" THEN JobClaim ELSE UNCHANGED <<sockets, map>>,
             NEW b \in {"start", "unlink", "parted"}, Goes(<<<<b, Sock>>>>)
      PROVE  AllKept'
  <2>1. PICK s \in Socks : s = Sock /\ work # <<>>
    BY <1>4, AtWork
  <2>2. sockets'[s].state # "CONNECTED" /\ Numbered(s)'
    BY <1>4, <2>1, NumbersTracked
  <2>3. work' # <<>> /\ Head(work') = <<b, s>>
    BY <1>4, <2>1, GoesOn DEF JobNames
  <2> QED
    BY <1>1, <1>4, <2>2, <2>3, KeptTurn
<1>5. CASE JobStopped /\ Goes(<<<<"parted", Sock>>>>)
  BY <1>4, <1>5 DEF JobStopped, wifi
<1>6. CASE JobUnmap /\ Goes(<<<<"unlink", Sock>>>>)
  BY <1>4, <1>6 DEF JobUnmap, wifi
<1>7. CASE JobClaim
  BY <1>4, <1>7 DEF JobClaim
<1> QED
  BY <1>1, <1>2, <1>3, <1>5, <1>6, <1>7, JobsDoing, KeptAll

\* What is known of a socket still holds, when the socket is left alone and what the module
\* has to do and to say of its connection is no less than before.
LEMMA SocketKept ==
    ASSUME WifiTypes, LineTypes, NEW s \in Socks, Kept(s), UNCHANGED <<work, cmd>>,
           sockets'[s].state = sockets[s].state, sockets'[s].conn_id = sockets[s].conn_id,
           \A c \in Conns : map[c] = s <=> map'[c] = s,
           \A c \in Conns : map[c] = s /\ Alive(c) => Alive(c)',
           \A c \in Conns : Undone /\ cmd = <<"START", c>> => Undone' \/ Alive(c)',
           \A c \in Conns : map[c] = s /\ cmd = <<"STOP", c>> /\ (Undone \/ Stops(line, c))
                                => Undone' \/ Stops(line, c)'
    PROVE  Kept(s)'
<1>1. Attached(s)'
  BY AttachedKept DEF Kept
<1>2. Numbered(s) => Numbered(s)'
  BY NumberedKept
<1>3. \A a : Doing(a, s)' => Doing(a, s)
  BY DEF Doing
<1>4. Connecting(s) => Connecting(s)'
  <2> SUFFICES ASSUME Connecting(s) PROVE Connecting(s)'
    OBVIOUS
  <2>1. ASSUME NEW c \in Conns, map[c] = s PROVE Alive(c)' \/ (Undone' /\ cmd[2] = c)
    <3>1. CASE Alive(c)
      BY <2>1, <3>1
    <3>2. CASE Undone /\ cmd[2] = c
      <4>1. cmd \in Command /\ cmd[1] = "START"
        BY <3>2 DEF Connecting, Undone, LineTypes
      <4>2. cmd = <<"START", c>>
        BY <3>2, <4>1 DEF Command
      <4> QED
        BY <3>2, <4>2
    <3> QED
      BY <2>1, <3>1, <3>2 DEF Connecting
  <2>2. \A c \in Conns : map'[c] = s => Alive(c)' \/ (Undone' /\ cmd'[2] = c)
    BY <2>1
  <2> QED
    BY <1>2, <2>2 DEF Connecting
<1>5. Stopping(s) => Stopping(s)'
  <2> SUFFICES ASSUME Stopping(s) PROVE Stopping(s)'
    OBVIOUS
  <2>1. Numbered(s)'
    BY <1>2 DEF Stopping
  <2>2. CASE sockets[s].state = "CONNECTED"
    <3>1. /\ sockets[s].conn_id \in Conns /\ cmd = <<"STOP", sockets[s].conn_id>>
          /\ map[sockets[s].conn_id] = s
          /\ Undone \/ Stops(line, sockets[s].conn_id)
      BY <2>2 DEF Kept, Attached, Numbered, Stopping, WifiTypes, Socket
    <3>2. PICK c \in Conns : c = sockets[s].conn_id
      BY <3>1
    <3>3. cmd = <<"STOP", c>> /\ (Undone' \/ Stops(line, c)')
      BY <3>1, <3>2
    <3>4. cmd' = <<"STOP", sockets'[s].conn_id>> /\ (Undone' \/ Stops(line', sockets'[s].conn_id))
      BY <3>2, <3>3
    <3> QED
      BY <2>1, <3>4 DEF Stopping
  <2>3. CASE sockets[s].state # "CONNECTED"
    BY <2>1, <2>3 DEF Stopping
  <2> QED
    BY <2>2, <2>3
<1> QED
  BY <1>1, <1>2, <1>3, <1>4, <1>5 DEF Kept

LEMMA StepKept ==
    ASSUME WifiTypes, LineTypes, AllKept, UNCHANGED <<sockets, map, work, cmd>>,
           \A c \in Conns : map[c] # INVALID_ID /\ Alive(c) => Alive(c)',
           \A c \in Conns : Undone /\ cmd = <<"START", c>> => Undone' \/ Alive(c)',
           \A c \in Conns : map[c] # INVALID_ID /\ cmd = <<"STOP", c>> /\ (Undone \/ Stops(line, c))
                                => Undone' \/ Stops(line, c)'
    PROVE  AllKept'
<1> SUFFICES ASSUME NEW s \in Socks PROVE Kept(s)'
  BY DEF AllKept
<1>1. Kept(s) /\ s # INVALID_ID
  BY WifiAssumption DEF AllKept, Socks, INVALID_ID
<1> QED
  BY <1>1, SocketKept

\* The interrupt has made a socket another one: new for a peer, or disconnected.
LEMMA SocketTurned ==
    ASSUME NEW s \in Socks, Kept(s), UNCHANGED <<work, cmd>>, Attached(s)', Numbered(s)',
           sockets'[s].state # "CONNECTED", \A c \in Conns : map'[c] = s => Alive(c)'
    PROVE  Kept(s)'
<1>1. \A a : Doing(a, s)' => Doing(a, s)
  BY DEF Doing
<1>2. Connecting(s) => Connecting(s)'
  BY DEF Connecting
<1>3. Stopping(s)'
  BY DEF Stopping
<1> QED
  BY <1>1, <1>2, <1>3 DEF Kept

LEMMA PeersTracked ==
    ASSUME Sane, AllKept, PeerConnects \/ \E c \in Conns : PeerSends(c) \/ PeerCloses(c)
    PROVE  AllKept'
<1>1. /\ UNCHANGED <<sockets, map, work, cmd, todo, resp>>
      /\ WifiTypes /\ LineTypes /\ line \in Seq(Message)
  BY DEF PeerConnects, PeerSends, PeerCloses, Peer, app, parser, wifi, Sane, LineTypes
<1>2. \/ line' = line /\ link \subseteq link'
      \/ \E m \in Message : line' = Append(line, m) /\ \A c \in link : c \in link' \/ m = <<"closed", c>>
  <2>1. CASE PeerConnects
    BY <2>1 DEF PeerConnects
  <2>2. ASSUME NEW c \in Conns, PeerSends(c) \/ PeerCloses(c)
        PROVE  \E m \in Message : line' = Append(line, m) /\ \A d \in link : d \in link' \/ m = <<"closed", d>>
    <3>1. PICK m \in Message, n \in Message : m = <<"data", c>> /\ n = <<"closed", c>>
      BY MessageTypes
    <3>2. CASE PeerSends(c)
      BY <3>1, <3>2 DEF PeerSends
    <3>3. CASE PeerCloses(c)
      <4>1. line' = Append(line, n) /\ link' = link \ {c}
        BY <3>1, <3>3 DEF PeerCloses
      <4> QED
        BY <3>1, <4>1
    <3> QED
      BY <2>2, <3>2, <3>3
  <2> QED
    BY <2>1, <2>2
<1>3. CASE line' = line /\ link \subseteq link'
  <2>1. \A c \in Conns : Alive(c) => Alive(c)'
    BY <1>3 DEF Alive
  <2>2. Undone => Undone'
    BY <1>1, <1>3 DEF Undone
  <2> QED
    BY <1>1, <1>3, <2>1, <2>2, StepKept
<1>4. ASSUME NEW m \in Message, line' = Append(line, m), \A c \in link : c \in link' \/ m = <<"closed", c>>
      PROVE  AllKept'
  <2>1. Has(line', m) /\ \A n : Has(line, n) => Has(line', n)
    BY <1>1, <1>4, HasAppend
  <2>2. \A c \in Conns : Alive(c) => Alive(c)'
    BY <1>4, <2>1 DEF Alive
  <2>3. Undone => Undone'
    BY <1>1, <2>1 DEF Undone
  <2>4. \A c : Stops(line, c) => Stops(line', c)
    BY <1>1, <1>4, OrderAppend
  <2> QED
    BY <1>1, <2>2, <2>3, <2>4, StepKept
<1> QED
  BY <1>2, <1>3, <1>4

\* The module answers the command under way: it has carried it out, or it says that not.
LEMMA AnswerTracked ==
    ASSUME Sane, Exchange, AllKept, Answer
    PROVE  AllKept'
<1>1. /\ todo \in Seq(Command) /\ todo # <<>> /\ line \in Seq(Message) /\ WifiTypes /\ LineTypes
      /\ UNCHANGED <<sockets, map, work, cmd, resp>>
  BY AnswerSays DEF wifi, parser, app, Sane
<1>2. cmd # <<>> /\ todo = <<cmd>> /\ Head(todo) = cmd
  BY <1>1 DEF Exchange
<1>3. PICK op, x : cmd = <<op, x>> /\ Says(op, x)
  BY <1>2, AnswerSays
<1>4. PICK e \in Message, k \in Message : e = <<"error">> /\ k = <<"ok">>
  BY MessageTypes
<1>5. CASE line' = Append(line, e) /\ link' = link
  <2>1. Has(line', <<"error">>) /\ \A n : Has(line, n) => Has(line', n)
    BY <1>1, <1>4, <1>5, HasAppend
  <2>2. \A c \in Conns : Alive(c) => Alive(c)'
    BY <1>5, <2>1 DEF Alive
  <2>3. Undone'
    BY <1>1, <1>2, <2>1 DEF Undone
  <2> QED
    BY <1>1, <2>2, <2>3, StepKept
<1>6. CASE op # "STOP" /\ link \subseteq link' /\ (op = "START" => x \in link') /\ line' = Append(line, k)
  <2>1. \A n : Has(line, n) => Has(line', n)
    BY <1>1, <1>6, HasAppend
  <2>2. \A c \in Conns : Alive(c) => Alive(c)'
    BY <1>6, <2>1 DEF Alive
  <2>3. ASSUME NEW c \in Conns, cmd = <<"START", c>> PROVE Alive(c)'
    <3>1. op = "START" /\ x = c
      BY <1>3, <2>3
    <3> QED
      BY <1>6, <3>1 DEF Alive
  <2>4. \A c \in Conns : cmd # <<"STOP", c>>
    BY <1>3, <1>6
  <2> QED
    BY <1>1, <2>2, <2>3, <2>4, StepKept
<1>7. CASE op = "STOP" /\ x \in Conns /\ link' = link \ {x} /\ line' = Append(Append(line, <<"closed", x>>), k)
  <2>1. PICK d \in Message : d = <<"closed", x>>
    BY <1>7, MessageTypes
  <2>2. PICK q \in Seq(Message) : q = Append(line, d)
    <3>1. Append(line, d) \in Seq(Message)
      BY <1>1, AppendAt
    <3> QED
      BY <3>1, Zenon
  <2>3. line' = Append(q, k)
    BY <1>7, <2>1, <2>2
  <2>4. Has(q, d) /\ \A n : Has(line, n) => Has(q, n)
    BY <1>1, <2>2, HasAppend
  <2>5. \A n : Has(q, n) => Has(line', n)
    BY <2>3, HasAppend
  <2>6. Stops(line', x)
    BY <1>4, <2>1, <2>3, <2>4, OrderAppend
  <2>7. \A c \in Conns : Alive(c) => Alive(c)'
    BY <1>7, <2>1, <2>4, <2>5 DEF Alive
  <2>8. \A c \in Conns : cmd # <<"START", c>> /\ (cmd = <<"STOP", c>> => c = x)
    BY <1>3, <1>7
  <2> QED
    BY <1>1, <2>6, <2>7, <2>8, StepKept
<1> QED
  BY <1>3, <1>4, <1>5, <1>6, <1>7 DEF Says

LEMMA InterruptTracked ==
    ASSUME Sane, Announced, Matched, AllKept, Interrupt, "twice" \notin flaws'
    PROVE  AllKept'
<1>1. /\ line \in Seq(Message) /\ line # <<>> /\ line' = Tail(line) /\ Head(line) \in Message
      /\ UNCHANGED <<work, cmd, todo, link>> /\ WifiTypes /\ LineTypes
      /\ resp \in Seq({"ok", "error"})
      /\ \/ Head(line)[1] = "data" /\ Data(Head(line)[2]) /\ resp' = resp
         \/ Head(line)[1] = "closed" /\ Closed(Head(line)[2]) /\ resp' = resp
         \/ /\ Head(line)[1] \in {"ok", "error"} /\ resp' = Append(resp, Head(line)[1])
            /\ UNCHANGED <<sockets, map>>
  BY DEF Sane, LineTypes, Interrupt, app, wifi
<1>2. \A m : Has(line, m) => Head(line) = m \/ Has(line', m)
  BY <1>1, HasTail
<1>3. \A c \in Conns : Head(line) # <<"closed", c>> /\ Alive(c) => Alive(c)'
  BY <1>1, <1>2 DEF Alive
<1>4. \A c \in Conns : Head(line) # <<"closed", c>> /\ Stops(line, c) => Stops(line', c)
  BY <1>1, OrderTail
<1>5. \A s \in Socks : Kept(s) /\ s # INVALID_ID
  BY WifiAssumption DEF AllKept, Socks, INVALID_ID
<1>6. CASE /\ Head(line)[1] \in {"ok", "error"} /\ resp' = Append(resp, Head(line)[1])
           /\ UNCHANGED <<sockets, map>>
  <2>1. Head(line) \in {<<"ok">>, <<"error">>}
    BY <1>1, <1>6, MessageParts
  <2>2. \A c \in Conns : Head(line) # <<"closed", c>>
    BY <2>1
  <2>3. PICK r \in {"ok", "error"} : r = Head(line)[1] /\ resp' = Append(resp, r)
    BY <1>6
  <2>4. Has(resp', r) /\ \A m : Has(resp, m) => Has(resp', m)
    BY <1>1, <2>3, HasAppend
  <2>5. Head(line) = <<"error">> => r = "error"
    BY <2>3
  <2>6. Undone => Undone'
    BY <1>1, <1>2, <2>4, <2>5 DEF Undone
  <2> QED
    BY <1>1, <1>3, <1>4, <1>6, <2>2, <2>6, StepKept
<1>7. ASSUME NEW c \in Conns, Head(line) = <<"data", c>>, Data(c), resp' = resp PROVE AllKept'
  <2>1. \A d \in Conns : Head(line) # <<"closed", d>>
    BY <1>7
  <2>2. Undone => Undone'
    <3>1. Head(line) # <<"error">>
      BY <1>7
    <3> QED
      BY <1>1, <1>2, <1>7, <3>1 DEF Undone
  <2>3. Alive(c)'
    <3>1. 1 \in 1..Len(line) /\ line[1] = <<"data", c>>
      BY <1>1, <1>7, TailAt
    <3>2. c \in link \/ EndsAfter(line, 1, c)
      BY <3>1 DEF Announced
    <3>3. EndsAfter(line, 1, c) => Has(line', <<"closed", c>>)
      BY <1>1, OrderTail
    <3> QED
      BY <1>1, <3>2, <3>3 DEF Alive
  <2>4. CASE UNCHANGED <<sockets, map>>
    BY <1>1, <1>3, <1>4, <2>1, <2>2, <2>4, StepKept
  <2>5. ASSUME NEW s \in Socks, map[c] = INVALID_ID, map' = [map EXCEPT ![c] = s],
               Mapped(s) => "twice" \in flaws',
               \A t \in Socks :
                       /\ sockets'[t].state = IF t = s THEN "WAITING_ACCEPT" ELSE sockets[t].state
                       /\ sockets'[t].conn_id = IF t = s THEN c ELSE sockets[t].conn_id
        PROVE  AllKept'
    <3>1. map \in [Conns -> Socks \cup {INVALID_ID}] /\ c # INVALID_ID
      BY <1>1, WifiAssumption, SMTT(30) DEF WifiTypes, Conns, INVALID_ID
    <3>2. map'[c] = s /\ \A d \in Conns : d # c => map'[d] = map[d]
      BY <2>5, <3>1
    <3>3. \A d \in Conns : map[d] # s
      BY <2>5 DEF Mapped
    <3>4. Kept(s)'
      <4>1. sockets'[s].state = "WAITING_ACCEPT" /\ sockets'[s].conn_id = c
        BY <2>5
      <4>2. Numbered(s)' /\ Attached(s)'
        BY <2>3, <3>1, <3>2, <4>1 DEF Numbered, Attached
      <4>3. \A d \in Conns : map'[d] = s => Alive(d)'
        BY <2>3, <3>2, <3>3
      <4> QED
        BY <1>1, <1>5, <4>1, <4>2, <4>3, SocketTurned
    <3>5. ASSUME NEW t \in Socks, t # s PROVE Kept(t)'
      <4>1. sockets'[t].state = sockets[t].state /\ sockets'[t].conn_id = sockets[t].conn_id
        BY <2>5, <3>5
      <4>2. \A d \in Conns : map[d] = t <=> map'[d] = t
        BY <1>5, <2>5, <3>2, <3>5
      <4> QED
        BY <1>1, <1>3, <1>4, <1>5, <2>1, <2>2, <4>1, <4>2, SocketKept
    <3> QED
      BY <3>4, <3>5 DEF AllKept
  <2> QED
    BY <1>1, <1>7, <2>4, <2>5, DataStates
<1>8. ASSUME NEW c \in Conns, Head(line) = <<"closed", c>>, Closed(c), resp' = resp PROVE AllKept'
  <2>1. \A d \in Conns : d # c => Head(line) # <<"closed", d>>
    BY <1>8
  <2>2. Undone => Undone'
    <3>1. Head(line) # <<"error">>
      BY <1>8
    <3> QED
      BY <1>1, <1>2, <1>8, <3>1 DEF Undone
  <2>3. CASE map[c] = INVALID_ID /\ UNCHANGED <<sockets, map>>
    BY <1>1, <1>3, <1>4, <2>1, <2>2, <2>3, StepKept
  <2>4. ASSUME NEW s \in Socks, map[c] = s, ReleasedMap(s),
               \A t \in Socks :
                    /\ sockets'[t].state = IF t = s THEN "DISCONNECTED" ELSE sockets[t].state
                    /\ sockets'[t].conn_id = IF t = s THEN INVALID_ID ELSE sockets[t].conn_id
        PROVE  AllKept'
    <3>1. /\ map \in [Conns -> Socks \cup {INVALID_ID}] /\ c # INVALID_ID
          /\ sockets[s].conn_id = c
      <4>1. map \in [Conns -> Socks \cup {INVALID_ID}]
        BY <1>1 DEF WifiTypes
      <4>2. c # INVALID_ID /\ s # INVALID_ID
        BY <1>5, WifiAssumption DEF Conns, INVALID_ID
      <4>3. sockets[s].conn_id = c
        BY <1>1, <1>5, <2>4, <4>2 DEF Matched
      <4> QED
        BY <4>1, <4>2, <4>3
    <3>2. map'[c] = INVALID_ID /\ \A d \in Conns : d # c => map'[d] = map[d]
      BY <2>4, <3>1 DEF ReleasedMap
    <3>3. Kept(s)'
      <4>1. sockets'[s].state = "DISCONNECTED" /\ sockets'[s].conn_id = INVALID_ID
        BY <2>4
      <4>2. Numbered(s)' /\ Attached(s)'
        BY <4>1 DEF Numbered, Attached
      <4>3. \A d \in Conns : map'[d] # s
        BY <1>5, <3>1, <3>2 DEF Matched
      <4> QED
        BY <1>1, <1>5, <4>1, <4>2, <4>3, SocketTurned
    <3>4. ASSUME NEW t \in Socks, t # s PROVE Kept(t)'
      <4>1. sockets'[t].state = sockets[t].state /\ sockets'[t].conn_id = sockets[t].conn_id
        BY <2>4, <3>4
      <4>2. \A d \in Conns : (map[d] = t <=> map'[d] = t) /\ (map[d] = t => d # c)
        BY <1>5, <2>4, <3>2, <3>4
      <4>3. \A d \in Conns : map[d] = t /\ Alive(d) => Alive(d)'
        BY <1>3, <2>1, <4>2
      <4>4. \A d \in Conns : map[d] = t /\ cmd = <<"STOP", d>> /\ (Undone \/ Stops(line, d))
                                => Undone' \/ Stops(line', d)
        BY <1>4, <2>1, <2>2, <4>2
      <4> QED
        BY <1>1, <1>5, <2>2, <4>1, <4>2, <4>3, <4>4, SocketKept
    <3> QED
      BY <3>3, <3>4 DEF AllKept
  <2> QED
    BY <1>1, <1>8, <2>3, <2>4, ClosedStates
<1> QED
  <2>1. Head(line)[1] \in {"data", "closed"} => \E c \in Conns : Head(line) = <<Head(line)[1], c>> /\ c = Head(line)[2]
    BY <1>1, MessageParts
  <2> QED
    BY <1>1, <1>6, <1>7, <1>8, <2>1

\* A call whose command has failed goes on with nothing about a connection, but for
\* wifi_socket_connect, which releases the connection that it took.
LEMMA FailedHead ==
    ASSUME Sane, ServerJobs(work, server.id), work # <<>>, Failed, work' # <<>>
    PROVE  \/ Head(work')[1] \notin FrontJobs \cup {"accept"}
           \/ Head(work) = <<"up", Sock>> /\ Head(work') = <<"unmap", Sock>> /\ Sock \in Socks
<1>1. work \in Seq(Task) /\ server \in Server /\ Head(work) \in Task
  BY DEF Sane, WifiTypes, LineTypes
<1>2. RestOf(Tail(work), work) /\ RestOf(Aborted(Tail(work)), work) /\ Sock \in Socks
  BY <1>1, TailRest, AbortedRest DEF Sock, Task
<1>4. CASE Head(work)[1] = "up"
  <2>1. work' = <<<<"unmap", Sock>>>> \o Tail(work) /\ Head(work) = <<"up", Sock>>
    BY <1>1, <1>4 DEF Failed, Task, Sock
  <2>2. <<"unmap", Sock>> \in Task
    BY <1>2 DEF Task, JobNames
  <2>3. PICK x \in Task : x = <<"unmap", Sock>>
    BY <2>2
  <2>4. <<x>> \in Seq(Task) /\ Head(<<x>>) = x
    OBVIOUS
  <2>5. Head(work')[1] \notin FrontJobs \cup {"accept"} \/ Head(work') = x
    BY <1>1, <1>2, <2>1, <2>3, <2>4, JoinedHead
  <2> QED
    BY <1>2, <2>1, <2>3, <2>5
<1>5. CASE Head(work)[1] = "listening"
  <2>1. work' = Frees \o Tail(work)
    BY <1>5 DEF Failed
  <2>2. Frees \in Seq(Task) /\ \A k \in 1..Len(Frees) : Frees[k][1] = "free"
    BY <1>1, FreesJobs
  <2>3. Frees # <<>> => 1 \in 1..Len(Frees) /\ Head(Frees) = Frees[1]
    BY <2>2
  <2>4. Head(work')[1] \notin FrontJobs \cup {"accept"} \/ (Frees # <<>> /\ Head(work') = Head(Frees))
    BY <1>1, <1>2, <2>1, <2>2, JoinedHead
  <2> QED
    BY <2>2, <2>3, <2>4 DEF FrontJobs
<1>6. CASE Head(work)[1] = "gone"
  BY <1>6 DEF Failed, FrontJobs
<1>7. CASE Head(work)[1] \notin {"up", "listening", "gone"}
  <2>1. work' = Aborted(Tail(work))
    BY <1>7 DEF Failed
  <2>2. PICK R \in Seq(Task) : R = Aborted(Tail(work))
    BY <1>2, Zenon DEF RestOf
  <2>3. work' = <<>> \o R /\ <<>> \in Seq(Task)
    BY <2>1, <2>2
  <2>4. Head(work')[1] \notin FrontJobs \cup {"accept"}
    BY <1>1, <1>2, <2>2, <2>3, JoinedHead
  <2> QED
    BY <2>4
<1> QED
  BY <1>4, <1>5, <1>6, <1>7

\* at_run_cmd returns: the response is the one of the command.
LEMMA ResponseTracked ==
    ASSUME Sane, Serving, Exchange, AllKept, Response \/ TimedOut, Told'
    PROVE  AllKept'
<1>1. /\ cmd # <<>> /\ cmd' = <<>> /\ resp # <<>> /\ UNCHANGED <<sockets, map, line, link>> /\ work # <<>>
      /\ resp \in Seq({"ok", "error"}) /\ work \in Seq(Task) /\ WifiTypes
      /\ \/ Head(resp) = "ok" /\ UNCHANGED work
         \/ Head(resp) = "error" /\ Failed
  BY DEF Response, TimedOut, Told, None, wifi, module, Sane, LineTypes
<1>2. todo = <<>> /\ NoResponse(line) /\ Len(resp) = 1
  BY <1>1 DEF Exchange
<1>3. ~Has(line, <<"error">>) /\ ~Has(line, <<"ok">>)
  BY <1>2 DEF Has, NoResponse, IsResponse
<1>4. \A c : ~Stops(line, c)
  BY <1>3 DEF Stops, Has
<1>5. \A c \in Conns : Alive(c) => Alive(c)'
  BY <1>1 DEF Alive
<1>6. \A s \in Socks : Attached(s)'
  BY <1>1, <1>5, AttachedKept DEF AllKept, Kept
<1> SUFFICES ASSUME NEW s \in Socks PROVE Kept(s)'
  BY DEF AllKept
<1>7. Kept(s)
  BY DEF AllKept
<1>8. Numbered(s) => Numbered(s)'
  BY <1>1 DEF Numbered
<1>9. CASE Head(resp) = "ok" /\ UNCHANGED work
  <2>1. ~Has(resp, "error")
    <3>1. \A k \in 1..Len(resp) : k = 1
      BY <1>2
    <3>2. resp[1] = "ok"
      BY <1>1, <1>9
    <3> QED
      BY <3>1, <3>2 DEF Has
  <2>2. ~Undone
    BY <1>2, <1>3, <2>1 DEF Undone
  <2>3. \A a : Doing(a, s)' => Doing(a, s)
    BY <1>9 DEF Doing
  <2>4. Connecting(s) => Connecting(s)'
    BY <1>1, <1>5, <1>8, <2>2 DEF Connecting
  <2>5. Stopping(s) => sockets[s].state # "CONNECTED" /\ Numbered(s)
    BY <1>4, <2>2 DEF Stopping
  <2>6. Stopping(s) => Stopping(s)'
    BY <1>1, <1>8, <2>5 DEF Stopping
  <2> QED
    BY <1>1, <1>6, <1>7, <1>8, <2>3, <2>4, <2>6 DEF Kept
<1>10. CASE Head(resp) = "error" /\ Failed
  <2>1. work' # <<>> => \/ Head(work')[1] \notin FrontJobs \cup {"accept"}
                        \/ /\ Head(work) = <<"up", Sock>> /\ Head(work') = <<"unmap", Sock>>
                           /\ Sock \in Socks
    BY <1>1, <1>10, FailedHead DEF Serving
  <2>2. \A a \in ConnJobs \ {"unmap"} : ~Doing(a, s)'
    BY <2>1 DEF Doing, FrontJobs, ConnJobs
  <2>3. Doing("unmap", s)' => Doing("up", s)
    BY <1>1, <2>1 DEF Doing, FrontJobs
  <2>4. Doing("unmap", s)' => sockets'[s].state # "CONNECTED" /\ Numbered(s)'
    BY <1>1, <1>7, <1>8, <2>3 DEF Kept, Connecting
  <2> QED
    BY <1>6, <2>2, <2>4 DEF Kept, ConnJobs
<1> QED
  BY <1>1, <1>9, <1>10

LEMMA CallsTracked ==
    ASSUME Sane, AllKept, Open \/ WifiRemove \/ \E s \in Socks : Call(s)
    PROVE  AllKept'
<1>1. NoneAsked
  BY CallJobs
<1>2. WifiTypes /\ \A t \in Socks : Attached(t)
  BY DEF Sane, AllKept, Kept
<1>3. UNCHANGED <<map, line, link>>
  <2>1. CASE Open \/ WifiRemove
    BY <2>1 DEF Open, WifiRemove, KeepModule, wifi
  <2>2. ASSUME NEW s \in Socks,
               Connect(s) \/ Disconnect(s) \/ Close(s) \/ Send(s) \/ Bind(s) \/ Accept(s)
        PROVE  UNCHANGED <<map, line, link>>
    BY <2>2, SMTT(30) DEF Connect, Disconnect, Close, Send, Bind, Accept, KeepModule, wifi
  <2>3. ASSUME NEW s \in Socks, NEW b \in BackLogs, Listen(s, b) PROVE UNCHANGED <<map, line, link>>
    BY <2>3 DEF Listen, KeepModule
  <2> QED
    BY <2>1, <2>2, <2>3 DEF Call
<1>4. \A t \in Socks : /\ sockets'[t].state \in {sockets[t].state, "DISCONNECTED"}
                       /\ sockets'[t].conn_id = sockets[t].conn_id
  <2>1. CASE Open
    BY <1>2, <2>1, OpenStates
  <2>2. CASE sockets' = sockets
    BY <2>2
  <2>3. ASSUME NEW s \in Socks, NEW b \in BackLogs, Listen(s, b)
        PROVE  \A t \in Socks : /\ sockets'[t].state \in {sockets[t].state, "DISCONNECTED"}
                                /\ sockets'[t].conn_id = sockets[t].conn_id
    BY <2>3, ListenSockets
  <2>4. CASE WifiRemove \/ \E s \in Socks : \/ Connect(s) \/ Disconnect(s) \/ Close(s) \/ Send(s)
                                          \/ Bind(s) \/ Accept(s)
    BY <2>2, <2>4 DEF WifiRemove, Connect, Disconnect, Close, Send, Bind, Accept, wifi
  <2> QED
    BY <2>1, <2>3, <2>4 DEF Call
<1>5. \A c \in Conns : Alive(c) => Alive(c)'
  BY <1>3 DEF Alive
<1>6. ASSUME NEW t \in Socks PROVE Attached(t)'
  <2>1. sockets'[t].conn_id = sockets[t].conn_id /\ (sockets'[t].state \in Up => sockets[t].state \in Up)
    BY <1>4 DEF Up
  <2> QED
    BY <1>2, <1>3, <1>5, <2>1, AttachedKept
<1>7. ASSUME NEW t \in Socks PROVE Kept(t)'
  <2>1. /\ \A a \in ConnJobs \ {"claim"} : ~Doing(a, t)'
        /\ Doing("claim", t)' => sockets[t].state # "CONNECTED"
    BY <1>1 DEF NoneAsked, ConnJobs, Linking
  <2>2. Doing("claim", t)' => sockets'[t].state # "CONNECTED"
    BY <1>4, <2>1
  <2> QED
    BY <1>6, <2>1, <2>2 DEF Kept, ConnJobs
<1> QED
  BY <1>7 DEF AllKept

LEMMA NextTracked ==
    Sane /\ MapsBack /\ Serving /\ Paired /\ Announced /\ Tracked /\ [Next]_vars => Tracked'
<1> SUFFICES ASSUME Sane, MapsBack, Serving, Paired, Announced, Tracked, [Next]_vars, Told'
             PROVE  AllKept'
  BY DEF Tracked, AllKept
<1>1. /\ Told /\ "twice" \notin flaws' /\ \A f \in {"twice", "retaken", "unsure"} : f \notin flaws
  BY NumbersChange DEF Told, None
<1>2. AllKept /\ Exchange /\ Matched
  BY <1>1 DEF Tracked, AllKept, Paired, MapsBack, Matched, None
<1>3. CASE UNCHANGED vars
  <2>1. UNCHANGED <<sockets, map, work, cmd, todo, line, resp, link>>
    BY <1>3 DEF vars, wifi, app, parser, module
  <2>2. Undone' = Undone /\ \A c : Alive(c)' = Alive(c)
    BY <2>1 DEF Undone, Alive
  <2> QED
    BY <1>2, <2>1, <2>2, StepKept DEF Sane
<1>4. CASE Open \/ WifiRemove \/ \E s \in Socks : Call(s)
  BY <1>2, <1>4, CallsTracked
<1>5. CASE Jobs
  BY <1>2, <1>5, JobsTracked
<1>6. CASE Response \/ TimedOut
  BY <1>2, <1>6, ResponseTracked
<1>7. CASE Interrupt
  BY <1>1, <1>2, <1>7, InterruptTracked
<1>8. CASE Answer
  BY <1>2, <1>8, AnswerTracked
<1>9. CASE PeerConnects \/ \E c \in Conns : PeerSends(c) \/ PeerCloses(c)
  BY <1>2, <1>9, PeersTracked
<1> QED
  BY <1>3, <1>4, <1>5, <1>6, <1>7, <1>8, <1>9 DEF Next

\* What is known of a socket by what is being done about it, as long as nothing happened
\* that the code does not foresee.
THEOREM WifiTracked == Spec => []Tracked
<1>1. Init => Tracked
  BY DEF Init, Tracked, Kept, Attached, Doing, NoSockets
<1> QED
  BY <1>1, NextTracked, WifiSaneInvariance, WifiMapsBack, WifiServing, WifiPaired, WifiAnnounced, PTL
     DEF Spec

\* A socket that is connected, or that waits to be accepted, has a connection of its own,
\* which is open or whose end is on its way.
THEOREM WifiConnectedIsOpen == Spec => []ConnectedIsOpen
<1>1. Sane /\ Tracked => ConnectedIsOpen
  <2> SUFFICES ASSUME Sane, Told, Tracked, NEW s \in Socks, sockets[s].state \in Up
               PROVE  LET c == sockets[s].conn_id
                      IN /\ c # INVALID_ID /\ map[c] = s
                         /\ c \in link \/ Contains(line, <<"closed", c>>)
    BY DEF ConnectedIsOpen, Told, Up
  <2>1. Attached(s)
    BY DEF Tracked, Kept
  <2>2. PICK c : c = sockets[s].conn_id
    OBVIOUS
  <2>3. c # INVALID_ID /\ map[c] = s /\ Alive(c)
    BY <2>1, <2>2 DEF Attached, Numbered, Up
  <2>4. Has(line, <<"closed", c>>) => Contains(line, <<"closed", c>>)
    BY DEF Has, Contains
  <2> QED
    BY <2>2, <2>3, <2>4 DEF Alive
<1> QED
  BY <1>1, WifiSaneInvariance, WifiTracked, PTL

=============================================================================
