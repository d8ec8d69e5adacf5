-------------------------- MODULE AducmUartProofs --------------------------
(***************************************************************************)
(* Proofs about AducmUart for every buffer limit of the ADI driver, every  *)
(* size and any number of transfers: until an error is reported or a       *)
(* callback comes between a call's look at its direction and its claim,    *)
(* every buffer continues its transfer and a reported transfer is complete.*)
(***************************************************************************)
EXTENDS AducmUart, TLAPS

-----------------------------------------------------------------------------
(* The inductive invariant.  Its parts are about values of desc (D), hw    *)
(* (Q), sizes (Z), filled (F), reported (R), pc (P), call (C) and idx (I), *)
(* so that the two halves of uart_callback, the driver's and the           *)
(* application's, can be treated one after the other.                      *)

Both == {"read", "write"}
OpDesc == [is_nonblocking : BOOLEAN, pending : Nat, op : Nat, buff : Nat]
Chunks == [owner : {"nb", "block"}, op : Nat, from : Nat, len : Nat]

NbSteps == {"nb_pending", "nb_buff", "nb_submit"}
WaitSteps == {"nb_claim", "wait"}
BlockSteps == WaitSteps \cup {"xfer", "xfer_wait"}

Types(D, Q, Z, F, R, P, C, I) ==
    /\ D \in [Both -> OpDesc]
    /\ Q \in [Both -> Seq(Chunks)]
    /\ Z \in Seq(Nat) /\ Len(Z) <= MaxOps
    /\ F \in [1..MaxOps -> Nat]
    /\ R \subseteq 1..Len(Z)
    /\ P \in NbSteps \cup BlockSteps \cup {"idle", "clear_errors"}
    /\ C \in [dir : Both, op : Nat, size : Nat]
    /\ I \in Nat

\* The operation of d is the interrupt's: the call that claimed it is done with it.
HandedOver(D, P, C, d) == D[d].is_nonblocking /\ ~(P \in NbSteps /\ C.dir = d)

\* Transfers that are going on are different, and none of them is reported.
Active(D, Z, R, P, C) ==
    /\ \A d \in Both : HandedOver(D, P, C, d) => D[d].op \in 1..Len(Z) /\ D[d].op \notin R
    /\ \A d, e \in Both : HandedOver(D, P, C, d) /\ HandedOver(D, P, C, e) /\ d # e
                             => D[d].op # D[e].op
    /\ P \in NbSteps \cup BlockSteps =>
          /\ C.op \in 1..Len(Z) /\ C.op \notin R
          /\ Z[C.op] = C.size
          /\ \A d \in Both : HandedOver(D, P, C, d) => D[d].op # C.op

\* The call under way: what it has told the interrupt, what it has moved itself.
CallState(D, F, P, C, I) ==
    /\ P \in NbSteps => D[C.dir].is_nonblocking /\ F[C.op] = 0
    /\ P \in {"nb_buff", "nb_submit"} => D[C.dir].pending = C.size - Bytes(C.size)
    /\ P = "nb_submit" => D[C.dir].op = C.op /\ D[C.dir].buff = Bytes(C.size)
    /\ P \in WaitSteps => F[C.op] = 0
    /\ P \in {"xfer", "xfer_wait"} => I = F[C.op] /\ I <= C.size

\* A buffer of a nonblocking operation: it continues the transfer, the descriptor
\* points behind it and counts the rest.
NbChunk(D, Z, F, P, C, d, c) ==
    /\ HandedOver(D, P, C, d)
    /\ c.op = D[d].op
    /\ c.from = F[D[d].op]
    /\ c.from + c.len = D[d].buff
    /\ D[d].buff + D[d].pending = Z[D[d].op]

\* A buffer of uart_read or uart_write, which waits for it.
BlockChunk(P, C, I, d, c) ==
    /\ P = "xfer_wait" /\ C.dir = d
    /\ c.op = C.op
    /\ c.from = I
    /\ c.len = Bytes(C.size - I)

Queued(D, Q, Z, F, P, C, I) ==
    \A d \in Both : \A k \in 1..Len(Q[d]) :
       /\ Q[d][k].owner = "nb" => NbChunk(D, Z, F, P, C, d, Q[d][k])
       /\ Q[d][k].owner = "block" => BlockChunk(P, C, I, d, Q[d][k])

\* One buffer of each kind in a direction at most.
OneEach(Q) ==
    \A d \in Both : \A j, k \in 1..Len(Q[d]) : Q[d][j].owner = Q[d][k].owner => j = k

Bookkept(Z, F, R) ==
    /\ \A op \in 1..MaxOps : op > Len(Z) => F[op] = 0
    /\ \A op \in R : F[op] = Z[op]

Sound(D, Q, Z, F, R, P, C, I) ==
    /\ Types(D, Q, Z, F, R, P, C, I)
    /\ Active(D, Z, R, P, C)
    /\ CallState(D, F, P, C, I)
    /\ Queued(D, Q, Z, F, P, C, I)
    /\ OneEach(Q)
    /\ Bookkept(Z, F, R)

\* Without a descriptor nothing is called and nothing is queued.
Off == ~live => pc = "idle" /\ \A d \in Both : hw[d] = <<>>

\* After an error, or with two transfers in one direction, the descriptor and the ADI
\* driver no longer agree.
UartInv == faulty \/ overtaken \/ (Off /\ Sound(desc, hw, sizes, filled, reported, pc, call, idx))

\* The bytes moved, once the oldest buffer of queue q is.
MovedIn(F, q) == [F EXCEPT ![Head(q).op] = @ + Head(q).len]

-----------------------------------------------------------------------------
(* Queues, buffers and the list of transfers.                              *)

\* The largest part of n bytes that fits in one buffer.
LEMMA BytesFact ==
    ASSUME NEW n \in Nat
    PROVE  Bytes(n) \in Nat /\ Bytes(n) <= n
BY UartAssumption DEF Bytes

\* A submitted buffer is the last of its queue, or the ADI driver refused it.
LEMMA SubmitFact ==
    ASSUME NEW q \in Seq(Chunks), NEW c \in Chunks
    PROVE  /\ Submit(q, c) \in Seq(Chunks)
           /\ \A k \in 1..Len(Submit(q, c)) :
                 \/ k \in 1..Len(q) /\ Submit(q, c)[k] = q[k]
                 \/ k = Len(q) + 1 /\ Submit(q, c)[k] = c
<1>1. CASE Len(q) < 2
  <2>1. /\ Append(q, c) \in Seq(Chunks) /\ Len(Append(q, c)) = Len(q) + 1
        /\ \A k \in 1..Len(q) : Append(q, c)[k] = q[k]
        /\ Append(q, c)[Len(q) + 1] = c
    OBVIOUS
  <2> QED
    BY <1>1, <2>1 DEF Submit
<1>2. CASE ~(Len(q) < 2)
  BY <1>2 DEF Submit
<1> QED
  BY <1>1, <1>2

\* What is left once the oldest buffer is moved.
LEMMA TailFact ==
    ASSUME NEW q \in Seq(Chunks), q # <<>>
    PROVE  /\ Tail(q) \in Seq(Chunks)
           /\ 1 \in 1..Len(q) /\ Head(q) = q[1] /\ q[1] \in Chunks
           /\ \A k \in 1..Len(Tail(q)) :
                 /\ k + 1 \in 1..Len(q) /\ k + 1 # 1 /\ k \in Nat
                 /\ Tail(q)[k] = q[k + 1]
OBVIOUS

\* The transfers asked for keep their sizes when one more is asked for.
LEMMA AskFact ==
    ASSUME NEW Z \in Seq(Nat), NEW n \in Nat
    PROVE  /\ Append(Z, n) \in Seq(Nat) /\ Len(Append(Z, n)) = Len(Z) + 1
           /\ Len(Z) + 1 \in 1..Len(Append(Z, n)) /\ Append(Z, n)[Len(Z) + 1] = n
           /\ \A op \in 1..Len(Z) : op \in 1..Len(Append(Z, n)) /\ Append(Z, n)[op] = Z[op]
OBVIOUS

-----------------------------------------------------------------------------
(* The interrupt.                                                          *)

\* The application's callback starts a read of one byte: no nonblocking read is going
\* on, so its buffer is the only one of its kind, beside one of a uart_read at most.
LEMMA RearmFact ==
    ASSUME NEW D, NEW Q, NEW Z, NEW F, NEW R, NEW P, NEW C, NEW I,
           Sound(D, Q, Z, F, R, P, C, I),
           ~D["read"].is_nonblocking, Len(Z) < MaxOps
    PROVE  Sound([D EXCEPT !["read"] = [is_nonblocking |-> TRUE, pending |-> 0,
                                        op |-> Len(Z) + 1, buff |-> 1]],
                 [Q EXCEPT !["read"] = Submit(@, Chunk("nb", Len(Z) + 1, 0, 1))],
                 Append(Z, 1), F, R, P, C, I)
<1> DEFINE n == Len(Z) + 1
           c == Chunk("nb", n, 0, 1)
           D2 == [D EXCEPT !["read"] = [is_nonblocking |-> TRUE, pending |-> 0,
                                        op |-> n, buff |-> 1]]
           Q2 == [Q EXCEPT !["read"] = Submit(@, c)]
           Z2 == Append(Z, 1)
<1>1. Types(D, Q, Z, F, R, P, C, I)
  BY DEF Sound
<1>2. n \in 1..MaxOps /\ n \in Nat /\ Len(Z) \in Nat /\ n > Len(Z)
  BY <1>1, UartAssumption DEF Types
<1>3. /\ Z2 \in Seq(Nat) /\ Len(Z2) = n /\ Z2[n] = 1
      /\ \A op \in 1..Len(Z) : op \in 1..Len(Z2) /\ Z2[op] = Z[op] /\ op # n
  BY <1>1, AskFact DEF Types
<1>4. c \in Chunks /\ c.owner = "nb" /\ c.op = n /\ c.from = 0 /\ c.len = 1
  BY <1>2 DEF Chunk, Chunks
<1>5. /\ D2 \in [Both -> OpDesc] /\ D2["write"] = D["write"]
      /\ D2["read"].is_nonblocking /\ D2["read"].pending = 0
      /\ D2["read"].op = n /\ D2["read"].buff = 1
  <2>1. [is_nonblocking |-> TRUE, pending |-> 0, op |-> n, buff |-> 1] \in OpDesc
    BY <1>2 DEF OpDesc
  <2> QED
    BY <1>1, <2>1 DEF Types, Both
<1>6. /\ Q2 \in [Both -> Seq(Chunks)] /\ Q2["write"] = Q["write"]
      /\ \A k \in 1..Len(Q2["read"]) :
            \/ k \in 1..Len(Q["read"]) /\ Q2["read"][k] = Q["read"][k]
            \/ k = Len(Q["read"]) + 1 /\ Q2["read"][k] = c
  <2>1. Q["read"] \in Seq(Chunks) /\ Q \in [Both -> Seq(Chunks)]
    BY <1>1 DEF Types, Both
  <2>2. Submit(Q["read"], c) \in Seq(Chunks)
    BY <1>4, <2>1, SubmitFact
  <2>3. Q2["read"] = Submit(Q["read"], c) /\ Q2["write"] = Q["write"]
        /\ Q2 \in [Both -> Seq(Chunks)]
    BY <2>1, <2>2 DEF Both
  <2> QED
    BY <1>4, <2>1, <2>3, SubmitFact, ZenonT(60)
<1> HIDE DEF n, c, D2, Q2, Z2
<1>7. /\ HandedOver(D2, P, C, "read") /\ ~HandedOver(D, P, C, "read")
      /\ HandedOver(D2, P, C, "write") <=> HandedOver(D, P, C, "write")
      /\ P \in NbSteps => C.dir = "write"
  BY <1>1, <1>5 DEF Sound, CallState, HandedOver, Types, Both
<1>8. Types(D2, Q2, Z2, F, R, P, C, I)
  BY <1>1, <1>2, <1>3, <1>5, <1>6, SMTT(30) DEF Types
<1>9. n \notin R
  BY <1>1, <1>2, <1>3 DEF Types
<1>10. Active(D2, Z2, R, P, C)
  <2>1. Active(D, Z, R, P, C)
    BY DEF Sound
  <2> QED
    BY <1>2, <1>3, <1>5, <1>7, <1>9, <2>1, SMTT(30) DEF Active, Both
<1>11. CallState(D2, F, P, C, I)
  <2>1. CallState(D, F, P, C, I)
    BY DEF Sound
  <2> QED
    BY <1>5, <1>7, <2>1 DEF CallState, WaitSteps, NbSteps
<1>12. Queued(D2, Q2, Z2, F, P, C, I)
  <2>1. Queued(D, Q, Z, F, P, C, I)
    BY DEF Sound
  <2>2. ASSUME NEW k \in 1..Len(Q2["read"])
        PROVE  /\ Q2["read"][k].owner = "nb" => NbChunk(D2, Z2, F, P, C, "read", Q2["read"][k])
               /\ Q2["read"][k].owner = "block" => BlockChunk(P, C, I, "read", Q2["read"][k])
    <3>1. CASE k \in 1..Len(Q["read"]) /\ Q2["read"][k] = Q["read"][k]
      BY <1>7, <2>1, <3>1 DEF Queued, NbChunk, Both
    <3>2. CASE Q2["read"][k] = c
      <4>1. F[n] = 0
        BY <1>2 DEF Sound, Bookkept
      <4> QED
        BY <1>3, <1>4, <1>5, <1>7, <3>2, <4>1 DEF NbChunk
    <3> QED
      BY <1>6, <3>1, <3>2
  <2>3. ASSUME NEW k \in 1..Len(Q["write"])
        PROVE  /\ Q["write"][k].owner = "nb"
                    => NbChunk(D2, Z2, F, P, C, "write", Q["write"][k])
               /\ Q["write"][k].owner = "block" => BlockChunk(P, C, I, "write", Q["write"][k])
    <3>1. /\ Q["write"][k].owner = "nb" => NbChunk(D, Z, F, P, C, "write", Q["write"][k])
          /\ Q["write"][k].owner = "block" => BlockChunk(P, C, I, "write", Q["write"][k])
      BY <2>1 DEF Queued, Both
    <3>2. HandedOver(D, P, C, "write") => D["write"].op \in 1..Len(Z)
      BY DEF Sound, Active, Both
    <3> QED
      BY <1>3, <1>5, <1>7, <3>1, <3>2 DEF NbChunk
  <2> QED
    BY <1>6, <2>2, <2>3 DEF Queued, Both
<1>13. OneEach(Q2)
  <2>1. \A k \in 1..Len(Q["read"]) : Q["read"][k].owner # "nb"
    BY <1>7 DEF Sound, Queued, NbChunk, Both
  <2>2. OneEach(Q)
    BY DEF Sound
  <2>3. ASSUME NEW j \in 1..Len(Q2["read"]), NEW k \in 1..Len(Q2["read"]),
               Q2["read"][j].owner = Q2["read"][k].owner
        PROVE  j = k
    <3>1. \/ j \in 1..Len(Q["read"]) /\ Q2["read"][j] = Q["read"][j]
          \/ j = Len(Q["read"]) + 1 /\ Q2["read"][j] = c
      BY <1>6
    <3>2. \/ k \in 1..Len(Q["read"]) /\ Q2["read"][k] = Q["read"][k]
          \/ k = Len(Q["read"]) + 1 /\ Q2["read"][k] = c
      BY <1>6
    <3>3. c.owner = "nb"
      BY <1>4
    <3>4. CASE j \in 1..Len(Q["read"]) /\ k \in 1..Len(Q["read"])
      <4>1. Q["read"][j].owner = Q["read"][k].owner
        BY <2>3, <3>1, <3>2, <3>4
      <4> QED
        BY <2>2, <3>4, <4>1, Zenon DEF OneEach, Both
    <3>5. CASE ~(j \in 1..Len(Q["read"]) /\ k \in 1..Len(Q["read"]))
      BY <2>1, <2>3, <3>1, <3>2, <3>3, <3>5
    <3> QED
      BY <3>4, <3>5
  <2> QED
    BY <1>6, <2>2, <2>3 DEF OneEach, Both
<1>14. Bookkept(Z2, F, R)
  BY <1>1, <1>2, <1>3 DEF Sound, Bookkept, Types
<1> QED
  BY <1>8, <1>10, <1>11, <1>12, <1>13, <1>14 DEF Sound, n, c, D2, Q2, Z2

\* The oldest buffer of d is moved: what its transfer has becomes what the descriptor
\* points behind, and no other transfer is touched.
LEMMA MovedFact ==
    ASSUME NEW D, NEW Q, NEW Z, NEW F, NEW R, NEW P, NEW C, NEW I,
           Sound(D, Q, Z, F, R, P, C, I),
           NEW d \in Both, Q[d] # <<>>, Head(Q[d]).owner = "nb"
    PROVE  /\ HandedOver(D, P, C, d)
           /\ D[d].op \in 1..Len(Z) /\ D[d].op \notin R
           /\ MovedIn(F, Q[d]) \in [1..MaxOps -> Nat]
           /\ MovedIn(F, Q[d])[D[d].op] = D[d].buff
           /\ D[d].buff + D[d].pending = Z[D[d].op]
           /\ \A op \in 1..MaxOps : op # D[d].op => MovedIn(F, Q[d])[op] = F[op]
           /\ \A e \in Both : HandedOver(D, P, C, e) /\ e # d => D[e].op # D[d].op
           /\ P \in NbSteps \cup BlockSteps => C.op # D[d].op
           /\ \A k \in 1..Len(Q[d]) : k # 1 => Q[d][k].owner # "nb"
           /\ Q[d] \in Seq(Chunks)
<1> DEFINE G == MovedIn(F, Q[d])
<1>1. Types(D, Q, Z, F, R, P, C, I) /\ Active(D, Z, R, P, C)
  BY DEF Sound
<1>2. Q[d] \in Seq(Chunks)
  BY <1>1 DEF Types
<1>3. 1 \in 1..Len(Q[d]) /\ Head(Q[d]) = Q[d][1] /\ Q[d][1] \in Chunks
  BY <1>2, TailFact
<1>4. NbChunk(D, Z, F, P, C, d, Q[d][1])
  BY <1>3 DEF Sound, Queued
<1>5. /\ HandedOver(D, P, C, d) /\ Q[d][1].op = D[d].op
      /\ Q[d][1].from = F[D[d].op] /\ Q[d][1].from + Q[d][1].len = D[d].buff
      /\ D[d].buff + D[d].pending = Z[D[d].op]
  BY <1>4 DEF NbChunk
<1>6. D[d].op \in 1..Len(Z) /\ D[d].op \notin R
  BY <1>1, <1>5 DEF Active
<1>7. D[d].op \in 1..MaxOps
  BY <1>1, <1>6, UartAssumption DEF Types
<1>8. D[d].buff \in Nat /\ F \in [1..MaxOps -> Nat]
  BY <1>1 DEF Types, OpDesc
<1>9. G = [F EXCEPT ![D[d].op] = D[d].buff]
  BY <1>3, <1>5 DEF MovedIn
<1>10. /\ G \in [1..MaxOps -> Nat] /\ G[D[d].op] = D[d].buff
       /\ \A op \in 1..MaxOps : op # D[d].op => G[op] = F[op]
  BY <1>7, <1>8, <1>9
<1>11. /\ \A e \in Both : HandedOver(D, P, C, e) /\ e # d => D[e].op # D[d].op
       /\ P \in NbSteps \cup BlockSteps => C.op # D[d].op
  BY <1>1, <1>5 DEF Active
<1>12. \A k \in 1..Len(Q[d]) : k # 1 => Q[d][k].owner # "nb"
  BY <1>3 DEF Sound, OneEach
<1> QED
  BY <1>2, <1>5, <1>6, <1>10, <1>11, <1>12

\* uart_callback ends the operation and reports it: all its bytes have moved.
LEMMA EndFact ==
    ASSUME NEW D, NEW Q, NEW Z, NEW F, NEW R, NEW P, NEW C, NEW I,
           Sound(D, Q, Z, F, R, P, C, I),
           NEW d \in Both, Q[d] # <<>>, Head(Q[d]).owner = "nb", D[d].pending = 0,
           NEW R2 \in {R, R \cup {D[d].op}}
    PROVE  Sound([D EXCEPT ![d] = [D[d] EXCEPT !.is_nonblocking = FALSE]],
                 [Q EXCEPT ![d] = Tail(@)], Z, MovedIn(F, Q[d]), R2, P, C, I)
<1> DEFINE D2 == [D EXCEPT ![d] = [D[d] EXCEPT !.is_nonblocking = FALSE]]
           Q2 == [Q EXCEPT ![d] = Tail(@)]
           G == MovedIn(F, Q[d])
<1>1. Types(D, Q, Z, F, R, P, C, I)
  BY DEF Sound
<1>2. /\ HandedOver(D, P, C, d)
      /\ D[d].op \in 1..Len(Z) /\ D[d].op \notin R
      /\ G \in [1..MaxOps -> Nat] /\ G[D[d].op] = D[d].buff
      /\ D[d].buff + D[d].pending = Z[D[d].op]
      /\ \A op \in 1..MaxOps : op # D[d].op => G[op] = F[op]
      /\ \A e \in Both : HandedOver(D, P, C, e) /\ e # d => D[e].op # D[d].op
      /\ P \in NbSteps \cup BlockSteps => C.op # D[d].op
      /\ \A k \in 1..Len(Q[d]) : k # 1 => Q[d][k].owner # "nb"
      /\ Q[d] \in Seq(Chunks)
  BY MovedFact
<1>3. G[D[d].op] = Z[D[d].op] /\ 1..Len(Z) \subseteq 1..MaxOps
  <2>1. D[d].buff \in Nat /\ Len(Z) \in Nat /\ Len(Z) <= MaxOps
    BY <1>1, SMTT(30) DEF Types, OpDesc
  <2> HIDE DEF G
  <2> QED
    BY <1>2, <2>1, UartAssumption
<1>4. /\ D2 \in [Both -> OpDesc] /\ ~D2[d].is_nonblocking
      /\ \A e \in Both : e # d => D2[e] = D[e]
  <2>1. [D[d] EXCEPT !.is_nonblocking = FALSE] \in OpDesc
        /\ ~[D[d] EXCEPT !.is_nonblocking = FALSE].is_nonblocking
    BY <1>1 DEF Types, OpDesc
  <2> QED
    BY <1>1, <2>1 DEF Types
<1>5. /\ Q2 \in [Both -> Seq(Chunks)]
      /\ \A e \in Both : e # d => Q2[e] = Q[e]
      /\ \A k \in 1..Len(Q2[d]) : k \in Nat /\ k + 1 \in 1..Len(Q[d]) /\ k + 1 # 1
                                  /\ Q2[d][k] = Q[d][k + 1]
  <2>1. Q2[d] = Tail(Q[d]) /\ Tail(Q[d]) \in Seq(Chunks)
    BY <1>1, <1>2, TailFact DEF Types
  <2>2. Q2 \in [Both -> Seq(Chunks)] /\ \A e \in Both : e # d => Q2[e] = Q[e]
    BY <1>1, <2>1 DEF Types
  <2> QED
    BY <1>2, <2>1, <2>2, TailFact
<1> HIDE DEF D2, Q2, G
<1>6. /\ ~HandedOver(D2, P, C, d)
      /\ \A e \in Both : HandedOver(D2, P, C, e) => e # d /\ HandedOver(D, P, C, e)
      /\ P \in NbSteps => C.dir # d /\ C.dir \in Both
  BY <1>1, <1>2, <1>4 DEF HandedOver, Types
<1>7. Types(D2, Q2, Z, G, R2, P, C, I)
  BY <1>1, <1>2, <1>4, <1>5 DEF Types
<1>8. Active(D2, Z, R2, P, C)
  <2>1. Active(D, Z, R, P, C)
    BY DEF Sound
  <2> QED
    BY <1>2, <1>4, <1>6, <2>1 DEF Active
<1>9. CallState(D2, G, P, C, I)
  <2>1. CallState(D, F, P, C, I) /\ Active(D, Z, R, P, C)
    BY DEF Sound
  <2>2. P \in NbSteps \cup BlockSteps => G[C.op] = F[C.op]
    BY <1>2, <1>3, <2>1 DEF Active
  <2> QED
    BY <1>4, <1>6, <2>1, <2>2 DEF CallState, NbSteps, WaitSteps, BlockSteps
<1>10. Queued(D2, Q2, Z, G, P, C, I)
  <2>1. Queued(D, Q, Z, F, P, C, I) /\ Active(D, Z, R, P, C)
    BY DEF Sound
  <2>2. ASSUME NEW k \in 1..Len(Q2[d])
        PROVE  /\ Q2[d][k].owner # "nb"
               /\ Q2[d][k].owner = "block" => BlockChunk(P, C, I, d, Q2[d][k])
    BY <1>2, <1>5, <2>1, SMTT(30) DEF Queued
  <2>3. ASSUME NEW e \in Both, e # d, NEW k \in 1..Len(Q[e])
        PROVE  /\ Q[e][k].owner = "nb" => NbChunk(D2, Z, G, P, C, e, Q[e][k])
               /\ Q[e][k].owner = "block" => BlockChunk(P, C, I, e, Q[e][k])
    <3>1. /\ Q[e][k].owner = "nb" => NbChunk(D, Z, F, P, C, e, Q[e][k])
          /\ Q[e][k].owner = "block" => BlockChunk(P, C, I, e, Q[e][k])
      BY <2>1 DEF Queued
    <3>2. HandedOver(D, P, C, e) => /\ HandedOver(D2, P, C, e)
                                    /\ D[e].op \in 1..MaxOps /\ D[e].op # D[d].op
      BY <1>2, <1>3, <1>4, <2>1, <2>3 DEF Active, HandedOver
    <3> QED
      BY <1>2, <1>4, <2>3, <3>1, <3>2 DEF NbChunk
  <2>4. ASSUME NEW e \in Both, NEW k \in 1..Len(Q2[e])
        PROVE  /\ Q2[e][k].owner = "nb" => NbChunk(D2, Z, G, P, C, e, Q2[e][k])
               /\ Q2[e][k].owner = "block" => BlockChunk(P, C, I, e, Q2[e][k])
    <3>1. CASE e = d
      BY <2>2, <2>4, <3>1, Zenon
    <3>2. CASE e # d
      <4>1. Q2[e] = Q[e]
        BY <1>5, <3>2
      <4> QED
        BY <2>3, <2>4, <3>2, <4>1, Zenon
    <3> QED
      BY <3>1, <3>2
  <2> QED
    BY <2>4, Zenon DEF Queued
<1>11. OneEach(Q2)
  <2>1. OneEach(Q)
    BY DEF Sound
  <2>2. ASSUME NEW j \in 1..Len(Q2[d]), NEW k \in 1..Len(Q2[d]),
               Q2[d][j].owner = Q2[d][k].owner
        PROVE  j = k
    <3>1. /\ j \in Nat /\ j + 1 \in 1..Len(Q[d]) /\ Q2[d][j] = Q[d][j + 1]
          /\ k \in Nat /\ k + 1 \in 1..Len(Q[d]) /\ Q2[d][k] = Q[d][k + 1]
      BY <1>5
    <3>2. Q[d][j + 1].owner = Q[d][k + 1].owner
      BY <2>2, <3>1
    <3>3. j + 1 = k + 1
      BY <2>1, <3>1, <3>2 DEF OneEach
    <3> QED
      BY <3>1, <3>3
  <2> QED
    BY <1>5, <2>1, <2>2, SMTT(30) DEF OneEach
<1>12. Bookkept(Z, G, R2)
  <2>1. Bookkept(Z, F, R) /\ R \subseteq 1..Len(Z)
    BY <1>1 DEF Sound, Types
  <2>2. \A op \in 1..MaxOps : op > Len(Z) => G[op] = 0
    BY <1>2, <2>1 DEF Bookkept
  <2>3. \A op \in R2 : G[op] = Z[op]
    BY <1>2, <1>3, <2>1, SMTT(30) DEF Bookkept
  <2> QED
    BY <2>2, <2>3 DEF Bookkept
<1> QED
  BY <1>7, <1>8, <1>9, <1>10, <1>11, <1>12 DEF Sound, D2, Q2, G

\* uart_callback submits the next buffer, right behind the last one.
LEMMA AdvanceFact ==
    ASSUME NEW D, NEW Q, NEW Z, NEW F, NEW R, NEW P, NEW C, NEW I,
           Sound(D, Q, Z, F, R, P, C, I),
           NEW d \in Both, Q[d] # <<>>, Head(Q[d]).owner = "nb"
    PROVE  Sound([D EXCEPT ![d] = [D[d] EXCEPT !.pending = @ - Bytes(D[d].pending),
                                               !.buff = @ + Bytes(D[d].pending)]],
                 [Q EXCEPT ![d] = Submit(Tail(@), Chunk("nb", D[d].op, D[d].buff,
                                                        Bytes(D[d].pending)))],
                 Z, MovedIn(F, Q[d]), R, P, C, I)
<1> DEFINE D2 == [D EXCEPT ![d] = [D[d] EXCEPT !.pending = @ - Bytes(D[d].pending),
                                               !.buff = @ + Bytes(D[d].pending)]]
           c == Chunk("nb", D[d].op, D[d].buff, Bytes(D[d].pending))
           Q2 == [Q EXCEPT ![d] = Submit(Tail(@), c)]
           G == MovedIn(F, Q[d])
<1>1. Types(D, Q, Z, F, R, P, C, I)
  BY DEF Sound
<1>2. /\ HandedOver(D, P, C, d)
      /\ D[d].op \in 1..Len(Z) /\ D[d].op \notin R
      /\ G \in [1..MaxOps -> Nat] /\ G[D[d].op] = D[d].buff
      /\ D[d].buff + D[d].pending = Z[D[d].op]
      /\ \A op \in 1..MaxOps : op # D[d].op => G[op] = F[op]
      /\ \A e \in Both : HandedOver(D, P, C, e) /\ e # d => D[e].op # D[d].op
      /\ P \in NbSteps \cup BlockSteps => C.op # D[d].op
      /\ \A k \in 1..Len(Q[d]) : k # 1 => Q[d][k].owner # "nb"
      /\ Q[d] \in Seq(Chunks)
  BY MovedFact
<1>3. /\ D[d] \in OpDesc /\ D[d].pending \in Nat /\ D[d].buff \in Nat /\ D[d].op \in Nat
      /\ D \in [Both -> OpDesc]
      /\ Len(Z) \in Nat /\ Len(Z) <= MaxOps /\ 1..Len(Z) \subseteq 1..MaxOps
  BY <1>1, UartAssumption, SMTT(30) DEF Types, OpDesc
<1>4. Bytes(D[d].pending) \in Nat /\ Bytes(D[d].pending) <= D[d].pending
  BY <1>3, BytesFact
<1>5. /\ D2 \in [Both -> OpDesc] /\ D2[d].is_nonblocking = D[d].is_nonblocking
      /\ D2[d].op = D[d].op
      /\ D2[d].pending = D[d].pending - Bytes(D[d].pending)
      /\ D2[d].buff = D[d].buff + Bytes(D[d].pending)
      /\ \A e \in Both : e # d => D2[e] = D[e]
  <2> DEFINE x == [D[d] EXCEPT !.pending = @ - Bytes(D[d].pending),
                               !.buff = @ + Bytes(D[d].pending)]
  <2>1. /\ x \in OpDesc /\ x.is_nonblocking = D[d].is_nonblocking /\ x.op = D[d].op
        /\ x.pending = D[d].pending - Bytes(D[d].pending)
        /\ x.buff = D[d].buff + Bytes(D[d].pending)
    <3>1. PICK r, p, b : /\ r = D[d] /\ p = D[d].pending - Bytes(D[d].pending)
                         /\ b = D[d].buff + Bytes(D[d].pending)
      OBVIOUS
    <3>2. x = [r EXCEPT !.pending = p, !.buff = b] /\ r \in OpDesc /\ p \in Nat /\ b \in Nat
      BY <1>3, <1>4, <3>1
    <3> HIDE DEF x
    <3>3. /\ x \in OpDesc /\ x.is_nonblocking = r.is_nonblocking /\ x.op = r.op
          /\ x.pending = p /\ x.buff = b
      BY <3>2 DEF OpDesc
    <3> QED
      BY <3>1, <3>3
  <2>2. D2 = [D EXCEPT ![d] = x]
    OBVIOUS
  <2> HIDE DEF x, D2
  <2> QED
    BY <1>3, <2>1, <2>2
<1>6. /\ c \in Chunks /\ c.owner = "nb" /\ c.op = D[d].op /\ c.from = D[d].buff
      /\ c.len = Bytes(D[d].pending)
  BY <1>3, <1>4 DEF Chunk, Chunks
<1> HIDE DEF c
<1>7. /\ Q2 \in [Both -> Seq(Chunks)]
      /\ \A e \in Both : e # d => Q2[e] = Q[e]
      /\ \A k \in 1..Len(Q2[d]) :
            \/ k \in Nat /\ k + 1 \in 1..Len(Q[d]) /\ k + 1 # 1 /\ Q2[d][k] = Q[d][k + 1]
               /\ k \in 1..Len(Tail(Q[d]))
            \/ Q2[d][k] = c /\ k = Len(Tail(Q[d])) + 1
  <2> DEFINE t == Tail(Q[d])
  <2>1. /\ t \in Seq(Chunks)
        /\ \A k \in 1..Len(t) : k \in Nat /\ k + 1 \in 1..Len(Q[d]) /\ k + 1 # 1
                                /\ t[k] = Q[d][k + 1]
    BY <1>2, TailFact
  <2>2. Q2 = [Q EXCEPT ![d] = Submit(t, c)]
    OBVIOUS
  <2> HIDE DEF t, Q2
  <2>3. /\ Submit(t, c) \in Seq(Chunks)
        /\ \A k \in 1..Len(Submit(t, c)) :
              \/ k \in 1..Len(t) /\ Submit(t, c)[k] = t[k]
              \/ k = Len(t) + 1 /\ Submit(t, c)[k] = c
    BY <1>6, <2>1, SubmitFact
  <2>4. Q2[d] = Submit(t, c) /\ Q2 \in [Both -> Seq(Chunks)]
        /\ \A e \in Both : e # d => Q2[e] = Q[e]
    BY <1>1, <2>2, <2>3 DEF Types
  <2> QED
    BY <2>1, <2>3, <2>4 DEF t
<1> HIDE DEF D2, Q2, G
<1>8. \A e \in Both : HandedOver(D2, P, C, e) <=> HandedOver(D, P, C, e)
  BY <1>5 DEF HandedOver
<1>9. P \in NbSteps => C.dir # d /\ C.dir \in Both
  BY <1>1, <1>2 DEF HandedOver, Types
<1>10. Types(D2, Q2, Z, G, R, P, C, I)
  BY <1>1, <1>2, <1>5, <1>7 DEF Types
<1>11. Active(D2, Z, R, P, C)
  <2>1. Active(D, Z, R, P, C)
    BY DEF Sound
  <2>2. \A e \in Both : D2[e].op = D[e].op
    BY <1>5
  <2> QED
    BY <1>8, <2>1, <2>2 DEF Active
<1>12. CallState(D2, G, P, C, I)
  <2>1. CallState(D, F, P, C, I) /\ Active(D, Z, R, P, C)
    BY DEF Sound
  <2>2. P \in NbSteps \cup BlockSteps => G[C.op] = F[C.op]
    BY <1>2, <1>3, <2>1 DEF Active
  <2> QED
    BY <1>5, <1>9, <2>1, <2>2 DEF CallState, NbSteps, WaitSteps, BlockSteps
<1>13. Queued(D2, Q2, Z, G, P, C, I)
  <2>1. Queued(D, Q, Z, F, P, C, I) /\ Active(D, Z, R, P, C)
    BY DEF Sound
  <2>2. ASSUME NEW k \in 1..Len(Q2[d])
        PROVE  /\ Q2[d][k].owner = "nb" => NbChunk(D2, Z, G, P, C, d, Q2[d][k])
               /\ Q2[d][k].owner = "block" => BlockChunk(P, C, I, d, Q2[d][k])
    <3>1. CASE k + 1 \in 1..Len(Q[d]) /\ k + 1 # 1 /\ Q2[d][k] = Q[d][k + 1]
      BY <1>2, <2>1, <3>1 DEF Queued
    <3>2. CASE Q2[d][k] = c
      BY <1>2, <1>3, <1>4, <1>5, <1>6, <1>8, <3>2, SMTT(30) DEF NbChunk
    <3> QED
      BY <1>7, <3>1, <3>2
  <2>3. ASSUME NEW e \in Both, e # d, NEW k \in 1..Len(Q[e])
        PROVE  /\ Q[e][k].owner = "nb" => NbChunk(D2, Z, G, P, C, e, Q[e][k])
               /\ Q[e][k].owner = "block" => BlockChunk(P, C, I, e, Q[e][k])
    <3>1. /\ Q[e][k].owner = "nb" => NbChunk(D, Z, F, P, C, e, Q[e][k])
          /\ Q[e][k].owner = "block" => BlockChunk(P, C, I, e, Q[e][k])
      BY <2>1 DEF Queued
    <3>2. HandedOver(D, P, C, e) => /\ HandedOver(D2, P, C, e)
                                    /\ D[e].op \in 1..MaxOps /\ D[e].op # D[d].op
      BY <1>2, <1>3, <1>8, <2>1, <2>3 DEF Active
    <3> QED
      BY <1>2, <1>5, <2>3, <3>1, <3>2 DEF NbChunk
  <2> QED
    BY <1>7, <2>2, <2>3 DEF Queued
<1>14. OneEach(Q2)
  <2>1. OneEach(Q)
    BY DEF Sound
  <2>2. ASSUME NEW j \in 1..Len(Q2[d]), NEW k \in 1..Len(Q2[d]),
               Q2[d][j].owner = Q2[d][k].owner
        PROVE  j = k
    <3> DEFINE Old(i) == /\ i \in Nat /\ i + 1 \in 1..Len(Q[d]) /\ i + 1 # 1
                         /\ Q2[d][i] = Q[d][i + 1] /\ i \in 1..Len(Tail(Q[d]))
               New(i) == Q2[d][i] = c /\ i = Len(Tail(Q[d])) + 1
    <3>1. (Old(j) \/ New(j)) /\ (Old(k) \/ New(k))
      BY <1>7
    <3>2. ASSUME Old(j), Old(k) PROVE j = k
      <4>1. Q[d][j + 1].owner = Q[d][k + 1].owner
        BY <2>2, <3>2
      <4>2. j + 1 = k + 1
        BY <2>1, <3>2, <4>1 DEF OneEach
      <4> QED
        BY <3>2, <4>2
    <3>3. ~(Old(j) /\ New(k)) /\ ~(New(j) /\ Old(k))
      BY <1>2, <1>6, <2>2, SMTT(30)
    <3> QED
      BY <3>1, <3>2, <3>3
  <2> QED
    BY <1>7, <2>1, <2>2 DEF OneEach
<1>15. Bookkept(Z, G, R)
  <2>1. Bookkept(Z, F, R) /\ R \subseteq 1..Len(Z)
    BY <1>1 DEF Sound, Types
  <2>2. \A op \in 1..MaxOps : op > Len(Z) => G[op] = 0
    BY <1>2, <2>1 DEF Bookkept
  <2>3. \A op \in R : G[op] = Z[op]
    BY <1>2, <1>3, <2>1 DEF Bookkept
  <2> QED
    BY <2>2, <2>3 DEF Bookkept
<1> QED
  BY <1>10, <1>11, <1>12, <1>13, <1>14, <1>15 DEF Sound, D2, Q2, G, c

-----------------------------------------------------------------------------
(* The application's calls.                                                *)

\* Returning, and uart_get_errors, where no buffer of the call is with the ADI driver.
LEMMA QuietFact ==
    ASSUME NEW D, NEW Q, NEW Z, NEW F, NEW R, NEW P, NEW C, NEW I,
           Sound(D, Q, Z, F, R, P, C, I),
           P \in {"idle", "clear_errors", "wait", "xfer"},
           NEW P2 \in {"idle", "clear_errors"}
    PROVE  Sound(D, Q, Z, F, R, P2, C, I)
<1>1. \A d \in Both : HandedOver(D, P2, C, d) <=> HandedOver(D, P, C, d)
  BY DEF HandedOver, NbSteps
<1>2. Types(D, Q, Z, F, R, P2, C, I)
  BY DEF Sound, Types
<1>3. Active(D, Z, R, P2, C)
  BY <1>1 DEF Sound, Active, NbSteps, WaitSteps, BlockSteps
<1>4. CallState(D, F, P2, C, I)
  BY DEF CallState, WaitSteps, NbSteps
<1>5. Queued(D, Q, Z, F, P2, C, I)
  <2>1. Queued(D, Q, Z, F, P, C, I)
    BY DEF Sound
  <2> QED
    BY <1>1, <2>1 DEF Queued, NbChunk, BlockChunk
<1> QED
  BY <1>2, <1>3, <1>4, <1>5 DEF Sound

\* uart_read and uart_write begin their loop.
LEMMA BeginFact ==
    ASSUME NEW D, NEW Q, NEW Z, NEW F, NEW R, NEW C, NEW I,
           Sound(D, Q, Z, F, R, "wait", C, I)
    PROVE  Sound(D, Q, Z, F, R, "xfer", C, 0)
<1>1. \A d \in Both : HandedOver(D, "xfer", C, d) <=> HandedOver(D, "wait", C, d)
  BY DEF HandedOver, NbSteps
<1>2. Types(D, Q, Z, F, R, "xfer", C, 0)
  BY DEF Sound, Types, WaitSteps, BlockSteps
<1>3. Active(D, Z, R, "xfer", C)
  BY <1>1 DEF Sound, Active, NbSteps, WaitSteps, BlockSteps
<1>4. CallState(D, F, "xfer", C, 0)
  BY DEF Sound, Types, CallState, WaitSteps, NbSteps
<1>5. Queued(D, Q, Z, F, "xfer", C, 0)
  <2>1. Queued(D, Q, Z, F, "wait", C, I)
    BY DEF Sound
  <2> QED
    BY <1>1, <2>1 DEF Queued, NbChunk, BlockChunk
<1> QED
  BY <1>2, <1>3, <1>4, <1>5 DEF Sound

\* A transfer is asked for, of either kind.
LEMMA NewOpFact ==
    ASSUME NEW D, NEW Q, NEW Z, NEW F, NEW R, NEW C, NEW I, NEW d \in Both, NEW n \in Nat,
           Sound(D, Q, Z, F, R, "idle", C, I), Len(Z) < MaxOps,
           NEW P2 \in WaitSteps
    PROVE  Sound(D, Q, Append(Z, n), F, R, P2, [dir |-> d, op |-> Len(Z) + 1, size |-> n], I)
<1> DEFINE m == Len(Z) + 1
           C2 == [dir |-> d, op |-> m, size |-> n]
           Z2 == Append(Z, n)
<1>1. Types(D, Q, Z, F, R, "idle", C, I)
  BY DEF Sound
<1>2. m \in 1..MaxOps /\ m \in Nat /\ Len(Z) \in Nat /\ m > Len(Z)
  BY <1>1, UartAssumption DEF Types
<1>3. /\ Z2 \in Seq(Nat) /\ Len(Z2) = m /\ Z2[m] = n
      /\ \A op \in 1..Len(Z) : op \in 1..Len(Z2) /\ Z2[op] = Z[op] /\ op # m
  BY <1>1, AskFact DEF Types
<1>4. C2 \in [dir : Both, op : Nat, size : Nat] /\ C2.dir = d /\ C2.op = m /\ C2.size = n
  BY <1>2
<1> HIDE DEF m, C2, Z2
<1>5. \A e \in Both : HandedOver(D, P2, C2, e) <=> HandedOver(D, "idle", C, e)
  BY <1>4 DEF HandedOver, WaitSteps, NbSteps
<1>6. Types(D, Q, Z2, F, R, P2, C2, I)
  BY <1>1, <1>2, <1>3, <1>4 DEF Types, WaitSteps, BlockSteps
<1>7. m \notin R /\ m \in 1..Len(Z2)
  BY <1>1, <1>2, <1>3 DEF Types
<1>8. Active(D, Z2, R, P2, C2)
  <2>1. Active(D, Z, R, "idle", C)
    BY DEF Sound
  <2> QED
    BY <1>3, <1>4, <1>5, <1>7, <2>1, SMTT(30) DEF Active
<1>9. CallState(D, F, P2, C2, I)
  <2>1. F[m] = 0
    BY <1>2 DEF Sound, Bookkept
  <2> QED
    BY <1>4, <2>1 DEF CallState, WaitSteps, NbSteps
<1>10. Queued(D, Q, Z2, F, P2, C2, I)
  <2> SUFFICES ASSUME NEW e \in Both, NEW k \in 1..Len(Q[e])
               PROVE  /\ Q[e][k].owner = "nb" => NbChunk(D, Z2, F, P2, C2, e, Q[e][k])
                      /\ Q[e][k].owner = "block" => BlockChunk(P2, C2, I, e, Q[e][k])
    BY DEF Queued
  <2>1. /\ Q[e][k].owner = "nb" => NbChunk(D, Z, F, "idle", C, e, Q[e][k])
        /\ Q[e][k].owner # "block"
    BY DEF Sound, Queued, BlockChunk
  <2>2. HandedOver(D, "idle", C, e) => D[e].op \in 1..Len(Z)
    BY DEF Sound, Active
  <2> QED
    BY <1>3, <1>5, <2>1, <2>2, SMTT(30) DEF NbChunk
<1>11. OneEach(Q) /\ Bookkept(Z2, F, R)
  BY <1>1, <1>2, <1>3 DEF Sound, Bookkept, Types
<1> QED
  BY <1>6, <1>8, <1>9, <1>10, <1>11 DEF Sound, m, C2, Z2

\* A nonblocking call claims its direction, in which no transfer is going on.
LEMMA ClaimFact ==
    ASSUME NEW D, NEW Q, NEW Z, NEW F, NEW R, NEW C, NEW I,
           Sound(D, Q, Z, F, R, "nb_claim", C, I), ~D[C.dir].is_nonblocking,
           NEW D2 \in [Both -> OpDesc], D2[C.dir].is_nonblocking,
           \A e \in Both : e # C.dir => D2[e] = D[e]
    PROVE  Sound(D2, Q, Z, F, R, "nb_pending", C, I)
<1>1. \A e \in Both : /\ HandedOver(D2, "nb_pending", C, e) <=> HandedOver(D, "nb_claim", C, e)
                      /\ HandedOver(D2, "nb_pending", C, e) => D2[e] = D[e]
  BY DEF HandedOver, NbSteps
<1>2. Types(D2, Q, Z, F, R, "nb_pending", C, I)
  BY DEF Sound, Types, NbSteps
<1>3. Active(D2, Z, R, "nb_pending", C)
  <2>1. Active(D, Z, R, "nb_claim", C)
    BY DEF Sound
  <2> QED
    BY <1>1, <2>1 DEF Active, WaitSteps, NbSteps, BlockSteps
<1>4. CallState(D2, F, "nb_pending", C, I)
  BY DEF Sound, CallState, WaitSteps, NbSteps
<1>5. Queued(D2, Q, Z, F, "nb_pending", C, I)
  <2>1. Queued(D, Q, Z, F, "nb_claim", C, I)
    BY DEF Sound
  <2> QED
    BY <1>1, <2>1 DEF Queued, NbChunk, BlockChunk
<1> QED
  BY <1>2, <1>3, <1>4, <1>5 DEF Sound

\* A nonblocking call fills in the operation it has claimed; the interrupt does not
\* look at it yet.
LEMMA FillInFact ==
    ASSUME NEW D, NEW Q, NEW Z, NEW F, NEW R, NEW P, NEW C, NEW I,
           Sound(D, Q, Z, F, R, P, C, I), P \in NbSteps,
           NEW P2 \in NbSteps, NEW D2 \in [Both -> OpDesc],
           \A e \in Both : e # C.dir => D2[e] = D[e],
           CallState(D2, F, P2, C, I)
    PROVE  Sound(D2, Q, Z, F, R, P2, C, I)
<1>1. Types(D, Q, Z, F, R, P, C, I)
  BY DEF Sound
<1>2. \A e \in Both : /\ HandedOver(D2, P2, C, e) <=> HandedOver(D, P, C, e)
                      /\ HandedOver(D2, P2, C, e) => D2[e] = D[e]
  BY DEF HandedOver
<1>3. Types(D2, Q, Z, F, R, P2, C, I)
  BY <1>1 DEF Types
<1>4. Active(D2, Z, R, P2, C)
  <2>1. Active(D, Z, R, P, C)
    BY DEF Sound
  <2> QED
    BY <1>2, <2>1 DEF Active
<1>5. Queued(D2, Q, Z, F, P2, C, I)
  <2>1. Queued(D, Q, Z, F, P, C, I)
    BY DEF Sound
  <2> QED
    BY <1>2, <2>1 DEF Queued, NbChunk, BlockChunk, NbSteps
<1> QED
  BY <1>3, <1>4, <1>5 DEF Sound

\* The queue of direction d once c is submitted: every buffer is an old one or c.
LEMMA QueueFact ==
    ASSUME NEW Q \in [Both -> Seq(Chunks)], NEW d \in Both, NEW c \in Chunks
    PROVE  /\ [Q EXCEPT ![d] = Submit(@, c)] \in [Both -> Seq(Chunks)]
           /\ \A e \in Both : e # d => [Q EXCEPT ![d] = Submit(@, c)][e] = Q[e]
           /\ \A k \in 1..Len([Q EXCEPT ![d] = Submit(@, c)][d]) :
                 \/ /\ k \in 1..Len(Q[d])
                    /\ [Q EXCEPT ![d] = Submit(@, c)][d][k] = Q[d][k]
                 \/ /\ k = Len(Q[d]) + 1
                    /\ [Q EXCEPT ![d] = Submit(@, c)][d][k] = c
<1> DEFINE Q2 == [Q EXCEPT ![d] = Submit(@, c)]
<1>1. /\ Submit(Q[d], c) \in Seq(Chunks)
      /\ \A k \in 1..Len(Submit(Q[d], c)) :
            \/ k \in 1..Len(Q[d]) /\ Submit(Q[d], c)[k] = Q[d][k]
            \/ k = Len(Q[d]) + 1 /\ Submit(Q[d], c)[k] = c
  BY SubmitFact
<1>2. /\ Q2[d] = Submit(Q[d], c) /\ Q2 \in [Both -> Seq(Chunks)]
      /\ \A e \in Both : e # d => Q2[e] = Q[e]
  BY <1>1
<1> HIDE DEF Q2
<1>3. \A k \in 1..Len(Q2[d]) : \/ k \in 1..Len(Q[d]) /\ Q2[d][k] = Q[d][k]
                               \/ k = Len(Q[d]) + 1 /\ Q2[d][k] = c
  BY <1>1, <1>2
<1> QED
  BY <1>2, <1>3 DEF Q2

\* A buffer of a kind its direction does not hold yet may be submitted.
LEMMA OneMoreFact ==
    ASSUME NEW Q \in [Both -> Seq(Chunks)], NEW d \in Both, NEW c \in Chunks, OneEach(Q),
           \A k \in 1..Len(Q[d]) : Q[d][k].owner # c.owner
    PROVE  OneEach([Q EXCEPT ![d] = Submit(@, c)])
<1> DEFINE Q2 == [Q EXCEPT ![d] = Submit(@, c)]
<1>1. /\ \A e \in Both : e # d => Q2[e] = Q[e]
      /\ \A k \in 1..Len(Q2[d]) : \/ k \in 1..Len(Q[d]) /\ Q2[d][k] = Q[d][k]
                                  \/ k = Len(Q[d]) + 1 /\ Q2[d][k] = c
  BY QueueFact
<1> HIDE DEF Q2
<1>2. ASSUME NEW j \in 1..Len(Q2[d]), NEW k \in 1..Len(Q2[d]),
             Q2[d][j].owner = Q2[d][k].owner
      PROVE  j = k
  <2>1. \/ j \in 1..Len(Q[d]) /\ Q2[d][j] = Q[d][j]
        \/ j = Len(Q[d]) + 1 /\ Q2[d][j] = c
    BY <1>1
  <2>2. \/ k \in 1..Len(Q[d]) /\ Q2[d][k] = Q[d][k]
        \/ k = Len(Q[d]) + 1 /\ Q2[d][k] = c
    BY <1>1
  <2> QED
    BY <1>2, <2>1, <2>2 DEF OneEach
<1>3. OneEach(Q2)
  BY <1>1, <1>2 DEF OneEach
<1> QED
  BY <1>3 DEF Q2

\* A nonblocking call submits its first buffer and leaves the operation to the interrupt.
LEMMA HandOverFact ==
    ASSUME NEW D, NEW Q, NEW Z, NEW F, NEW R, NEW C, NEW I,
           Sound(D, Q, Z, F, R, "nb_submit", C, I)
    PROVE  Sound(D, [Q EXCEPT ![C.dir] = Submit(@, Chunk("nb", C.op, 0, Bytes(C.size)))],
                 Z, F, R, "idle", C, I)
<1> DEFINE c == Chunk("nb", C.op, 0, Bytes(C.size))
           Q2 == [Q EXCEPT ![C.dir] = Submit(@, c)]
<1>1. /\ Types(D, Q, Z, F, R, "nb_submit", C, I) /\ Active(D, Z, R, "nb_submit", C)
      /\ CallState(D, F, "nb_submit", C, I) /\ Queued(D, Q, Z, F, "nb_submit", C, I)
      /\ OneEach(Q) /\ Bookkept(Z, F, R)
  BY DEF Sound
<1>2. /\ C.dir \in Both /\ C.op \in Nat /\ C.size \in Nat /\ Q \in [Both -> Seq(Chunks)]
      /\ Bytes(C.size) \in Nat
  BY <1>1, BytesFact DEF Types
<1>3. /\ c \in Chunks /\ c.owner = "nb" /\ c.op = C.op /\ c.from = 0 /\ c.len = Bytes(C.size)
  BY <1>2 DEF Chunk, Chunks
<1> HIDE DEF c
<1>4. /\ Q2 \in [Both -> Seq(Chunks)] /\ \A e \in Both : e # C.dir => Q2[e] = Q[e]
      /\ \A k \in 1..Len(Q2[C.dir]) :
            \/ k \in 1..Len(Q[C.dir]) /\ Q2[C.dir][k] = Q[C.dir][k]
            \/ k = Len(Q[C.dir]) + 1 /\ Q2[C.dir][k] = c
  BY <1>2, <1>3, QueueFact
<1>5. \A k \in 1..Len(Q[C.dir]) : Q[C.dir][k].owner # "nb"
  BY <1>1, <1>2 DEF Queued, NbChunk, HandedOver, NbSteps
<1>6. OneEach(Q2)
  BY <1>1, <1>2, <1>3, <1>5, OneMoreFact
<1> HIDE DEF Q2
<1>7. /\ \A e \in Both : e # C.dir =>
            (HandedOver(D, "idle", C, e) <=> HandedOver(D, "nb_submit", C, e))
      /\ HandedOver(D, "idle", C, C.dir)
      /\ D[C.dir].op = C.op /\ D[C.dir].buff = Bytes(C.size) /\ F[C.op] = 0
      /\ D[C.dir].pending = C.size - Bytes(C.size)
      /\ C.op \in 1..Len(Z) /\ C.op \notin R /\ Z[C.op] = C.size
      /\ \A e \in Both : HandedOver(D, "nb_submit", C, e) => D[e].op # C.op
  BY <1>1, <1>2 DEF HandedOver, WaitSteps, NbSteps, CallState, Active
<1>8. Types(D, Q2, Z, F, R, "idle", C, I)
  BY <1>1, <1>4 DEF Types
<1>9. Active(D, Z, R, "idle", C)
  BY <1>1, <1>2, <1>7, ZenonT(60) DEF Active, NbSteps, WaitSteps, BlockSteps
<1>10. CallState(D, F, "idle", C, I)
  BY DEF CallState, WaitSteps, NbSteps
<1>11. Queued(D, Q2, Z, F, "idle", C, I)
  <2>1. ASSUME NEW e \in Both, e # C.dir, NEW k \in 1..Len(Q[e])
        PROVE  /\ Q[e][k].owner = "nb" => NbChunk(D, Z, F, "idle", C, e, Q[e][k])
               /\ Q[e][k].owner = "block" => BlockChunk("idle", C, I, e, Q[e][k])
    BY <1>1, <1>7, <2>1 DEF Queued, NbChunk, BlockChunk
  <2>2. ASSUME NEW k \in 1..Len(Q2[C.dir])
        PROVE  /\ Q2[C.dir][k].owner = "nb"
                    => NbChunk(D, Z, F, "idle", C, C.dir, Q2[C.dir][k])
               /\ Q2[C.dir][k].owner = "block"
                    => BlockChunk("idle", C, I, C.dir, Q2[C.dir][k])
    <3>1. CASE k \in 1..Len(Q[C.dir]) /\ Q2[C.dir][k] = Q[C.dir][k]
      BY <1>1, <1>2, <1>5, <3>1 DEF Queued, BlockChunk
    <3>2. CASE Q2[C.dir][k] = c
      BY <1>2, <1>3, <1>7, <3>2 DEF NbChunk
    <3> QED
      BY <1>4, <3>1, <3>2
  <2> QED
    BY <1>4, <2>1, <2>2 DEF Queued
<1> QED
  BY <1>1, <1>6, <1>8, <1>9, <1>10, <1>11 DEF Sound, Q2, c

\* uart_read or uart_write hands over the next part of its buffer.
LEMMA XferFact ==
    ASSUME NEW D, NEW Q, NEW Z, NEW F, NEW R, NEW C, NEW I,
           Sound(D, Q, Z, F, R, "xfer", C, I)
    PROVE  Sound(D, [Q EXCEPT ![C.dir] = Submit(@, Chunk("block", C.op, I,
                                                         Bytes(C.size - I)))],
                 Z, F, R, "xfer_wait", C, I)
<1> DEFINE c == Chunk("block", C.op, I, Bytes(C.size - I))
           Q2 == [Q EXCEPT ![C.dir] = Submit(@, c)]
<1>1. /\ Types(D, Q, Z, F, R, "xfer", C, I) /\ Active(D, Z, R, "xfer", C)
      /\ CallState(D, F, "xfer", C, I) /\ Queued(D, Q, Z, F, "xfer", C, I)
      /\ OneEach(Q) /\ Bookkept(Z, F, R)
  BY DEF Sound
<1>2. /\ C.dir \in Both /\ C.op \in Nat /\ C.size \in Nat /\ Q \in [Both -> Seq(Chunks)]
      /\ I \in Nat /\ C.size - I \in Nat
  BY <1>1 DEF Types, CallState
<1>3. /\ c \in Chunks /\ c.owner = "block" /\ c.op = C.op /\ c.from = I
      /\ c.len = Bytes(C.size - I)
  <2>1. Bytes(C.size - I) \in Nat
    BY <1>2, BytesFact
  <2> QED
    BY <1>2, <2>1 DEF Chunk, Chunks
<1> HIDE DEF c
<1>4. /\ Q2 \in [Both -> Seq(Chunks)] /\ \A e \in Both : e # C.dir => Q2[e] = Q[e]
      /\ \A k \in 1..Len(Q2[C.dir]) :
            \/ k \in 1..Len(Q[C.dir]) /\ Q2[C.dir][k] = Q[C.dir][k]
            \/ k = Len(Q[C.dir]) + 1 /\ Q2[C.dir][k] = c
  BY <1>2, <1>3, QueueFact
<1>5. \A e \in Both : \A k \in 1..Len(Q[e]) : Q[e][k].owner # "block"
  BY <1>1 DEF Queued, BlockChunk
<1>6. OneEach(Q2)
  BY <1>1, <1>2, <1>3, <1>5, OneMoreFact
<1> HIDE DEF Q2
<1>7. \A e \in Both : HandedOver(D, "xfer_wait", C, e) <=> HandedOver(D, "xfer", C, e)
  BY DEF HandedOver, NbSteps
<1>8. Types(D, Q2, Z, F, R, "xfer_wait", C, I)
  BY <1>1, <1>4 DEF Types, WaitSteps, BlockSteps
<1>9. Active(D, Z, R, "xfer_wait", C)
  BY <1>1, <1>7 DEF Active, NbSteps, WaitSteps, BlockSteps
<1>10. CallState(D, F, "xfer_wait", C, I)
  BY <1>1 DEF CallState, WaitSteps, NbSteps
<1>11. Queued(D, Q2, Z, F, "xfer_wait", C, I)
  <2>1. ASSUME NEW e \in Both, NEW k \in 1..Len(Q[e])
        PROVE  Q[e][k].owner = "nb" => NbChunk(D, Z, F, "xfer_wait", C, e, Q[e][k])
    BY <1>1, <1>7 DEF Queued, NbChunk
  <2>2. BlockChunk("xfer_wait", C, I, C.dir, c)
    BY <1>3 DEF BlockChunk
  <2>3. ASSUME NEW k \in 1..Len(Q2[C.dir])
        PROVE  /\ Q2[C.dir][k].owner = "nb"
                    => NbChunk(D, Z, F, "xfer_wait", C, C.dir, Q2[C.dir][k])
               /\ Q2[C.dir][k].owner = "block"
                    => BlockChunk("xfer_wait", C, I, C.dir, Q2[C.dir][k])
    BY <1>2, <1>3, <1>4, <1>5, <2>1, <2>2
  <2> QED
    BY <1>4, <1>5, <2>1, <2>3 DEF Queued
<1> QED
  BY <1>1, <1>6, <1>8, <1>9, <1>10, <1>11 DEF Sound, Q2, c

\* The part it waited for is moved.
LEMMA XferDoneFact ==
    ASSUME NEW D, NEW Q, NEW Z, NEW F, NEW R, NEW C, NEW I,
           Sound(D, Q, Z, F, R, "xfer_wait", C, I),
           Q[C.dir] # <<>>, Head(Q[C.dir]).owner = "block",
           NEW P2 \in {"idle", "xfer"}
    PROVE  Sound(D, [Q EXCEPT ![C.dir] = Tail(@)], Z, MovedIn(F, Q[C.dir]), R, P2, C,
                 I + Head(Q[C.dir]).len)
<1> DEFINE d == C.dir
           Q2 == [Q EXCEPT ![C.dir] = Tail(@)]
           G == MovedIn(F, Q[C.dir])
           I2 == I + Head(Q[C.dir]).len
<1>1. /\ Types(D, Q, Z, F, R, "xfer_wait", C, I) /\ Active(D, Z, R, "xfer_wait", C)
      /\ CallState(D, F, "xfer_wait", C, I) /\ Queued(D, Q, Z, F, "xfer_wait", C, I)
      /\ OneEach(Q) /\ Bookkept(Z, F, R)
  BY DEF Sound
<1>2. /\ d \in Both /\ C.op \in Nat /\ C.size \in Nat /\ Q \in [Both -> Seq(Chunks)]
      /\ Q[d] \in Seq(Chunks) /\ I \in Nat /\ I <= C.size /\ C.size - I \in Nat
      /\ F \in [1..MaxOps -> Nat] /\ F[C.op] = I
      /\ C.op \in 1..Len(Z) /\ C.op \notin R /\ Z[C.op] = C.size
      /\ Len(Z) \in Nat /\ 1..Len(Z) \subseteq 1..MaxOps
      /\ \A e \in Both : HandedOver(D, "xfer_wait", C, e) =>
            D[e].op # C.op /\ D[e].op \in 1..Len(Z)
  <2>1. /\ d \in Both /\ C.op \in Nat /\ C.size \in Nat /\ Q \in [Both -> Seq(Chunks)]
        /\ Q[d] \in Seq(Chunks) /\ I \in Nat /\ F \in [1..MaxOps -> Nat]
        /\ Len(Z) \in Nat /\ Len(Z) <= MaxOps
    BY <1>1 DEF Types
  <2>2. I <= C.size /\ F[C.op] = I
    BY <1>1 DEF CallState
  <2>3. /\ C.op \in 1..Len(Z) /\ C.op \notin R /\ Z[C.op] = C.size
        /\ \A e \in Both : HandedOver(D, "xfer_wait", C, e) =>
              D[e].op # C.op /\ D[e].op \in 1..Len(Z)
    BY <1>1 DEF Active, WaitSteps, BlockSteps
  <2>4. C.size - I \in Nat /\ 1..Len(Z) \subseteq 1..MaxOps
    BY <2>1, <2>2, UartAssumption, SMTT(30)
  <2> QED
    BY <2>1, <2>2, <2>3, <2>4
<1>3. /\ Tail(Q[d]) \in Seq(Chunks)
      /\ 1 \in 1..Len(Q[d]) /\ Head(Q[d]) = Q[d][1]
      /\ \A k \in 1..Len(Tail(Q[d])) : /\ k + 1 \in 1..Len(Q[d]) /\ k + 1 # 1 /\ k \in Nat
                                       /\ Tail(Q[d])[k] = Q[d][k + 1]
  BY <1>2, TailFact
<1>4. /\ Head(Q[d]).op = C.op /\ Head(Q[d]).len = Bytes(C.size - I)
      /\ Bytes(C.size - I) \in Nat /\ Bytes(C.size - I) <= C.size - I
  <2>1. BlockChunk("xfer_wait", C, I, d, Q[d][1])
    BY <1>1, <1>2, <1>3 DEF Queued
  <2> QED
    BY <1>2, <1>3, <2>1, BytesFact DEF BlockChunk
<1>5. I2 \in Nat /\ I2 <= C.size
  <2>1. PICK i \in Nat, z \in Nat, b \in Nat : i = I /\ z = C.size /\ b = Bytes(C.size - I)
    BY <1>2, <1>4
  <2>2. i <= z /\ b <= z - i /\ I2 = i + b
    BY <1>2, <1>4, <2>1
  <2>3. i + b \in Nat /\ i + b <= z
    BY <2>2
  <2> QED
    BY <2>1, <2>2, <2>3, Zenon
<1>6. G = [F EXCEPT ![C.op] = I2]
  <2>1. F[C.op] + Head(Q[d]).len = I2
    BY <1>2
  <2> QED
    BY <1>4, <2>1 DEF MovedIn
<1>7. /\ Q2 \in [Both -> Seq(Chunks)] /\ Q2[d] = Tail(Q[d])
      /\ \A e \in Both : e # d => Q2[e] = Q[e]
  BY <1>2, <1>3
<1> HIDE DEF d, Q2, G, I2
<1>8. /\ G \in [1..MaxOps -> Nat] /\ G[C.op] = I2
      /\ \A op \in 1..MaxOps : op # C.op => G[op] = F[op]
  BY <1>2, <1>5, <1>6
<1>9. \A k \in 1..Len(Q2[d]) : /\ k \in Nat /\ k + 1 \in 1..Len(Q[d])
                               /\ Q2[d][k] = Q[d][k + 1] /\ Q2[d][k].owner # "block"
  <2> SUFFICES ASSUME NEW k \in 1..Len(Q2[d])
               PROVE  /\ k \in Nat /\ k + 1 \in 1..Len(Q[d])
                      /\ Q2[d][k] = Q[d][k + 1] /\ Q2[d][k].owner # "block"
    OBVIOUS
  <2>1. k \in Nat /\ k + 1 \in 1..Len(Q[d]) /\ k + 1 # 1 /\ Q2[d][k] = Q[d][k + 1]
    BY <1>3, <1>7
  <2>2. Q[d][k + 1].owner # Q[d][1].owner
    BY <1>1, <1>2, <1>3, <2>1 DEF OneEach
  <2> QED
    BY <1>3, <2>1, <2>2 DEF d
<1>10. \A e \in Both : HandedOver(D, P2, C, e) <=> HandedOver(D, "xfer_wait", C, e)
  BY DEF HandedOver, NbSteps
<1>11. Types(D, Q2, Z, G, R, P2, C, I2)
  BY <1>1, <1>5, <1>7, <1>8 DEF Types, WaitSteps, BlockSteps
<1>12. Active(D, Z, R, P2, C)
  BY <1>1, <1>10 DEF Active, NbSteps, WaitSteps, BlockSteps
<1>13. CallState(D, G, P2, C, I2)
  BY <1>5, <1>8 DEF CallState, WaitSteps, NbSteps
<1>14. Queued(D, Q2, Z, G, P2, C, I2)
  <2>1. ASSUME NEW e \in Both, NEW k \in 1..Len(Q[e])
        PROVE  /\ Q[e][k].owner = "nb" => NbChunk(D, Z, G, P2, C, e, Q[e][k])
               /\ Q[e][k].owner = "block" => e = d
    <3>1. /\ Q[e][k].owner = "nb" => NbChunk(D, Z, F, "xfer_wait", C, e, Q[e][k])
          /\ Q[e][k].owner = "block" => BlockChunk("xfer_wait", C, I, e, Q[e][k])
      BY <1>1 DEF Queued
    <3> QED
      BY <1>2, <1>8, <1>10, <3>1 DEF NbChunk, BlockChunk, d
  <2>2. ASSUME NEW k \in 1..Len(Q2[d])
        PROVE  /\ Q2[d][k].owner = "nb" => NbChunk(D, Z, G, P2, C, d, Q2[d][k])
               /\ Q2[d][k].owner # "block"
    BY <1>2, <1>9, <2>1
  <2> QED
    BY <1>7, <2>1, <2>2 DEF Queued
<1>15. OneEach(Q2)
  <2>1. ASSUME NEW j \in 1..Len(Q2[d]), NEW k \in 1..Len(Q2[d]),
               Q2[d][j].owner = Q2[d][k].owner
        PROVE  j = k
    <3>1. /\ j \in Nat /\ j + 1 \in 1..Len(Q[d]) /\ Q2[d][j] = Q[d][j + 1]
          /\ k \in Nat /\ k + 1 \in 1..Len(Q[d]) /\ Q2[d][k] = Q[d][k + 1]
      BY <1>9
    <3>2. Q[d][j + 1].owner = Q[d][k + 1].owner
      BY <2>1, <3>1
    <3>3. j + 1 = k + 1
      BY <1>1, <1>2, <3>1, <3>2 DEF OneEach
    <3> QED
      BY <3>1, <3>3
  <2> QED
    BY <1>1, <1>7, <2>1 DEF OneEach
<1>16. Bookkept(Z, G, R)
  <2>1. Bookkept(Z, F, R) /\ R \subseteq 1..Len(Z)
    BY <1>1 DEF Types
  <2>2. \A op \in 1..MaxOps : op > Len(Z) => G[op] = 0
    BY <1>2, <1>8, <2>1 DEF Bookkept
  <2>3. \A op \in R : G[op] = Z[op]
    BY <1>2, <1>8, <2>1 DEF Bookkept
  <2> QED
    BY <2>2, <2>3 DEF Bookkept
<1> QED
  BY <1>11, <1>12, <1>13, <1>14, <1>15, <1>16 DEF Sound, Q2, G, I2

-----------------------------------------------------------------------------
(* The actions.                                                            *)

\* The invariant holds of a driver that nobody has initialised.
LEMMA UartInitInv == Init => UartInv
<1> SUFFICES ASSUME Init PROVE UartInv
  OBVIOUS
<1> USE UartAssumption
<1>1. /\ desc = NoDesc /\ hw = [d \in Both |-> <<>>] /\ sizes = <<>>
      /\ filled = [op \in 1..MaxOps |-> 0] /\ reported = {} /\ pc = "idle"
      /\ call = [dir |-> "read", op |-> 0, size |-> 0] /\ idx = 0
  BY DEF Init, Both
<1>2. NoDesc \in [Both -> OpDesc] /\ \A d \in Both : ~NoDesc[d].is_nonblocking
  BY DEF NoDesc, NoOp, OpDesc, Both
<1>3. Types(desc, hw, sizes, filled, reported, pc, call, idx)
  BY <1>1, <1>2 DEF Types, Both
<1>4. Active(desc, sizes, reported, pc, call) /\ CallState(desc, filled, pc, call, idx)
  BY <1>1, <1>2 DEF Active, HandedOver, CallState, NbSteps, WaitSteps, BlockSteps
<1>5. Queued(desc, hw, sizes, filled, pc, call, idx) /\ OneEach(hw)
  BY <1>1 DEF Queued, OneEach
<1>6. Bookkept(sizes, filled, reported) /\ Off
  BY <1>1 DEF Bookkept, Off
<1> QED
  BY <1>3, <1>4, <1>5, <1>6 DEF UartInv, Sound

\* uart_init starts over with an empty descriptor, uart_remove with an empty queue.
LEMMA LifetimeStep ==
    ASSUME UartInv, UartInit \/ UartRemove
    PROVE  UartInv'
<1> SUFFICES ASSUME ~faulty, ~overtaken
             PROVE  Off' /\ Sound(desc, hw, sizes, filled, reported, pc, call, idx)'
  BY DEF UartInv, UartInit, UartRemove
<1>1. Off /\ Sound(desc, hw, sizes, filled, reported, pc, call, idx)
  BY DEF UartInv
<1>2. /\ pc = "idle" /\ UNCHANGED <<sizes, filled, reported, pc, call, idx>>
  BY DEF UartInit, UartRemove
<1>3. CASE UNCHANGED <<desc, hw, live>>
  BY <1>1, <1>2, <1>3 DEF Off
<1>4. CASE UartInit /\ desc' = NoDesc /\ live'
  <2>1. NoDesc \in [Both -> OpDesc] /\ \A d \in Both : ~NoDesc[d].is_nonblocking
    BY DEF NoDesc, NoOp, OpDesc, Both
  <2>2. hw' = hw /\ \A d \in Both : hw[d] = <<>>
    BY <1>1, <1>4 DEF UartInit, Off
  <2>3. Types(NoDesc, hw, sizes, filled, reported, pc, call, idx)
    BY <1>1, <2>1 DEF Sound, Types
  <2>4. Active(NoDesc, sizes, reported, pc, call) /\ CallState(NoDesc, filled, pc, call, idx)
    BY <1>2, <2>1 DEF Active, HandedOver, CallState, NbSteps, WaitSteps, BlockSteps
  <2>5. Queued(NoDesc, hw, sizes, filled, pc, call, idx)
    BY <2>2 DEF Queued
  <2>6. Sound(NoDesc, hw, sizes, filled, reported, pc, call, idx)
    BY <1>1, <2>3, <2>4, <2>5 DEF Sound
  <2> QED
    BY <1>2, <1>4, <2>2, <2>6 DEF Off
<1>5. CASE UartRemove
  <2>1. desc' = desc /\ hw' = [d \in Both |-> <<>>]
    BY <1>5 DEF UartRemove, Both
  <2>2. \A d \in Both : hw'[d] = <<>>
    BY <2>1
  <2>3. hw' \in [Both -> Seq(Chunks)]
    BY <2>1
  <2>4. /\ Types(desc, hw', sizes, filled, reported, pc, call, idx)
        /\ Queued(desc, hw', sizes, filled, pc, call, idx) /\ OneEach(hw')
    BY <1>1, <2>2, <2>3 DEF Sound, Types, Queued, OneEach
  <2>5. Sound(desc, hw', sizes, filled, reported, pc, call, idx)
    BY <1>1, <2>4 DEF Sound
  <2> QED
    BY <1>2, <2>1, <2>2, <2>5 DEF Off
<1> QED
  BY <1>3, <1>4, <1>5 DEF UartInit

\* What the application's callback does keeps the invariant.
LEMMA UserCallbackFact ==
    ASSUME NEW D, NEW Q, NEW F, NEW R,
           Sound(D, Q, sizes, F, R, pc, call, idx),
           UserCallback(D, Q)
    PROVE  Sound(desc', hw', sizes', F, R, pc, call, idx)
<1>1. CASE desc' = D /\ hw' = Q /\ sizes' = sizes
  BY <1>1
<1>2. CASE /\ ~D["read"].is_nonblocking /\ Len(sizes) < MaxOps
           /\ sizes' = Append(sizes, 1)
           /\ desc' = [D EXCEPT !["read"] = [is_nonblocking |-> TRUE, pending |-> 0,
                                             op |-> Len(sizes) + 1, buff |-> 1]]
           /\ hw' = [Q EXCEPT !["read"] = Submit(@, Chunk("nb", Len(sizes) + 1, 0, 1))]
  BY <1>2, RearmFact, Zenon
<1> QED
  BY <1>1, <1>2, Zenon DEF UserCallback

\* uart_callback, one buffer processed.
LEMMA ProcessedStep ==
    ASSUME UartInv, NEW d \in Both, Processed(d)
    PROVE  UartInv'
<1> SUFFICES ASSUME ~faulty, ~overtaken
             PROVE  Off' /\ Sound(desc, hw, sizes, filled, reported, pc, call, idx)'
  BY DEF UartInv, Processed
<1>1. Sound(desc, hw, sizes, filled, reported, pc, call, idx)
  BY DEF UartInv
<1>2. /\ live /\ live' = live /\ hw[d] # <<>> /\ Head(hw[d]).owner = "nb"
      /\ UNCHANGED <<pc, call, idx>>
  BY DEF Processed, app
<1>3. filled' = MovedIn(filled, hw[d])
  BY DEF Processed, Moved, MovedIn
<1>4. Off'
  BY <1>2 DEF Off
<1>5. CASE /\ desc' = [desc EXCEPT ![d] = Advanced(d)]
           /\ hw' = [hw EXCEPT ![d] = Submit(Tail(@), Chunk("nb", desc[d].op, desc[d].buff,
                                                           Bytes(desc[d].pending)))]
           /\ UNCHANGED <<sizes, reported>>
  <2>1. Sound([desc EXCEPT ![d] = [desc[d] EXCEPT !.pending = @ - Bytes(desc[d].pending),
                                                  !.buff = @ + Bytes(desc[d].pending)]],
              hw', sizes, MovedIn(filled, hw[d]), reported, pc, call, idx)
    BY <1>1, <1>2, <1>5, AdvanceFact, Zenon
  <2> QED
    BY <1>2, <1>3, <1>4, <1>5, <2>1, Zenon DEF Advanced
<1>6. CASE /\ desc[d].pending = 0
           /\ reported' = IF callback THEN reported \cup {desc[d].op} ELSE reported
           /\ UserCallback([desc EXCEPT ![d] = Ended(d)], [hw EXCEPT ![d] = Tail(@)])
  <2>1. reported' \in {reported, reported \cup {desc[d].op}}
    BY <1>6
  <2>2. Sound([desc EXCEPT ![d] = [desc[d] EXCEPT !.is_nonblocking = FALSE]],
              [hw EXCEPT ![d] = Tail(@)], sizes, MovedIn(filled, hw[d]), reported', pc, call, idx)
    BY <1>1, <1>2, <1>6, <2>1, EndFact, Zenon
  <2>3. Sound([desc EXCEPT ![d] = Ended(d)],
              [hw EXCEPT ![d] = Tail(@)], sizes, MovedIn(filled, hw[d]), reported', pc, call, idx)
    BY <2>2, Zenon DEF Ended
  <2>4. Sound(desc', hw', sizes', MovedIn(filled, hw[d]), reported', pc, call, idx)
    BY <1>6, <2>3, UserCallbackFact, Zenon
  <2> QED
    BY <1>2, <1>3, <1>4, <2>4, Zenon
<1> QED
  BY <1>5, <1>6, Zenon DEF Processed

\* The entries of the calls: refused, or a new transfer.
LEMMA CallStep ==
    ASSUME UartInv, NEW d \in Both, NEW n \in Nat, NbCall(d, n) \/ Call(d, n)
    PROVE  UartInv'
<1> SUFFICES ASSUME ~faulty, ~overtaken
             PROVE  Off' /\ Sound(desc, hw, sizes, filled, reported, pc, call, idx)'
  BY DEF UartInv, NbCall, Call
<1>1. Sound(desc, hw, sizes, filled, reported, "idle", call, idx)
  BY DEF UartInv, NbCall, Call
<1>2. /\ live /\ live' = live /\ pc = "idle" /\ Len(sizes) < MaxOps
      /\ UNCHANGED <<desc, hw, filled, reported, idx>>
  BY DEF NbCall, Call
<1>3. Off'
  BY <1>2 DEF Off
<1>4. CASE UNCHANGED <<pc, call, sizes>>
  BY <1>1, <1>2, <1>3, <1>4
<1>5. CASE Ask(d, n) /\ pc' \in WaitSteps
  <2>1. Sound(desc, hw, Append(sizes, n), filled, reported, pc',
              [dir |-> d, op |-> Len(sizes) + 1, size |-> n], idx)
    BY <1>1, <1>2, <1>5, NewOpFact
  <2> QED
    BY <1>2, <1>3, <1>5, <2>1 DEF Ask
<1> QED
  BY <1>4, <1>5, Zenon DEF NbCall, Call, WaitSteps

\* A nonblocking call claims its direction, unless a callback has come between.
LEMMA ClaimStep ==
    ASSUME UartInv, NbClaim
    PROVE  UartInv'
<1> SUFFICES ASSUME ~faulty, ~overtaken, ~desc[call.dir].is_nonblocking
             PROVE  Off' /\ Sound(desc, hw, sizes, filled, reported, pc, call, idx)'
  BY DEF UartInv, NbClaim
<1>1. /\ Off /\ Sound(desc, hw, sizes, filled, reported, "nb_claim", call, idx)
      /\ desc \in [Both -> OpDesc] /\ call.dir \in Both
  BY DEF UartInv, NbClaim, Sound, Types
<1>2. /\ live /\ live' = live /\ pc' = "nb_pending"
      /\ UNCHANGED <<hw, call, idx, sizes, filled, reported>>
  BY <1>1 DEF Off, NbClaim
<1>3. /\ [desc[call.dir] EXCEPT !.is_nonblocking = TRUE] \in OpDesc
      /\ [desc[call.dir] EXCEPT !.is_nonblocking = TRUE].is_nonblocking
  BY <1>1 DEF OpDesc
<1>4. desc' = [desc EXCEPT ![call.dir] = [desc[call.dir] EXCEPT !.is_nonblocking = TRUE]]
  BY DEF NbClaim
<1>5. /\ desc' \in [Both -> OpDesc] /\ desc'[call.dir].is_nonblocking
      /\ \A e \in Both : e # call.dir => desc'[e] = desc[e]
  BY <1>1, <1>3, <1>4
<1>6. Sound(desc', hw, sizes, filled, reported, "nb_pending", call, idx)
  BY <1>1, <1>5, ClaimFact
<1> QED
  BY <1>2, <1>6 DEF Off

\* The rest of a nonblocking call.
LEMMA NbStep ==
    ASSUME UartInv, NbPending \/ NbBuff \/ NbSubmit
    PROVE  UartInv'
<1> SUFFICES ASSUME ~faulty, ~overtaken
             PROVE  Off' /\ Sound(desc, hw, sizes, filled, reported, pc, call, idx)'
  BY DEF UartInv, NbPending, NbBuff, NbSubmit
<1>1. /\ Off /\ Sound(desc, hw, sizes, filled, reported, pc, call, idx)
      /\ CallState(desc, filled, pc, call, idx)
  BY DEF UartInv, Sound
<1>2. /\ desc \in [Both -> OpDesc] /\ call.dir \in Both /\ call.size \in Nat
      /\ call.op \in Nat /\ desc[call.dir] \in OpDesc
      /\ Bytes(call.size) \in Nat /\ call.size - Bytes(call.size) \in Nat
  <2>1. /\ desc \in [Both -> OpDesc] /\ call.dir \in Both /\ call.size \in Nat
        /\ call.op \in Nat
    BY <1>1 DEF Sound, Types
  <2> QED
    BY <2>1, BytesFact
<1>3. /\ live /\ live' = live /\ UNCHANGED <<call, idx, sizes, filled, reported>>
  BY <1>1 DEF Off, NbPending, NbBuff, NbSubmit
<1>4. Off'
  BY <1>3 DEF Off
<1>5. CASE NbPending
  <2>1. PICK p : p = call.size - Bytes(call.size)
    OBVIOUS
  <2>2. /\ [desc[call.dir] EXCEPT !.pending = p] \in OpDesc
        /\ [desc[call.dir] EXCEPT !.pending = p].pending = p
        /\ [desc[call.dir] EXCEPT !.pending = p].is_nonblocking
             = desc[call.dir].is_nonblocking
    BY <1>2, <2>1 DEF OpDesc
  <2>3. desc' = [desc EXCEPT ![call.dir] = [desc[call.dir] EXCEPT !.pending = p]]
        /\ hw' = hw /\ pc = "nb_pending" /\ pc' = "nb_buff"
    BY <1>5, <2>1 DEF NbPending
  <2>4. /\ desc' \in [Both -> OpDesc] /\ \A e \in Both : e # call.dir => desc'[e] = desc[e]
        /\ desc'[call.dir].pending = p
        /\ desc'[call.dir].is_nonblocking = desc[call.dir].is_nonblocking
    BY <1>2, <2>2, <2>3
  <2>5. CallState(desc', filled, "nb_buff", call, idx)
    BY <1>1, <2>1, <2>3, <2>4 DEF CallState, WaitSteps, NbSteps
  <2>6. Sound(desc', hw, sizes, filled, reported, "nb_buff", call, idx)
    BY <1>1, <2>3, <2>4, <2>5, FillInFact DEF NbSteps
  <2> QED
    BY <1>3, <1>4, <2>3, <2>6
<1>6. CASE NbBuff
  <2>1. PICK o, b : o = call.op /\ b = Bytes(call.size)
    OBVIOUS
  <2>2. /\ [desc[call.dir] EXCEPT !.op = o, !.buff = b] \in OpDesc
        /\ [desc[call.dir] EXCEPT !.op = o, !.buff = b].op = o
        /\ [desc[call.dir] EXCEPT !.op = o, !.buff = b].buff = b
        /\ [desc[call.dir] EXCEPT !.op = o, !.buff = b].pending = desc[call.dir].pending
        /\ [desc[call.dir] EXCEPT !.op = o, !.buff = b].is_nonblocking
             = desc[call.dir].is_nonblocking
    BY <1>2, <2>1 DEF OpDesc
  <2>3. desc' = [desc EXCEPT ![call.dir] = [desc[call.dir] EXCEPT !.op = o, !.buff = b]]
        /\ hw' = hw /\ pc = "nb_buff" /\ pc' = "nb_submit"
    BY <1>2, <1>6, <2>1 DEF NbBuff
  <2>4. /\ desc' \in [Both -> OpDesc] /\ \A e \in Both : e # call.dir => desc'[e] = desc[e]
        /\ desc'[call.dir].op = o /\ desc'[call.dir].buff = b
        /\ desc'[call.dir].pending = desc[call.dir].pending
        /\ desc'[call.dir].is_nonblocking = desc[call.dir].is_nonblocking
    BY <1>2, <2>2, <2>3
  <2>5. CallState(desc', filled, "nb_submit", call, idx)
    BY <1>1, <2>1, <2>3, <2>4 DEF CallState, WaitSteps, NbSteps
  <2>6. Sound(desc', hw, sizes, filled, reported, "nb_submit", call, idx)
    BY <1>1, <2>3, <2>4, <2>5, FillInFact DEF NbSteps
  <2> QED
    BY <1>3, <1>4, <2>3, <2>6
<1>7. CASE NbSubmit
  <2>1. Sound(desc, [hw EXCEPT ![call.dir] = Submit(@, Chunk("nb", call.op, 0,
                                                             Bytes(call.size)))],
              sizes, filled, reported, "idle", call, idx)
    BY <1>1, <1>7, HandOverFact, Zenon DEF NbSubmit
  <2>2. /\ hw' = [hw EXCEPT ![call.dir] = Submit(@, Chunk("nb", call.op, 0,
                                                          Bytes(call.size)))]
        /\ pc' = "idle" /\ desc' = desc
    BY <1>7, Zenon DEF NbSubmit
  <2> QED
    BY <1>3, <1>4, <2>1, <2>2, Zenon
<1> QED
  BY <1>5, <1>6, <1>7

\* The rest of uart_read and uart_write.
LEMMA BlockStep ==
    ASSUME UartInv, Wait \/ Xfer \/ XferDone
    PROVE  UartInv'
<1> SUFFICES ASSUME ~faulty', ~overtaken'
             PROVE  Off' /\ Sound(desc, hw, sizes, filled, reported, pc, call, idx)'
  BY DEF UartInv
<1>0. ~faulty /\ ~overtaken
  BY DEF Wait, Xfer, XferDone
<1>1. Off /\ Sound(desc, hw, sizes, filled, reported, pc, call, idx)
  BY <1>0 DEF UartInv
<1>2. /\ live /\ live' = live /\ UNCHANGED <<desc, call, sizes, reported>>
  BY <1>1 DEF Off, Wait, Xfer, XferDone
<1>3. Off'
  BY <1>2 DEF Off
<1>4. CASE Wait
  <2>1. pc = "wait" /\ idx' = 0 /\ pc' = "xfer" /\ hw' = hw /\ filled' = filled
    BY <1>4 DEF Wait
  <2>2. Sound(desc, hw, sizes, filled, reported, "xfer", call, 0)
    BY <1>1, <2>1, BeginFact
  <2> QED
    BY <1>2, <1>3, <2>1, <2>2
<1>5. CASE Xfer
  <2>1. pc = "xfer" /\ idx' = idx /\ filled' = filled
    BY <1>5 DEF Xfer
  <2>2. CASE pc' = "xfer_wait" /\ hw' = [hw EXCEPT ![call.dir] =
                                  Submit(@, Chunk("block", call.op, idx,
                                                  Bytes(call.size - idx)))]
    <3>1. Sound(desc, [hw EXCEPT ![call.dir] = Submit(@, Chunk("block", call.op, idx,
                                                               Bytes(call.size - idx)))],
                sizes, filled, reported, "xfer_wait", call, idx)
      BY <1>1, <2>1, XferFact, Zenon
    <3> QED
      BY <1>2, <1>3, <2>1, <2>2, <3>1, Zenon
  <2>3. CASE pc' = "idle" /\ hw' = hw
    BY <1>1, <1>2, <1>3, <2>1, <2>3, QuietFact
  <2> QED
    BY <1>5, <2>2, <2>3, Zenon DEF Xfer, Fail
<1>6. CASE XferDone
  <2>1. /\ pc = "xfer_wait" /\ hw[call.dir] # <<>> /\ Head(hw[call.dir]).owner = "block"
        /\ hw' = [hw EXCEPT ![call.dir] = Tail(@)]
        /\ filled' = MovedIn(filled, hw[call.dir])
        /\ idx' = idx + Head(hw[call.dir]).len
        /\ pc' \in {"idle", "xfer"}
    BY <1>6, Zenon DEF XferDone, Moved, MovedIn
  <2>2. Sound(desc, hw', sizes, filled', reported, pc', call, idx')
    BY <1>1, <2>1, XferDoneFact, Zenon
  <2> QED
    BY <1>2, <1>3, <2>2
<1> QED
  BY <1>4, <1>5, <1>6

\* Steps that no transfer can see.
LEMMA OtherStep ==
    ASSUME UartInv,
           \/ \E on \in BOOLEAN : SetCallback(on)
           \/ GetErrors \/ ClearErrors \/ ErrorEvent
           \/ UNCHANGED vars
    PROVE  UartInv'
<1>1. CASE ErrorEvent
  BY <1>1 DEF ErrorEvent, UartInv
<1>2. CASE (\E on \in BOOLEAN : SetCallback(on)) \/ UNCHANGED vars
  <2>1. UNCHANGED <<faulty, overtaken, live, desc, hw, sizes, filled, reported, pc, call, idx>>
    BY <1>2 DEF SetCallback, vars, app
  <2> QED
    BY <2>1 DEF UartInv, Off
<1>3. CASE GetErrors \/ ClearErrors
  <2> SUFFICES ASSUME ~faulty, ~overtaken
               PROVE  Off' /\ Sound(desc, hw, sizes, filled, reported, pc, call, idx)'
    BY <1>3 DEF UartInv, GetErrors, ClearErrors
  <2>1. Off /\ Sound(desc, hw, sizes, filled, reported, pc, call, idx)
    BY DEF UartInv
  <2>2. /\ pc \in {"idle", "clear_errors"} /\ pc' \in {"idle", "clear_errors"}
        /\ live /\ live' = live /\ UNCHANGED <<desc, hw, sizes, filled, reported, call, idx>>
    BY <1>3, <2>1 DEF GetErrors, ClearErrors, Off
  <2>3. Sound(desc, hw, sizes, filled, reported, pc', call, idx)
    BY <2>1, <2>2, QuietFact
  <2> QED
    BY <2>2, <2>3 DEF Off
<1> QED
  BY <1>1, <1>2, <1>3

-----------------------------------------------------------------------------
(* The theorems.                                                           *)

\* The descriptors, the calls and the buffers with the ADI driver agree, whatever the
\* interrupt preempts, until the line or the DMA reports an error or a callback starts a
\* transfer in the direction a nonblocking call is about to claim.
THEOREM UartInvariance == Spec => []UartInv
<1>1. Init => UartInv
  BY UartInitInv
<1>2. UartInv /\ [Next]_vars => UartInv'
  <2> SUFFICES ASSUME UartInv, [Next]_vars PROVE UartInv'
    OBVIOUS
  <2>1. ASSUME NEW d \in Dirs, NEW n \in Sizes, NbCall(d, n) \/ Call(d, n) PROVE UartInv'
    <3>1. d \in Both /\ n \in Nat
      BY UartAssumption DEF Both
    <3> QED
      BY <2>1, <3>1, CallStep
  <2>2. ASSUME NEW d \in Dirs, Processed(d) PROVE UartInv'
    <3>1. d \in Both
      BY UartAssumption DEF Both
    <3> QED
      BY <2>2, <3>1, ProcessedStep
  <2>3. CASE Main
    BY <2>3, ClaimStep, NbStep, BlockStep, OtherStep, Zenon DEF Main
  <2> QED
    BY <2>1, <2>2, <2>3, LifetimeStep, OtherStep, Zenon DEF Next
<1> QED
  BY <1>1, <1>2, PTL DEF Spec

\* The chunks uart_callback and the blocking calls hand to the ADI driver continue
\* their transfer and stay in its buffer, for every size and every MAX_BYTES, with the same
\* two exceptions.
THEOREM UartChunksInOrder == Spec => []ChunksInOrder
<1>1. UartInv => ChunksInOrder
  <2> SUFFICES ASSUME UartInv, ~faulty, ~overtaken, NEW d \in Dirs, hw[d] # <<>>
               PROVE  /\ Head(hw[d]).from = filled[Head(hw[d]).op]
                      /\ Head(hw[d]).from + Head(hw[d]).len <= sizes[Head(hw[d]).op]
    BY DEF ChunksInOrder
  <2>1. /\ Types(desc, hw, sizes, filled, reported, pc, call, idx)
        /\ Active(desc, sizes, reported, pc, call)
        /\ CallState(desc, filled, pc, call, idx)
        /\ Queued(desc, hw, sizes, filled, pc, call, idx)
    BY DEF UartInv, Sound
  <2>2. d \in Both /\ hw[d] \in Seq(Chunks) /\ desc[d] \in OpDesc
    BY <2>1, UartAssumption DEF Types, Both
  <2>3. 1 \in 1..Len(hw[d]) /\ Head(hw[d]) = hw[d][1] /\ hw[d][1] \in Chunks
    BY <2>2, TailFact
  <2>4. CASE hw[d][1].owner = "nb"
    <3>1. NbChunk(desc, sizes, filled, pc, call, d, hw[d][1])
      BY <2>1, <2>2, <2>3, <2>4 DEF Queued
    <3>2. desc[d].buff \in Nat /\ desc[d].pending \in Nat
      BY <2>2 DEF OpDesc
    <3> QED
      BY <2>3, <3>1, <3>2, SMTT(30) DEF NbChunk
  <2>5. CASE hw[d][1].owner = "block"
    <3>1. BlockChunk(pc, call, idx, d, hw[d][1])
      BY <2>1, <2>2, <2>3, <2>5 DEF Queued
    <3>2. /\ idx \in Nat /\ call.size \in Nat /\ idx <= call.size /\ idx = filled[call.op]
          /\ sizes[call.op] = call.size
      BY <2>1, <3>1 DEF Types, CallState, Active, BlockChunk, WaitSteps, BlockSteps
    <3>3. Bytes(call.size - idx) \in Nat /\ Bytes(call.size - idx) <= call.size - idx
      BY <3>2, BytesFact, SMTT(30)
    <3> QED
      BY <2>3, <3>1, <3>2, <3>3, SMTT(30) DEF BlockChunk
  <2> QED
    BY <2>3, <2>4, <2>5 DEF Chunks
<1> QED
  BY <1>1, UartInvariance, PTL

\* With those two exceptions, the application's callback hears of a transfer only once all
\* of it has moved.
THEOREM UartDoneMeansAll == Spec => []DoneMeansAll
<1>1. UartInv => DoneMeansAll
  BY DEF UartInv, Sound, Bookkept, DoneMeansAll
<1> QED
  BY <1>1, UartInvariance, PTL
=============================================================================
