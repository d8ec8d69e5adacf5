--------------------------- MODULE AxiDmacProofs ---------------------------
(***************************************************************************)
(* Proofs about AxiDmac for every transfer limit, every queue depth and    *)
(* every set of buffers: the controller is given no byte that was not      *)
(* asked for unless the handler rewrote a big_transfer half written, and a *)
(* small blocking transfer that succeeded has moved.                       *)
(***************************************************************************)
EXTENDS AxiDmac, TLAPS

-----------------------------------------------------------------------------
(* The inductive invariant.                                                *)

\* Only the last call may be larger than one transfer of the controller: the bound the
\* specification puts on LastSizes.  A big transfer that is left unfinished keeps
\* big_transfer.size set, and no later call clears it.
SmallFirst == \A s \in Sizes : s - 1 <= Max

Segments == [address : Nat, length : Nat, id : Nat, cyclic : BOOLEAN]
NbSteps == {"nb_check", "nb_program"}
BigStores == {"address", "size", "size_done"}
RegStores == {"length", "flags", "submit"}
WaitSteps == {"wait_queued", "read_pending", "read_flag", "wait_id"}

DmacTypeOK ==
    /\ isr \in BOOLEAN /\ enabled \in BOOLEAN /\ start \in BOOLEAN
    /\ reg \in [address : Nat, length : Nat, cyclic : BOOLEAN]
    /\ queue \in Seq(Segments) /\ next_id \in Nat
    /\ big \in [address : Nat, size : Nat, size_done : Nat]
    /\ transfer_done \in BOOLEAN
    /\ pc \in NbSteps \cup BigStores \cup RegStores \cup WaitSteps
              \cup {"idle", "reset", "program", "wait_flag"}
    /\ req \in [kind : {"none", "block", "cyclic", "nonblock"}, address : Nat, size : Nat]
    /\ ret \in {"none", "SUCCESS", "FAILURE"}
    /\ calls \in 0..MaxCalls /\ raced \in BOOLEAN

\* The call in progress: its bytes are asked for, and it is the last if it is big.
Calling ==
    /\ Range(req.address, req.size) \subseteq asked
    /\ pc # "idle" => req.size # 0
    /\ IsBig => calls = MaxCalls
    /\ raced \/ pc \in BigStores => IsBig
    /\ pc \in NbSteps => req.kind = "nonblock"

\* What the handler goes by: nothing until the caller has stored the size; once all is
\* stored, the address trails the bytes done by one segment and never passes the end of
\* the transfer.
BigState ==
    /\ ~IsBig \/ pc \in NbSteps \cup {"reset", "program", "address"} => big = NoTransfer
    /\ pc = "size" => big.size = 0 /\ big.size_done = 0
    /\ big.size # 0 => big.size = req.size - 1 /\ big.size_done <= big.size
    /\ ~raced /\ pc \in HalfWritten => big.address = req.address /\ big.size_done = 0
    /\ ~raced /\ big.size # 0 /\ pc # "size_done" =>
          /\ Max <= big.size_done
          /\ big.address = req.address + big.size_done - Max

\* Between the address and the start bit: the registers are the caller's own, or the
\* handler has moved the address of a big transfer to a place where Max bytes still fit.
Programming ==
    /\ pc \in {"program", "nb_program"} => ~start
    /\ ~raced /\ pc \in BigStores => ~start /\ reg.address = req.address
    /\ ~raced /\ pc \in RegStores =>
          /\ req.address <= reg.address
          /\ reg.address <= req.address + IF IsBig THEN req.size - 1 - Max ELSE 0
    /\ ~raced /\ pc \in {"flags", "submit"} =>
          reg.length <= IF IsBig THEN Max ELSE req.size - 1

\* A small blocking transfer is the first the controller accepts after its reset, and
\* the only one.
Mine(t) == t.address = req.address /\ t.length = req.size - 1 /\ ~t.cyclic

NotAccepted ==
    /\ next_id = 0 /\ queue = <<>> /\ done = {}
    /\ start => Mine(reg)

Accepted ==
    /\ ~start
    /\ \/ Len(queue) = 1 /\ queue[1].id = 0 /\ Mine(queue[1]) /\ done = {}
       \/ queue = <<>> /\ Range(req.address, req.size) \subseteq moved

OwnTransfer ==
    req.kind = "block" /\ ~IsBig =>
       /\ pc = "program" \/ pc \in RegStores => NotAccepted /\ ~start
       /\ pc \in RegStores \/ pc \in WaitSteps => id = 0
       /\ pc \in {"flags", "submit"} => reg.length = req.size - 1
       /\ pc = "submit" => ~reg.cyclic
       /\ pc \in WaitSteps => NotAccepted \/ Accepted
       /\ pc # "idle" => ret = "none"
       /\ pc # "wait_flag"
       /\ ret = "SUCCESS" => Range(req.address, req.size) \subseteq moved

DmacInv ==
    /\ DmacTypeOK
    /\ Calling
    /\ BigState
    /\ Programming
    /\ DmaInRange
    /\ OwnTransfer

-----------------------------------------------------------------------------
(* Byte ranges and the queue.                                              *)

\* A range that starts no earlier and ends no later lies inside.
LEMMA RangeInside ==
    ASSUME NEW a \in Nat, NEW n \in Nat, NEW b \in Nat, NEW m \in Nat,
           b <= a, a + n <= b + m
    PROVE  Range(a, n) \subseteq Range(b, m)
BY DEF Range

\* No bytes, no range.
LEMMA RangeEmpty ==
    ASSUME NEW a \in Nat
    PROVE  Range(a, 0) = {}
BY DEF Range

\* The controller's queue after a transfer is accepted.
LEMMA QueueAppend ==
    ASSUME NEW q \in Seq(Segments), NEW t \in Segments
    PROVE  /\ Append(q, t) \in Seq(Segments)
           /\ Len(Append(q, t)) = Len(q) + 1
           /\ \A k \in 1..Len(q) : Append(q, t)[k] = q[k]
           /\ Append(q, t)[Len(q) + 1] = t
OBVIOUS

\* The controller's queue after its oldest transfer is finished.
LEMMA QueueTail ==
    ASSUME NEW q \in Seq(Segments), q # <<>>
    PROVE  /\ Head(q) \in Segments /\ Head(q) = q[1] /\ Len(q) >= 1
           /\ Tail(q) \in Seq(Segments)
           /\ Len(Tail(q)) = Len(q) - 1
           /\ \A k \in 1..Len(q) - 1 : Tail(q)[k] = q[k + 1]
OBVIOUS

-----------------------------------------------------------------------------
(* The controller.                                                         *)

\* A transfer enters the queue as the registers hold it.
LEMMA AcceptStep ==
    ASSUME DmacInv, HwAccept
    PROVE  DmacInv'
<1> DEFINE t == [address |-> reg.address, length |-> reg.length,
                 id |-> next_id, cyclic |-> reg.cyclic]
<1>1. t \in Segments /\ queue \in Seq(Segments) /\ start /\ queue' = Append(queue, t)
  BY DEF DmacInv, DmacTypeOK, HwAccept, Segments
<1>2. /\ queue' \in Seq(Segments)
      /\ Len(queue') = Len(queue) + 1
      /\ \A k \in 1..Len(queue) : queue'[k] = queue[k]
      /\ queue'[Len(queue) + 1] = t
  <2> HIDE DEF t
  <2> QED
    BY <1>1, QueueAppend
<1>3. DmacTypeOK'
  <2>1. next_id' \in Nat
    BY DEF DmacInv, DmacTypeOK, HwAccept
  <2>2. start' \in BOOLEAN
    BY DEF HwAccept
  <2> QED
    BY <1>2, <2>1, <2>2 DEF DmacInv, DmacTypeOK, HwAccept, sw
<1>4. Calling' /\ BigState' /\ Programming'
  BY DEF DmacInv, HwAccept, sw, Calling, BigState, Programming, IsBig
<1>5. DmaInRange'
  <2> SUFFICES ASSUME ~raced, NEW k \in 1..Len(queue')
               PROVE  Range(queue'[k].address, queue'[k].length + 1) \subseteq asked
    BY DEF DmaInRange, HwAccept, sw
  <2>0. /\ Range(reg.address, reg.length + 1) \subseteq asked
        /\ \A j \in 1..Len(queue) :
             Range(queue[j].address, queue[j].length + 1) \subseteq asked
    BY <1>1 DEF DmacInv, DmaInRange
  <2>1. CASE k \in 1..Len(queue)
    BY <1>2, <2>0, <2>1
  <2>2. CASE k = Len(queue) + 1
    BY <1>1, <1>2, <2>0, <2>2
  <2> QED
    BY <1>1, <1>2, <2>1, <2>2
<1>6. OwnTransfer'
  <2>1. NotAccepted => Accepted'
    <3> SUFFICES ASSUME NotAccepted PROVE Accepted'
      OBVIOUS
    <3>1. Len(queue) = 0 /\ Mine(reg) /\ next_id = 0 /\ done = {}
      BY <1>1 DEF NotAccepted
    <3>2. Len(queue') = 1 /\ queue'[1] = t
      BY <1>2, <3>1
    <3>3. req' = req /\ ~start' /\ done' = {}
      BY <3>1 DEF HwAccept, sw
    <3> QED
      BY <3>1, <3>2, <3>3 DEF Accepted, Mine
  <2>2. ~Accepted
    BY <1>1 DEF Accepted
  <2> QED
    BY <1>1, <2>1, <2>2 DEF DmacInv, OwnTransfer, HwAccept, sw, IsBig
<1> QED
  BY <1>3, <1>4, <1>5, <1>6 DEF DmacInv

\* The oldest transfer has moved its bytes.
LEMMA CompleteStep ==
    ASSUME DmacInv, HwComplete
    PROVE  DmacInv'
<1>1. /\ queue \in Seq(Segments) /\ queue # <<>>
      /\ Head(queue) \in Segments /\ Head(queue) = queue[1] /\ Len(queue) >= 1
      /\ Tail(queue) \in Seq(Segments)
      /\ Len(Tail(queue)) = Len(queue) - 1
      /\ \A k \in 1..Len(queue) - 1 : Tail(queue)[k] = queue[k + 1]
  BY QueueTail DEF DmacInv, DmacTypeOK, HwComplete
<1>2. /\ moved' = moved \cup Range(queue[1].address, queue[1].length + 1)
      /\ queue[1].cyclic => queue' = queue
      /\ ~queue[1].cyclic => queue' = Tail(queue)
  BY <1>1 DEF HwComplete
<1>3. DmacTypeOK'
  <2>1. queue' \in Seq(Segments)
    BY <1>1, <1>2
  <2> QED
    BY <2>1 DEF DmacInv, DmacTypeOK, HwComplete, sw
<1>4. Calling' /\ BigState' /\ Programming'
  BY DEF DmacInv, HwComplete, sw, Calling, BigState, Programming, IsBig
<1>5. DmaInRange'
  <2> SUFFICES ASSUME ~raced PROVE DmaInRange'
    BY DEF DmaInRange, HwComplete
  <2>1. start' = start /\ reg' = reg /\ asked' = asked /\ raced' = raced
    BY DEF HwComplete, sw
  <2>2. CASE queue' = queue
    BY <2>1, <2>2 DEF DmacInv, DmaInRange
  <2>3. CASE queue' = Tail(queue)
    <3>0. \A j \in 1..Len(queue) :
            Range(queue[j].address, queue[j].length + 1) \subseteq asked
      BY DEF DmacInv, DmaInRange
    <3> SUFFICES ASSUME NEW k \in 1..Len(queue) - 1
                 PROVE  Range(queue[k + 1].address, queue[k + 1].length + 1) \subseteq asked
      BY <1>1, <2>1, <2>3 DEF DmacInv, DmaInRange
    <3>1. k + 1 \in 1..Len(queue)
      BY <1>1
    <3> QED
      BY <3>0, <3>1
  <2> QED
    BY <1>2, <2>2, <2>3
<1>6. OwnTransfer'
  <2>1. pc' = pc /\ req' = req /\ ret' = ret /\ id' = id /\ start' = start
        /\ reg' = reg /\ moved \subseteq moved'
    BY <1>2 DEF HwComplete, sw
  <2>2. ~NotAccepted
    BY <1>1 DEF NotAccepted
  <2>3. Accepted => Accepted'
    <3> SUFFICES ASSUME Accepted PROVE Accepted'
      OBVIOUS
    <3>1. ~start /\ Len(queue) = 1 /\ Mine(queue[1])
      BY <1>1 DEF Accepted
    <3>2. queue' = <<>>
      BY <1>1, <1>2, <3>1 DEF Mine
    <3>3. Range(req.address, req.size) \subseteq moved'
      <4>1. queue[1].length + 1 = req.size /\ queue[1].address = req.address
        BY <3>1 DEF Mine, DmacInv, DmacTypeOK
      <4> QED
        BY <1>2, <4>1
    <3> QED
      BY <2>1, <3>1, <3>2, <3>3 DEF Accepted
  <2> QED
    BY <2>1, <2>2, <2>3 DEF DmacInv, OwnTransfer, IsBig
<1> QED
  BY <1>3, <1>4, <1>5, <1>6 DEF DmacInv

-----------------------------------------------------------------------------
(* The interrupt handler.                                                  *)

\* The segment axi_dmac_default_isr adds ends no later than the bytes it counts as done.
LEMMA SegmentFact ==
    ASSUME DmacInv, Isr, "SOT" \in pend, big.size # 0
    PROVE  \E burst \in 0..Max :
              /\ big.size_done + burst <= big.size
              /\ big.size_done < big.size => burst > 0
              /\ reg' = [address |-> big.address + burst, length |-> burst,
                         cyclic |-> reg.cyclic]
              /\ start' = TRUE
              /\ big' \in {NoTransfer, [address   |-> big.address + burst,
                                        size      |-> big.size,
                                        size_done |-> big.size_done + burst]}
<1> DEFINE remaining == big.size - big.size_done
           burst     == IF remaining <= Max THEN remaining ELSE Max
<1>1. big.size \in Nat /\ big.size_done \in Nat /\ big.size_done <= big.size
  BY DEF DmacInv, DmacTypeOK, BigState
<1>2. /\ burst \in 0..Max /\ big.size_done + burst <= big.size
      /\ big.size_done < big.size => burst > 0
  BY <1>1, DmacAssumption
<1>3. /\ reg' = [address |-> big.address + burst, length |-> burst,
                 cyclic |-> reg.cyclic]
      /\ start' = TRUE
      /\ big' \in {NoTransfer, [address   |-> big.address + burst,
                                size      |-> big.size,
                                size_done |-> big.size_done + burst]}
  BY DEF Isr
<1> QED
  BY <1>2, <1>3

\* Without a big transfer the handler only clears the interrupts.
LEMMA NoSegmentFact ==
    ASSUME DmacInv, Isr, ~("SOT" \in pend /\ big.size # 0)
    PROVE  reg' = reg /\ start' = start /\ big' \in {NoTransfer, big}
BY DEF Isr, DmacInv, DmacTypeOK

\* The handler keeps to the transfer it was given.
LEMMA IsrStep ==
    ASSUME DmacInv, Isr
    PROVE  DmacInv'
<1>1. /\ pc' = pc /\ req' = req /\ calls' = calls /\ asked' = asked /\ ret' = ret
      /\ id' = id /\ queue' = queue /\ next_id' = next_id /\ done' = done
      /\ moved' = moved /\ isr' = isr /\ enabled' = enabled
  BY DEF Isr, sw
<1>2. /\ transfer_done' \in BOOLEAN /\ raced' \in BOOLEAN
      /\ raced => raced'
      /\ ~raced' /\ pc \in HalfWritten => big' = big
  BY DEF Isr, DmacInv, DmacTypeOK
<1>3. /\ NoTransfer \in [address : Nat, size : Nat, size_done : Nat]
      /\ NoTransfer.address = 0 /\ NoTransfer.size = 0 /\ NoTransfer.size_done = 0
  BY DEF NoTransfer
<1>0. raced' => raced \/ pc \in BigStores
  BY DEF Isr, HalfWritten, BigStores
<1>4. CASE "SOT" \in pend /\ big.size # 0
  <2>1. PICK burst \in 0..Max :
              /\ big.size_done + burst <= big.size
              /\ big.size_done < big.size => burst > 0
              /\ reg' = [address |-> big.address + burst, length |-> burst,
                         cyclic |-> reg.cyclic]
              /\ start' = TRUE
              /\ big' \in {NoTransfer, [address   |-> big.address + burst,
                                        size      |-> big.size,
                                        size_done |-> big.size_done + burst]}
    BY <1>4, SegmentFact
  <2>2. /\ big.address \in Nat /\ big.size \in Nat /\ big.size_done \in Nat
        /\ req.address \in Nat /\ req.size \in Nat /\ Max \in Nat /\ burst \in Nat
        /\ reg.cyclic \in BOOLEAN
    BY <2>1, DmacAssumption DEF DmacInv, DmacTypeOK
  <2>3. /\ IsBig
        /\ pc \notin NbSteps \cup {"reset", "program", "address", "size"}
        /\ big.size = req.size - 1
    BY <1>3, <1>4 DEF DmacInv, BigState
  <2>4. ~raced' => /\ pc # "size_done"
                   /\ Max <= big.size_done
                   /\ big.address = req.address + big.size_done - Max
    <3> SUFFICES ASSUME ~raced' PROVE pc # "size_done"
      BY <1>2, <1>4 DEF DmacInv, BigState
    <3>1. CASE pc = "size_done"
      <4>1. big' = big /\ big.size_done = 0 /\ big.size > 0
        BY <1>2, <1>4, <2>2, <3>1 DEF DmacInv, BigState, HalfWritten
      <4>2. big' # NoTransfer
        BY <1>3, <4>1, <2>2
      <4>3. big'.size_done = big.size_done + burst /\ burst > 0
        BY <2>1, <2>2, <4>1, <4>2
      <4> QED
        BY <2>2, <4>1, <4>3
    <3> QED
      BY <3>1
  <2>5. DmacTypeOK'
    <3>1. big' \in [address : Nat, size : Nat, size_done : Nat]
      BY <1>3, <2>1, <2>2
    <3>2. reg' \in [address : Nat, length : Nat, cyclic : BOOLEAN] /\ start' \in BOOLEAN
      BY <2>1, <2>2
    <3> QED
      BY <1>1, <1>2, <3>1, <3>2 DEF DmacInv, DmacTypeOK
  <2>6. Calling'
    BY <1>0, <1>1 DEF DmacInv, Calling, IsBig
  <2>7. BigState'
    <3>1. big'.size # 0 => /\ big'.address = big.address + burst
                           /\ big'.size = big.size
                           /\ big'.size_done = big.size_done + burst
      BY <1>3, <2>1, <2>2
    <3>2. IsBig' /\ pc' \notin NbSteps \cup {"reset", "program", "address", "size"}
      BY <1>1, <2>3 DEF IsBig
    <3>3. ~raced' => pc' \notin HalfWritten
      BY <1>1, <2>4, <3>2 DEF HalfWritten
    <3>4. big'.size # 0 => big'.size = req'.size - 1 /\ big'.size_done <= big'.size
      BY <1>1, <2>1, <2>2, <2>3, <3>1
    <3>5. ~raced' /\ big'.size # 0 => /\ Max <= big'.size_done
                                     /\ big'.address = req'.address + big'.size_done - Max
      BY <1>1, <2>1, <2>2, <2>4, <3>1
    <3> QED
      BY <3>2, <3>3, <3>4, <3>5 DEF BigState
  <2>8. Programming'
    <3>1. pc' \notin {"program", "nb_program"}
      BY <1>1, <2>3 DEF NbSteps
    <3>2. ~raced' => pc' \notin BigStores
      BY <1>1, <2>3, <2>4 DEF BigStores
    <3>3. ~raced' => /\ req'.address <= reg'.address
                     /\ reg'.address <= req'.address + (req'.size - 1 - Max)
                     /\ reg'.length <= Max
      BY <1>1, <2>1, <2>2, <2>3, <2>4
    <3>4. IsBig'
      BY <1>1, <2>3 DEF IsBig
    <3> QED
      BY <3>1, <3>2, <3>3, <3>4 DEF Programming
  <2>9. DmaInRange'
    <3> SUFFICES ASSUME ~raced' PROVE DmaInRange'
      BY DEF DmaInRange
    <3>1. Range(reg'.address, reg'.length + 1) \subseteq Range(req.address, req.size)
      <4>1. /\ reg'.address = big.address + burst /\ reg'.length + 1 = burst + 1
            /\ reg'.address \in Nat /\ burst + 1 \in Nat
            /\ req.address <= reg'.address
            /\ reg'.address + (burst + 1) <= req.address + req.size
        BY <2>1, <2>2, <2>3, <2>4
      <4> QED
        BY <2>2, <4>1, RangeInside, SMTT(30)
    <3>2. ~raced
      BY <1>2
    <3> QED
      BY <1>1, <3>1, <3>2 DEF DmacInv, DmaInRange, Calling
  <2>10. OwnTransfer'
    BY <1>1, <2>3 DEF OwnTransfer, IsBig
  <2> QED
    BY <2>5, <2>6, <2>7, <2>8, <2>9, <2>10 DEF DmacInv
<1>5. CASE ~("SOT" \in pend /\ big.size # 0)
  <2>1. reg' = reg /\ start' = start /\ big' \in {NoTransfer, big}
    BY <1>5, NoSegmentFact
  <2>2. DmacTypeOK'
    BY <1>1, <1>2, <1>3, <2>1 DEF DmacInv, DmacTypeOK
  <2>3. Calling' /\ Programming'
    BY <1>0, <1>1, <1>2, <2>1 DEF DmacInv, Calling, Programming, IsBig
  <2>6. BigState'
    BY <1>1, <1>2, <1>3, <2>1 DEF DmacInv, BigState, IsBig
  <2>4. DmaInRange'
    BY <1>1, <1>2, <2>1 DEF DmacInv, DmaInRange
  <2>5. OwnTransfer'
    BY <1>1, <2>1 DEF DmacInv, OwnTransfer, NotAccepted, Accepted, Mine, IsBig
  <2> QED
    BY <2>2, <2>3, <2>4, <2>5, <2>6 DEF DmacInv
<1> QED
  BY <1>4, <1>5

-----------------------------------------------------------------------------
(* The application's calls.                                                *)

\* A call asks for its bytes; only the last may be big.
LEMMA CallStep ==
    ASSUME DmacInv, NEW kind \in Kinds, NEW address \in Addresses, NEW size \in Nat,
           size - 1 > Max => calls = MaxCalls - 1,
           Call(kind, address, size)
    PROVE  DmacInv'
<1> USE DmacAssumption
<1>1. /\ req' = [kind |-> kind, address |-> address, size |-> size]
      /\ pc = "idle" /\ calls < MaxCalls /\ calls' = calls + 1
      /\ kind \in {"block", "cyclic", "nonblock"} /\ address \in Nat
      /\ req'.kind = kind /\ req'.address = address /\ req'.size = size
  BY DEF Call
<1>2. /\ big' = big /\ reg' = reg /\ start' = start /\ queue' = queue /\ isr' = isr
      /\ enabled' = enabled /\ next_id' = next_id /\ transfer_done' = transfer_done
      /\ moved' = moved /\ raced' = raced
  BY DEF Call, hw
<1>3. \/ size = 0 /\ ret' = "SUCCESS" /\ pc' = "idle" /\ asked' = asked
      \/ /\ size # 0 /\ ret' = "none"
         /\ pc' = IF kind = "nonblock" THEN "nb_check" ELSE "reset"
         /\ asked' = asked \cup Range(address, size)
  BY <1>1 DEF Call
<1>4. big = NoTransfer /\ ~raced
  <2>1. ~IsBig
    BY <1>1 DEF DmacInv, Calling, DmacTypeOK
  <2> QED
    BY <2>1 DEF DmacInv, BigState, Calling
<1>5. asked \subseteq asked' /\ Range(req'.address, req'.size) \subseteq asked'
  BY <1>1, <1>3, RangeEmpty
<1>6. DmacTypeOK'
  <2>1. req' \in [kind : {"none", "block", "cyclic", "nonblock"}, address : Nat, size : Nat]
    BY <1>1
  <2>2. calls' \in 0..MaxCalls
    BY <1>1 DEF DmacInv, DmacTypeOK
  <2>3. /\ pc' \in {"idle", "nb_check", "reset"}
        /\ ret' \in {"none", "SUCCESS", "FAILURE"}
    BY <1>3
  <2> QED
    BY <1>2, <2>1, <2>2, <2>3 DEF DmacInv, DmacTypeOK, NbSteps, WaitSteps
<1>7. Calling'
  <2>1. IsBig' => calls' = MaxCalls
    BY <1>1 DEF IsBig, DmacInv, DmacTypeOK
  <2>2. ~raced' /\ pc' \notin BigStores
    BY <1>2, <1>3, <1>4 DEF BigStores
  <2> QED
    BY <1>1, <1>3, <1>5, <2>1, <2>2 DEF Calling, NbSteps
<1>8. BigState' /\ Programming'
  <2>1. pc' \notin BigStores \cup RegStores \cup HalfWritten \cup {"program", "nb_program"}
    BY <1>3 DEF BigStores, RegStores, HalfWritten
  <2>2. big' = NoTransfer /\ NoTransfer.size = 0
    BY <1>2, <1>4 DEF NoTransfer
  <2>3. pc' # "size" /\ pc' \notin {"flags", "submit"}
    BY <1>3
  <2> QED
    BY <2>1, <2>2, <2>3 DEF BigState, Programming
<1>9. DmaInRange'
  BY <1>2, <1>5 DEF DmacInv, DmaInRange
<1>10. OwnTransfer'
  <2>1. ret' = "SUCCESS" => Range(req'.address, req'.size) = {}
    BY <1>1, <1>3, RangeEmpty
  <2>2. pc' \notin {"program", "flags", "submit"} \cup RegStores \cup WaitSteps
    BY <1>3 DEF WaitSteps, RegStores
  <2> QED
    BY <1>3, <2>1, <2>2 DEF OwnTransfer
<1> QED
  BY <1>6, <1>7, <1>8, <1>9, <1>10 DEF DmacInv

\* axi_dmac_transfer resets the controller.
LEMMA ResetStep ==
    ASSUME DmacInv, Reset
    PROVE  DmacInv'
<1>1. /\ pc = "reset" /\ pc' = "program" /\ enabled' = TRUE /\ start' = FALSE
      /\ queue' = <<>> /\ next_id' = 0 /\ done' = {} /\ moved' = {}
      /\ UNCHANGED <<isr, reg, big, transfer_done, req, id, ret, calls, asked, raced>>
  BY DEF Reset
<1>2. DmacTypeOK'
  <2>1. enabled' \in BOOLEAN /\ start' \in BOOLEAN
    BY <1>1, Zenon
  <2>2. queue' \in Seq(Segments) /\ next_id' \in Nat
    BY <1>1
  <2> QED
    BY <1>1, <2>1, <2>2 DEF DmacInv, DmacTypeOK
<1>3. Calling' /\ BigState' /\ Programming'
  <2>1. big = NoTransfer /\ NoTransfer.size = 0
    BY <1>1 DEF DmacInv, BigState, NoTransfer
  <2>2. pc' \notin BigStores \cup RegStores \cup HalfWritten \cup NbSteps
    BY <1>1 DEF BigStores, RegStores, HalfWritten, NbSteps
  <2>3. pc' \notin {"flags", "submit", "size"}
    BY <1>1
  <2> QED
    BY <1>1, <2>1, <2>2, <2>3 DEF DmacInv, Calling, BigState, Programming, IsBig
<1>4. DmaInRange'
  BY <1>1 DEF DmaInRange
<1>5. OwnTransfer'
  BY <1>1 DEF DmacInv, OwnTransfer, NotAccepted, Mine, IsBig, WaitSteps, RegStores
<1> QED
  BY <1>2, <1>3, <1>4, <1>5 DEF DmacInv

\* Both calls set the address register while nothing is submitted.
LEMMA ProgramStep ==
    ASSUME DmacInv, Program \/ NbProgram
    PROVE  DmacInv'
<1>1. /\ pc \in {"program", "nb_program"}
      /\ SetAddress
      /\ UNCHANGED <<isr, enabled, start, queue, next_id, done, big, transfer_done, req, ret,
                     calls, moved, asked, raced>>
  BY DEF Program, NbProgram
<1>2. pc = "program" => id' = next_id
  BY DEF Program, NbProgram
<1>3. /\ reg' \in [address : Nat, length : Nat, cyclic : BOOLEAN]
      /\ reg'.address = req.address
      /\ pc' = IF IsBig THEN "address" ELSE "length"
  BY <1>1 DEF SetAddress, DmacInv, DmacTypeOK
<1>4. req.address \in Nat /\ req.size \in Nat /\ Max \in Nat
  BY DmacAssumption DEF DmacInv, DmacTypeOK
<1>5. /\ big = NoTransfer /\ NoTransfer.size = 0 /\ ~start
      /\ pc' \in {"address", "length"} /\ (pc' \in BigStores => IsBig)
      /\ pc' \notin HalfWritten \cup NbSteps
  BY <1>1, <1>3
     DEF DmacInv, BigState, Programming, NoTransfer, BigStores, HalfWritten, NbSteps
<1>6. DmacTypeOK'
  BY <1>1, <1>3, <1>5 DEF DmacInv, DmacTypeOK, BigStores, RegStores
<1>7. Calling'
  BY <1>1, <1>5 DEF DmacInv, Calling, IsBig
<1>8. BigState'
  BY <1>1, <1>5 DEF BigState, IsBig
<1>9. Programming'
  BY <1>1, <1>3, <1>4, <1>5 DEF Programming, IsBig
<1>10. DmaInRange'
  BY <1>1, <1>5 DEF DmacInv, DmaInRange
<1>11. OwnTransfer'
  <2>1. req.kind = "block" => pc = "program"
    BY <1>1 DEF DmacInv, Calling, NbSteps
  <2> QED
    BY <1>1, <1>2, <1>5, <2>1
       DEF DmacInv, OwnTransfer, NotAccepted, Mine, IsBig, WaitSteps
<1> QED
  BY <1>6, <1>7, <1>8, <1>9, <1>10, <1>11 DEF DmacInv

\* The stores of big_transfer: the handler goes by it from the second one.
LEMMA BigStoreStep ==
    ASSUME DmacInv, SetBigAddress \/ SetBigSize \/ SetSizeDone
    PROVE  DmacInv'
<1>1. /\ UNCHANGED <<isr, enabled, reg, start, queue, next_id, done, transfer_done, req,
                     id, ret, calls, moved, asked, raced>>
      /\ \/ pc = "address" /\ pc' = "size" /\ big' = [big EXCEPT !.address = req.address]
         \/ pc = "size" /\ pc' = "size_done" /\ big' = [big EXCEPT !.size = req.size - 1]
         \/ pc = "size_done" /\ pc' = "length" /\ big' = [big EXCEPT !.size_done = Max]
  BY DEF SetBigAddress, SetBigSize, SetSizeDone, SetBig, hw
<1>2. /\ req.address \in Nat /\ req.size \in Nat /\ Max \in Nat /\ raced \in BOOLEAN
      /\ big \in [address : Nat, size : Nat, size_done : Nat]
      /\ IsBig /\ Max < req.size - 1 /\ req.size - 1 \in Nat
  <2>1. IsBig
    BY <1>1 DEF DmacInv, Calling, BigStores
  <2> QED
    BY <2>1, DmacAssumption DEF DmacInv, DmacTypeOK, IsBig
<1>3. big' \in [address : Nat, size : Nat, size_done : Nat]
  BY <1>1, <1>2
<1>4. pc' \in {"size", "size_done", "length"} /\ pc' \notin NbSteps \cup {"reset", "program", "address"}
  BY <1>1 DEF NbSteps
<1>5. DmacTypeOK'
  BY <1>1, <1>3, <1>4 DEF DmacInv, DmacTypeOK, BigStores, RegStores
<1>6. Calling'
  BY <1>1, <1>2, <1>4 DEF DmacInv, Calling, IsBig
<1>7. BigState'
  <2>1. CASE pc = "address"
    <3>1. big'.address = req.address /\ big'.size = 0 /\ big'.size_done = 0 /\ pc' = "size"
      BY <1>1, <2>1 DEF DmacInv, BigState, NoTransfer
    <3> QED
      BY <1>1, <1>2, <1>4, <3>1 DEF BigState, IsBig
  <2>2. CASE pc = "size"
    <3>1. /\ big'.address = big.address /\ big'.size = req.size - 1 /\ big'.size_done = 0
          /\ pc' = "size_done"
      BY <1>1, <1>2, <2>2 DEF DmacInv, BigState
    <3>2. ~raced => big'.address = req.address
      BY <2>2, <3>1 DEF DmacInv, BigState, HalfWritten
    <3> QED
      BY <1>1, <1>2, <1>4, <3>1, <3>2 DEF BigState, IsBig
  <2>3. CASE pc = "size_done"
    <3>1. /\ big'.address = big.address /\ big'.size = big.size /\ big'.size_done = Max
          /\ pc' = "length"
      BY <1>1, <1>2, <2>3
    <3>2. ~raced => big.address = req.address
      BY <2>3 DEF DmacInv, BigState, HalfWritten
    <3>3. big.size # 0 => big.size = req.size - 1
      BY DEF DmacInv, BigState
    <3> QED
      BY <1>1, <1>2, <1>4, <3>1, <3>2, <3>3 DEF BigState, IsBig, HalfWritten
  <2> QED
    BY <1>1, <2>1, <2>2, <2>3
<1>8. Programming'
  BY <1>1, <1>2, <1>4 DEF DmacInv, Programming, IsBig, BigStores, RegStores
<1>9. DmaInRange' /\ OwnTransfer'
  BY <1>1, <1>2 DEF DmacInv, DmaInRange, OwnTransfer, IsBig
<1> QED
  BY <1>5, <1>6, <1>7, <1>8, <1>9 DEF DmacInv

\* The length and the flags: with the address they end inside the bytes asked for, also
\* where the handler has already submitted the next segment.
LEMMA RegStoreStep ==
    ASSUME DmacInv, SetLength \/ SetFlags
    PROVE  DmacInv'
<1> DEFINE n == IF IsBig THEN Max ELSE req.size - 1
           c == req.kind = "cyclic"
<1>1. /\ UNCHANGED <<isr, enabled, start, queue, next_id, done, big, transfer_done, req, id,
                     ret, calls, moved, asked, raced>>
      /\ \/ pc = "length" /\ pc' = "flags" /\ reg' = [reg EXCEPT !.length = n]
         \/ pc = "flags" /\ pc' = "submit" /\ reg' = [reg EXCEPT !.cyclic = c]
  BY Zenon DEF SetLength, SetFlags, SetReg
<1>2. /\ reg \in [address : Nat, length : Nat, cyclic : BOOLEAN]
      /\ req.address \in Nat /\ req.size \in Nat /\ Max \in Nat /\ req.size # 0
  BY <1>1, DmacAssumption DEF DmacInv, DmacTypeOK, Calling
<1>3. n \in Nat /\ c \in BOOLEAN
  <2>1. n \in Nat
    BY <1>2
  <2>2. c \in BOOLEAN
    BY Zenon
  <2> QED
    BY <2>1, <2>2, Zenon
<1>4. /\ reg' \in [address : Nat, length : Nat, cyclic : BOOLEAN]
      /\ reg'.address = reg.address
      /\ pc = "length" => reg'.length = n
      /\ pc = "flags" => reg'.length = reg.length /\ reg'.cyclic = c
  <2> HIDE DEF n, c
  <2> QED
    BY <1>1, <1>2, <1>3
<1>5. /\ pc' \in {"flags", "submit"} /\ pc' \in RegStores /\ pc \in RegStores
      /\ pc' \notin NbSteps \cup BigStores \cup HalfWritten \cup WaitSteps
      /\ pc' \notin {"reset", "program", "address", "size", "nb_program", "wait_flag"}
      /\ pc \notin {"reset", "program", "address", "size", "size_done"}
  BY <1>1 DEF RegStores, NbSteps, BigStores, HalfWritten, WaitSteps
<1>6. DmacTypeOK'
  BY <1>1, <1>4, <1>5 DEF DmacInv, DmacTypeOK
<1>7. Calling'
  BY <1>1, <1>5 DEF DmacInv, Calling, IsBig
<1>8. BigState'
  BY <1>1, <1>5 DEF DmacInv, BigState, IsBig
<1>9. ~raced => /\ req.address <= reg'.address
                /\ reg'.address <= req.address + IF IsBig THEN req.size - 1 - Max ELSE 0
                /\ reg'.length <= n
  BY <1>1, <1>2, <1>4, <1>5 DEF DmacInv, Programming
<1>10. Programming'
  BY <1>1, <1>5, <1>9 DEF Programming, IsBig
<1>11. DmaInRange'
  <2> SUFFICES ASSUME ~raced PROVE DmaInRange'
    BY <1>1 DEF DmaInRange
  <2>1. /\ reg'.address \in Nat /\ reg'.length + 1 \in Nat
        /\ reg'.address + (reg'.length + 1) <= req.address + req.size
        /\ req.address <= reg'.address
    BY <1>2, <1>4, <1>9 DEF IsBig
  <2>2. Range(reg'.address, reg'.length + 1) \subseteq Range(req.address, req.size)
    BY <1>2, <2>1, RangeInside, SMTT(30)
  <2> QED
    BY <1>1, <2>2 DEF DmacInv, DmaInRange, Calling
<1>12. OwnTransfer'
  <2> SUFFICES ASSUME req.kind = "block", ~IsBig
               PROVE  OwnTransfer'
    BY <1>1 DEF OwnTransfer, IsBig
  <2>1. NotAccepted /\ ~start /\ id = 0 /\ ret = "none"
    BY <1>5 DEF DmacInv, OwnTransfer, RegStores
  <2>2. NotAccepted'
    BY <1>1, <2>1 DEF NotAccepted
  <2>3. reg'.length = req.size - 1
    BY <1>1, <1>4 DEF DmacInv, OwnTransfer
  <2>4. pc' = "submit" => ~reg'.cyclic
    BY <1>1, <1>4
  <2> QED
    BY <1>1, <1>5, <2>1, <2>2, <2>3, <2>4 DEF OwnTransfer
<1> QED
  BY <1>6, <1>7, <1>8, <1>10, <1>11, <1>12 DEF DmacInv

\* Both calls submit what the registers hold.
LEMMA SubmitStep ==
    ASSUME DmacInv, Start \/ NbStart
    PROVE  DmacInv'
<1>1. /\ pc = "submit" /\ start' = TRUE
      /\ UNCHANGED <<isr, enabled, reg, queue, next_id, done, big, transfer_done, req, id,
                     calls, moved, asked, raced>>
      /\ req.kind # "nonblock" =>
            /\ pc' = IF IsBig THEN "wait_flag"
                     ELSE IF req.kind = "cyclic" THEN "idle" ELSE "wait_queued"
            /\ ret' = IF pc' = "idle" THEN "SUCCESS" ELSE ret
      /\ req.kind = "nonblock" => pc' = "idle" /\ ret' = "SUCCESS"
  BY DEF Start, NbStart
<1>2. /\ reg \in [address : Nat, length : Nat, cyclic : BOOLEAN]
      /\ req.address \in Nat /\ req.size \in Nat /\ Max \in Nat /\ req.size # 0
  BY <1>1, DmacAssumption DEF DmacInv, DmacTypeOK, Calling
<1>3. /\ pc' \in {"wait_flag", "idle", "wait_queued"}
      /\ ret' \in {"none", "SUCCESS", "FAILURE"}
  BY <1>1 DEF DmacInv, DmacTypeOK
<1>4. /\ pc' \notin NbSteps \cup BigStores \cup RegStores \cup HalfWritten
      /\ pc' \notin {"reset", "program", "nb_program", "address", "size", "flags", "submit"}
      /\ pc \in RegStores /\ pc # "size_done"
  BY <1>1, <1>3 DEF RegStores, NbSteps, BigStores, HalfWritten
<1>5. DmacTypeOK'
  BY <1>1, <1>3 DEF DmacInv, DmacTypeOK, WaitSteps
<1>6. Calling'
  BY <1>1, <1>4 DEF DmacInv, Calling, IsBig
<1>7. BigState'
  BY <1>1, <1>4 DEF DmacInv, BigState, IsBig
<1>8. Programming'
  BY <1>1, <1>4 DEF Programming
<1>9. DmaInRange'
  <2> SUFFICES ASSUME ~raced PROVE DmaInRange'
    BY <1>1 DEF DmaInRange
  <2>1. /\ req.address <= reg.address
        /\ reg.address <= req.address + IF IsBig THEN req.size - 1 - Max ELSE 0
        /\ reg.length <= IF IsBig THEN Max ELSE req.size - 1
    BY <1>1, <1>4 DEF DmacInv, Programming
  <2>2. /\ reg.address \in Nat /\ reg.length + 1 \in Nat
        /\ reg.address + (reg.length + 1) <= req.address + req.size
    BY <1>2, <2>1 DEF IsBig
  <2>3. Range(reg.address, reg.length + 1) \subseteq Range(req.address, req.size)
    BY <1>2, <2>1, <2>2, RangeInside, SMTT(30)
  <2> QED
    BY <1>1, <2>3 DEF DmacInv, DmaInRange, Calling
<1>10. OwnTransfer'
  <2> SUFFICES ASSUME req.kind = "block", ~IsBig
               PROVE  /\ pc' = "wait_queued" /\ ret' = "none" /\ id' = 0 /\ NotAccepted'
    BY <1>1, <1>4 DEF OwnTransfer, IsBig, WaitSteps
  <2>1. /\ NotAccepted /\ id = 0 /\ ret = "none"
        /\ reg.length = req.size - 1 /\ ~reg.cyclic
    BY <1>1, <1>4 DEF DmacInv, OwnTransfer
  <2>2. reg.address = req.address
    BY <1>2, <1>4 DEF DmacInv, Programming, Calling
  <2> QED
    BY <1>1, <2>1, <2>2 DEF NotAccepted, Mine
<1> QED
  BY <1>5, <1>6, <1>7, <1>8, <1>9, <1>10 DEF DmacInv

\* The rest of a call looks at the controller and returns.
LEMMA WaitStep ==
    ASSUME DmacInv,
           WaitFlag \/ WaitQueued \/ ReadPending \/ ReadFlag \/ WaitId \/ NbCheck
    PROVE  DmacInv'
<1>1. /\ UNCHANGED <<isr, reg, start, queue, next_id, done, transfer_done, req, id, calls,
                     moved, asked, raced>>
      /\ big' \in {big, NoTransfer}
      /\ enabled' \in {enabled, TRUE}
      /\ ret' \in {ret, "SUCCESS", "FAILURE"}
      /\ \/ pc \in WaitSteps /\ pc' \in WaitSteps /\ ret' = ret
         \/ pc = "wait_id" /\ pc' = "idle" /\ id \in done
         \/ pc = "wait_flag" /\ pc' \in {"wait_flag", "idle"}
         \/ pc = "nb_check" /\ pc' \in {"idle", "nb_program"}
      /\ pc' = "nb_program" => ~start
  <2>1. CASE WaitFlag
    BY <2>1 DEF WaitFlag, hw
  <2>2. CASE WaitQueued
    BY <2>2 DEF WaitQueued, WaitSteps, hw
  <2>3. CASE ReadPending
    BY <2>3 DEF ReadPending, WaitSteps, hw
  <2>4. CASE ReadFlag
    BY <2>4 DEF ReadFlag, WaitSteps
  <2>5. CASE WaitId
    BY <2>5 DEF WaitId, hw
  <2>6. CASE NbCheck
    BY <2>6 DEF NbCheck
  <2> QED
    BY <2>1, <2>2, <2>3, <2>4, <2>5, <2>6
<1>2. DmacTypeOK'
  <2>1. NoTransfer \in [address : Nat, size : Nat, size_done : Nat]
    BY DEF NoTransfer
  <2>2. big' \in [address : Nat, size : Nat, size_done : Nat]
    BY <1>1, <2>1 DEF DmacInv, DmacTypeOK
  <2>3. enabled' \in BOOLEAN
    BY <1>1, Zenon DEF DmacInv, DmacTypeOK
  <2>4. ret' \in {"none", "SUCCESS", "FAILURE"}
    BY <1>1 DEF DmacInv, DmacTypeOK
  <2>5. pc' \in NbSteps \cup WaitSteps \cup {"idle", "wait_flag"}
    BY <1>1 DEF NbSteps
  <2> QED
    BY <1>1, <2>2, <2>3, <2>4, <2>5 DEF DmacInv, DmacTypeOK
<1>0. /\ pc \notin BigStores \cup RegStores \cup HalfWritten
      /\ pc' \notin BigStores \cup RegStores \cup HalfWritten
      /\ pc' \notin {"reset", "program", "address", "size", "flags", "submit", "nb_check"}
  BY <1>1 DEF WaitSteps, BigStores, RegStores, HalfWritten
<1>3. Calling'
  BY <1>0, <1>1 DEF DmacInv, Calling, IsBig, NbSteps, WaitSteps
<1>4. BigState'
  <2>1. NoTransfer.size = 0
    BY DEF NoTransfer
  <2>2. pc' \in NbSteps => pc \in NbSteps
    BY <1>1 DEF NbSteps, WaitSteps
  <2> QED
    BY <1>0, <1>1, <2>1, <2>2 DEF DmacInv, BigState, IsBig, HalfWritten
<1>5. Programming'
  BY <1>0, <1>1 DEF Programming
<1>6. DmaInRange'
  BY <1>1 DEF DmacInv, DmaInRange
<1>7. OwnTransfer'
  <2> SUFFICES ASSUME req.kind = "block", ~IsBig
               PROVE  OwnTransfer'
    BY <1>1 DEF OwnTransfer, IsBig
  <2>1. ASSUME pc \in WaitSteps, pc' \in WaitSteps, ret' = ret
        PROVE  OwnTransfer'
    BY <1>0, <1>1, <2>1
       DEF DmacInv, OwnTransfer, NotAccepted, Accepted, Mine, IsBig, WaitSteps
  <2>2. ASSUME pc = "wait_id", pc' = "idle", id \in done
        PROVE  OwnTransfer'
    <3>1. (NotAccepted \/ Accepted) /\ done # {}
      BY <2>2 DEF DmacInv, OwnTransfer, WaitSteps
    <3>2. Range(req.address, req.size) \subseteq moved
      BY <3>1 DEF NotAccepted, Accepted
    <3> QED
      BY <1>0, <1>1, <2>2, <3>2 DEF OwnTransfer, WaitSteps
  <2>3. pc # "nb_check"
    BY DEF DmacInv, Calling, NbSteps
  <2>4. pc # "wait_flag"
    BY DEF DmacInv, OwnTransfer
  <2> QED
    BY <1>1, <2>1, <2>2, <2>3, <2>4
<1> QED
  BY <1>2, <1>3, <1>4, <1>5, <1>6, <1>7 DEF DmacInv

-----------------------------------------------------------------------------
(* The theorems.                                                           *)

\* axi_dmac_init leaves nothing submitted and no big transfer.
LEMMA DmacInit == Init => DmacInv
<1> SUFFICES ASSUME Init PROVE DmacInv
  OBVIOUS
<1> USE DmacAssumption
<1>1. DmacTypeOK
  <2>1. isr \in BOOLEAN /\ enabled \in BOOLEAN /\ start \in BOOLEAN
        /\ transfer_done \in BOOLEAN
    BY Zenon DEF Init
  <2>2. reg \in [address : Nat, length : Nat, cyclic : BOOLEAN]
    BY DEF Init
  <2>3. /\ queue \in Seq(Segments) /\ next_id \in Nat /\ calls \in 0..MaxCalls
        /\ big \in [address : Nat, size : Nat, size_done : Nat]
        /\ req \in [kind : {"none", "block", "cyclic", "nonblock"}, address : Nat,
                    size : Nat]
        /\ ret \in {"none", "SUCCESS", "FAILURE"} /\ pc = "idle" /\ raced = FALSE
    BY DEF Init, NoTransfer
  <2> QED
    BY <2>1, <2>2, <2>3 DEF DmacTypeOK
<1>2. Calling
  <2>1. Range(req.address, req.size) = {} /\ ~IsBig /\ pc = "idle" /\ ~raced
    BY RangeEmpty DEF Init, IsBig
  <2> QED
    BY <2>1 DEF Calling, NbSteps, BigStores
<1>3. BigState /\ Programming /\ DmaInRange
  <2>1. /\ pc = "idle" /\ big = NoTransfer /\ NoTransfer.size = 0
        /\ ~start /\ queue = <<>>
    BY DEF Init, NoTransfer
  <2> QED
    BY <2>1 DEF BigState, Programming, DmaInRange, BigStores, RegStores, HalfWritten
<1>4. OwnTransfer
  BY DEF Init, OwnTransfer, WaitSteps, RegStores
<1> QED
  BY <1>1, <1>2, <1>3, <1>4 DEF DmacInv

\* Every step of the caller, the handler and the controller preserves the invariant.
LEMMA DmacNext ==
    ASSUME SmallFirst, DmacInv, [Next]_vars
    PROVE  DmacInv'
<1>1. ASSUME NEW kind \in Kinds, NEW address \in Addresses, NEW size \in Sizes,
             Call(kind, address, size)
      PROVE  DmacInv'
  <2>1. size \in Nat /\ ~(size - 1 > Max)
    BY DmacAssumption DEF SmallFirst
  <2> QED
    BY <1>1, <2>1, CallStep
<1>2. ASSUME NEW kind \in Kinds, NEW address \in Addresses, NEW size \in LastSizes,
             calls = MaxCalls - 1, Call(kind, address, size)
      PROVE  DmacInv'
  <2>1. size \in Nat
    BY DmacAssumption
  <2> QED
    BY <1>2, <2>1, CallStep
<1>3. CASE Driver
  BY <1>3, ResetStep, ProgramStep, BigStoreStep, RegStoreStep, SubmitStep, WaitStep, Zenon
     DEF Driver
<1>4. CASE Isr \/ HwAccept \/ HwComplete
  BY <1>4, IsrStep, AcceptStep, CompleteStep, Zenon
<1>5. CASE UNCHANGED vars
  <2>1. DmacTypeOK' /\ Calling' /\ BigState' /\ Programming' /\ DmaInRange'
    BY <1>5 DEF vars, hw, sw, DmacInv, DmacTypeOK, Calling, BigState, Programming,
                DmaInRange, IsBig
  <2>2. OwnTransfer'
    BY <1>5 DEF vars, hw, sw, DmacInv, OwnTransfer, NotAccepted, Accepted, Mine, IsBig
  <2> QED
    BY <2>1, <2>2 DEF DmacInv
<1> QED
  BY <1>1, <1>2, <1>3, <1>4, <1>5, Zenon DEF Next

\* As long as only the last call is larger than one transfer of the controller, the
\* registers, the queue and the handler's state stay within the call they serve.
THEOREM DmacInvariance ==
    ASSUME SmallFirst
    PROVE  Spec => []DmacInv
<1>1. Init => DmacInv
  BY DmacInit
<1>2. DmacInv /\ [Next]_vars => DmacInv'
  BY DmacNext
<1> QED
  BY <1>1, <1>2, PTL DEF Spec

\* axi_dmac_transfer, axi_dmac_transfer_nonblocking and the handler's segments make the
\* controller move no byte outside the buffers callers passed, however deep it queues and
\* wherever the handler preempts, but for a handler that rewrites big_transfer between
\* the caller's stores of its address and its size_done: no other interleaving breaks it.
THEOREM DmacStaysInRange ==
    ASSUME SmallFirst
    PROVE  Spec => []DmaInRange
<1>1. DmacInv => DmaInRange
  BY DEF DmacInv
<1> QED
  BY <1>1, DmacInvariance, PTL

\* axi_dmac_transfer returns SUCCESS for a transfer of one segment only after all its
\* bytes moved, with or without the handler installed and with any transfer_done.
THEOREM DmacSmallReturn ==
    ASSUME SmallFirst
    PROVE  Spec => []SmallReturnMeansMoved
<1>1. DmacInv => SmallReturnMeansMoved
  BY DEF DmacInv, OwnTransfer, SmallReturnMeansMoved, ReturnMeansMoved
<1> QED
  BY <1>1, DmacInvariance, PTL
=============================================================================
