------------------------ MODULE CircularBufferProofs ------------------------
(***************************************************************************)
(* Proofs about CircularBuffer for every buffer size, every width of the   *)
(* spin counters and every bound: a producer that keeps within the size of *)
(* the buffer gets an exact size, an intact region and in-order delivery;  *)
(* with any producer, regions stay inside the buffer, the size is never    *)
(* overstated and an overrun is never a false alarm.                       *)
(*                                                                         *)
(* At the end, the same for the single loads and stores of                 *)
(* CircularBufferThreads: whatever view of the write pointer the reader    *)
(* tears, its region lies in the buffer, and until a wrapping commit       *)
(* overlaps a prepare it is handed the next unread bytes.                  *)
(***************************************************************************)
EXTENDS CircularBuffer, TLAPS

-----------------------------------------------------------------------------
(* Arithmetic of the spin counters and of the two pointer updates.         *)

\* The increment of a spin counter wraps exactly at its last value.
LEMMA SpinIncrement ==
    ASSUME NEW s \in 0..SpinMod-1
    PROVE  /\ (s + 1) % SpinMod = IF s = SpinMod - 1 THEN 0 ELSE s + 1
           /\ (s + 1) % SpinMod \in 0..SpinMod-1
           /\ (s + 1) % SpinMod # s
BY SpinModAssumption

\* Opening a transaction keeps the pointer and stays inside the buffer.
LEMMA OpenedFacts ==
    ASSUME NEW p \in Ptr, NEW r \in Nat
    PROVE  /\ Opened(p, r) \in Ptr
           /\ Opened(p, r).idx = p.idx
           /\ Opened(p, r).spin_count = p.spin_count
           /\ Opened(p, r).async_started = TRUE
           /\ Opened(p, r).async_size <= r
           /\ p.idx + Opened(p, r).async_size <= Size
<1> DEFINE m == min(r, Size - p.idx)
<1>1. m \in 0..Size /\ m <= r /\ p.idx + m <= Size
  BY SizeAssumption DEF Ptr, min
<1>2. Opened(p, r) = [idx |-> p.idx, spin_count |-> p.spin_count,
                      async_started |-> TRUE, async_size |-> m]
  BY DEF Opened
<1> HIDE DEF m
<1> QED
  BY <1>1, <1>2 DEF Ptr

\* Closing a transaction advances the pointer, wrapping at most once.
LEMMA ClosedFacts ==
    ASSUME NEW p \in Ptr, p.idx + p.async_size <= Size
    PROVE  /\ Closed(p) \in Ptr
           /\ Closed(p).async_started = FALSE
           /\ Closed(p).async_size = 0
           /\ Closed(p).idx + Closed(p).async_size <= Size
           /\ \/ /\ p.idx + p.async_size < Size
                 /\ Closed(p).idx = p.idx + p.async_size
                 /\ Closed(p).spin_count = p.spin_count
              \/ /\ p.idx + p.async_size = Size
                 /\ Closed(p).idx = 0
                 /\ Closed(p).spin_count = (p.spin_count + 1) % SpinMod
<1>1. Size % Size = 0
  BY SizeAssumption
<1>2. (p.spin_count + 1) % SpinMod \in 0..SpinMod-1
  BY SpinIncrement DEF Ptr
<1> QED
  BY <1>1, <1>2, SizeAssumption DEF Closed, Ptr

\* The pointers' distance makes cb_size exact.
LEMMA DistanceIsSize ==
    ASSUME TypeOK, Distance, Room
    PROVE  SizeExact
<1>1. write.spin_count \in 0..SpinMod-1 /\ read.spin_count \in 0..SpinMod-1
      /\ write.idx \in 0..Size-1 /\ read.idx \in 0..Size-1
  BY DEF TypeOK, Ptr
<1>2. sent - taken \in 0..Size
  <2>1. sent \in Nat /\ taken \in Int /\ wleft \in Nat /\ write.async_size \in Nat
    BY SizeAssumption DEF TypeOK, Ptr
  <2> QED
    BY <2>1, SizeAssumption DEF Room, Promised
<1>3. CASE /\ write.spin_count = read.spin_count
           /\ sent - taken = write.idx - read.idx
  <2>1. nb_spins = 0
    <3>1. SpinMod - 1 - read.spin_count + write.spin_count + 1 = SpinMod
      BY <1>1, <1>3, SpinModAssumption
    <3>2. SpinMod % SpinMod = 0
      BY SpinModAssumption
    <3> QED
      BY <1>1, <1>3, <3>1, <3>2 DEF nb_spins
  <2> QED
    BY <1>1, <1>2, <1>3, <2>1, SizeAssumption DEF SizeExact, Overrun, cb_size, RawSize
<1>4. CASE /\ write.spin_count = (read.spin_count + 1) % SpinMod
           /\ sent - taken = Size + write.idx - read.idx
  <2>1. nb_spins > 0
    <3>1. CASE read.spin_count # SpinMod - 1
      BY <1>1, <1>4, <3>1, SpinIncrement DEF nb_spins
    <3>2. CASE read.spin_count = SpinMod - 1
      <4>1. write.spin_count = 0
        BY <1>1, <1>4, <3>2, SpinIncrement
      <4>2. SpinMod - 1 - read.spin_count + write.spin_count + 1 = 1
        BY <1>1, <3>2, <4>1, SpinModAssumption
      <4>3. 1 % SpinMod = 1
        BY SpinModAssumption
      <4> QED
        BY <1>1, <3>2, <4>1, <4>2, <4>3, SpinModAssumption DEF nb_spins
    <3> QED
      BY <3>1, <3>2
  <2> QED
    BY <1>1, <1>2, <1>4, <2>1, SizeAssumption DEF SizeExact, Overrun, cb_size, RawSize
<1> QED
  BY <1>3, <1>4 DEF Distance
-----------------------------------------------------------------------------
(* The inductive invariant.                                                *)

\* The freshly initialised buffer satisfies the invariant.
LEMMA InitFlowInv == Init => FlowInv
<1> SUFFICES ASSUME Init PROVE FlowInv
  OBVIOUS
<1>1. write = NewPtr /\ read = NewPtr /\ NewPtr \in Ptr
  BY SizeAssumption, SpinModAssumption DEF Init, NewPtr, Ptr
<1>2. TypeOK
  <2>1. alive \in BOOLEAN /\ sticky \in BOOLEAN
    BY Zenon DEF Init
  <2>2. wret \in Result /\ rret \in Result
    BY DEF Init, Result
  <2>3. buff \in [0..Size-1 -> Int]
    BY DEF Init
  <2>4. filled \in 0..Size /\ copied \in 0..Size /\ wleft \in 0..MaxReq
        /\ rleft \in 0..MaxReq /\ sent \in Nat /\ taken \in Int /\ got \in Int
    BY SizeAssumption, BoundsAssumption DEF Init
  <2>5. wpc \in {"idle", "spin", "copy"} /\ rpc \in {"idle", "spin", "copy"}
    BY DEF Init
  <2> QED
    BY <1>1, <2>1, <2>2, <2>3, <2>4, <2>5, Zenon DEF TypeOK
<1>3. RegionInBuffer /\ Distance /\ Room /\ Transactions /\ Delivered
  BY <1>1, SizeAssumption
     DEF Init, NewPtr, RegionInBuffer, Distance, Room, Promised, Transactions, Delivered
<1>4. Contents
  BY <1>1, SizeAssumption DEF Init, NewPtr, Contents, Held
<1> QED
  BY <1>2, <1>3, <1>4 DEF FlowInv

\* The invariant depends on the library's state and the history only.
LEMMA StutterFlowInv ==
    ASSUME FlowInv, UNCHANGED vars
    PROVE  FlowInv'
BY DEF FlowInv, vars, TypeOK, RegionInBuffer, Distance, Room, Promised,
       Transactions, Contents, Held, Delivered

\* The numbers the invariant is about, with their types.
Typed ==
    /\ write \in Ptr /\ read \in Ptr
    /\ write.idx \in 0..Size-1 /\ read.idx \in 0..Size-1
    /\ write.async_size \in 0..Size /\ read.async_size \in 0..Size
    /\ write.spin_count \in 0..SpinMod-1 /\ read.spin_count \in 0..SpinMod-1
    /\ filled \in 0..Size /\ copied \in 0..Size
    /\ wleft \in Nat /\ rleft \in Nat
    /\ sent \in Nat /\ taken \in Int /\ got \in Int
    /\ Size \in Nat /\ SpinMod \in Nat
    /\ sent - taken + write.async_size <= Size

\* They follow from the invariant.
LEMMA Numbers ==
    ASSUME FlowInv
    PROVE  Typed
<1>1. TypeOK
  BY DEF FlowInv
<1>2. /\ write \in Ptr /\ read \in Ptr
      /\ write.idx \in 0..Size-1 /\ read.idx \in 0..Size-1
      /\ write.async_size \in 0..Size /\ read.async_size \in 0..Size
      /\ write.spin_count \in 0..SpinMod-1 /\ read.spin_count \in 0..SpinMod-1
  BY <1>1 DEF TypeOK, Ptr
<1>3. /\ filled \in 0..Size /\ copied \in 0..Size
      /\ wleft \in Nat /\ rleft \in Nat
      /\ sent \in Nat /\ taken \in Int /\ got \in Int
      /\ Size \in Nat /\ SpinMod \in Nat
  BY <1>1, SizeAssumption, SpinModAssumption DEF TypeOK
<1>4. sent - taken + write.async_size <= Size
  BY <1>2, <1>3 DEF FlowInv, Room, Transactions, Promised
<1> QED
  BY <1>2, <1>3, <1>4 DEF Typed

\* The invariant gives the exact size.
LEMMA FlowSize ==
    ASSUME FlowInv
    PROVE  SizeExact
BY DistanceIsSize DEF FlowInv

\* The invariant gives the intact region.
LEMMA FlowRegion ==
    ASSUME FlowInv
    PROVE  ReadRegionIntact
<1> SUFFICES ASSUME NEW j \in 0..read.async_size - 1
             PROVE  buff[read.idx + j] = taken + j
  BY DEF ReadRegionIntact
<1>0. Typed
  BY Numbers
<1> USE <1>0 DEF Typed
<1>1. read.idx + j \in 0..Size-1
  BY DEF FlowInv, RegionInBuffer
<1>2. buff[read.idx + j] = Held(read.idx + j)
  BY <1>1 DEF FlowInv, Contents
<1>3. filled <= write.async_size /\ j < sent - taken /\ taken >= 0
  BY DEF FlowInv, Transactions, Room
<1>4. CASE sent - taken = write.idx - read.idx
  <2>1. read.idx + j < write.idx + filled
    BY <1>3, <1>4
  <2>2. sent - write.idx + (read.idx + j) = taken + j
    BY <1>4
  <2> QED
    BY <1>2, <2>1, <2>2 DEF Held
<1>5. CASE sent - taken = Size + write.idx - read.idx
  <2>1. ~(read.idx + j < write.idx + filled)
    BY <1>3, <1>5
  <2>2. sent - write.idx + (read.idx + j) = taken + j + Size
    BY <1>5
  <2> QED
    BY <1>2, <1>3, <2>1, <2>2 DEF Held
<1> QED
  BY <1>4, <1>5 DEF FlowInv, Distance

-----------------------------------------------------------------------------
(* The four pointer updates, each shared by a blocking and an asynchronous *)
(* call, and the two byte transfers.                                       *)

Pointers == RegionInBuffer /\ Distance /\ Contents /\ Delivered

\* Opening a write transaction.
LEMMA OpenWriteStep ==
    ASSUME FlowInv, NEW n \in Nat, ~write.async_started,
           write' = Opened(write, n), filled' = 0,
           UNCHANGED <<read, buff, copied, sent, taken, got>>
    PROVE  /\ Pointers'
           /\ write' \in Ptr /\ write'.async_started
           /\ write'.idx = write.idx
           /\ write'.async_size <= n
<1>0. Typed
  BY Numbers
<1> USE <1>0 DEF Typed
<1>1. /\ write' \in Ptr /\ write'.async_started
      /\ write'.idx = write.idx /\ write'.spin_count = write.spin_count
      /\ write'.async_size <= n
      /\ write'.idx + write'.async_size <= Size
  BY OpenedFacts
<1>2. filled = 0
  BY DEF FlowInv, Transactions
<1>3. RegionInBuffer' /\ Distance'
  BY <1>1 DEF FlowInv, RegionInBuffer, Distance
<1>4. Contents' /\ Delivered'
  BY <1>1, <1>2 DEF FlowInv, Contents, Held, Delivered
<1> QED
  BY <1>1, <1>3, <1>4 DEF Pointers

\* Committing a write transaction.
LEMMA CloseWriteStep ==
    ASSUME FlowInv, write.async_started, filled = write.async_size,
           write' = Closed(write), filled' = 0,
           sent' = sent + write.async_size,
           UNCHANGED <<read, buff, copied, taken, got>>
    PROVE  /\ Pointers'
           /\ write' \in Ptr /\ ~write'.async_started /\ write'.async_size = 0
           /\ write'.idx <= sent'
<1>0. Typed
  BY Numbers
<1> USE <1>0 DEF Typed
<1>1. /\ write.idx + write.async_size <= Size
      /\ write.idx <= sent
  BY DEF FlowInv, RegionInBuffer, Room
<1>2. /\ write' \in Ptr /\ ~write'.async_started /\ write'.async_size = 0
      /\ \/ /\ write.idx + write.async_size < Size
            /\ write'.idx = write.idx + write.async_size
            /\ write'.spin_count = write.spin_count
         \/ /\ write.idx + write.async_size = Size
            /\ write'.idx = 0
            /\ write'.spin_count = (write.spin_count + 1) % SpinMod
  BY <1>1, ClosedFacts
<1>3. RegionInBuffer' /\ Delivered' /\ write'.idx <= sent'
  BY <1>1, <1>2 DEF FlowInv, RegionInBuffer, Delivered
<1>4. Distance'
  BY <1>1, <1>2, SMTT(30) DEF FlowInv, Distance
<1>5. Contents'
  <2> SUFFICES ASSUME NEW i \in 0..Size-1
               PROVE  buff[i] = Held(i)'
    BY DEF Contents
  <2>1. buff[i] = Held(i)
    BY DEF FlowInv, Contents
  <2> QED
    BY <1>1, <1>2, <2>1 DEF Held
<1> QED
  BY <1>2, <1>3, <1>4, <1>5 DEF Pointers

\* Opening a read transaction, or finding nothing to read.
LEMMA OpenReadStep ==
    ASSUME FlowInv, ~read.async_started, NEW n \in Nat, OpenRead(n),
           UNCHANGED <<write, buff, filled, sent, got>>
    PROVE  /\ Pointers'
           /\ read' \in Ptr /\ copied' = 0 /\ taken' = taken
           /\ rret' \in {"SUCCESS", "EAGAIN"}
           /\ read'.async_size <= sent - taken
           /\ read'.async_size <= n
           /\ IF rret' = "EAGAIN" THEN read' = read ELSE read'.async_started
<1>0. Typed
  BY Numbers
<1> USE <1>0 DEF Typed
<1> DEFINE req == min(n, sent - taken)
<1>1. ~Overrun /\ cb_size = sent - taken /\ ReadStart = read
  BY FlowSize DEF SizeExact, ReadStart
<1>2. req \in Nat /\ req <= n /\ req <= sent - taken /\ read.async_size = 0 /\ copied = 0
  BY DEF FlowInv, Room, Transactions, min
<1>3. /\ read' = IF req = 0 THEN read ELSE Opened(read, req)
      /\ rret' = IF req = 0 THEN "EAGAIN" ELSE "SUCCESS"
      /\ taken' = taken /\ copied' = 0
  BY <1>1 DEF OpenRead
<1> HIDE DEF req
<1>4. /\ read' \in Ptr /\ read'.idx = read.idx /\ read'.spin_count = read.spin_count
      /\ read'.async_size <= req
      /\ read'.idx + read'.async_size <= Size
      /\ req # 0 => read'.async_started
  <2>1. CASE req = 0
    BY <1>2, <1>3, <2>1
  <2>2. CASE req # 0
    BY <1>2, <1>3, <2>2, OpenedFacts
  <2> QED
    BY <2>1, <2>2
<1>5. RegionInBuffer' /\ Distance' /\ Delivered'
  BY <1>2, <1>3, <1>4 DEF FlowInv, RegionInBuffer, Distance, Delivered
<1>6. Contents'
  BY DEF FlowInv, Contents, Held
<1>7. /\ rret' \in {"SUCCESS", "EAGAIN"}
      /\ IF rret' = "EAGAIN" THEN read' = read ELSE read'.async_started
  BY <1>3, <1>4
<1>8. read'.async_size <= sent - taken /\ read'.async_size <= n
  <2>1. read'.async_size \in Nat
    BY <1>4 DEF Ptr
  <2> QED
    BY <1>2, <1>4, <2>1
<1> QED
  BY <1>3, <1>4, <1>5, <1>6, <1>7, <1>8 DEF Pointers

\* Releasing a read transaction.
LEMMA CloseReadStep ==
    ASSUME FlowInv, read.async_started, copied = read.async_size,
           read' = Closed(read), copied' = 0,
           taken' = taken + read.async_size,
           UNCHANGED <<write, buff, filled, sent, got>>
    PROVE  /\ Pointers'
           /\ read' \in Ptr /\ ~read'.async_started /\ read'.async_size = 0
<1>0. Typed
  BY Numbers
<1> USE <1>0 DEF Typed
<1>1. /\ read.idx + read.async_size <= Size
      /\ read.async_size <= sent - taken
  BY DEF FlowInv, RegionInBuffer, Room
<1>2. /\ read' \in Ptr /\ ~read'.async_started /\ read'.async_size = 0
      /\ \/ /\ read.idx + read.async_size < Size
            /\ read'.idx = read.idx + read.async_size
            /\ read'.spin_count = read.spin_count
         \/ /\ read.idx + read.async_size = Size
            /\ read'.idx = 0
            /\ read'.spin_count = (read.spin_count + 1) % SpinMod
  BY <1>1, ClosedFacts
<1>3. RegionInBuffer' /\ Contents' /\ Delivered'
  BY <1>1, <1>2 DEF FlowInv, RegionInBuffer, Contents, Held, Delivered
<1>4. Distance'
  BY <1>1, <1>2 DEF FlowInv, Distance
<1> QED
  BY <1>2, <1>3, <1>4 DEF Pointers

-----------------------------------------------------------------------------
(* One lemma per action.                                                   *)

\* cb_prepare_async_write keeps the invariant.
LEMMA PrepareAsyncWriteInv ==
    ASSUME FlowControl, FlowInv, NEW n \in 0..MaxReq, PrepareAsyncWrite(n)
    PROVE  FlowInv'
<1>0. Typed
  BY Numbers
<1> USE <1>0 DEF Typed
<1>1. CASE wret' = "EBUSY" /\ UNCHANGED <<write, filled>>
  <2>1. UNCHANGED <<alive, buff, write, filled, wpc, wleft, rvars, ghost>>
    BY <1>1 DEF PrepareAsyncWrite
  <2> QED
    BY <1>1, <2>1
       DEF rvars, ghost, FlowInv, TypeOK, Result, RegionInBuffer, Distance, Room,
           Promised, Transactions, Contents, Held, Delivered
<1>2. CASE ~write.async_started /\ HasRoom(n) /\ write' = Opened(write, n)
           /\ filled' = 0 /\ wret' = "SUCCESS"
  <2>1. UNCHANGED <<alive, buff, wpc, wleft, read, copied, rpc, rleft, sticky, rret,
                    sent, taken, got>>
        /\ wpc = "idle"
    BY DEF PrepareAsyncWrite, rvars, ghost
  <2>2. /\ Pointers' /\ write' \in Ptr /\ write'.async_started
        /\ write'.idx = write.idx /\ write'.async_size <= n
    BY <1>2, <2>1, OpenWriteStep
  <2>3. write'.async_size \in Nat /\ write.async_size = 0 /\ wleft = 0
    BY <1>2, <2>1, <2>2 DEF Ptr, FlowInv, Transactions
  <2>4. TypeOK'
    BY <1>2, <2>1, <2>2 DEF FlowInv, TypeOK, Result
  <2>5. Room'
    <3>1. sent - taken + n <= Size
      BY <1>2, <2>1, <2>3, BoundsAssumption DEF HasRoom, FlowControl, Promised
    <3> QED
      BY <2>1, <2>2, <2>3, <3>1 DEF FlowInv, Room, Promised
  <2>6. Transactions'
    BY <1>2, <2>1, <2>2, <2>3 DEF FlowInv, Transactions
  <2> QED
    BY <2>2, <2>4, <2>5, <2>6 DEF FlowInv, Pointers
<1> QED
  BY <1>1, <1>2 DEF PrepareAsyncWrite

\* A byte stored by the producer keeps the invariant.
LEMMA FillByteInv ==
    ASSUME FlowInv, FillByte
    PROVE  FlowInv'
<1>0. Typed
  BY Numbers
<1> USE <1>0 DEF Typed
<1>1. /\ UNCHANGED <<alive, write, wpc, wleft, wret, read, copied, rpc, rleft, sticky,
                     rret, sent, taken, got>>
      /\ filled < write.async_size /\ filled' = filled + 1
      /\ buff' = [buff EXCEPT ![write.idx + filled] = sent + filled]
  BY DEF FillByte, rvars, ghost
<1>2. write.idx + filled \in 0..Size-1
  BY <1>1 DEF FlowInv, RegionInBuffer
<1>3. buff \in [0..Size-1 -> Int]
  BY DEF FlowInv, TypeOK
<1>4. buff' \in [0..Size-1 -> Int] /\ filled' \in 0..Size
  BY <1>1, <1>2, <1>3, SMTT(30)
<1>5. TypeOK'
  BY <1>1, <1>4 DEF FlowInv, TypeOK
<1>6. Contents'
  <2> SUFFICES ASSUME NEW i \in 0..Size-1
               PROVE  buff'[i] = Held(i)'
    BY DEF Contents
  <2>1. buff[i] = Held(i)
    BY DEF FlowInv, Contents
  <2>2. CASE i = write.idx + filled
    BY <1>1, <1>2, <1>3, <2>2, SMTT(30) DEF Held
  <2>3. CASE i # write.idx + filled
    <3>1. buff'[i] = buff[i]
      BY <1>1, <1>3, <2>3
    <3> QED
      BY <1>1, <2>1, <2>3, <3>1 DEF Held
  <2> QED
    BY <2>2, <2>3
<1>7. RegionInBuffer' /\ Distance' /\ Room' /\ Transactions' /\ Delivered'
  BY <1>1 DEF FlowInv, RegionInBuffer, Distance, Room, Promised, Transactions, Delivered
<1> QED
  BY <1>5, <1>6, <1>7 DEF FlowInv

\* cb_end_async_write keeps the invariant.
LEMMA EndAsyncWriteInv ==
    ASSUME FlowInv, EndAsyncWrite
    PROVE  FlowInv'
<1>0. Typed
  BY Numbers
<1> USE <1>0 DEF Typed
<1>1. CASE wret' = "FAILURE" /\ UNCHANGED <<write, filled, sent>>
  BY <1>1
     DEF EndAsyncWrite, rvars, FlowInv, TypeOK, Result, RegionInBuffer, Distance, Room,
         Promised, Transactions, Contents, Held, Delivered
<1>2. CASE write.async_started /\ filled = write.async_size /\ write' = Closed(write)
           /\ filled' = 0 /\ sent' = sent + write.async_size /\ wret' = "SUCCESS"
  <2>1. UNCHANGED <<alive, buff, wpc, wleft, read, copied, rpc, rleft, sticky, rret,
                    taken, got>>
        /\ wpc # "copy"
    BY DEF EndAsyncWrite, rvars
  <2>2. /\ Pointers' /\ write' \in Ptr /\ ~write'.async_started
        /\ write'.async_size = 0 /\ write'.idx <= sent'
    BY <1>2, <2>1, CloseWriteStep
  <2>3. TypeOK'
    <3>1. sent' \in Nat /\ filled' \in 0..Size /\ wret' \in Result
      BY <1>2 DEF Result
    <3> QED
      BY <2>1, <2>2, <3>1, Zenon DEF FlowInv, TypeOK
  <2>4. Room'
    BY <1>2, <2>1, <2>2 DEF FlowInv, Room, Promised
  <2>5. Transactions'
    BY <1>2, <2>1, <2>2 DEF FlowInv, Transactions
  <2> QED
    BY <2>2, <2>3, <2>4, <2>5 DEF FlowInv, Pointers
<1> QED
  BY <1>1, <1>2 DEF EndAsyncWrite

\* Calling cb_write keeps the invariant.
LEMMA WriteCallInv ==
    ASSUME FlowControl, FlowInv, NEW n \in 1..MaxReq, WriteCall(n)
    PROVE  FlowInv'
<1>0. Typed
  BY Numbers
<1> USE <1>0 DEF Typed
<1>1. /\ UNCHANGED <<alive, write, buff, filled, wret, read, copied, rpc, rleft, sticky,
                     rret, sent, taken, got>>
      /\ wpc = "idle" /\ wpc' = "spin" /\ wleft' = n /\ HasRoom(n)
  BY DEF WriteCall, rvars, ghost
<1>2. TypeOK'
  BY <1>1, BoundsAssumption DEF FlowInv, TypeOK
<1>3. Room'
  <2>1. wleft = 0
    BY <1>1 DEF FlowInv, Transactions
  <2>2. sent - taken + write.async_size + n <= Size
    BY <1>1, <2>1, BoundsAssumption DEF HasRoom, FlowControl, Promised
  <2> QED
    BY <1>1, <2>1, <2>2, BoundsAssumption DEF FlowInv, Room, Promised
<1>4. RegionInBuffer' /\ Distance' /\ Transactions' /\ Contents' /\ Delivered'
  BY <1>1 DEF FlowInv, RegionInBuffer, Distance, Transactions, Contents, Held, Delivered
<1> QED
  BY <1>2, <1>3, <1>4 DEF FlowInv

\* Entering the copy loop of cb_write keeps the invariant.
LEMMA WriteLoopInv ==
    ASSUME FlowInv, WriteLoop
    PROVE  FlowInv'
<1>0. Typed
  BY Numbers
<1> USE <1>0 DEF Typed
<1>1. /\ UNCHANGED <<alive, buff, wleft, wret, read, copied, rpc, rleft, sticky, rret,
                     sent, taken, got>>
      /\ wpc = "spin" /\ ~write.async_started /\ filled' = 0 /\ wpc' = "copy"
      /\ write' = Opened(write, wleft)
  BY DEF WriteLoop, rvars, ghost
<1>2. /\ Pointers' /\ write' \in Ptr /\ write'.async_started
      /\ write'.idx = write.idx /\ write'.async_size <= wleft
  BY <1>1, OpenWriteStep
<1>3. write.async_size = 0 /\ write'.async_size \in Nat
  BY <1>1, <1>2 DEF FlowInv, Transactions, Ptr
<1>4. TypeOK'
  BY <1>1, <1>2 DEF FlowInv, TypeOK
<1>5. Room'
  BY <1>1, <1>2, <1>3 DEF FlowInv, Room, Promised
<1>6. Transactions'
  BY <1>1, <1>2, <1>3 DEF FlowInv, Transactions
<1> QED
  BY <1>2, <1>4, <1>5, <1>6 DEF FlowInv, Pointers

\* The end of a turn of cb_write keeps the invariant.
LEMMA WriteCommitInv ==
    ASSUME FlowInv, WriteCommit
    PROVE  FlowInv'
<1>0. Typed
  BY Numbers
<1> USE <1>0 DEF Typed
<1>1. /\ UNCHANGED <<alive, buff, read, copied, rpc, rleft, sticky, rret, taken, got>>
      /\ wpc = "copy" /\ filled = write.async_size /\ filled' = 0
      /\ write' = Closed(write) /\ sent' = sent + write.async_size
      /\ wleft' = wleft - write.async_size
      /\ \/ wleft' = 0 /\ wpc' = "idle" /\ wret' = "SUCCESS"
         \/ wleft' # 0 /\ wpc' = "spin" /\ wret' = wret
  BY DEF WriteCommit, rvars
<1>2. write.async_started /\ write.async_size <= wleft
  BY <1>1 DEF FlowInv, Transactions
<1>3. /\ Pointers' /\ write' \in Ptr /\ ~write'.async_started
      /\ write'.async_size = 0 /\ write'.idx <= sent'
  BY <1>1, <1>2, CloseWriteStep
<1>4. wleft \in 0..MaxReq /\ wleft' \in 0..MaxReq
  <2>1. wleft \in 0..MaxReq
    BY Zenon DEF FlowInv, TypeOK
  <2> QED
    BY <1>1, <1>2, <2>1, BoundsAssumption
<1>5. TypeOK'
  <2>1. wret \in Result
    BY Zenon DEF FlowInv, TypeOK
  <2>2. sent' \in Nat /\ filled' \in 0..Size /\ wret' \in Result
        /\ wpc' \in {"idle", "spin", "copy"}
    BY <1>1, <2>1 DEF Result
  <2> QED
    BY <1>1, <1>3, <1>4, <2>2, Zenon DEF FlowInv, TypeOK
<1>6. Room'
  BY <1>1, <1>2, <1>3, <1>4 DEF FlowInv, Room, Promised
<1>7. Transactions'
  BY <1>1, <1>3 DEF FlowInv, Transactions
<1> QED
  BY <1>3, <1>5, <1>6, <1>7 DEF FlowInv, Pointers

\* cb_prepare_async_read keeps the invariant.
LEMMA PrepareAsyncReadInv ==
    ASSUME FlowInv, NEW n \in 0..MaxReq, PrepareAsyncRead(n)
    PROVE  FlowInv'
<1>0. Typed
  BY Numbers
<1> USE <1>0 DEF Typed
<1>1. CASE rret' = "EBUSY" /\ UNCHANGED <<read, copied, taken>>
  BY <1>1
     DEF PrepareAsyncRead, wvars, FlowInv, TypeOK, Result, RegionInBuffer, Distance,
         Room, Promised, Transactions, Contents, Held, Delivered
<1>2. CASE ~read.async_started /\ OpenRead(n)
  <2>1. UNCHANGED <<alive, buff, rpc, rleft, sticky, write, filled, wpc, wleft, wret,
                    sent, got>>
        /\ rpc = "idle"
    BY DEF PrepareAsyncRead, wvars
  <2>2. /\ Pointers' /\ read' \in Ptr /\ copied' = 0 /\ taken' = taken
        /\ rret' \in {"SUCCESS", "EAGAIN"}
        /\ read'.async_size <= sent - taken
        /\ IF rret' = "EAGAIN" THEN read' = read ELSE read'.async_started
    BY <1>2, <2>1, OpenReadStep
  <2>3. TypeOK'
    <3>1. rret' \in Result /\ copied' \in 0..Size
      BY <2>2 DEF Result
    <3> QED
      BY <2>1, <2>2, <3>1, Zenon DEF FlowInv, TypeOK
  <2>4. Room'
    BY <2>1, <2>2 DEF FlowInv, Room, Promised
  <2>5. Transactions'
    BY <2>1, <2>2 DEF FlowInv, Transactions, Ptr
  <2> QED
    BY <2>2, <2>3, <2>4, <2>5 DEF FlowInv, Pointers
<1> QED
  BY <1>1, <1>2 DEF PrepareAsyncRead

\* A byte copied by the consumer keeps the invariant, and is the next of the stream.
LEMMA CopyByteInv ==
    ASSUME FlowInv, CopyByte
    PROVE  FlowInv' /\ got' = got + 1
<1>0. Typed
  BY Numbers
<1> USE <1>0 DEF Typed
<1>1. /\ UNCHANGED <<alive, buff, read, rpc, rleft, sticky, rret, write, filled, wpc,
                     wleft, wret, sent, taken>>
      /\ read.async_started /\ copied < read.async_size
      /\ got' = buff[read.idx + copied] /\ copied' = copied + 1
  BY DEF CopyByte, wvars
<1>2. got' = taken + copied
  BY <1>1, FlowRegion DEF ReadRegionIntact
<1>3. got' = got + 1
  BY <1>2 DEF FlowInv, Delivered
<1>4. TypeOK'
  <2>1. got' \in Int /\ copied' \in 0..Size
    BY <1>1, <1>3
  <2> QED
    BY <1>1, <2>1, Zenon DEF FlowInv, TypeOK
<1>5. Delivered'
  BY <1>1, <1>2 DEF Delivered
<1>6. RegionInBuffer' /\ Distance' /\ Room' /\ Transactions' /\ Contents'
  BY <1>1
     DEF FlowInv, RegionInBuffer, Distance, Room, Promised, Transactions, Contents, Held
<1> QED
  BY <1>3, <1>4, <1>5, <1>6 DEF FlowInv

\* cb_end_async_read keeps the invariant.
LEMMA EndAsyncReadInv ==
    ASSUME FlowInv, EndAsyncRead
    PROVE  FlowInv'
<1>0. Typed
  BY Numbers
<1> USE <1>0 DEF Typed
<1>1. CASE rret' = "FAILURE" /\ UNCHANGED <<read, copied, taken>>
  BY <1>1
     DEF EndAsyncRead, wvars, FlowInv, TypeOK, Result, RegionInBuffer, Distance,
         Room, Promised, Transactions, Contents, Held, Delivered
<1>2. CASE read.async_started /\ copied = read.async_size /\ read' = Closed(read)
           /\ copied' = 0 /\ taken' = taken + read.async_size /\ rret' = "SUCCESS"
  <2>1. UNCHANGED <<alive, buff, rpc, rleft, sticky, write, filled, wpc, wleft, wret,
                    sent, got>>
        /\ rpc # "copy"
    BY DEF EndAsyncRead, wvars
  <2>2. /\ Pointers' /\ read' \in Ptr /\ ~read'.async_started /\ read'.async_size = 0
    BY <1>2, <2>1, CloseReadStep
  <2>3. TypeOK'
    <3>1. taken' \in Int /\ copied' \in 0..Size /\ rret' \in Result
      BY <1>2 DEF Result
    <3> QED
      BY <2>1, <2>2, <3>1, Zenon DEF FlowInv, TypeOK
  <2>4. Room'
    BY <1>2, <2>1, <2>2 DEF FlowInv, Room, Promised
  <2>5. Transactions'
    BY <1>2, <2>1, <2>2 DEF FlowInv, Transactions
  <2> QED
    BY <2>2, <2>3, <2>4, <2>5 DEF FlowInv, Pointers
<1> QED
  BY <1>1, <1>2 DEF EndAsyncRead

\* Calling cb_read keeps the invariant.
LEMMA ReadCallInv ==
    ASSUME FlowInv, NEW n \in 1..MaxReq, ReadCall(n)
    PROVE  FlowInv'
<1>1. /\ UNCHANGED <<alive, read, buff, copied, rret, write, filled, wpc, wleft, wret,
                     sent, taken, got>>
      /\ rpc' = "spin" /\ rleft' = n /\ sticky' = FALSE
  BY DEF ReadCall, wvars, ghost
<1>2. TypeOK'
  <2>1. rleft' \in 0..MaxReq /\ rpc' \in {"idle", "spin", "copy"}
    BY <1>1, BoundsAssumption
  <2> QED
    BY <1>1, <2>1, Zenon DEF FlowInv, TypeOK
<1>3. /\ RegionInBuffer' /\ Distance' /\ Room' /\ Transactions' /\ Contents'
      /\ Delivered'
  BY <1>1
     DEF FlowInv, RegionInBuffer, Distance, Room, Promised, Transactions, Contents,
         Held, Delivered
<1> QED
  BY <1>2, <1>3 DEF FlowInv

\* A turn of the waiting loop of cb_read keeps the invariant.
LEMMA ReadLoopInv ==
    ASSUME FlowInv, ReadLoop
    PROVE  FlowInv'
<1>0. Typed
  BY Numbers
<1> USE <1>0 DEF Typed
<1>1. CASE rret' = "EBUSY" /\ UNCHANGED <<read, copied, rpc, sticky, taken>>
  BY <1>1
     DEF ReadLoop, wvars, FlowInv, TypeOK, Result, RegionInBuffer, Distance,
         Room, Promised, Transactions, Contents, Held, Delivered
<1>2. CASE /\ ~read.async_started /\ OpenRead(rleft)
           /\ rpc' = IF rret' = "EAGAIN" THEN "spin" ELSE "copy"
           /\ sticky' = (sticky \/ rret' = "EOVERRUN")
  <2>1. UNCHANGED <<alive, buff, rleft, write, filled, wpc, wleft, wret, sent, got>>
    BY DEF ReadLoop, wvars
  <2>2. /\ Pointers' /\ read' \in Ptr /\ copied' = 0 /\ taken' = taken
        /\ rret' \in {"SUCCESS", "EAGAIN"}
        /\ read'.async_size <= sent - taken /\ read'.async_size <= rleft
        /\ IF rret' = "EAGAIN" THEN read' = read ELSE read'.async_started
    BY <1>2, <2>1, OpenReadStep
  <2>3. TypeOK'
    <3>1. rret' \in Result /\ copied' \in 0..Size /\ rpc' \in {"idle", "spin", "copy"}
      BY <1>2, <2>2 DEF Result
    <3>2. sticky' \in BOOLEAN
      BY <1>2, Zenon
    <3> QED
      BY <2>1, <2>2, <3>1, <3>2, Zenon DEF FlowInv, TypeOK
  <2>4. Room'
    BY <2>1, <2>2 DEF FlowInv, Room, Promised
  <2>5. Transactions'
    BY <1>2, <2>1, <2>2 DEF FlowInv, Transactions, Ptr
  <2> QED
    BY <2>2, <2>3, <2>4, <2>5 DEF FlowInv, Pointers
<1> QED
  BY <1>1, <1>2 DEF ReadLoop

\* The end of a turn of cb_read keeps the invariant.
LEMMA ReadCommitInv ==
    ASSUME FlowInv, ReadCommit
    PROVE  FlowInv'
<1>0. Typed
  BY Numbers
<1> USE <1>0 DEF Typed
<1>1. /\ UNCHANGED <<alive, buff, sticky, write, filled, wpc, wleft, wret, sent, got>>
      /\ rpc = "copy" /\ copied = read.async_size /\ copied' = 0
      /\ read' = Closed(read) /\ taken' = taken + read.async_size
      /\ rleft' = rleft - read.async_size
      /\ \/ rpc' = "idle" /\ rret' = (IF sticky THEN "EOVERRUN" ELSE "SUCCESS")
         \/ rpc' = "spin" /\ rret' = rret
  BY DEF ReadCommit, wvars
<1>2. read.async_started /\ read.async_size <= rleft
  BY <1>1 DEF FlowInv, Transactions
<1>3. Pointers' /\ read' \in Ptr /\ ~read'.async_started /\ read'.async_size = 0
  BY <1>1, <1>2, CloseReadStep
<1>4. TypeOK'
  <2>1. rleft \in 0..MaxReq /\ rret \in Result
    BY Zenon DEF FlowInv, TypeOK
  <2>2. rleft' \in 0..MaxReq
    BY <1>1, <1>2, <2>1, BoundsAssumption
  <2>3. taken' \in Int /\ copied' \in 0..Size /\ rpc' \in {"idle", "spin", "copy"}
    BY <1>1
  <2>4. rret' \in Result
    BY <1>1, <2>1 DEF Result
  <2> QED
    BY <1>1, <1>3, <2>2, <2>3, <2>4, Zenon DEF FlowInv, TypeOK
<1>5. Room'
  BY <1>1, <1>3 DEF FlowInv, Room, Promised
<1>6. Transactions'
  BY <1>1, <1>3 DEF FlowInv, Transactions
<1> QED
  BY <1>3, <1>4, <1>5, <1>6 DEF FlowInv, Pointers

\* cb_remove and a new cb_init keep the invariant.
LEMMA LifetimeInv ==
    ASSUME FlowInv, CbRemove \/ CbInit
    PROVE  FlowInv'
<1>1. CASE CbRemove
  <2>1. alive' \in BOOLEAN
    BY <1>1, Zenon DEF CbRemove
  <2> QED
    BY <1>1, <2>1
       DEF CbRemove, wvars, rvars, ghost, FlowInv, TypeOK, RegionInBuffer, Distance,
           Room, Promised, Transactions, Contents, Held, Delivered
<1>2. CASE CbInit
  <2>1. Init'
    BY <1>2, Zenon DEF CbInit, Init
  <2>2. Init' => FlowInv'
    BY InitFlowInv, PTL
  <2> QED
    BY <2>1, <2>2
<1> QED
  BY <1>1, <1>2

-----------------------------------------------------------------------------
(* The theorems.                                                           *)

\* Every step of the library and its users keeps the invariant.
LEMMA NextFlowInv ==
    ASSUME FlowControl, FlowInv, [Next]_vars
    PROVE  FlowInv'
<1>1. CASE UNCHANGED vars
  BY <1>1, StutterFlowInv
<1>2. CASE Producer
  BY <1>2, PrepareAsyncWriteInv, FillByteInv, EndAsyncWriteInv, WriteCallInv,
     WriteLoopInv, WriteCommitInv, Zenon DEF Producer
<1>3. CASE Consumer
  BY <1>3, PrepareAsyncReadInv, CopyByteInv, EndAsyncReadInv, ReadCallInv,
     ReadLoopInv, ReadCommitInv, Zenon DEF Consumer
<1>4. CASE CbRemove \/ CbInit
  BY <1>4, LifetimeInv
<1> QED
  BY <1>1, <1>2, <1>3, <1>4, Zenon DEF Next

\* A producer that never has more than Size unread bytes outstanding keeps the
\* pointers, spin counters, memory and transactions of circular_buffer.c consistent,
\* whatever the size of the buffer and the width of the counters.
THEOREM FlowInvariance ==
    ASSUME FlowControl
    PROVE  Spec => []FlowInv
<1>1. Init => FlowInv
  BY InitFlowInv
<1>2. FlowInv /\ [Next]_vars => FlowInv'
  BY NextFlowInv
<1> QED
  BY <1>1, <1>2, PTL DEF Spec

\* Under flow control cb_size is exact and never reports an overrun, through every
\* overflow of the spin counters.
THEOREM FlowSizeExact ==
    ASSUME FlowControl
    PROVE  Spec => []SizeExact
<1>1. FlowInv => SizeExact
  BY FlowSize
<1> QED
  BY <1>1, FlowInvariance, PTL

\* Under flow control a region handed to the consumer is never overwritten while it
\* is handed out.
THEOREM FlowReadRegionIntact ==
    ASSUME FlowControl
    PROVE  Spec => []ReadRegionIntact
<1>1. FlowInv => ReadRegionIntact
  BY FlowRegion
<1> QED
  BY <1>1, FlowInvariance, PTL

-----------------------------------------------------------------------------
(* The stream the buffer implements.                                       *)

\* Committing n bytes is Put(n), or no step of the stream when n is 0.
LEMMA CommitRefines ==
    ASSUME FlowInv, write.async_started, sent' = sent + write.async_size, got' = got
    PROVE  [Stream!StreamNext]_(Stream!streamVars)
<1>0. Typed
  BY Numbers
<1> USE <1>0 DEF Typed
<1>1. sent + write.async_size - (got + 1) <= Size
  BY DEF FlowInv, Delivered
<1>2. CASE write.async_size = 0
  BY <1>2 DEF Stream!streamVars
<1>3. CASE write.async_size # 0
  <2>1. write.async_size \in 1..Size
    BY <1>3
  <2>2. Stream!Put(write.async_size)
    BY <1>1 DEF Stream!Put
  <2> QED
    BY <2>1, <2>2 DEF Stream!StreamNext
<1> QED
  BY <1>2, <1>3

\* Copying a byte is Get.
LEMMA CopyRefines ==
    ASSUME FlowInv, CopyByte
    PROVE  Stream!Get
<1>0. Typed
  BY Numbers
<1> USE <1>0 DEF Typed
<1>1. got' = got + 1
  BY CopyByteInv
<1>2. copied < read.async_size /\ sent' = sent
  BY DEF CopyByte
<1>3. got + 1 < sent
  BY <1>2 DEF FlowInv, Delivered, Room
<1> QED
  BY <1>1, <1>2, <1>3 DEF Stream!Get

\* Every step is a step of the stream or leaves it alone.
LEMMA StepRefines ==
    ASSUME FlowInv, [Next]_vars
    PROVE  [Stream!StreamNext]_(Stream!streamVars)
<1>1. CASE UNCHANGED <<sent, got>>
  BY <1>1 DEF Stream!streamVars
<1>2. CASE EndAsyncWrite
  <2>1. CASE UNCHANGED <<write, filled, sent>>
    BY <1>2, <2>1 DEF EndAsyncWrite, Stream!streamVars
  <2>2. CASE write.async_started /\ sent' = sent + write.async_size
    BY <1>2, <2>2, CommitRefines DEF EndAsyncWrite
  <2> QED
    BY <1>2, <2>1, <2>2 DEF EndAsyncWrite
<1>3. CASE WriteCommit
  <2>1. write.async_started
    BY <1>3 DEF WriteCommit, FlowInv, Transactions
  <2> QED
    BY <1>3, <2>1, CommitRefines DEF WriteCommit
<1>4. CASE CopyByte
  BY <1>4, CopyRefines DEF Stream!StreamNext
<1>5. CASE CbInit
  BY <1>5 DEF CbInit, Stream!StreamNext, Stream!Restart
<1>6. CASE \/ \E n \in 0..MaxReq : PrepareAsyncWrite(n) \/ PrepareAsyncRead(n)
           \/ \E n \in 1..MaxReq : WriteCall(n) \/ ReadCall(n)
           \/ FillByte \/ WriteLoop \/ EndAsyncRead \/ ReadLoop \/ ReadCommit \/ CbRemove
  <2>1. UNCHANGED <<sent, got>>
    BY <1>6, Zenon DEF PrepareAsyncWrite, PrepareAsyncRead, WriteCall, ReadCall, FillByte,
          WriteLoop, EndAsyncRead, ReadLoop, ReadCommit, CbRemove, ghost
  <2> QED
    BY <1>1, <2>1
<1>7. CASE UNCHANGED vars
  BY <1>1, <1>7 DEF vars
<1> QED
  BY <1>2, <1>3, <1>4, <1>5, <1>6, <1>7, Zenon DEF Next, Producer, Consumer

\* Under flow control the circular buffer implements the loss-free byte stream.
THEOREM FlowImplementsStream ==
    ASSUME FlowControl
    PROVE  Spec => ImplementsStream
<1>1. Init => Stream!StreamInit
  BY DEF Init, Stream!StreamInit
<1>2. FlowInv /\ [Next]_vars => [Stream!StreamNext]_(Stream!streamVars)
  BY StepRefines
<1> QED
  BY <1>1, <1>2, FlowInvariance, PTL DEF Spec, ImplementsStream, Stream!StreamSpec

\* Under flow control the consumer copies the bytes of the stream in order, each once.
THEOREM FlowDeliveredInOrder ==
    ASSUME FlowControl
    PROVE  Spec => DeliveredInOrder
<1>1. ASSUME FlowInv, [Next]_vars
      PROVE  [alive /\ got' # got => got' = got + 1]_vars
  <2>1. CASE CopyByte
    BY <1>1, <2>1, CopyByteInv
  <2>2. CASE CbInit
    BY <2>2 DEF CbInit
  <2>3. CASE got' = got
    BY <2>3
  <2>4. CASE \/ \E n \in 0..MaxReq : PrepareAsyncWrite(n) \/ PrepareAsyncRead(n)
             \/ \E n \in 1..MaxReq : WriteCall(n) \/ ReadCall(n)
             \/ FillByte \/ EndAsyncWrite \/ WriteLoop \/ WriteCommit
             \/ EndAsyncRead \/ ReadLoop \/ ReadCommit \/ CbRemove
    <3>1. got' = got
      BY <2>4, Zenon DEF PrepareAsyncWrite, PrepareAsyncRead, WriteCall, ReadCall,
         FillByte, EndAsyncWrite, WriteLoop, WriteCommit, EndAsyncRead, ReadLoop,
         ReadCommit, CbRemove, ghost
    <3> QED
      BY <3>1
  <2>5. CASE UNCHANGED vars
    BY <2>5 DEF vars
  <2> QED
    BY <1>1, <2>1, <2>2, <2>4, <2>5, Zenon DEF Next, Producer, Consumer
<1> QED
  BY <1>1, FlowInvariance, PTL DEF Spec, DeliveredInOrder

-----------------------------------------------------------------------------
(* Memory safety, with no assumption on the producer at all.               *)

\* What holds through any overrun: types, regions inside the buffer, transactions.
SafeInv == TypeOK /\ RegionInBuffer /\ Transactions

\* The numbers memory safety is about.
SafeTyped ==
    /\ write \in Ptr /\ read \in Ptr
    /\ write.idx \in 0..Size-1 /\ read.idx \in 0..Size-1
    /\ write.async_size \in 0..Size /\ read.async_size \in 0..Size
    /\ write.spin_count \in 0..SpinMod-1
    /\ filled \in 0..Size /\ copied \in 0..Size
    /\ wleft \in 0..MaxReq /\ rleft \in 0..MaxReq
    /\ sent \in Nat /\ taken \in Int
    /\ Size \in Nat /\ SpinMod \in Nat /\ MaxReq \in Nat

\* They follow from the invariant.
LEMMA SafeNumbers ==
    ASSUME SafeInv
    PROVE  SafeTyped
<1>1. TypeOK
  BY DEF SafeInv
<1>2. /\ write \in Ptr /\ read \in Ptr
      /\ filled \in 0..Size /\ copied \in 0..Size
      /\ wleft \in 0..MaxReq /\ rleft \in 0..MaxReq
      /\ sent \in Nat /\ taken \in Int
  BY <1>1, Zenon DEF TypeOK
<1> QED
  BY <1>2, SizeAssumption, SpinModAssumption, BoundsAssumption DEF SafeTyped, Ptr

\* cb_size never exceeds the buffer, and an overrun leaves a valid read pointer.
LEMMA ReadStartFacts ==
    ASSUME SafeInv
    PROVE  /\ cb_size \in 0..Size
           /\ ReadStart \in Ptr
           /\ ReadStart.async_size = read.async_size
           /\ ReadStart.async_started = read.async_started
<1>0. SafeTyped
  BY SafeNumbers
<1> USE <1>0 DEF SafeTyped
<1>1. RawSize \in Int
  BY DEF RawSize
<1>2. cb_size \in 0..Size
  BY <1>1 DEF cb_size, Overrun
<1>3. (write.spin_count + SpinMod - 1) % SpinMod \in 0..SpinMod-1
  BY SpinModAssumption
<1> QED
  BY <1>2, <1>3 DEF ReadStart, Ptr

\* Opening a read, after an overrun or not, stays inside the buffer.
LEMMA SafeOpenRead ==
    ASSUME SafeInv, ~read.async_started, NEW n \in Nat, OpenRead(n)
    PROVE  /\ read' \in Ptr /\ copied' = 0 /\ taken' \in Int
           /\ rret' \in {"SUCCESS", "EAGAIN", "EOVERRUN"}
           /\ read'.idx + read'.async_size <= Size
           /\ read'.async_size <= n
           /\ ~read'.async_started => read'.async_size = 0
           /\ rret' # "EAGAIN" => read'.async_started
<1>0. SafeTyped
  BY SafeNumbers
<1> USE <1>0 DEF SafeTyped
<1> DEFINE req == min(n, cb_size)
<1>1. /\ req \in Nat /\ req <= n
      /\ ReadStart \in Ptr /\ ReadStart.async_size = 0 /\ ~ReadStart.async_started
  BY ReadStartFacts DEF SafeInv, Transactions, min
<1>2. /\ read' = IF req = 0 THEN ReadStart ELSE Opened(ReadStart, req)
      /\ rret' = IF req = 0 THEN "EAGAIN" ELSE IF Overrun THEN "EOVERRUN" ELSE "SUCCESS"
      /\ taken' = IF Overrun THEN sent - Size ELSE taken
      /\ copied' = 0
  BY DEF OpenRead
<1> HIDE DEF req
<1>3. taken' \in Int /\ rret' \in {"SUCCESS", "EAGAIN", "EOVERRUN"}
  BY <1>2
<1>4. CASE req = 0
  <2>1. ReadStart.idx \in 0..Size-1
    BY <1>1 DEF Ptr
  <2> QED
    BY <1>1, <1>2, <1>3, <1>4, <2>1
<1>5. CASE req # 0
  <2>1. /\ read' \in Ptr /\ read'.idx = ReadStart.idx /\ read'.async_started
        /\ read'.async_size <= req /\ ReadStart.idx + read'.async_size <= Size
    BY <1>1, <1>2, <1>5, OpenedFacts, ZenonT(60)
  <2>2. read'.async_size \in Nat
    BY <2>1 DEF Ptr
  <2> QED
    BY <1>1, <1>2, <1>3, <1>5, <2>1, <2>2
<1> QED
  BY <1>4, <1>5

\* The producer's steps are safe.
LEMMA SafeProducer ==
    ASSUME SafeInv, Producer
    PROVE  SafeInv'
<1>0. SafeTyped
  BY SafeNumbers
<1> USE <1>0 DEF SafeTyped
<1>r. UNCHANGED rvars /\ alive' = alive
  BY Zenon DEF Producer, PrepareAsyncWrite, FillByte, EndAsyncWrite, WriteCall,
               WriteLoop, WriteCommit
<1>1. CASE \E n \in 0..MaxReq : PrepareAsyncWrite(n)
  <2>1. PICK n \in 0..MaxReq : PrepareAsyncWrite(n)
    BY <1>1
  <2>2. UNCHANGED <<buff, wpc, wleft, ghost>> /\ wpc = "idle"
    BY <2>1 DEF PrepareAsyncWrite
  <2>3. CASE wret' = "EBUSY" /\ UNCHANGED <<write, filled>>
    BY <1>r, <2>2, <2>3
       DEF rvars, ghost, SafeInv, TypeOK, Result, RegionInBuffer, Transactions
  <2>4. CASE write' = Opened(write, n) /\ filled' = 0 /\ wret' = "SUCCESS"
    <3>1. /\ write' \in Ptr /\ write'.async_started /\ write'.idx = write.idx
          /\ write'.idx + write'.async_size <= Size
      <4>1. n \in Nat
        OBVIOUS
      <4> QED
        BY <2>4, <4>1, OpenedFacts
    <3>2. filled' \in 0..Size /\ wret' \in Result /\ write'.async_size \in Nat
      BY <2>4, <3>1 DEF Result, Ptr
    <3>3. TypeOK'
      BY <1>r, <2>2, <3>1, <3>2, Zenon DEF rvars, ghost, SafeInv, TypeOK
    <3> QED
      BY <1>r, <2>2, <2>4, <3>1, <3>2, <3>3
         DEF rvars, SafeInv, RegionInBuffer, Transactions
  <2> QED
    BY <2>1, <2>3, <2>4 DEF PrepareAsyncWrite
<1>2. CASE FillByte
  <2>1. /\ UNCHANGED <<write, wpc, wleft, wret, ghost>>
        /\ filled < write.async_size /\ filled' = filled + 1
        /\ buff' = [buff EXCEPT ![write.idx + filled] = sent + filled]
    BY <1>2 DEF FillByte
  <2>2. buff \in [0..Size-1 -> Int]
    BY Zenon DEF SafeInv, TypeOK
  <2>3. buff' \in [0..Size-1 -> Int]
    <3>1. sent + filled \in Int
      OBVIOUS
    <3> HIDE <1>0
    <3> QED
      BY <2>1, <2>2, <3>1
  <2>4. filled' \in 0..Size
    BY <2>1
  <2>5. TypeOK'
    BY <1>r, <2>1, <2>3, <2>4, Zenon DEF rvars, ghost, SafeInv, TypeOK
  <2> QED
    BY <1>r, <2>1, <2>5 DEF rvars, SafeInv, RegionInBuffer, Transactions
<1>3. CASE EndAsyncWrite
  <2>1. UNCHANGED <<buff, wpc, wleft, taken, got>> /\ wpc # "copy"
    BY <1>3 DEF EndAsyncWrite
  <2>2. CASE wret' = "FAILURE" /\ UNCHANGED <<write, filled, sent>>
    BY <1>r, <2>1, <2>2
       DEF rvars, SafeInv, TypeOK, Result, RegionInBuffer, Transactions
  <2>3. CASE write' = Closed(write) /\ filled' = 0
             /\ sent' = sent + write.async_size /\ wret' = "SUCCESS"
    <3>1. /\ write' \in Ptr /\ ~write'.async_started /\ write'.async_size = 0
          /\ write'.idx + write'.async_size <= Size
      <4>1. write.idx + write.async_size <= Size
        BY DEF SafeInv, RegionInBuffer
      <4> QED
        BY <2>3, <4>1, ClosedFacts
    <3>2. filled' \in 0..Size /\ wret' \in Result /\ sent' \in Nat
      BY <2>3 DEF Result
    <3>3. TypeOK'
      BY <1>r, <2>1, <3>1, <3>2, Zenon DEF rvars, SafeInv, TypeOK
    <3> QED
      BY <1>r, <2>1, <2>3, <3>1, <3>3 DEF rvars, SafeInv, RegionInBuffer, Transactions
  <2> QED
    BY <1>3, <2>2, <2>3 DEF EndAsyncWrite
<1>4. CASE \E n \in 1..MaxReq : WriteCall(n)
  <2>1. PICK n \in 1..MaxReq : WriteCall(n)
    BY <1>4
  <2>2. UNCHANGED <<write, buff, filled, wret, ghost>> /\ wpc' = "spin"
    BY <2>1 DEF WriteCall
  <2>3. wleft' \in 0..MaxReq
    BY <2>1 DEF WriteCall
  <2>4. TypeOK'
    BY <1>r, <2>2, <2>3, Zenon DEF rvars, ghost, SafeInv, TypeOK
  <2> QED
    BY <1>r, <2>2, <2>4 DEF rvars, SafeInv, RegionInBuffer, Transactions
<1>5. CASE WriteLoop
  <2>1. /\ UNCHANGED <<buff, wleft, wret, ghost>> /\ wpc' = "copy" /\ filled' = 0
        /\ write' = Opened(write, wleft)
    BY <1>5 DEF WriteLoop
  <2>2. /\ write' \in Ptr /\ write'.async_started /\ write'.idx = write.idx
        /\ write'.async_size <= wleft /\ write'.idx + write'.async_size <= Size
    <3>1. wleft \in Nat
      OBVIOUS
    <3> QED
      BY <2>1, <3>1, OpenedFacts
  <2>3. filled' \in 0..Size /\ write'.async_size \in Nat
    BY <2>1, <2>2 DEF Ptr
  <2>4. TypeOK'
    BY <1>r, <2>1, <2>2, <2>3, Zenon DEF rvars, ghost, SafeInv, TypeOK
  <2> QED
    BY <1>r, <2>1, <2>2, <2>3, <2>4 DEF rvars, SafeInv, RegionInBuffer, Transactions
<1>6. CASE WriteCommit
  <2>1. /\ UNCHANGED <<buff, taken, got>> /\ wpc = "copy" /\ filled' = 0
        /\ write' = Closed(write) /\ sent' = sent + write.async_size
        /\ wleft' = wleft - write.async_size
        /\ \/ wleft' = 0 /\ wpc' = "idle" /\ wret' = "SUCCESS"
           \/ wpc' = "spin" /\ wret' = wret
    BY <1>6 DEF WriteCommit
  <2>2. /\ write' \in Ptr /\ ~write'.async_started /\ write'.async_size = 0
        /\ write'.idx + write'.async_size <= Size
    <3>1. write.idx + write.async_size <= Size
      BY DEF SafeInv, RegionInBuffer
    <3> QED
      BY <2>1, <3>1, ClosedFacts
  <2>3. write.async_size <= wleft
    BY <2>1 DEF SafeInv, Transactions
  <2>4. wret \in Result
    BY Zenon DEF SafeInv, TypeOK
  <2>5. /\ filled' \in 0..Size /\ sent' \in Nat /\ wleft' \in 0..MaxReq
        /\ wpc' \in {"idle", "spin", "copy"}
    BY <2>1, <2>3
  <2>6. wret' \in Result
    BY <2>1, <2>4 DEF Result
  <2>7. TypeOK'
    BY <1>r, <2>1, <2>2, <2>5, <2>6, Zenon DEF rvars, SafeInv, TypeOK
  <2> QED
    BY <1>r, <2>1, <2>2, <2>7 DEF rvars, SafeInv, RegionInBuffer, Transactions
<1> QED
  BY <1>1, <1>2, <1>3, <1>4, <1>5, <1>6, Zenon DEF Producer

\* The consumer's steps are safe.
LEMMA SafeConsumer ==
    ASSUME SafeInv, Consumer
    PROVE  SafeInv'
<1>0. SafeTyped
  BY SafeNumbers
<1> USE <1>0 DEF SafeTyped
<1>w. UNCHANGED wvars /\ alive' = alive /\ buff' = buff /\ sent' = sent
  BY Zenon DEF Consumer, PrepareAsyncRead, CopyByte, EndAsyncRead, ReadCall,
               ReadLoop, ReadCommit, ghost
<1>1. CASE \E n \in 0..MaxReq : PrepareAsyncRead(n)
  <2>1. PICK n \in 0..MaxReq : PrepareAsyncRead(n)
    BY <1>1
  <2>2. UNCHANGED <<rpc, rleft, sticky, got>> /\ rpc = "idle"
    BY <2>1 DEF PrepareAsyncRead
  <2>3. CASE rret' = "EBUSY" /\ UNCHANGED <<read, copied, taken>>
    BY <1>w, <2>2, <2>3 DEF wvars, SafeInv, TypeOK, Result, RegionInBuffer, Transactions
  <2>4. CASE ~read.async_started /\ OpenRead(n)
    <3>1. /\ read' \in Ptr /\ copied' = 0 /\ taken' \in Int
          /\ rret' \in {"SUCCESS", "EAGAIN", "EOVERRUN"}
          /\ read'.idx + read'.async_size <= Size
          /\ ~read'.async_started => read'.async_size = 0
      BY <2>4, SafeOpenRead
    <3>2. copied' \in 0..Size /\ rret' \in Result /\ read'.async_size \in Nat
      BY <3>1 DEF Result, Ptr
    <3>3. TypeOK'
      BY <1>w, <2>2, <3>1, <3>2, Zenon DEF wvars, SafeInv, TypeOK
    <3> QED
      BY <1>w, <2>2, <3>1, <3>2, <3>3 DEF wvars, SafeInv, RegionInBuffer, Transactions
  <2> QED
    BY <2>1, <2>3, <2>4 DEF PrepareAsyncRead
<1>2. CASE CopyByte
  <2>1. /\ UNCHANGED <<read, rpc, rleft, sticky, rret, taken>>
        /\ copied < read.async_size /\ copied' = copied + 1
        /\ got' = buff[read.idx + copied]
    BY <1>2 DEF CopyByte
  <2>2. read.idx + copied \in 0..Size-1
    BY <2>1 DEF SafeInv, RegionInBuffer
  <2>3. buff \in [0..Size-1 -> Int]
    BY Zenon DEF SafeInv, TypeOK
  <2>4. got' \in Int
    BY <2>1, <2>2, <2>3
  <2>5. copied' \in 0..Size
    BY <2>1
  <2>6. TypeOK'
    BY <1>w, <2>1, <2>4, <2>5, Zenon DEF wvars, SafeInv, TypeOK
  <2> QED
    BY <1>w, <2>1, <2>6 DEF wvars, SafeInv, RegionInBuffer, Transactions
<1>3. CASE EndAsyncRead
  <2>1. UNCHANGED <<rpc, rleft, sticky, got>> /\ rpc # "copy"
    BY <1>3 DEF EndAsyncRead
  <2>2. CASE rret' = "FAILURE" /\ UNCHANGED <<read, copied, taken>>
    BY <1>w, <2>1, <2>2 DEF wvars, SafeInv, TypeOK, Result, RegionInBuffer, Transactions
  <2>3. CASE read' = Closed(read) /\ copied' = 0
             /\ taken' = taken + read.async_size /\ rret' = "SUCCESS"
    <3>1. /\ read' \in Ptr /\ ~read'.async_started /\ read'.async_size = 0
          /\ read'.idx + read'.async_size <= Size
      <4>1. read.idx + read.async_size <= Size
        BY DEF SafeInv, RegionInBuffer
      <4> QED
        BY <2>3, <4>1, ClosedFacts
    <3>2. copied' \in 0..Size /\ rret' \in Result /\ taken' \in Int
      BY <2>3 DEF Result
    <3>3. TypeOK'
      BY <1>w, <2>1, <3>1, <3>2, Zenon DEF wvars, SafeInv, TypeOK
    <3> QED
      BY <1>w, <2>1, <2>3, <3>1, <3>3 DEF wvars, SafeInv, RegionInBuffer, Transactions
  <2> QED
    BY <1>3, <2>2, <2>3 DEF EndAsyncRead
<1>4. CASE \E n \in 1..MaxReq : ReadCall(n)
  <2>1. PICK n \in 1..MaxReq : ReadCall(n)
    BY <1>4
  <2>2. UNCHANGED <<read, copied, rret, taken, got>> /\ rpc' = "spin" /\ sticky' = FALSE
    BY <2>1 DEF ReadCall, ghost
  <2>3. rleft' \in 0..MaxReq
    BY <2>1 DEF ReadCall
  <2>4. TypeOK'
    BY <1>w, <2>2, <2>3, Zenon DEF wvars, SafeInv, TypeOK
  <2> QED
    BY <1>w, <2>2, <2>4 DEF wvars, SafeInv, RegionInBuffer, Transactions
<1>5. CASE ReadLoop
  <2>1. UNCHANGED <<rleft, got>>
    BY <1>5 DEF ReadLoop
  <2>2. CASE rret' = "EBUSY" /\ UNCHANGED <<read, copied, rpc, sticky, taken>>
    BY <1>w, <2>1, <2>2 DEF wvars, SafeInv, TypeOK, Result, RegionInBuffer, Transactions
  <2>3. CASE /\ ~read.async_started /\ OpenRead(rleft)
             /\ rpc' = IF rret' = "EAGAIN" THEN "spin" ELSE "copy"
             /\ sticky' = (sticky \/ rret' = "EOVERRUN")
    <3>1. /\ read' \in Ptr /\ copied' = 0 /\ taken' \in Int
          /\ rret' \in {"SUCCESS", "EAGAIN", "EOVERRUN"}
          /\ read'.idx + read'.async_size <= Size
          /\ read'.async_size <= rleft
          /\ ~read'.async_started => read'.async_size = 0
          /\ rret' # "EAGAIN" => read'.async_started
      BY <2>3, SafeOpenRead
    <3>2. copied' \in 0..Size /\ rret' \in Result /\ read'.async_size \in Nat
          /\ rpc' \in {"idle", "spin", "copy"}
      BY <2>3, <3>1 DEF Result, Ptr
    <3>3. sticky' \in BOOLEAN
      BY <2>3, Zenon
    <3>4. TypeOK'
      BY <1>w, <2>1, <3>1, <3>2, <3>3, Zenon DEF wvars, SafeInv, TypeOK
    <3> QED
      BY <1>w, <2>1, <2>3, <3>1, <3>2, <3>4
         DEF wvars, SafeInv, RegionInBuffer, Transactions
  <2> QED
    BY <1>5, <2>2, <2>3 DEF ReadLoop
<1>6. CASE ReadCommit
  <2>1. /\ UNCHANGED <<sticky, got>> /\ rpc = "copy" /\ copied' = 0
        /\ read' = Closed(read) /\ taken' = taken + read.async_size
        /\ rleft' = rleft - read.async_size
        /\ \/ rpc' = "idle" /\ rret' = (IF sticky THEN "EOVERRUN" ELSE "SUCCESS")
           \/ rpc' = "spin" /\ rret' = rret
    BY <1>6 DEF ReadCommit
  <2>2. /\ read' \in Ptr /\ ~read'.async_started /\ read'.async_size = 0
        /\ read'.idx + read'.async_size <= Size
    <3>1. read.idx + read.async_size <= Size
      BY DEF SafeInv, RegionInBuffer
    <3> QED
      BY <2>1, <3>1, ClosedFacts
  <2>3. read.async_size <= rleft
    BY <2>1 DEF SafeInv, Transactions
  <2>4. rret \in Result
    BY Zenon DEF SafeInv, TypeOK
  <2>5. /\ copied' \in 0..Size /\ taken' \in Int /\ rleft' \in 0..MaxReq
        /\ rpc' \in {"idle", "spin", "copy"}
    BY <2>1, <2>3
  <2>6. rret' \in Result
    BY <2>1, <2>4 DEF Result
  <2>7. TypeOK'
    BY <1>w, <2>1, <2>2, <2>5, <2>6, Zenon DEF wvars, SafeInv, TypeOK
  <2> QED
    BY <1>w, <2>1, <2>2, <2>7 DEF wvars, SafeInv, RegionInBuffer, Transactions
<1> QED
  BY <1>1, <1>2, <1>3, <1>4, <1>5, <1>6, Zenon DEF Consumer

\* With no assumption on the producer: types, indices and transactions stay sound.
THEOREM SafeInvariance == Spec => []SafeInv
<1>1. Init => SafeInv
  BY InitFlowInv DEF FlowInv, SafeInv
<1>2. SafeInv /\ [Next]_vars => SafeInv'
  <2> SUFFICES ASSUME SafeInv, [Next]_vars PROVE SafeInv'
    OBVIOUS
  <2>1. CASE CbInit
    <3>1. Init'
      BY <2>1, Zenon DEF CbInit, Init
    <3>2. Init' => SafeInv'
      BY <1>1, PTL
    <3> QED
      BY <3>1, <3>2
  <2>2. CASE CbRemove
    <3>1. alive' \in BOOLEAN
      BY <2>2, Zenon DEF CbRemove
    <3> QED
      BY <2>2, <3>1
         DEF CbRemove, wvars, rvars, ghost, SafeInv, TypeOK, RegionInBuffer, Transactions
  <2>3. CASE UNCHANGED vars
    BY <2>3 DEF vars, SafeInv, TypeOK, RegionInBuffer, Transactions
  <2> QED
    BY <2>1, <2>2, <2>3, SafeProducer, SafeConsumer, Zenon DEF Next
<1> QED
  BY <1>1, <1>2, PTL DEF Spec

\* Type correctness of the specification, overruns included.
THEOREM TypeCorrect == Spec => []TypeOK
<1>1. SafeInv => TypeOK
  BY DEF SafeInv
<1> QED
  BY <1>1, SafeInvariance, PTL

\* However far the producer overruns the consumer, no region handed to memcpy or to
\* a DMA engine leaves the buffer.
THEOREM RegionsInBuffer == Spec => []RegionInBuffer
<1>1. SafeInv => RegionInBuffer
  BY DEF SafeInv
<1> QED
  BY <1>1, SafeInvariance, PTL

-----------------------------------------------------------------------------
(* No flow control: the producer may lap the consumer any number of times, *)
(* even more often than the spin counters can count.                       *)

\* A number of laps, in bytes.
Far(L) == L * Size

\* A number of overflows of a spin counter, in laps.
Turns(k) == k * SpinMod

\* The producer is L laps ahead of the consumer; its spin counter has overflowed
\* k times more than the consumer's.
Laps(L, k) ==
    /\ sent - taken = Far(L) + write.idx - read.idx
    /\ write.spin_count + Turns(k) = read.spin_count + L

Lapped == \E L \in Nat, k \in Int : Laps(L, k)

\* What holds through any overrun: the spin counters count the laps modulo their
\* width, and an open read covers bytes that were written.
AheadInv == SafeInv /\ Lapped /\ read.async_size <= sent - taken

\* The numbers it is about.
AheadTyped == SafeTyped /\ read.spin_count \in 0..SpinMod-1

LEMMA AheadNumbers ==
    ASSUME SafeInv
    PROVE  AheadTyped
<1>1. SafeTyped
  BY SafeNumbers
<1>2. read.spin_count \in 0..SpinMod-1
  BY <1>1 DEF SafeTyped, Ptr
<1> QED
  BY <1>1, <1>2 DEF AheadTyped

\* Laps in bytes: none, one, one more, one less.
LEMMA FarFacts ==
    /\ Far(0) = 0
    /\ Far(1) = Size
    /\ \A L \in Nat : Far(L) \in Nat /\ Far(L + 1) = Far(L) + Size
    /\ \A L \in Nat : L # 0 => Far(L) >= Size /\ Far(L - 1) = Far(L) - Size
<1>1. Size \in Nat
  BY SizeAssumption
<1>2. ASSUME NEW L \in Nat PROVE Far(L) \in Nat /\ Far(L + 1) = Far(L) + Size
  BY <1>1 DEF Far
<1>3. ASSUME NEW L \in Nat, L # 0 PROVE Far(L) >= Size /\ Far(L - 1) = Far(L) - Size
  <2>1. Far(L - 1) \in Nat /\ Far((L - 1) + 1) = Far(L - 1) + Size
    BY <1>2, <1>3
  <2>2. Far((L - 1) + 1) = Far(L)
    BY <1>3
  <2> QED
    BY <1>1, <2>1, <2>2
<1> QED
  BY <1>1, <1>2, <1>3 DEF Far

\* Two laps or more are at least twice the size of the buffer.
LEMMA FarTwice ==
    ASSUME NEW L \in Nat, L >= 2
    PROVE  Far(L) >= Size + Size
<1>1. PICK m \in Nat : m = L - 1 /\ m # 0
  OBVIOUS
<1>2. Far(m) >= Size
  BY <1>1, FarFacts
<1>3. L # 0
  OBVIOUS
<1>4. Far(L - 1) = Far(L) - Size /\ Far(L) \in Nat
  BY <1>3, FarFacts, Zenon
<1> QED
  BY <1>1, <1>2, <1>4, SizeAssumption

\* Overflows in laps: none, one more, one less.
LEMMA TurnFacts ==
    /\ Turns(0) = 0
    /\ \A k \in Int : /\ Turns(k) \in Int
                      /\ Turns(k + 1) = Turns(k) + SpinMod
                      /\ Turns(k - 1) = Turns(k) - SpinMod
                      /\ k > 0 => Turns(k) >= SpinMod
                      /\ k < 0 => Turns(k) <= 0 - SpinMod
<1>1. SpinMod \in Nat
  BY SpinModAssumption
<1>2. ASSUME NEW k \in Int
      PROVE  /\ Turns(k) \in Int
             /\ Turns(k + 1) = Turns(k) + SpinMod
             /\ Turns(k - 1) = Turns(k) - SpinMod
  BY <1>1 DEF Turns
<1>3. ASSUME NEW k \in Int, k > 0 PROVE Turns(k) >= SpinMod
  BY <1>1, <1>3 DEF Turns
<1>4. ASSUME NEW k \in Int, k < 0 PROVE Turns(k) <= 0 - SpinMod
  BY <1>1, <1>4 DEF Turns
<1>5. Turns(0) = 0
  BY <1>1 DEF Turns
<1> QED
  BY <1>2, <1>3, <1>4, <1>5

\* nb_spins of cb_size is 0 on the consumer's lap and positive on the next one.
LEMMA SpinsTellLaps ==
    ASSUME SafeInv, NEW L \in {0, 1}, NEW k \in Int, Laps(L, k)
    PROVE  nb_spins > 0 <=> L = 1
<1>1. write.spin_count \in 0..SpinMod-1 /\ read.spin_count \in 0..SpinMod-1
  BY AheadNumbers DEF AheadTyped, SafeTyped
<1>2. PICK w \in 0..SpinMod-1, r \in 0..SpinMod-1 : w = write.spin_count /\ r = read.spin_count
  BY <1>1, Zenon
<1>3. PICK t \in Int : /\ t = Turns(k) /\ w + t = r + L
                       /\ t = 0 \/ t >= SpinMod \/ t <= 0 - SpinMod
  <2>1. w + Turns(k) = r + L /\ Turns(k) \in Int
    BY <1>2, TurnFacts DEF Laps
  <2>2. Turns(k) = 0 \/ Turns(k) >= SpinMod \/ Turns(k) <= 0 - SpinMod
    <3>1. k = 0 \/ k > 0 \/ k < 0
      OBVIOUS
    <3> QED
      BY <3>1, TurnFacts
  <2> QED
    BY <2>1, <2>2
<1>4. nb_spins = IF w > r THEN w - r ELSE (SpinMod - 1 - r + w + 1) % SpinMod
  BY <1>2 DEF nb_spins
<1>5. CASE L = 0
  <2>1. w = r /\ SpinMod - 1 - r + w + 1 = SpinMod /\ SpinMod % SpinMod = 0
    BY <1>3, <1>5, SpinModAssumption
  <2> QED
    BY <1>4, <1>5, <2>1
<1>6. CASE L = 1
  <2>1. w = r + 1 \/ (w = 0 /\ r = SpinMod - 1)
    BY <1>3, <1>6, SpinModAssumption
  <2>2. CASE w = r + 1
    BY <1>4, <1>6, <2>2
  <2>3. CASE w = 0 /\ r = SpinMod - 1
    <3>1. SpinMod - 1 - r + w + 1 = 1 /\ 1 % SpinMod = 1 /\ ~(w > r)
      BY <2>3, SpinModAssumption
    <3> QED
      BY <1>4, <1>6, <3>1
  <2> QED
    BY <2>1, <2>2, <2>3
<1> QED
  BY <1>5, <1>6

\* The invariant gives both properties of cb_size.
LEMMA AheadSize ==
    ASSUME AheadInv
    PROVE  SizeNeverOverstated /\ OverrunIsReal
<1>1. PICK L \in Nat, k \in Int : Laps(L, k)
  BY DEF AheadInv, Lapped
<1>2. AheadTyped /\ SafeInv /\ read.async_size <= sent - taken
  BY AheadNumbers DEF AheadInv
<1>3. PICK w \in 0..Size-1, r \in 0..Size-1, x \in Int :
         /\ w = write.idx /\ r = read.idx /\ x = sent - taken
         /\ x >= 0
  <2>1. write.idx \in 0..Size-1 /\ read.idx \in 0..Size-1 /\ sent - taken \in Int /\ sent - taken >= 0
    BY <1>2 DEF AheadTyped, SafeTyped
  <2> QED
    BY <2>1, Zenon
<1>4. PICK f \in Nat : f = Far(L) /\ x = f + w - r
  <2>1. Far(L) \in Nat
    BY FarFacts
  <2> QED
    BY <1>1, <1>3, <2>1 DEF Laps
<1>5. Size \in Nat \ {0}
  BY SizeAssumption
<1>6. RawSize = IF nb_spins > 0 THEN Size + w - r ELSE w - r
  BY <1>3 DEF RawSize
<1> SUFFICES /\ RawSize >= 0 /\ RawSize <= Size => RawSize <= x
             /\ RawSize > Size \/ RawSize < 0 => x > Size
  BY <1>3, <1>5, <1>6 DEF SizeNeverOverstated, OverrunIsReal, cb_size, Overrun
<1>7. CASE L = 0
  <2>1. f = 0 /\ ~(nb_spins > 0)
    BY <1>1, <1>2, <1>4, <1>7, FarFacts, SpinsTellLaps
  <2> QED
    BY <1>3, <1>4, <1>5, <1>6, <2>1
<1>8. CASE L = 1
  <2>1. f = Size /\ nb_spins > 0
    BY <1>1, <1>2, <1>4, <1>8, FarFacts, SpinsTellLaps
  <2> QED
    BY <1>4, <1>5, <1>6, <2>1
<1>9. CASE L >= 2
  <2>1. f >= Size + Size
    BY <1>4, <1>9, FarTwice
  <2> QED
    BY <1>4, <1>5, <1>6, <2>1
<1> QED
  BY <1>7, <1>8, <1>9

\* A step that moves neither pointer keeps the count of the laps.
LEMMA LapsStay ==
    ASSUME Lapped, UNCHANGED <<sent, taken, write.idx, read.idx, write.spin_count, read.spin_count>>
    PROVE  Lapped'
<1>1. PICK L \in Nat, k \in Int : Laps(L, k)
  BY DEF Lapped
<1>2. Laps(L, k)'
  BY <1>1 DEF Laps
<1> QED
  BY <1>2 DEF Lapped

\* The commit of a write: the producer may start another lap.
LEMMA LapsCommitWrite ==
    ASSUME AheadInv, write' = Closed(write), sent' = sent + write.async_size,
           read' = read, taken' = taken
    PROVE  Lapped'
<1>1. PICK L \in Nat, k \in Int : Laps(L, k)
  BY DEF AheadInv, Lapped
<1>2. AheadTyped /\ write.idx + write.async_size <= Size /\ read.async_size <= sent - taken
  BY AheadNumbers DEF AheadInv, SafeInv, RegionInBuffer
<1>3. PICK f \in Nat, t \in Int : f = Far(L) /\ t = Turns(k)
  BY FarFacts, TurnFacts
<1>4. PICK x \in Int, w \in 0..Size-1, r \in 0..Size-1, z \in 0..Size,
           i \in 0..SpinMod-1, j \in 0..SpinMod-1 :
         /\ x = sent - taken /\ w = write.idx /\ r = read.idx /\ z = write.async_size
         /\ i = write.spin_count /\ j = read.spin_count
  <2>1. /\ sent - taken \in Int /\ write.idx \in 0..Size-1 /\ read.idx \in 0..Size-1
        /\ write.async_size \in 0..Size
        /\ write.spin_count \in 0..SpinMod-1 /\ read.spin_count \in 0..SpinMod-1
    BY <1>2 DEF AheadTyped, SafeTyped
  <2> QED
    BY <2>1, Zenon
<1>5. x = f + w - r /\ i + t = j + L /\ Size \in Nat /\ SpinMod \in Nat
  BY <1>1, <1>3, <1>4, SizeAssumption, SpinModAssumption DEF Laps
<1>6. sent' - taken' = x + z
  BY <1>2, <1>4 DEF AheadTyped, SafeTyped
<1>7. \/ write'.idx = w + z /\ write'.spin_count = write.spin_count
      \/ /\ w + z = Size /\ write'.idx = 0
         /\ write'.spin_count = (write.spin_count + 1) % SpinMod
  <2>1. write \in Ptr
    BY <1>2 DEF AheadTyped, SafeTyped
  <2> QED
    BY <1>2, <1>4, <2>1, ClosedFacts
<1>8. read'.idx = r /\ read'.spin_count = j
  BY <1>4
<1>9. CASE write'.idx = w + z /\ write'.spin_count = write.spin_count
  <2>1. x + z = f + (w + z) - r
    BY <1>5
  <2>2. Laps(L, k)'
    BY <1>3, <1>4, <1>5, <1>6, <1>8, <1>9, <2>1 DEF Laps
  <2> QED
    BY <2>2 DEF Lapped
<1>10. CASE /\ w + z = Size /\ write'.idx = 0
            /\ write'.spin_count = (write.spin_count + 1) % SpinMod
  <2>1. L + 1 \in Nat /\ Far(L + 1) = f + Size
    BY <1>3, FarFacts
  <2>2. x + z = (f + Size) + 0 - r
    BY <1>5, <1>10
  <2>3. sent' - taken' = Far(L + 1) + write'.idx - read'.idx
    BY <1>6, <1>8, <1>10, <2>1, <2>2
  <2>4. write'.spin_count = IF i = SpinMod - 1 THEN 0 ELSE i + 1
    BY <1>4, <1>10, SpinIncrement
  <2>5. CASE i = SpinMod - 1
    <3>1. k + 1 \in Int /\ Turns(k + 1) = t + SpinMod
      BY <1>3, TurnFacts
    <3>2. 0 + (t + SpinMod) = j + (L + 1)
      BY <1>5, <2>5
    <3>3. Laps(L + 1, k + 1)'
      BY <1>8, <2>3, <2>4, <2>5, <3>1, <3>2 DEF Laps
    <3> QED
      BY <2>1, <3>1, <3>3 DEF Lapped
  <2>6. CASE i # SpinMod - 1
    <3>1. (i + 1) + t = j + (L + 1)
      BY <1>5
    <3>2. Laps(L + 1, k)'
      BY <1>3, <1>8, <2>3, <2>4, <2>6, <3>1 DEF Laps
    <3> QED
      BY <2>1, <3>2 DEF Lapped
  <2> QED
    BY <2>5, <2>6
<1> QED
  BY <1>7, <1>9, <1>10

\* The commit of a read: the consumer starts another lap only when the producer is
\* on a later one.
LEMMA LapsCommitRead ==
    ASSUME AheadInv, read' = Closed(read), taken' = taken + read.async_size,
           write' = write, sent' = sent
    PROVE  Lapped'
<1>1. PICK L \in Nat, k \in Int : Laps(L, k)
  BY DEF AheadInv, Lapped
<1>2. AheadTyped /\ read.idx + read.async_size <= Size /\ read.async_size <= sent - taken
  BY AheadNumbers DEF AheadInv, SafeInv, RegionInBuffer
<1>3. PICK f \in Nat, t \in Int : f = Far(L) /\ t = Turns(k)
  BY FarFacts, TurnFacts
<1>4. PICK x \in Int, w \in 0..Size-1, r \in 0..Size-1, z \in 0..Size,
           i \in 0..SpinMod-1, j \in 0..SpinMod-1 :
         /\ x = sent - taken /\ w = write.idx /\ r = read.idx /\ z = read.async_size
         /\ i = write.spin_count /\ j = read.spin_count
  <2>1. /\ sent - taken \in Int /\ write.idx \in 0..Size-1 /\ read.idx \in 0..Size-1
        /\ read.async_size \in 0..Size
        /\ write.spin_count \in 0..SpinMod-1 /\ read.spin_count \in 0..SpinMod-1
    BY <1>2 DEF AheadTyped, SafeTyped
  <2> QED
    BY <2>1, Zenon
<1>5. x = f + w - r /\ i + t = j + L /\ Size \in Nat /\ SpinMod \in Nat
  BY <1>1, <1>3, <1>4, SizeAssumption, SpinModAssumption DEF Laps
<1>6. sent' - taken' = x - z
  BY <1>2, <1>4 DEF AheadTyped, SafeTyped
<1>7. \/ read'.idx = r + z /\ read'.spin_count = read.spin_count
      \/ /\ r + z = Size /\ read'.idx = 0
         /\ read'.spin_count = (read.spin_count + 1) % SpinMod
  <2>1. read \in Ptr
    BY <1>2 DEF AheadTyped, SafeTyped
  <2> QED
    BY <1>2, <1>4, <2>1, ClosedFacts
<1>8. write'.idx = w /\ write'.spin_count = i
  BY <1>4
<1>9. CASE read'.idx = r + z /\ read'.spin_count = read.spin_count
  <2>1. x - z = f + w - (r + z)
    BY <1>5
  <2>2. Laps(L, k)'
    BY <1>3, <1>4, <1>5, <1>6, <1>8, <1>9, <2>1 DEF Laps
  <2> QED
    BY <2>2 DEF Lapped
<1>10. CASE /\ r + z = Size /\ read'.idx = 0
            /\ read'.spin_count = (read.spin_count + 1) % SpinMod
  <2>0. L # 0
    <3>1. z <= x /\ f # 0
      BY <1>2, <1>4, <1>5, <1>10
    <3> QED
      BY <1>3, <3>1, FarFacts
  <2>1. L - 1 \in Nat /\ Far(L - 1) = f - Size
    <3>1. Far(L - 1) = Far(L) - Size
      BY <2>0, FarFacts, Zenon
    <3> QED
      BY <1>3, <2>0, <3>1
  <2>2. x - z = (f - Size) + w - 0
    BY <1>5, <1>10
  <2>3. sent' - taken' = Far(L - 1) + write'.idx - read'.idx
    BY <1>6, <1>8, <1>10, <2>1, <2>2
  <2>4. read'.spin_count = IF j = SpinMod - 1 THEN 0 ELSE j + 1
    BY <1>4, <1>10, SpinIncrement
  <2>5. CASE j = SpinMod - 1
    <3>1. k - 1 \in Int /\ Turns(k - 1) = t - SpinMod
      BY <1>3, TurnFacts
    <3>2. i + (t - SpinMod) = 0 + (L - 1)
      BY <1>5, <2>5
    <3>3. Laps(L - 1, k - 1)'
      BY <1>8, <2>3, <2>4, <2>5, <3>1, <3>2 DEF Laps
    <3> QED
      BY <2>1, <3>1, <3>3 DEF Lapped
  <2>6. CASE j # SpinMod - 1
    <3>1. i + t = (j + 1) + (L - 1)
      BY <1>5
    <3>2. Laps(L - 1, k)'
      BY <1>3, <1>8, <2>3, <2>4, <2>6, <3>1 DEF Laps
    <3> QED
      BY <2>1, <3>2 DEF Lapped
  <2> QED
    BY <2>5, <2>6
<1> QED
  BY <1>7, <1>9, <1>10

\* Opening a read: after an overrun the consumer is put exactly one lap behind the
\* producer, and the region opened covers bytes that were written.
LEMMA LapsOpenRead ==
    ASSUME AheadInv, ~read.async_started, NEW n \in Nat, OpenRead(n), write' = write, sent' = sent
    PROVE  Lapped' /\ read'.async_size <= sent' - taken'
<1>0. AheadTyped /\ SafeInv /\ Lapped
  BY AheadNumbers DEF AheadInv
<1>1. cb_size \in 0..Size /\ ReadStart \in Ptr /\ ReadStart.async_size = 0 /\ Size \in Nat
  BY <1>0, ReadStartFacts, SizeAssumption DEF SafeInv, Transactions
<1>2. PICK c \in 0..Size, q \in Nat : c = cb_size /\ q = min(n, cb_size) /\ q <= c
  BY <1>1 DEF min
<1>3. /\ read' = IF q = 0 THEN ReadStart ELSE Opened(ReadStart, q)
      /\ taken' = IF Overrun THEN sent - Size ELSE taken
  BY <1>2 DEF OpenRead
<1>4. /\ read'.idx = ReadStart.idx /\ read'.spin_count = ReadStart.spin_count
      /\ read'.async_size \in Nat /\ read'.async_size <= c
  <2>1. CASE q = 0
    BY <1>1, <1>3, <2>1
  <2>2. CASE q # 0
    <3>1. /\ Opened(ReadStart, q) \in Ptr
          /\ Opened(ReadStart, q).idx = ReadStart.idx
          /\ Opened(ReadStart, q).spin_count = ReadStart.spin_count
          /\ Opened(ReadStart, q).async_size <= q
      BY <1>1, OpenedFacts, Zenon
    <3>2. Opened(ReadStart, q).async_size \in Nat
      BY <1>1, <3>1 DEF Ptr
    <3> QED
      BY <1>2, <1>3, <2>2, <3>1, <3>2
  <2> QED
    BY <2>1, <2>2
<1>5. CASE ~Overrun
  <2>1. ReadStart = read /\ taken' = taken
    BY <1>3, <1>5 DEF ReadStart
  <2>2. Lapped'
    BY <1>0, <1>4, <2>1, LapsStay
  <2>3. cb_size <= sent - taken
    BY AheadSize DEF SizeNeverOverstated
  <2> QED
    BY <1>0, <1>2, <1>4, <2>1, <2>2, <2>3 DEF AheadTyped, SafeTyped
<1>6. CASE Overrun
  <2>1. /\ ReadStart.idx = write.idx
        /\ ReadStart.spin_count = (write.spin_count + SpinMod - 1) % SpinMod
        /\ taken' = sent - Size
    BY <1>3, <1>6 DEF ReadStart
  <2>2. PICK i \in 0..SpinMod-1, w \in 0..Size-1, s \in Nat :
           i = write.spin_count /\ w = write.idx /\ s = sent
    <3>1. write.spin_count \in 0..SpinMod-1 /\ write.idx \in 0..Size-1 /\ sent \in Nat
      BY <1>0 DEF AheadTyped, SafeTyped
    <3> QED
      BY <3>1, Zenon
  <2>3. (i + SpinMod - 1) % SpinMod = IF i = 0 THEN SpinMod - 1 ELSE i - 1
    <3>1. CASE i = 0
      BY <3>1, SpinModAssumption
    <3>2. CASE i # 0
      <4>1. i + SpinMod - 1 = (i - 1) + SpinMod /\ i - 1 \in 0..SpinMod-1
        BY <3>2, SpinModAssumption
      <4> QED
        BY <3>2, <4>1, SpinModAssumption
    <3> QED
      BY <3>1, <3>2
  <2>4. sent' - taken' = Size /\ s - (s - Size) = Size
    BY <1>1, <2>1, <2>2
  <2>5. /\ write'.idx = w /\ read'.idx = w /\ write'.spin_count = i
        /\ read'.spin_count = IF i = 0 THEN SpinMod - 1 ELSE i - 1
    BY <1>4, <2>1, <2>2, <2>3
  <2>6. sent' - taken' = Far(1) + write'.idx - read'.idx
    <3>1. Size = Size + w - w
      BY <1>1
    <3> QED
      BY <2>4, <2>5, <3>1, FarFacts
  <2>7. read'.async_size <= sent' - taken'
    BY <1>1, <1>4, <2>4
  <2>8. CASE i = 0
    <3>1. Turns(1) = SpinMod /\ 0 + SpinMod = (SpinMod - 1) + 1
      BY SpinModAssumption DEF Turns
    <3>2. Laps(1, 1)'
      BY <2>5, <2>6, <2>8, <3>1 DEF Laps
    <3>3. Lapped'
      BY <3>2 DEF Lapped
    <3> QED
      BY <2>7, <3>3
  <2>9. CASE i # 0
    <3>1. Turns(0) = 0 /\ i + 0 = (i - 1) + 1
      BY TurnFacts
    <3>2. Laps(1, 0)'
      BY <2>5, <2>6, <2>9, <3>1 DEF Laps
    <3>3. Lapped'
      BY <3>2 DEF Lapped
    <3> QED
      BY <2>7, <3>3
  <2> QED
    BY <2>8, <2>9
<1> QED
  BY <1>5, <1>6

\* The producer's steps keep the count of the laps.
LEMMA AheadProducer ==
    ASSUME AheadInv, Producer
    PROVE  Lapped' /\ read'.async_size <= sent' - taken'
<1>0. AheadTyped /\ Lapped /\ read.async_size <= sent - taken
  BY AheadNumbers DEF AheadInv
<1>1. read' = read /\ taken' = taken
  BY ZenonT(60) DEF Producer, PrepareAsyncWrite, FillByte, EndAsyncWrite, WriteCall, WriteLoop, WriteCommit,
                    rvars, ghost
<1>2. CASE write' = Closed(write) /\ sent' = sent + write.async_size
  BY <1>0, <1>1, <1>2, LapsCommitWrite DEF AheadTyped, SafeTyped
<1>3. CASE UNCHANGED <<sent, write.idx, write.spin_count>>
  BY <1>0, <1>1, <1>3, LapsStay
<1>4. ASSUME NEW n, write' = Opened(write, n), sent' = sent
      PROVE  Lapped' /\ read'.async_size <= sent' - taken'
  BY <1>3, <1>4 DEF Opened
<1>5. \/ write' = Closed(write) /\ sent' = sent + write.async_size
      \/ write' = write /\ sent' = sent
      \/ \E n : write' = Opened(write, n) /\ sent' = sent
  BY ZenonT(60) DEF Producer, PrepareAsyncWrite, FillByte, EndAsyncWrite, WriteCall, WriteLoop, WriteCommit,
                    ghost
<1> QED
  BY <1>2, <1>3, <1>4, <1>5

\* The consumer's steps keep the count of the laps.
LEMMA AheadConsumer ==
    ASSUME AheadInv, Consumer
    PROVE  Lapped' /\ read'.async_size <= sent' - taken'
<1>0. AheadTyped /\ SafeInv /\ Lapped /\ read.async_size <= sent - taken
  BY AheadNumbers DEF AheadInv
<1>1. write' = write /\ sent' = sent
  BY ZenonT(60) DEF Consumer, PrepareAsyncRead, CopyByte, EndAsyncRead, ReadCall, ReadLoop, ReadCommit,
                    wvars, ghost
<1>2. CASE read' = Closed(read) /\ taken' = taken + read.async_size
  <2>1. read'.async_size = 0
    BY <1>2 DEF Closed
  <2> QED
    BY <1>0, <1>1, <1>2, <2>1, LapsCommitRead DEF AheadTyped, SafeTyped
<1>3. CASE UNCHANGED <<read, taken>>
  BY <1>0, <1>1, <1>3, LapsStay
<1>4. ASSUME NEW n \in Nat, ~read.async_started, OpenRead(n)
      PROVE  Lapped' /\ read'.async_size <= sent' - taken'
  BY <1>1, <1>4, LapsOpenRead
<1>5. CASE \E n \in 0..MaxReq : PrepareAsyncRead(n)
  BY <1>3, <1>4, <1>5, BoundsAssumption DEF PrepareAsyncRead
<1>6. CASE ReadLoop
  <2>1. rleft \in Nat
    BY <1>0 DEF AheadTyped, SafeTyped
  <2> QED
    BY <1>3, <1>4, <1>6, <2>1 DEF ReadLoop
<1>7. CASE CopyByte \/ EndAsyncRead \/ ReadCommit \/ \E n \in 1..MaxReq : ReadCall(n)
  <2>1. \/ read' = Closed(read) /\ taken' = taken + read.async_size
        \/ UNCHANGED <<read, taken>>
    BY <1>7, ZenonT(60) DEF CopyByte, EndAsyncRead, ReadCommit, ReadCall, ghost
  <2> QED
    BY <1>2, <1>3, <2>1
<1> QED
  BY <1>5, <1>6, <1>7 DEF Consumer

\* With no assumption on the producer: the spin counters count the laps between the
\* two pointers modulo their width, through overruns, recoveries and overflows.
THEOREM AheadInvariance == Spec => []AheadInv
<1>1. Init => Lapped /\ read.async_size <= sent - taken
  <2> SUFFICES ASSUME Init PROVE Lapped /\ read.async_size <= sent - taken
    OBVIOUS
  <2>1. Far(0) = 0 /\ Turns(0) = 0
    BY FarFacts, TurnFacts
  <2>2. /\ sent = 0 /\ taken = 0 /\ write.idx = 0 /\ read.idx = 0 /\ read.async_size = 0
        /\ write.spin_count = 0 /\ read.spin_count = 0
    BY DEF Init, NewPtr
  <2>3. Laps(0, 0) /\ read.async_size <= sent - taken
    BY <2>1, <2>2 DEF Laps
  <2> QED
    BY <2>3 DEF Lapped
<1>2. AheadInv /\ [Next]_vars => (Lapped /\ read.async_size <= sent - taken)'
  <2> SUFFICES ASSUME AheadInv, [Next]_vars
               PROVE  (Lapped /\ read.async_size <= sent - taken)'
    OBVIOUS
  <2>1. CASE CbInit
    <3>1. Init'
      BY <2>1, Zenon DEF CbInit, Init
    <3>2. Init' => (Lapped /\ read.async_size <= sent - taken)'
      BY <1>1, PTL
    <3> QED
      BY <3>1, <3>2
  <2>2. CASE CbRemove \/ UNCHANGED vars
    <3>1. UNCHANGED <<write, read, sent, taken>>
      BY <2>2 DEF CbRemove, wvars, rvars, ghost, vars
    <3> QED
      BY <3>1, LapsStay DEF AheadInv
  <2> QED
    BY <2>1, <2>2, AheadProducer, AheadConsumer, Zenon DEF Next
<1> QED
  BY <1>1, <1>2, SafeInvariance, PTL DEF Spec, AheadInv

\* With no flow control at all, cb_size never promises bytes that were not written or
\* were consumed already.
THEOREM SizesNeverOverstated == Spec => []SizeNeverOverstated
<1>1. AheadInv => SizeNeverOverstated
  BY AheadSize
<1> QED
  BY <1>1, AheadInvariance, PTL

\* With no flow control at all, -EOVERRUN of cb_size and of a read is no false alarm:
\* more bytes are unread than the buffer holds.
THEOREM OverrunsAreReal == Spec => []OverrunIsReal
<1>1. AheadInv => OverrunIsReal
  BY AheadSize
<1> QED
  BY <1>1, AheadInvariance, PTL

-----------------------------------------------------------------------------
(* CircularBufferThreads, the library at the grain of loads and stores.    *)

\* The variables of CircularBufferThreads; those that are not declared here have the names
\* of variables of CircularBuffer, for which they do not stand.
VARIABLES wspin, widx, rspin, ridx, wsize, rsize, req, newer, spins, torn

Threads == INSTANCE CircularBufferThreads

\* The sizes and the widths that CircularBuffer assumes are those of CircularBufferThreads.
LEMMA ThreadsConstants ==
    /\ Size \in Nat \ {0} /\ SpinMod \in Nat /\ SpinMod >= 2
    /\ MaxReq \in Nat /\ MaxBytes \in Nat
BY SizeAssumption, SpinModAssumption, BoundsAssumption

\* The types, with both pointers and both open regions inside the buffer: this much
\* survives any interleaving.
ThreadsTypeOK ==
    /\ wspin \in 0..SpinMod-1 /\ rspin \in 0..SpinMod-1
    /\ widx \in 0..Size-1 /\ ridx \in 0..Size-1
    /\ wsize \in 0..Size-widx /\ rsize \in 0..Size-ridx
    /\ buff \in [0..Size-1 -> Int]
    /\ wpc \in {"idle", "filled", "spun"}
    /\ rpc \in {"idle", "spins", "index", "reset_spin", "reset_idx", "copy"}
    /\ req \in Nat /\ spins \in Nat /\ sent \in Nat /\ taken \in Nat
    /\ newer \in BOOLEAN /\ torn \in BOOLEAN

\* The pointers' distance is what has been sent and not taken; a writer between its
\* two stores has counted the lap of bytes it has not committed.
Apart ==
    \/ /\ wspin = IF wpc = "spun" THEN (rspin + 1) % SpinMod ELSE rspin
       /\ sent - taken = widx - ridx
    \/ /\ wpc # "spun"
       /\ wspin = (rspin + 1) % SpinMod
       /\ sent - taken = Size + widx - ridx

\* The writer's open region is free, the reader's holds sent bytes.
Discipline ==
    /\ sent - taken + wsize <= Size
    /\ rsize <= sent - taken
    /\ wpc = "idle" => wsize = 0
    /\ wpc = "spun" => widx + wsize = Size

\* The cells from the read index on hold the bytes sent, and then the ones being written.
Cells ==
    \A i \in 0..Size-1 :
       /\ ridx <= i /\ i - ridx < sent - taken + wsize => buff[i] = taken + i - ridx
       /\ i < ridx /\ Size + i - ridx < sent - taken + wsize
             => buff[i] = taken + Size + i - ridx

\* What the reader has loaded is still what it would load now, and it never meets
\* the overrun recovery.
View ==
    /\ Threads!Loading => wpc # "spun"
    /\ rpc \notin {"reset_spin", "reset_idx"}
    /\ rpc = "spins" => newer = (wspin > rspin)
    /\ rpc = "index" => (spins > 0 <=> wspin # rspin)

ThreadsInv ==
    /\ ThreadsTypeOK
    /\ torn \/ (Apart /\ Discipline /\ Cells /\ View)

-----------------------------------------------------------------------------
(* Arithmetic of the counters and of the index.                            *)

\* A spin counter wraps exactly at its last value; with at least two values it changes.
LEMMA SpinStep ==
    ASSUME NEW s \in 0..SpinMod-1
    PROVE  /\ (s + 1) % SpinMod = IF s = SpinMod - 1 THEN 0 ELSE s + 1
           /\ (s + 1) % SpinMod \in 0..SpinMod-1
           /\ (s + 1) % SpinMod # s
           /\ (s + SpinMod - 1) % SpinMod \in 0..SpinMod-1
BY ThreadsConstants

\* An index moved by a region that lies in the buffer wraps exactly at the end.
LEMMA IndexStep ==
    ASSUME NEW i \in 0..Size-1, NEW n \in 0..Size-i
    PROVE  /\ (i + n) % Size = IF i + n < Size THEN i + n ELSE 0
           /\ (i + n) % Size \in 0..Size-1
<1>1. Size % Size = 0
  BY ThreadsConstants
<1>2. i + n < Size \/ i + n = Size
  BY ThreadsConstants
<1> QED
  BY <1>1, <1>2, ThreadsConstants

\* nb_spins of cb_size, from either branch, is zero exactly when the counters agree.
LEMMA SpinsFact ==
    ASSUME NEW w \in 0..SpinMod-1, NEW r \in 0..SpinMod-1
    PROVE  /\ (w - r + SpinMod) % SpinMod \in Nat
           /\ (SpinMod - 1 - r + w + 1) % SpinMod \in Nat
           /\ w > r => (w - r + SpinMod) % SpinMod > 0
           /\ w <= r => ((SpinMod - 1 - r + w + 1) % SpinMod > 0 <=> w # r)
<1>1. (w - r + SpinMod) \in Nat /\ (SpinMod - 1 - r + w + 1) = w - r + SpinMod
  BY ThreadsConstants
<1>2. (w - r + SpinMod) % SpinMod \in 0..SpinMod-1
  BY <1>1, ThreadsConstants
<1>3. ASSUME w > r PROVE (w - r + SpinMod) % SpinMod = w - r
  <2>1. w - r \in 0..SpinMod-1
    BY <1>3, ThreadsConstants
  <2> DEFINE d == w - r
  <2>2. (d + SpinMod) % SpinMod = d
    <3> HIDE DEF d
    <3> QED
      BY <2>1, ThreadsConstants DEF d
  <2> QED
    BY <2>2
<1>4. ASSUME w < r PROVE (w - r + SpinMod) % SpinMod = w - r + SpinMod
  <2> DEFINE d == w - r + SpinMod
  <2>1. d \in 1..SpinMod-1
    BY <1>4, ThreadsConstants
  <2>2. d % SpinMod = d
    <3> HIDE DEF d
    <3> QED
      BY <2>1, ThreadsConstants
  <2> QED
    BY <2>2
<1>5. SpinMod % SpinMod = 0
  BY ThreadsConstants
<1>6. ASSUME w = r PROVE (w - r + SpinMod) % SpinMod = 0
  <2>1. w - r + SpinMod = SpinMod
    BY <1>6, ThreadsConstants
  <2> QED
    BY <2>1, <1>5
<1> QED
  BY <1>1, <1>2, <1>3, <1>4, <1>6, ThreadsConstants

\* What cb_prepare_async_operation hands out lies in the buffer and is no more than
\* what is available.
LEMMA HandOutFact ==
    ASSUME NEW i \in 0..Size-1, NEW a \in 0..Size, req \in Nat, Threads!HandOut(i, a)
    PROVE  /\ rsize' \in 0..Size-i
           /\ rsize' <= a
           /\ rpc' \in {"idle", "copy"}
BY ThreadsConstants DEF Threads!HandOut, Threads!min

\* A cell after the writer filled n cells at its index: the bytes already there keep
\* their numbers and the new ones follow them.
LEMMA FilledCell ==
    ASSUME NEW i \in 0..Size-1, NEW w \in 0..Size-1, NEW r \in 0..Size-1,
           NEW n \in 0..Size-w, NEW s \in Nat, NEW t \in Nat,
           NEW old \in Int, NEW new \in Int,
           s - t = w - r \/ s - t = Size + w - r,
           s - t + n <= Size,
           r <= i /\ i - r < s - t => old = t + i - r,
           i < r /\ Size + i - r < s - t => old = t + Size + i - r,
           new = IF i \in w..w + n - 1 THEN s + i - w ELSE old
    PROVE  /\ r <= i /\ i - r < s - t + n => new = t + i - r
           /\ i < r /\ Size + i - r < s - t + n => new = t + Size + i - r
<1>1. w <= i /\ i < w + n => new = s + i - w
  BY ThreadsConstants
<1>2. ~(w <= i /\ i < w + n) => new = old
  BY ThreadsConstants
<1> QED
  BY <1>1, <1>2, ThreadsConstants

-----------------------------------------------------------------------------
(* Each action preserves the invariant.                                    *)

\* cb_init leaves both pointers at the start of an empty buffer.
LEMMA ThreadsInit == Threads!Init => ThreadsInv
<1> SUFFICES ASSUME Threads!Init PROVE ThreadsInv
  OBVIOUS
<1> USE ThreadsConstants
<1>1. newer \in BOOLEAN /\ torn \in BOOLEAN
  BY Zenon DEF Threads!Init
<1>2. ThreadsTypeOK
  BY <1>1 DEF Threads!Init, ThreadsTypeOK
<1>3. Apart /\ Discipline /\ Cells /\ View
  BY DEF Threads!Init, Apart, Discipline, Cells, View, Threads!Loading
<1> QED
  BY <1>2, <1>3 DEF ThreadsInv

\* The writer fills free cells only.
LEMMA FillStep ==
    ASSUME ThreadsInv, NEW n \in 1..MaxReq, Threads!WriterFill(n)
    PROVE  ThreadsInv'
<1> USE ThreadsConstants
<1>1. wsize' \in 0..Size-widx /\ wsize' <= n /\ wpc = "idle"
  BY DEF ThreadsInv, ThreadsTypeOK, Threads!WriterFill, Threads!min
<1>2. buff' \in [0..Size-1 -> Int]
  BY <1>1 DEF ThreadsInv, ThreadsTypeOK, Threads!WriterFill
<1>3. ThreadsTypeOK'
  BY <1>1, <1>2 DEF ThreadsInv, ThreadsTypeOK, Threads!WriterFill, Threads!rvars
<1>4. ASSUME ~torn PROVE (Apart /\ Discipline /\ View)'
  BY <1>1, <1>4
     DEF ThreadsInv, ThreadsTypeOK, Threads!WriterFill, Threads!rvars, Apart, Discipline, View,
     Threads!Loading
<1>5. ASSUME ~torn PROVE Cells'
  <2> SUFFICES ASSUME NEW i \in 0..Size-1
               PROVE  /\ ridx <= i /\ i - ridx < sent - taken + wsize'
                           => buff'[i] = taken + i - ridx
                      /\ i < ridx /\ Size + i - ridx < sent - taken + wsize'
                           => buff'[i] = taken + Size + i - ridx
    BY <1>5 DEF Cells, Threads!WriterFill, Threads!rvars
  <2>1. buff'[i] = IF i \in widx..widx + wsize' - 1 THEN sent + i - widx ELSE buff[i]
    BY DEF Threads!WriterFill
  <2>2. /\ ridx <= i /\ i - ridx < sent - taken => buff[i] = taken + i - ridx
        /\ i < ridx /\ Size + i - ridx < sent - taken => buff[i] = taken + Size + i - ridx
    BY <1>1, <1>5 DEF ThreadsInv, Discipline, Cells, ThreadsTypeOK
  <2>3. sent - taken = widx - ridx \/ sent - taken = Size + widx - ridx
    BY <1>5 DEF ThreadsInv, Apart
  <2>4. sent - taken + wsize' <= Size
    BY <1>1 DEF Threads!WriterFill, ThreadsInv, ThreadsTypeOK
  <2>5. sent \in Nat /\ taken \in Nat /\ widx \in 0..Size-1 /\ ridx \in 0..Size-1
        /\ wsize' \in 0..Size-widx /\ buff[i] \in Int /\ buff'[i] \in Int
    BY <1>1, <1>2 DEF ThreadsInv, ThreadsTypeOK
  <2>6. PICK m, new : m = wsize' /\ new = buff'[i]
    OBVIOUS
  <2>7. /\ ridx <= i /\ i - ridx < sent - taken + m => new = taken + i - ridx
        /\ i < ridx /\ Size + i - ridx < sent - taken + m => new = taken + Size + i - ridx
    <3>1. /\ new = IF i \in widx..widx + m - 1 THEN sent + i - widx ELSE buff[i]
          /\ sent - taken + m <= Size
          /\ m \in 0..Size-widx /\ buff[i] \in Int /\ new \in Int
      BY <2>1, <2>4, <2>5, <2>6
    <3> QED
      BY <2>2, <2>3, <2>5, <3>1, FilledCell
  <2> QED
    BY <2>6, <2>7
<1> QED
  BY <1>3, <1>4, <1>5 DEF ThreadsInv, ThreadsTypeOK, Threads!WriterFill

\* ptr->spin_count++: a lap is counted for bytes that are not committed yet.
LEMMA StoreSpinStep ==
    ASSUME ThreadsInv, Threads!WriterStoreSpin
    PROVE  ThreadsInv'
<1> USE ThreadsConstants
<1>1. wspin' = (wspin + 1) % SpinMod /\ wspin' \in 0..SpinMod-1 /\ widx + wsize = Size
  BY SpinStep, SMTT(30) DEF ThreadsInv, ThreadsTypeOK, Threads!WriterStoreSpin
<1>2. torn' \in BOOLEAN
  BY DEF Threads!WriterStoreSpin, Threads!Loading, ThreadsInv, ThreadsTypeOK
<1>3. ThreadsTypeOK'
  BY <1>1, <1>2 DEF ThreadsInv, ThreadsTypeOK, Threads!WriterStoreSpin, Threads!rvars
<1>4. ASSUME ~torn' PROVE (Apart /\ Discipline /\ Cells /\ View)'
  <2>1. ~torn /\ ~Threads!Loading /\ Apart /\ Discipline /\ Cells /\ View /\ ThreadsTypeOK
    BY <1>4 DEF Threads!WriterStoreSpin, ThreadsInv
  <2>2. wspin = rspin /\ sent - taken = widx - ridx
    BY <1>1, <2>1 DEF Apart, Discipline, ThreadsTypeOK, Threads!WriterStoreSpin
  <2>3. Apart' /\ Discipline' /\ View'
    BY <1>1, <2>1, <2>2
      
          DEF Apart, Discipline, View, Threads!Loading, ThreadsTypeOK, Threads!WriterStoreSpin,
              Threads!rvars
  <2> QED
    BY <2>1, <2>3 DEF Cells, Threads!WriterStoreSpin, Threads!rvars
<1> QED
  BY <1>2, <1>3, <1>4 DEF ThreadsInv

\* ptr->idx = new_val: the distance grows by the bytes committed.
LEMMA StoreIdxStep ==
    ASSUME ThreadsInv, Threads!WriterStoreIdx
    PROVE  ThreadsInv'
<1> USE ThreadsConstants
<1>1. /\ widx' = IF widx + wsize < Size THEN widx + wsize ELSE 0
      /\ widx' \in 0..Size-1
  BY IndexStep DEF ThreadsInv, ThreadsTypeOK, Threads!WriterStoreIdx
<1>2. ThreadsTypeOK'
  BY <1>1 DEF ThreadsInv, ThreadsTypeOK, Threads!WriterStoreIdx, Threads!rvars
<1>3. ASSUME ~torn PROVE (Apart /\ Discipline /\ Cells /\ View)'
  <2>1. Apart /\ Discipline /\ Cells /\ View /\ ThreadsTypeOK
    BY <1>3 DEF ThreadsInv
  <2>2. sent' - taken' + wsize' = sent - taken + wsize /\ taken' = taken /\ ridx' = ridx
        /\ buff' = buff
    BY <2>1 DEF Threads!WriterStoreIdx, Threads!rvars, ThreadsTypeOK
  <2>3. Apart'
    <3>1. CASE wpc = "spun"
      BY <1>1, <2>1, <2>2, <3>1
         DEF Apart, Discipline, ThreadsTypeOK, Threads!WriterStoreIdx, Threads!rvars
    <3>2. CASE wpc = "filled" /\ widx + wsize < Size
      BY <1>1, <2>1, <2>2, <3>2, SMTT(30)
         DEF Apart, Discipline, ThreadsTypeOK, Threads!WriterStoreIdx, Threads!rvars
    <3> QED
      BY <3>1, <3>2 DEF Threads!WriterStoreIdx
  <2>4. Discipline' /\ View'
    BY <2>1, <2>2
       DEF Discipline, View, Threads!Loading, ThreadsTypeOK, Threads!WriterStoreIdx,
           Threads!rvars
  <2>5. Cells'
    BY <2>1, <2>2 DEF Cells
  <2> QED
    BY <2>3, <2>4, <2>5
<1> QED
  BY <1>2, <1>3 DEF ThreadsInv, Threads!WriterStoreIdx

\* The two loads of write.spin_count: between stores of the writer they agree.
LEMMA LoadStep ==
    ASSUME ThreadsInv, (\E n \in 1..MaxReq : Threads!ReaderCompare(n)) \/ Threads!ReaderSpins
    PROVE  ThreadsInv'
<1> USE ThreadsConstants
<1>1. CASE \E n \in 1..MaxReq : Threads!ReaderCompare(n)
  <2> PICK n \in 1..MaxReq : Threads!ReaderCompare(n)
    BY <1>1
  <2>1. newer' \in BOOLEAN /\ torn' \in BOOLEAN
    BY DEF Threads!ReaderCompare, ThreadsInv, ThreadsTypeOK
  <2>2. ThreadsTypeOK'
    BY <2>1 DEF Threads!ReaderCompare, ThreadsInv, ThreadsTypeOK, Threads!wvars
  <2>3. ASSUME ~torn' PROVE (Apart /\ Discipline /\ Cells /\ View)'
    <3>1. ~torn /\ wpc # "spun" /\ Apart /\ Discipline /\ Cells /\ View
      BY <2>3 DEF Threads!ReaderCompare, ThreadsInv
    <3>2. (Apart /\ Discipline /\ Cells)'
      BY <3>1 DEF Threads!ReaderCompare, Threads!wvars, Apart, Discipline, Cells
    <3>3. View'
      BY <3>1 DEF Threads!ReaderCompare, Threads!wvars, View
    <3> QED
      BY <3>2, <3>3
  <2> QED
    BY <2>1, <2>2, <2>3 DEF ThreadsInv
<1>2. CASE Threads!ReaderSpins
  <2>1. /\ spins' \in Nat
        /\ newer = (wspin > rspin) => (spins' > 0 <=> wspin # rspin)
    <3>1. wspin \in 0..SpinMod-1 /\ rspin \in 0..SpinMod-1 /\ newer \in BOOLEAN
      BY DEF ThreadsInv, ThreadsTypeOK
    <3>2. CASE newer
      <4>1. spins' = (wspin - rspin + SpinMod) % SpinMod
        BY <1>2, <3>2 DEF Threads!ReaderSpins
      <4>2. spins' \in Nat /\ (wspin > rspin => spins' > 0 /\ wspin # rspin)
        BY <3>1, <4>1, SpinsFact
      <4> QED
        BY <3>2, <4>2, Zenon
    <3>3. CASE ~newer
      <4>1. spins' = (SpinMod - 1 - rspin + wspin + 1) % SpinMod
        BY <1>2, <3>3 DEF Threads!ReaderSpins
      <4>2. spins' \in Nat /\ (~(wspin > rspin) => (spins' > 0 <=> wspin # rspin))
        BY <3>1, <4>1, SpinsFact
      <4> QED
        BY <3>3, <4>2, Zenon
    <3> QED
      BY <3>2, <3>3
  <2>2. ThreadsTypeOK'
    BY <1>2, <2>1 DEF Threads!ReaderSpins, ThreadsInv, ThreadsTypeOK, Threads!wvars
  <2>3. ASSUME ~torn PROVE (Apart /\ Discipline /\ Cells /\ View)'
    <3>1. (Apart /\ Discipline /\ Cells)'
      BY <1>2, <2>3 DEF Threads!ReaderSpins, Threads!wvars, Apart, Discipline, Cells, ThreadsInv
    <3>2. View'
      BY <1>2, <2>1, <2>3
         DEF Threads!ReaderSpins, Threads!wvars, View, Threads!Loading, ThreadsInv
    <3> QED
      BY <3>1, <3>2
  <2> QED
    BY <1>2, <2>2, <2>3 DEF ThreadsInv, Threads!ReaderSpins
<1> QED
  BY <1>1, <1>2

\* The load of write.idx: with both loads in step cb_size is the distance, so the
\* region is made of sent bytes and the overrun test fails.
LEMMA IndexLoadStep ==
    ASSUME ThreadsInv, Threads!ReaderIndex
    PROVE  ThreadsInv'
<1> USE ThreadsConstants
<1> DEFINE size == IF spins > 0 THEN Size + widx - ridx ELSE widx - ridx
<1>1. ThreadsTypeOK /\ size \in Int
  BY DEF ThreadsInv, ThreadsTypeOK
<1>2. /\ size > Size \/ size < 0 => rpc' = "reset_spin" /\ rsize' = rsize
      /\ size \in 0..Size => /\ rsize' \in 0..Size-ridx
                             /\ rsize' <= size
                             /\ rpc' \in {"idle", "copy"}
  <2>1. /\ size > Size \/ size < 0 => rpc' = "reset_spin" /\ rsize' = rsize
        /\ size \in 0..Size => Threads!HandOut(ridx, size)
    BY <1>1 DEF Threads!ReaderIndex
  <2>2. ridx \in 0..Size-1 /\ req \in Nat
    BY <1>1 DEF ThreadsTypeOK
  <2> HIDE DEF size
  <2>3. ASSUME size \in 0..Size
        PROVE  rsize' \in 0..Size-ridx /\ rsize' <= size /\ rpc' \in {"idle", "copy"}
    BY <2>1, <2>2, <2>3, HandOutFact
  <2> QED
    BY <2>1, <2>3
<1>3. ThreadsTypeOK'
  <2>1. rsize' \in 0..Size-ridx
        /\ rpc' \in {"idle", "spins", "index", "reset_spin", "reset_idx", "copy"}
    BY <1>1, <1>2 DEF ThreadsTypeOK
  <2> QED
    BY <1>1, <2>1 DEF Threads!ReaderIndex, ThreadsTypeOK, Threads!wvars
<1>4. ASSUME ~torn PROVE (Apart /\ Discipline /\ Cells /\ View)'
  <2>1. Apart /\ Discipline /\ Cells /\ View
    BY <1>4 DEF ThreadsInv
  <2>2. wpc # "spun" /\ (spins > 0 <=> wspin # rspin)
    BY <2>1 DEF View, Threads!Loading, Threads!ReaderIndex
  <2>3. size = sent - taken
    BY <1>1, <2>1, <2>2, SpinStep DEF Apart, ThreadsTypeOK
  <2>4. size \in 0..Size
    BY <1>1, <2>1, <2>3 DEF Discipline, ThreadsTypeOK
  <2> HIDE DEF size
  <2>5. (Apart /\ Cells)'
    BY <2>1 DEF Apart, Cells, Threads!ReaderIndex, Threads!wvars
  <2>6. Discipline'
    BY <1>2, <2>1, <2>3, <2>4 DEF Discipline, Threads!ReaderIndex, Threads!wvars
  <2>7. View'
    BY <1>2, <2>4 DEF View, Threads!Loading
  <2> QED
    BY <2>5, <2>6, <2>7
<1> QED
  BY <1>3, <1>4 DEF ThreadsInv, Threads!ReaderIndex

\* The recovery from an overrun is met on a torn view only, and stays in the buffer.
LEMMA RecoveryStep ==
    ASSUME ThreadsInv, Threads!ReaderResetSpin \/ Threads!ReaderResetIdx
    PROVE  ThreadsInv'
<1> USE ThreadsConstants
<1>1. ThreadsTypeOK /\ torn
  BY DEF ThreadsInv, View, Threads!ReaderResetSpin, Threads!ReaderResetIdx
<1>2. CASE Threads!ReaderResetSpin
  <2>1. rspin' \in 0..SpinMod-1
    BY <1>1, <1>2, SpinStep DEF Threads!ReaderResetSpin, ThreadsTypeOK
  <2> QED
    BY <1>1, <1>2, <2>1 DEF Threads!ReaderResetSpin, ThreadsInv, ThreadsTypeOK, Threads!wvars
<1>3. CASE Threads!ReaderResetIdx
  <2>1. rsize' \in 0..Size-widx /\ rpc' \in {"idle", "copy"}
    BY <1>1, <1>3, HandOutFact DEF Threads!ReaderResetIdx, ThreadsTypeOK
  <2> QED
    BY <1>1, <1>3, <2>1 DEF Threads!ReaderResetIdx, ThreadsInv, ThreadsTypeOK, Threads!wvars
<1> QED
  BY <1>2, <1>3

\* cb_end_async_read: the distance shrinks by the bytes released.
LEMMA ReleaseStep ==
    ASSUME ThreadsInv, Threads!ReaderEnd
    PROVE  ThreadsInv'
<1> USE ThreadsConstants
<1>1. /\ ridx' = IF ridx + rsize < Size THEN ridx + rsize ELSE 0
      /\ ridx' \in 0..Size-1
  BY IndexStep DEF ThreadsInv, ThreadsTypeOK, Threads!ReaderEnd
<1>2. /\ rspin' = IF ridx + rsize < Size THEN rspin ELSE (rspin + 1) % SpinMod
      /\ rspin' \in 0..SpinMod-1
  BY SpinStep, SMTT(30) DEF ThreadsInv, ThreadsTypeOK, Threads!ReaderEnd
<1>3. ThreadsTypeOK'
  BY <1>1, <1>2 DEF ThreadsInv, ThreadsTypeOK, Threads!ReaderEnd, Threads!wvars
<1>4. ASSUME ~torn PROVE (Apart /\ Discipline /\ Cells /\ View)'
  <2>1. Apart /\ Discipline /\ Cells /\ View /\ ThreadsTypeOK
    BY <1>4 DEF ThreadsInv
  <2>2. /\ sent' = sent /\ taken' = taken + rsize /\ wsize' = wsize /\ buff' = buff
        /\ widx' = widx /\ wspin' = wspin /\ wpc' = wpc /\ rsize' = 0 /\ rpc' = "idle"
    BY DEF Threads!ReaderEnd, Threads!wvars
  <2>3. Apart'
    <3>1. CASE ridx + rsize < Size
      BY <1>1, <1>2, <2>1, <2>2, <3>1 DEF Apart, Discipline, ThreadsTypeOK
    <3>2. CASE ~(ridx + rsize < Size)
      <4>1. wpc # "spun"
        BY <2>1, <3>2 DEF Apart, Discipline, ThreadsTypeOK
      <4>2. wspin = (rspin + 1) % SpinMod /\ sent - taken = Size + widx - ridx
        BY <2>1, <3>2, <4>1 DEF Apart, Discipline, ThreadsTypeOK
      <4> QED
        BY <1>1, <1>2, <2>1, <2>2, <3>2, <4>1, <4>2 DEF Apart, Discipline, ThreadsTypeOK
    <3> QED
      BY <3>1, <3>2
  <2>4. Discipline' /\ View'
    BY <2>1, <2>2 DEF Discipline, View, Threads!Loading, ThreadsTypeOK
  <2>5. Cells'
    <3> SUFFICES ASSUME NEW i \in 0..Size-1
                 PROVE  /\ ridx' <= i /\ i - ridx' < sent - taken' + wsize
                             => buff[i] = taken' + i - ridx'
                        /\ i < ridx' /\ Size + i - ridx' < sent - taken' + wsize
                             => buff[i] = taken' + Size + i - ridx'
      BY <2>2 DEF Cells
    <3>1. /\ ridx <= i /\ i - ridx < sent - taken + wsize => buff[i] = taken + i - ridx
          /\ i < ridx /\ Size + i - ridx < sent - taken + wsize
               => buff[i] = taken + Size + i - ridx
      BY <2>1 DEF Cells
    <3> QED
      BY <1>1, <2>1, <2>2, <3>1 DEF ThreadsTypeOK, Discipline
  <2> QED
    BY <2>3, <2>4, <2>5
<1> QED
  BY <1>3, <1>4 DEF ThreadsInv, Threads!ReaderEnd

-----------------------------------------------------------------------------
(* The theorems.                                                           *)

\* The pointers, the open regions and, until a view is torn, the distance between the
\* pointers and the contents of the buffer, under every interleaving of the accesses.
THEOREM ThreadsInvariance == Threads!Spec => []ThreadsInv
<1>1. Threads!Init => ThreadsInv
  BY ThreadsInit
<1>2. ThreadsInv /\ [Threads!Next]_Threads!vars => ThreadsInv'
  <2>1. ThreadsInv /\ Threads!Next => ThreadsInv'
    BY FillStep, StoreSpinStep, StoreIdxStep, LoadStep, IndexLoadStep, RecoveryStep,
       ReleaseStep, Zenon DEF Threads!Next
  <2>2. ThreadsInv /\ UNCHANGED Threads!vars => ThreadsInv'
    BY
       DEF ThreadsInv, ThreadsTypeOK, Apart, Discipline, Cells, View, Threads!Loading,
           Threads!vars
  <2> QED
    BY <2>1, <2>2
<1> QED
  BY <1>1, <1>2, PTL DEF Threads!Spec

\* cb_prepare_async_read never hands out cells past the end of the buffer, however the
\* loads of the write pointer interleave with the writer's stores.
THEOREM ThreadsRegionInBuffer == Threads!Spec => []Threads!TornRegionInBuffer
<1>1. ThreadsInv => Threads!TornRegionInBuffer
  BY ThreadsConstants DEF ThreadsInv, ThreadsTypeOK, Threads!TornRegionInBuffer
<1> QED
  BY <1>1, ThreadsInvariance, PTL

\* A commit that wraps the buffer during a prepare is the only way to hand the reader
\* anything but the next unread bytes.
THEOREM ThreadsFresh == Threads!Spec => []Threads!FreshUntilTorn
<1>1. ThreadsInv => Threads!FreshUntilTorn
  <2> SUFFICES ASSUME ThreadsInv, ~torn, NEW j \in 0..rsize - 1
               PROVE  buff[ridx + j] = taken + j
    BY DEF Threads!FreshUntilTorn, Threads!Fresh
  <2>1. ThreadsTypeOK /\ Discipline /\ Cells
    BY DEF ThreadsInv
  <2>2. ridx + j \in 0..Size-1 /\ ridx + j - ridx = j /\ j < sent - taken + wsize
    BY <2>1, ThreadsConstants DEF ThreadsTypeOK, Discipline
  <2> QED
    BY <2>1, <2>2, ThreadsConstants DEF Cells, ThreadsTypeOK
<1> QED
  BY <1>1, ThreadsInvariance, PTL
=============================================================================
