--------------------------- MODULE CircularBuffer ---------------------------
(***************************************************************************)
(* util/circular_buffer.c: the byte queue between an interrupt handler or  *)
(* DMA engine (the producer) and the application (the consumer).           *)
(*                                                                         *)
(* Every library call is one step; the transfer of the bytes of an open    *)
(* transaction (a memcpy of cb_write/cb_read, or the caller's DMA) is one  *)
(* step per byte, so the two sides interleave inside a transaction.        *)
(*                                                                         *)
(* The bytes of the stream are numbered from 0 in the order the producer   *)
(* stores them; a cell of buff holds the number of the byte last stored in *)
(* it, -1 while it still has calloc's zero.                                *)
(***************************************************************************)
EXTENDS Integers

CONSTANTS
    Size,       \* desc->size
    SpinMod,    \* modulus of spin_count (2^32 in the code)
    MaxReq,     \* largest size a caller asks for
    MaxAhead,   \* how far the producer may run ahead of the consumer
    MaxBytes    \* bound: length of the stream

ASSUME SizeAssumption == Size \in Nat \ {0}
ASSUME SpinModAssumption == SpinMod \in Nat /\ SpinMod >= 2
ASSUME BoundsAssumption == MaxReq \in Nat /\ MaxAhead \in Nat /\ MaxBytes \in Nat

VARIABLES
    alive,          \* between cb_init and cb_remove
    write, read,    \* the two struct cb_ptr
    buff,           \* desc->buff
    filled, copied, \* bytes transferred so far in the open transactions
    wpc, wleft,     \* cb_write: where it is, and size - i
    rpc, rleft,     \* cb_read: where it is, and size - i
    sticky,         \* cb_read's sticky_overrun
    wret, rret,     \* result of the last call of each side
    sent,           \* history: bytes committed by the producer
    taken,          \* history: bytes released (or lost) by the consumer
    got             \* history: number of the last byte the consumer copied

ghost == <<sent, taken, got>>
wvars == <<write, filled, wpc, wleft, wret>>
rvars == <<read, copied, rpc, rleft, sticky, rret>>
vars == <<alive, write, read, buff, filled, copied, wpc, wleft, rpc, rleft,
          sticky, wret, rret, sent, taken, got>>

min(a, b) == IF a <= b THEN a ELSE b

NewPtr == [idx |-> 0, spin_count |-> 0, async_started |-> FALSE, async_size |-> 0]

\* cb_init: calloc zeroes the pointers and the buffer.
Init ==
    /\ alive = TRUE
    /\ write = NewPtr /\ read = NewPtr
    /\ buff = [i \in 0..Size-1 |-> -1]
    /\ filled = 0 /\ copied = 0
    /\ wpc = "idle" /\ wleft = 0
    /\ rpc = "idle" /\ rleft = 0
    /\ sticky = FALSE
    /\ wret = "SUCCESS" /\ rret = "SUCCESS"
    /\ sent = 0 /\ taken = 0 /\ got = -1

-----------------------------------------------------------------------------
(* The helpers of the library.                                             *)

\* Mutant: the branch for the overflow of spin_count loses its + 1.
nb_spins_off_by_one ==
    IF write.spin_count > read.spin_count
    THEN write.spin_count - read.spin_count
    ELSE (SpinMod - 1 - read.spin_count + write.spin_count) % SpinMod

\* Mutant: the overflow of write.spin_count is not foreseen.
nb_spins_no_wrap ==
    IF write.spin_count > read.spin_count
    THEN write.spin_count - read.spin_count
    ELSE 0

\* nb_spins of cb_size, in the arithmetic of the spin counters.
nb_spins ==
    IF write.spin_count > read.spin_count
    THEN write.spin_count - read.spin_count
    ELSE (SpinMod - 1 - read.spin_count + write.spin_count + 1) % SpinMod

\* The difference cb_size computes before its range check.
RawSize ==
    IF nb_spins > 0 THEN Size + write.idx - read.idx
                    ELSE write.idx - read.idx

\* *size > desc->size: unsigned, so a negative difference is above it too.
Overrun == RawSize > Size \/ RawSize < 0

\* What cb_size stores through its size argument.
cb_size == IF Overrun THEN Size ELSE RawSize

\* The read pointer when cb_prepare_async_operation computes the region.
ReadStart ==
    IF Overrun
    THEN [idx |-> write.idx,
          spin_count |-> (write.spin_count + SpinMod - 1) % SpinMod,
          async_started |-> read.async_started, async_size |-> read.async_size]
    ELSE read

\* Mutant: the region is not cut at the end of the buffer.
Opened_past_end(ptr, req) ==
    [ptr EXCEPT !.async_size = req, !.async_started = TRUE]

\* The tail of cb_prepare_async_operation: hand out a region up to the end.
Opened(ptr, req) ==
    [idx |-> ptr.idx, spin_count |-> ptr.spin_count,
     async_started |-> TRUE, async_size |-> min(req, Size - ptr.idx)]

\* Mutant: new_val is not reduced modulo the size.
Closed_no_modulo(ptr) ==
    LET new_val == ptr.idx + ptr.async_size IN
    [idx           |-> new_val,
     spin_count    |-> IF new_val >= Size THEN (ptr.spin_count + 1) % SpinMod
                                          ELSE ptr.spin_count,
     async_started |-> FALSE,
     async_size    |-> 0]

\* Mutant: async_started is left set.
Closed_still_started(ptr) ==
    LET new_val == ptr.idx + ptr.async_size IN
    [idx           |-> IF new_val >= Size THEN new_val % Size ELSE new_val,
     spin_count    |-> IF new_val >= Size THEN (ptr.spin_count + 1) % SpinMod
                                          ELSE ptr.spin_count,
     async_started |-> ptr.async_started,
     async_size    |-> 0]

\* cb_end_async_operation on an open transaction.
Closed(ptr) ==
    LET new_val == ptr.idx + ptr.async_size IN
    [idx           |-> IF new_val >= Size THEN new_val % Size ELSE new_val,
     spin_count    |-> IF new_val >= Size THEN (ptr.spin_count + 1) % SpinMod
                                          ELSE ptr.spin_count,
     async_started |-> FALSE,
     async_size    |-> 0]

-----------------------------------------------------------------------------
(* The producer.                                                           *)

\* Bytes the producer is committed to put in, beyond those already sent.
Promised == IF wpc = "copy" THEN wleft ELSE write.async_size + wleft

\* The producer's own discipline: the library does not check for room.
HasRoom(n) ==
    /\ sent - taken + Promised + n <= MaxAhead
    /\ sent + Promised + n <= MaxBytes

\* cb_prepare_async_write.
PrepareAsyncWrite(n) ==
    /\ alive /\ wpc = "idle"
    /\ \/ /\ write.async_started
          /\ wret' = "EBUSY"
          /\ UNCHANGED <<write, filled>>
       \/ /\ ~write.async_started
          /\ HasRoom(n)
          /\ write' = Opened(write, n)
          /\ filled' = 0
          /\ wret' = "SUCCESS"
    /\ UNCHANGED <<alive, buff, wpc, wleft, rvars, ghost>>

\* One byte of the open write transaction reaches the buffer.
FillByte ==
    /\ alive /\ write.async_started /\ filled < write.async_size
    /\ buff' = [buff EXCEPT ![write.idx + filled] = sent + filled]
    /\ filled' = filled + 1
    /\ UNCHANGED <<alive, write, wpc, wleft, wret, rvars, ghost>>

\* cb_end_async_write by the owner of an asynchronous transaction.
EndAsyncWrite ==
    /\ alive /\ wpc # "copy"
    /\ \/ /\ ~write.async_started
          /\ wret' = "FAILURE"
          /\ UNCHANGED <<write, filled, sent>>
       \/ /\ write.async_started /\ filled = write.async_size
          /\ write' = Closed(write)
          /\ filled' = 0
          /\ sent' = sent + write.async_size
          /\ wret' = "SUCCESS"
    /\ UNCHANGED <<alive, buff, wpc, wleft, rvars, taken, got>>

\* cb_write is called; it may have to wait for an asynchronous transaction.
WriteCall(n) ==
    /\ alive /\ wpc = "idle" /\ HasRoom(n)
    /\ wpc' = "spin"
    /\ wleft' = n
    /\ UNCHANGED <<alive, write, buff, filled, wret, rvars, ghost>>

\* The do-while of cb_operation, leaving it when no transaction is open.
WriteLoop ==
    /\ wpc = "spin" /\ ~write.async_started
    /\ write' = Opened(write, wleft)
    /\ filled' = 0
    /\ wpc' = "copy"
    /\ UNCHANGED <<alive, buff, wleft, wret, rvars, ghost>>

\* Mutant: commits all that is left instead of the region just copied.
WriteCommit_whole_request ==
    /\ wpc = "copy" /\ filled = write.async_size
    /\ write' = Closed(write)
    /\ filled' = 0
    /\ sent' = sent + wleft
    /\ wleft' = 0
    /\ wpc' = "idle" /\ wret' = "SUCCESS"
    /\ UNCHANGED <<alive, buff, rvars, taken, got>>

\* The memcpy is done: commit, and go round the outer loop of cb_operation.
WriteCommit ==
    /\ wpc = "copy" /\ filled = write.async_size
    /\ write' = Closed(write)
    /\ filled' = 0
    /\ sent' = sent + write.async_size
    /\ wleft' = wleft - write.async_size
    /\ IF wleft' = 0 THEN wpc' = "idle" /\ wret' = "SUCCESS"
                     ELSE wpc' = "spin" /\ UNCHANGED wret
    /\ UNCHANGED <<alive, buff, rvars, taken, got>>

-----------------------------------------------------------------------------
(* The consumer.                                                           *)

\* Mutant: the request is not cut to the data available.
OpenRead_unlimited(n) ==
    /\ read' = IF n = 0 THEN ReadStart ELSE Opened(ReadStart, n)
    /\ rret' = IF n = 0 THEN "EAGAIN" ELSE IF Overrun THEN "EOVERRUN" ELSE "SUCCESS"
    /\ taken' = IF Overrun THEN sent - Size ELSE taken
    /\ copied' = 0

\* cb_prepare_async_operation for reading, when no read is open.
OpenRead(n) ==
    LET req == min(n, cb_size) IN
    /\ read' = IF req = 0 THEN ReadStart ELSE Opened(ReadStart, req)
    /\ rret' = IF req = 0 THEN "EAGAIN" ELSE IF Overrun THEN "EOVERRUN" ELSE "SUCCESS"
    /\ taken' = IF Overrun THEN sent - Size ELSE taken
    /\ copied' = 0

\* Mutant: a second read transaction may be opened over the first.
PrepareAsyncRead_not_busy(n) ==
    /\ alive /\ rpc = "idle"
    /\ OpenRead(n)
    /\ UNCHANGED <<alive, buff, rpc, rleft, sticky, wvars, sent, got>>

\* cb_prepare_async_read.
PrepareAsyncRead(n) ==
    /\ alive /\ rpc = "idle"
    /\ \/ /\ read.async_started
          /\ rret' = "EBUSY"
          /\ UNCHANGED <<read, copied, taken>>
       \/ /\ ~read.async_started
          /\ OpenRead(n)
    /\ UNCHANGED <<alive, buff, rpc, rleft, sticky, wvars, sent, got>>

\* One byte of the open read transaction reaches the consumer.
CopyByte ==
    /\ alive /\ read.async_started /\ copied < read.async_size
    /\ got' = buff[read.idx + copied]
    /\ copied' = copied + 1
    /\ UNCHANGED <<alive, buff, read, rpc, rleft, sticky, rret, wvars, sent, taken>>

\* cb_end_async_read by the owner of an asynchronous transaction.
EndAsyncRead ==
    /\ alive /\ rpc # "copy"
    /\ \/ /\ ~read.async_started
          /\ rret' = "FAILURE"
          /\ UNCHANGED <<read, copied, taken>>
       \/ /\ read.async_started /\ copied = read.async_size
          /\ read' = Closed(read)
          /\ copied' = 0
          /\ taken' = taken + read.async_size
          /\ rret' = "SUCCESS"
    /\ UNCHANGED <<alive, buff, rpc, rleft, sticky, wvars, sent, got>>

\* cb_read is called.
ReadCall(n) ==
    /\ alive /\ rpc = "idle"
    /\ rpc' = "spin"
    /\ rleft' = n
    /\ sticky' = FALSE
    /\ UNCHANGED <<alive, read, buff, copied, rret, wvars, ghost>>

\* One turn of the do-while of cb_operation: -EBUSY and -EAGAIN go round.
ReadLoop ==
    /\ rpc = "spin"
    /\ \/ /\ read.async_started
          /\ rret' = "EBUSY"
          /\ UNCHANGED <<read, copied, rpc, sticky, taken>>
       \/ /\ ~read.async_started
          /\ OpenRead(rleft)
          /\ rpc' = IF rret' = "EAGAIN" THEN "spin" ELSE "copy"
          /\ sticky' = (sticky \/ rret' = "EOVERRUN")
    /\ UNCHANGED <<alive, buff, rleft, wvars, sent, got>>

\* The memcpy is done: release the region, go round or return.
ReadCommit ==
    /\ rpc = "copy" /\ copied = read.async_size
    /\ read' = Closed(read)
    /\ copied' = 0
    /\ taken' = taken + read.async_size
    /\ rleft' = rleft - read.async_size
    /\ IF rleft' = 0
       THEN rpc' = "idle" /\ rret' = (IF sticky THEN "EOVERRUN" ELSE "SUCCESS")
       ELSE rpc' = "spin" /\ UNCHANGED rret
    /\ UNCHANGED <<alive, buff, sticky, wvars, sent, got>>

-----------------------------------------------------------------------------
(* Lifetime.                                                               *)

\* cb_remove, by an owner that has stopped both sides.
CbRemove ==
    /\ alive /\ wpc = "idle" /\ rpc = "idle"
    /\ ~write.async_started /\ ~read.async_started
    /\ alive' = FALSE
    /\ UNCHANGED <<buff, wvars, rvars, ghost>>

\* cb_init for the next life of the buffer.
CbInit ==
    /\ ~alive
    /\ alive' = TRUE
    /\ write' = NewPtr /\ read' = NewPtr
    /\ buff' = [i \in 0..Size-1 |-> -1]
    /\ filled' = 0 /\ copied' = 0
    /\ wpc' = "idle" /\ wleft' = 0
    /\ rpc' = "idle" /\ rleft' = 0
    /\ sticky' = FALSE
    /\ wret' = "SUCCESS" /\ rret' = "SUCCESS"
    /\ sent' = 0 /\ taken' = 0 /\ got' = -1

Producer ==
    \/ \E n \in 0..MaxReq : PrepareAsyncWrite(n)
    \/ FillByte
    \/ EndAsyncWrite
    \/ \E n \in 1..MaxReq : WriteCall(n)
    \/ WriteLoop
    \/ WriteCommit

Consumer ==
    \/ \E n \in 0..MaxReq : PrepareAsyncRead(n)
    \/ CopyByte
    \/ EndAsyncRead
    \/ \E n \in 1..MaxReq : ReadCall(n)
    \/ ReadLoop
    \/ ReadCommit

Next == Producer \/ Consumer \/ CbRemove \/ CbInit

Spec == Init /\ [][Next]_vars

\* The threads inside cb_write and cb_read keep running, a transfer once started
\* moves its bytes, and its completion handler ends the transaction.
FairSpec ==
    /\ Spec
    /\ WF_vars(FillByte) /\ WF_vars(WriteLoop) /\ WF_vars(WriteCommit)
    /\ WF_vars(write.async_started /\ EndAsyncWrite)
    /\ WF_vars(CopyByte) /\ WF_vars(ReadLoop) /\ WF_vars(ReadCommit)
    /\ WF_vars(read.async_started /\ EndAsyncRead)

-----------------------------------------------------------------------------
(* Properties.                                                             *)

Ptr == [idx : 0..Size-1, spin_count : 0..SpinMod-1,
        async_started : BOOLEAN, async_size : 0..Size]

Result == {"SUCCESS", "FAILURE", "EBUSY", "EAGAIN", "EOVERRUN"}

\* Type correctness; the indices stay inside the buffer (cb_end_async_operation).
TypeOK ==
    /\ alive \in BOOLEAN
    /\ write \in Ptr /\ read \in Ptr
    /\ buff \in [0..Size-1 -> Int]
    /\ filled \in 0..Size /\ copied \in 0..Size
    /\ wpc \in {"idle", "spin", "copy"} /\ wleft \in 0..MaxReq
    /\ rpc \in {"idle", "spin", "copy"} /\ rleft \in 0..MaxReq
    /\ sticky \in BOOLEAN
    /\ wret \in Result /\ rret \in Result
    /\ sent \in Nat /\ taken \in Int /\ got \in Int

\* The region handed to a DMA engine or to memcpy lies inside the buffer, whatever
\* overruns and recoveries came before (cb_prepare_async_operation).
RegionInBuffer ==
    /\ write.idx + write.async_size <= Size
    /\ read.idx + read.async_size <= Size

\* The producer leaves unread bytes alone.
FlowControl == MaxAhead <= Size

\* The spin counters tell whether the producer is on the consumer's lap or on the
\* next one, and with the indices they measure the unread bytes.
Distance ==
    \/ /\ write.spin_count = read.spin_count
       /\ sent - taken = write.idx - read.idx
    \/ /\ write.spin_count = (read.spin_count + 1) % SpinMod
       /\ sent - taken = Size + write.idx - read.idx

\* Unread bytes, and those the producer is about to add, fit in the buffer; an
\* open read covers unread bytes only.
Room ==
    /\ taken >= 0 /\ sent - taken >= 0 /\ write.idx <= sent
    /\ sent - taken + Promised <= Size
    /\ read.async_size <= sent - taken

\* What the open transactions and the blocking calls agree on.
Transactions ==
    /\ ~write.async_started => write.async_size = 0
    /\ ~read.async_started => read.async_size = 0
    /\ filled <= write.async_size /\ copied <= read.async_size
    /\ wpc = "idle" => wleft = 0
    /\ wpc = "copy" => write.async_started /\ write.async_size <= wleft
    /\ rpc = "copy" => read.async_started /\ read.async_size <= rleft

\* Number of the byte that belongs in cell i: this lap's below the point the
\* producer has filled, the previous lap's above it.
Held(i) ==
    LET n == sent - write.idx + i IN
    IF i < write.idx + filled THEN n
    ELSE IF n < Size THEN -1 ELSE n - Size

\* Every cell holds the byte the write pointer says it does.
Contents == \A i \in 0..Size-1 : buff[i] = Held(i)

\* The consumer has copied every byte up to where its read pointer and the open
\* transaction say it is.
Delivered == got + 1 = taken + copied

\* The inductive invariant of a producer that keeps within the size of the buffer:
\* pointers, spin counters, memory and transactions of circular_buffer.c agree.
FlowInv ==
    /\ TypeOK
    /\ RegionInBuffer
    /\ Distance
    /\ Room
    /\ Transactions
    /\ Contents
    /\ Delivered

\* While the producer keeps within the size of the buffer, cb_size returns exactly
\* the number of unread bytes and never -EOVERRUN, across any number of overflows
\* of the two spin counters.
SizeExact == ~Overrun /\ cb_size = sent - taken

\* While the producer keeps within the size of the buffer, the region handed to the
\* consumer holds the next bytes of the stream for as long as it is handed out: no
\* byte the producer stores meanwhile lands in it.
ReadRegionIntact ==
    read.async_started =>
        \A j \in 0..read.async_size - 1 : buff[read.idx + j] = taken + j

\* The bytes cb_read and the asynchronous reads deliver are the bytes written, in
\* order, each exactly once.
DeliveredInOrder == [][alive /\ got' # got => got' = got + 1]_vars

Stream == INSTANCE ByteStream WITH Capacity <- Size

\* While the producer keeps within the size of the buffer, the two pointers, their
\* spin counters and the memory implement the loss-free stream.
ImplementsStream == Stream!StreamSpec

\* With no flow control at all: cb_size never promises bytes that were not written
\* or were consumed already.
SizeNeverOverstated == cb_size <= sent - taken

\* With no flow control at all: -EOVERRUN is no false alarm, unread bytes were
\* overwritten.
OverrunIsReal == Overrun => sent - taken > Size

\* cb_write returns even if nobody reads: it never waits for room.
WriteReturns == wpc # "idle" ~> wpc = "idle"

\* A cb_read that waits while there is data takes it: it returns or drains the buffer.
ReadDrains == (rpc # "idle" /\ sent > taken) ~> (rpc = "idle" \/ sent = taken)
=============================================================================
