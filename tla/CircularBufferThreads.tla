------------------------ MODULE CircularBufferThreads -----------------------
(***************************************************************************)
(* util/circular_buffer.c at the grain of its memory accesses, for one     *)
(* writer and one reader that preempt each other anywhere.  The reader's   *)
(* cb_prepare_async_operation loads write.spin_count and write.idx one at  *)
(* a time; the writer's cb_end_async_operation stores them one at a time.  *)
(* Nothing else is shared: each side alone uses its own pointer.           *)
(*                                                                         *)
(* The writer keeps within the size of the buffer (the discipline under    *)
(* which CircularBuffer, with atomic calls, loses nothing).                *)
(***************************************************************************)
EXTENDS Integers

CONSTANTS
    Size,       \* desc->size
    SpinMod,    \* modulus of spin_count (2^32 in the code)
    MaxReq,     \* largest size a caller asks for
    MaxBytes    \* bound: length of the stream

ASSUME ThreadsAssumption ==
    /\ Size \in Nat \ {0} /\ SpinMod \in Nat /\ SpinMod >= 2
    /\ MaxReq \in Nat /\ MaxBytes \in Nat

VARIABLES
    wspin, widx,    \* desc->write
    rspin, ridx,    \* desc->read
    buff,           \* desc->buff, by number of the byte in each cell
    wpc, wsize,     \* the writer: where it is, its async_size
    rpc, rsize,     \* the reader: where it is, its async_size
    req,            \* the reader's requested_size
    newer,          \* the reader found write.spin_count > read.spin_count
    spins,          \* the reader's nb_spins
    sent, taken,    \* history: bytes committed, bytes released
    torn            \* history: a wrapping commit overlapped a prepare of the reader

wvars == <<wspin, widx, wpc, wsize, sent>>
rvars == <<rspin, ridx, rpc, rsize, req, newer, spins, taken>>
vars == <<wspin, widx, rspin, ridx, buff, wpc, wsize, rpc, rsize, req, newer, spins,
          sent, taken, torn>>

min(a, b) == IF a <= b THEN a ELSE b

Init ==
    /\ wspin = 0 /\ widx = 0 /\ rspin = 0 /\ ridx = 0
    /\ buff = [i \in 0..Size-1 |-> -1]
    /\ wpc = "idle" /\ wsize = 0
    /\ rpc = "idle" /\ rsize = 0 /\ req = 0 /\ newer = FALSE /\ spins = 0
    /\ sent = 0 /\ taken = 0 /\ torn = FALSE

\* The reader is between its first and its last load of the write pointer.
Loading == rpc \in {"spins", "index", "reset_spin", "reset_idx"}

-----------------------------------------------------------------------------
(* The writer.                                                             *)

\* cb_prepare_async_write and the transfer: private until the commit.
WriterFill(n) ==
    /\ wpc = "idle"
    /\ sent - taken + n <= Size /\ sent + n <= MaxBytes
    /\ wsize' = min(n, Size - widx)
    /\ buff' = [i \in 0..Size-1 |->
                  IF i \in widx..widx + wsize' - 1 THEN sent + i - widx ELSE buff[i]]
    /\ wpc' = "filled"
    /\ UNCHANGED <<wspin, widx, rvars, sent, torn>>

\* cb_end_async_operation, the index passes the end: ptr->spin_count++ first.
WriterStoreSpin ==
    /\ wpc = "filled" /\ widx + wsize >= Size
    /\ wspin' = (wspin + 1) % SpinMod
    /\ wpc' = "spun"
    /\ torn' = (torn \/ Loading)
    /\ UNCHANGED <<widx, wsize, buff, rvars, sent>>

\* ptr->idx = new_val: the bytes are committed.
WriterStoreIdx ==
    /\ \/ wpc = "filled" /\ widx + wsize < Size
       \/ wpc = "spun"
    /\ widx' = (widx + wsize) % Size
    /\ wsize' = 0
    /\ sent' = sent + wsize
    /\ wpc' = "idle"
    /\ UNCHANGED <<wspin, buff, rvars, torn>>

-----------------------------------------------------------------------------
(* The reader.                                                             *)

\* cb_size compares the spin counters: the first load of write.spin_count.
ReaderCompare(n) ==
    /\ rpc = "idle"
    /\ req' = n
    /\ newer' = (wspin > rspin)
    /\ rpc' = "spins"
    /\ torn' = (torn \/ wpc = "spun")
    /\ UNCHANGED <<rspin, ridx, rsize, spins, taken, buff, wvars>>

\* cb_size subtracts them: the second load.
ReaderSpins ==
    /\ rpc = "spins"
    /\ spins' = IF newer THEN (wspin - rspin + SpinMod) % SpinMod
                ELSE (SpinMod - 1 - rspin + wspin + 1) % SpinMod
    /\ rpc' = "index"
    /\ UNCHANGED <<rspin, ridx, rsize, req, newer, taken, torn, buff, wvars>>

\* The tail of cb_prepare_async_operation, from index i with size bytes available.
HandOut(i, avail) ==
    LET n == min(req, avail) IN
    /\ rsize' = min(n, Size - i)
    /\ rpc' = IF n = 0 THEN "idle" ELSE "copy"

\* Mutant: the lap difference is ignored.
ReaderIndex_same_lap ==
    /\ rpc = "index"
    /\ IF widx - ridx < 0
       THEN rpc' = "reset_spin" /\ UNCHANGED rsize
       ELSE HandOut(ridx, widx - ridx)
    /\ UNCHANGED <<rspin, ridx, req, newer, spins, taken, torn, buff, wvars>>

\* cb_size subtracts the indices: the load of write.idx, and the range check.
ReaderIndex ==
    /\ rpc = "index"
    /\ LET size == IF spins > 0 THEN Size + widx - ridx ELSE widx - ridx IN
       IF size > Size \/ size < 0
       THEN rpc' = "reset_spin" /\ UNCHANGED rsize
       ELSE HandOut(ridx, size)
    /\ UNCHANGED <<rspin, ridx, req, newer, spins, taken, torn, buff, wvars>>

\* The recovery from -EOVERRUN: read.spin_count = write.spin_count - 1.
ReaderResetSpin ==
    /\ rpc = "reset_spin"
    /\ rspin' = (wspin + SpinMod - 1) % SpinMod
    /\ rpc' = "reset_idx"
    /\ UNCHANGED <<ridx, rsize, req, newer, spins, taken, torn, buff, wvars>>

\* Mutant: the region is measured from the index before the recovery.
ReaderResetIdx_stale ==
    /\ rpc = "reset_idx"
    /\ ridx' = widx
    /\ HandOut(ridx, Size)
    /\ UNCHANGED <<rspin, req, newer, spins, taken, torn, buff, wvars>>

\* read.idx = write.idx, and a full buffer is handed out.
ReaderResetIdx ==
    /\ rpc = "reset_idx"
    /\ ridx' = widx
    /\ HandOut(widx, Size)
    /\ UNCHANGED <<rspin, req, newer, spins, taken, torn, buff, wvars>>

\* The region is copied and cb_end_async_read releases it.
ReaderEnd ==
    /\ rpc = "copy"
    /\ rspin' = IF ridx + rsize >= Size THEN (rspin + 1) % SpinMod ELSE rspin
    /\ ridx' = (ridx + rsize) % Size
    /\ taken' = taken + rsize
    /\ rsize' = 0
    /\ rpc' = "idle"
    /\ UNCHANGED <<req, newer, spins, torn, buff, wvars>>

Next ==
    \/ \E n \in 1..MaxReq : WriterFill(n)
    \/ WriterStoreSpin
    \/ WriterStoreIdx
    \/ \E n \in 1..MaxReq : ReaderCompare(n)
    \/ ReaderSpins
    \/ ReaderIndex
    \/ ReaderResetSpin
    \/ ReaderResetIdx
    \/ ReaderEnd

Spec == Init /\ [][Next]_vars

-----------------------------------------------------------------------------
(* Properties.                                                             *)

\* A torn view of the write pointer may give the reader the wrong bytes, but never
\* a region outside the buffer.
TornRegionInBuffer == ridx + rsize <= Size

\* The reader is handed the next unread bytes.
Fresh ==
    rpc = "copy" => \A j \in 0..rsize - 1 : buff[ridx + j] = taken + j

\* The only window of the race: until a commit that wraps the buffer has overlapped
\* a prepare of the reader, every read is handed the next unread bytes.
FreshUntilTorn == torn \/ Fresh

\* circular_buffer.c:93, "Circular buffer implementation is thread safe for one write
\* and one reader": every read is handed the next unread bytes.
ThreadSafe == Fresh
=============================================================================
