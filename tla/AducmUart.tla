----------------------------- MODULE AducmUart -----------------------------
(***************************************************************************)
(* drivers/platform/aducm3029/uart.c: the UART driver of the ADuCM3029 on  *)
(* top of the ADI UART driver (external), which queues buffers, moves them *)
(* and runs uart_callback in the interrupt.                                *)
(*                                                                         *)
(* Each transfer the application asks for is numbered, and a place in      *)
(* memory is a transfer's buffer and an offset in it: what is moved where  *)
(* is a set of chunks.  The two directions have the same code and the same *)
(* state, a struct op_desc each.                                           *)
(***************************************************************************)
EXTENDS Integers, Sequences

CONSTANTS
    MAX_BYTES,  \* most bytes of one buffer of the ADI driver
    Sizes,      \* the numbers of bytes the application transfers
    Dirs,       \* the directions it uses, of "read" and "write"
    Blocking,   \* whether it uses uart_read and uart_write
    Rearm,      \* whether its callback starts the next read, as at_callback does
    LineErrors, \* whether the line or the DMA reports errors
    MaxOps      \* bound: transfers asked for

ASSUME UartAssumption ==
    /\ MAX_BYTES \in Nat \ {0} /\ MaxOps \in Nat
    /\ Sizes \subseteq Nat /\ Dirs \subseteq {"read", "write"}
    /\ Blocking \in BOOLEAN /\ Rearm \in BOOLEAN /\ LineErrors \in BOOLEAN

VARIABLES
    initialized,    \* initialized[device_id]
    live,           \* a descriptor is allocated
    callback,       \* desc->callback is set
    desc,           \* read_desc and write_desc
    errors,         \* extra->errors
    hw,             \* the ADI driver: the buffers submitted, for each direction
    pc, call,       \* the application: where it is, its transfer
    idx,            \* uart_read and uart_write: bytes done
    val,            \* uart_get_errors: the value it returns
    ret,            \* result of the last call
    sizes,          \* history: the bytes of each transfer
    filled,         \* history: the bytes moved of each transfer
    reported,       \* history: the transfers reported as done
    faulty,         \* history: the line or the DMA has reported an error
    overtaken       \* history: a callback has started a transfer between a call's look at
                    \* the direction and its claim

app == <<pc, call, idx, val, ret>>
vars == <<initialized, live, callback, desc, errors, hw, app, sizes, filled, reported,
          faulty, overtaken>>

SUCCESS == 0
FAILURE == -1

Bytes(n) == IF n < MAX_BYTES THEN n ELSE MAX_BYTES
NoOp == [is_nonblocking |-> FALSE, pending |-> 0, op |-> 0, buff |-> 0]
NoDesc == [d \in {"read", "write"} |-> NoOp]

Init ==
    /\ initialized = FALSE /\ live = FALSE /\ callback = FALSE
    /\ desc = NoDesc /\ errors = {}
    /\ hw = [d \in {"read", "write"} |-> <<>>]
    /\ pc = "idle" /\ call = [dir |-> "read", op |-> 0, size |-> 0]
    /\ idx = 0 /\ val = {} /\ ret = SUCCESS
    /\ sizes = <<>> /\ filled = [op \in 1..MaxOps |-> 0] /\ reported = {}
    /\ faulty = FALSE /\ overtaken = FALSE

-----------------------------------------------------------------------------
(* The ADI driver (external) takes at most two buffers in each direction.  *)

Submit(queue, chunk) == IF Len(queue) < 2 THEN Append(queue, chunk) ELSE queue

Chunk(owner, op, from, len) == [owner |-> owner, op |-> op, from |-> from, len |-> len]

\* The oldest buffer of direction d has been moved.
Moved(d) == [filled EXCEPT ![Head(hw[d]).op] = @ + Head(hw[d]).len]

-----------------------------------------------------------------------------
(* uart_init, uart_remove, and the callback that irq_register_callback     *)
(* stores in the descriptor.                                               *)

UartInit ==
    /\ pc = "idle" /\ ~live
    /\ \/ initialized /\ ret' = FAILURE /\ UNCHANGED <<initialized, live, callback, desc, errors>>
       \/ \* No memory, or the ADI driver refuses the device, its configuration or its rate.
          /\ ~initialized
          /\ initialized' = TRUE /\ ret' = FAILURE
          /\ UNCHANGED <<live, callback, desc, errors>>
       \/ /\ ~initialized
          /\ initialized' = TRUE /\ live' = TRUE /\ ret' = SUCCESS
          /\ callback' = FALSE /\ desc' = NoDesc /\ errors' = {}
    /\ UNCHANGED <<hw, pc, call, idx, val, sizes, filled, reported, faulty, overtaken>>

UartRemove ==
    /\ pc = "idle" /\ live
    /\ initialized' = FALSE /\ live' = FALSE
    /\ hw' = [d \in {"read", "write"} |-> <<>>]
    /\ ret' = SUCCESS
    /\ UNCHANGED <<callback, desc, errors, pc, call, idx, val, sizes, filled, reported,
                   faulty, overtaken>>

SetCallback(on) ==
    /\ pc = "idle" /\ live
    /\ callback' = on
    /\ UNCHANGED <<initialized, live, desc, errors, hw, app, sizes, filled, reported,
                   faulty, overtaken>>

-----------------------------------------------------------------------------
(* The interrupt.                                                          *)

\* What the application's callback does: nothing, or start a read of one byte, which
\* is refused while a nonblocking read is going on.
UserCallback(descs, queues) ==
    \/ /\ ~callback \/ ~Rearm \/ descs["read"].is_nonblocking \/ Len(sizes) >= MaxOps
       /\ desc' = descs /\ hw' = queues
       /\ UNCHANGED sizes
    \/ /\ callback /\ Rearm /\ ~descs["read"].is_nonblocking /\ Len(sizes) < MaxOps
       /\ LET op == Len(sizes) + 1 IN
          /\ sizes' = Append(sizes, 1)
          /\ desc' = [descs EXCEPT !["read"] = [is_nonblocking |-> TRUE, pending |-> 0,
                                                op |-> op, buff |-> 1]]
          /\ hw' = [queues EXCEPT !["read"] = Submit(@, Chunk("nb", op, 0, 1))]

\* Mutant: the next buffer starts where the last one did.
Advanced_same_place(d) == [desc[d] EXCEPT !.pending = @ - Bytes(desc[d].pending)]

\* The operation once its next buffer is submitted.
Advanced(d) == [desc[d] EXCEPT !.pending = @ - Bytes(desc[d].pending),
                               !.buff = @ + Bytes(desc[d].pending)]

\* Mutant: the flag of a finished operation is left set.
Ended_flag_kept(d) == desc[d]

\* The operation once it has ended.
Ended(d) == [desc[d] EXCEPT !.is_nonblocking = FALSE]

\* uart_callback, RX_BUFFER_PROCESSED and TX_BUFFER_PROCESSED: a buffer of a
\* nonblocking operation is done; submit the next one, or report the operation.
Processed(d) ==
    /\ live /\ hw[d] # <<>> /\ Head(hw[d]).owner = "nb"
    /\ filled' = Moved(d)
    /\ \/ /\ desc[d].pending > 0
          /\ desc' = [desc EXCEPT ![d] = Advanced(d)]
          /\ hw' = [hw EXCEPT ![d] = Submit(Tail(@), Chunk("nb", desc[d].op, desc[d].buff,
                                                          Bytes(desc[d].pending)))]
          /\ UNCHANGED <<sizes, reported>>
       \/ /\ desc[d].pending = 0
          /\ reported' = IF callback THEN reported \cup {desc[d].op} ELSE reported
          /\ UserCallback([desc EXCEPT ![d] = Ended(d)], [hw EXCEPT ![d] = Tail(@)])
    /\ UNCHANGED <<initialized, live, callback, errors, app, faulty, overtaken>>

\* uart_callback, any other event: record the error and end both operations; the
\* buffers stay with the ADI driver.
ErrorEvent ==
    /\ live /\ LineErrors
    /\ errors' = errors \cup {"HW_ERR"} /\ faulty' = TRUE
    /\ UserCallback([d \in DOMAIN desc |-> Ended(d)], hw)
    /\ UNCHANGED <<initialized, live, callback, app, filled, reported, overtaken>>

-----------------------------------------------------------------------------
(* The application's calls.  Its next transfer has the number Len(sizes)+1.*)

Ask(d, n) ==
    /\ call' = [dir |-> d, op |-> Len(sizes) + 1, size |-> n]
    /\ sizes' = Append(sizes, n)

\* uart_read_nonblocking and uart_write_nonblocking: refuse ...
NbCall(d, n) ==
    /\ live /\ pc = "idle" /\ Len(sizes) < MaxOps
    /\ \/ /\ n = 0 \/ desc[d].is_nonblocking
          /\ ret' = FAILURE
          /\ UNCHANGED <<pc, call, sizes>>
       \/ /\ n # 0 /\ ~desc[d].is_nonblocking
          /\ Ask(d, n)
          /\ pc' = "nb_claim" /\ UNCHANGED ret
    /\ UNCHANGED <<initialized, live, callback, desc, errors, hw, idx, val, filled, reported,
                   faulty, overtaken>>

\* Mutant: the direction is not claimed.
NbClaim_forgotten ==
    /\ pc = "nb_claim"
    /\ overtaken' = (overtaken \/ desc[call.dir].is_nonblocking)
    /\ pc' = "nb_pending"
    /\ UNCHANGED <<initialized, live, callback, desc, errors, hw, call, idx, val, ret, sizes,
                   filled, reported, faulty>>

\* ... or claim the direction, whatever a callback has started meanwhile ...
NbClaim ==
    /\ pc = "nb_claim"
    /\ desc' = [desc EXCEPT ![call.dir].is_nonblocking = TRUE]
    /\ overtaken' = (overtaken \/ desc[call.dir].is_nonblocking)
    /\ pc' = "nb_pending"
    /\ UNCHANGED <<initialized, live, callback, errors, hw, call, idx, val, ret, sizes, filled,
                   reported, faulty>>

\* ... note what is left for the interrupt ...
NbPending ==
    /\ pc = "nb_pending"
    /\ desc' = [desc EXCEPT ![call.dir].pending = call.size - Bytes(call.size)]
    /\ pc' = "nb_buff"
    /\ UNCHANGED <<initialized, live, callback, errors, hw, call, idx, val, ret, sizes,
                   filled, reported, faulty, overtaken>>

\* ... and where ...
NbBuff ==
    /\ pc = "nb_buff"
    /\ desc' = [desc EXCEPT ![call.dir].op = call.op, ![call.dir].buff = Bytes(call.size)]
    /\ pc' = "nb_submit"
    /\ UNCHANGED <<initialized, live, callback, errors, hw, call, idx, val, ret, sizes,
                   filled, reported, faulty, overtaken>>

\* ... and submit the first buffer, whatever the ADI driver answers.
NbSubmit ==
    /\ pc = "nb_submit"
    /\ hw' = [hw EXCEPT ![call.dir] = Submit(@, Chunk("nb", call.op, 0, Bytes(call.size)))]
    /\ pc' = "idle" /\ ret' = SUCCESS
    /\ UNCHANGED <<initialized, live, callback, desc, errors, call, idx, val, sizes, filled,
                   reported, faulty, overtaken>>

\* uart_read and uart_write.
Call(d, n) ==
    /\ live /\ Blocking /\ pc = "idle" /\ Len(sizes) < MaxOps
    /\ \/ /\ n = 0
          /\ errors' = IF d = "read" THEN errors \cup {"BAD_INPUT_PARAMETERS"} ELSE errors
          /\ ret' = FAILURE
          /\ UNCHANGED <<pc, call, sizes>>
       \/ /\ n # 0
          /\ Ask(d, n)
          /\ pc' = "wait"
          /\ UNCHANGED <<errors, ret>>
    /\ UNCHANGED <<initialized, live, callback, desc, hw, idx, val, filled, reported,
                   faulty, overtaken>>

\* They wait for a nonblocking operation of the same direction to end.
Wait ==
    /\ pc = "wait" /\ ~desc[call.dir].is_nonblocking
    /\ idx' = 0 /\ pc' = "xfer"
    /\ UNCHANGED <<initialized, live, callback, desc, errors, hw, call, val, ret, sizes,
                   filled, reported, faulty, overtaken>>

Fail ==
    /\ errors' = errors \cup {"HW_ERR"}
    /\ pc' = "idle" /\ ret' = FAILURE

\* adi_uart_Read and adi_uart_Write: hand over the next part of the buffer, if the ADI
\* driver has room for it ...
Xfer ==
    /\ pc = "xfer"
    /\ LET d == call.dir IN
       \/ /\ Len(hw[d]) < 2
          /\ hw' = [hw EXCEPT ![d] = Submit(@, Chunk("block", call.op, idx,
                                                    Bytes(call.size - idx)))]
          /\ pc' = "xfer_wait"
          /\ UNCHANGED <<errors, ret>>
       \/ /\ Len(hw[d]) = 2
          /\ Fail
          /\ UNCHANGED hw
    /\ UNCHANGED <<initialized, live, callback, desc, call, idx, val, sizes, filled,
                   reported, faulty, overtaken>>

\* ... and wait until it is moved, or fails.
XferDone ==
    /\ pc = "xfer_wait"
    /\ LET d == call.dir IN
       /\ hw[d] # <<>> /\ Head(hw[d]).owner = "block"
       /\ hw' = [hw EXCEPT ![d] = Tail(@)]
       /\ \/ /\ filled' = Moved(d)
             /\ idx' = idx + Head(hw[d]).len
             /\ IF idx' = call.size THEN pc' = "idle" /\ ret' = Head(hw[d]).len
                                    ELSE pc' = "xfer" /\ UNCHANGED ret
             /\ UNCHANGED <<errors, faulty>>
          \/ /\ LineErrors /\ Fail
             /\ faulty' = TRUE
             /\ UNCHANGED <<filled, idx>>
    /\ UNCHANGED <<initialized, live, callback, desc, call, val, sizes, reported, overtaken>>

\* uart_get_errors: read the errors ...
GetErrors ==
    /\ live /\ LineErrors /\ pc = "idle"
    /\ val' = errors /\ pc' = "clear_errors"
    /\ UNCHANGED <<initialized, live, callback, desc, errors, hw, call, idx, ret, sizes, filled,
                   reported, faulty, overtaken>>

\* ... then clear them.
ClearErrors ==
    /\ pc = "clear_errors"
    /\ errors' = {} /\ val' = {}
    /\ pc' = "idle"
    /\ UNCHANGED <<initialized, live, callback, desc, hw, call, idx, ret, sizes, filled,
                   reported, faulty, overtaken>>

-----------------------------------------------------------------------------
Main ==
    \/ NbClaim \/ NbPending \/ NbBuff \/ NbSubmit \/ Wait \/ Xfer \/ XferDone \/ ClearErrors

Next ==
    \/ UartInit \/ UartRemove
    \/ \E on \in BOOLEAN : SetCallback(on)
    \/ \E d \in Dirs, n \in Sizes : NbCall(d, n) \/ Call(d, n)
    \/ GetErrors
    \/ Main
    \/ \E d \in Dirs : Processed(d)
    \/ ErrorEvent

Spec == Init /\ [][Next]_vars

\* A call under way goes on, and the ADI driver moves the buffers it holds.
FairSpec == Spec /\ WF_vars(Main) /\ \A d \in Dirs : WF_vars(Processed(d))

-----------------------------------------------------------------------------
(* Properties.                                                             *)

\* Every buffer the interrupt submits follows the last one and stays within the
\* caller's buffer: the head of a direction's queue continues where its transfer is.
\* Two things may break this, and nothing else does: an error, after which the descriptor
\* and the ADI driver no longer agree, and a transfer that a callback starts between the
\* look of a nonblocking call at its direction and the claim of it.
ChunksInOrder ==
    ~faulty /\ ~overtaken => \A d \in Dirs : hw[d] # <<>> =>
        LET c == Head(hw[d]) IN
        /\ c.from = filled[c.op]
        /\ c.from + c.len <= sizes[c.op]

\* IRQ_READ_DONE and IRQ_WRITE_DONE are for the whole transfer, not for one of the
\* buffers it was cut into, as long as there was no error and no callback came between.
DoneMeansAll == ~faulty /\ ~overtaken => \A op \in reported : filled[op] = sizes[op]

\* uart_read and uart_write return, also when errors end the operations they wait for.
BlockingReturns == pc \in {"wait", "xfer", "xfer_wait"} ~> pc = "idle"
=============================================================================
