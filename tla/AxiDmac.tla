------------------------------ MODULE AxiDmac ------------------------------
(***************************************************************************)
(* drivers/axi_core/axi_dmac/axi_dmac.c: the driver of the AXI DMA         *)
(* controller, its interrupt handler and the application's calls, with     *)
(* the controller itself as an external component.                         *)
(*                                                                         *)
(* Memory is a set of byte addresses; the direction of the transfer (the   *)
(* SRC or DEST registers) makes no difference to the control and is left   *)
(* out.  The handler preempts the caller between any two of its stores, so *)
(* each store that the handler or the controller goes by is a step, and    *)
(* the controller moves in between.                                        *)
(***************************************************************************)
EXTENDS Integers, Sequences, FiniteSets

CONSTANTS
    Max,        \* transfer_max_size: X_LENGTH counts from 0, so Max + 1 bytes
    Sizes,      \* the sizes the application transfers
    LastSizes,  \* bound: sizes for the last call only, of transfers left unfinished
    Addresses,  \* where its buffers begin
    Kinds,      \* the calls it makes: "block", "cyclic", "nonblock"
    Depth,      \* transfers the controller queues
    MaxCalls,   \* bound: calls made
    MaxPolls    \* polls before axi_dmac_transfer gives up (UINT32_MAX)

ASSUME DmacAssumption ==
    /\ Max \in Nat \ {0} /\ Sizes \cup LastSizes \subseteq Nat /\ Addresses \subseteq Nat
    /\ Kinds \subseteq {"block", "cyclic", "nonblock"}
    /\ Depth \in Nat \ {0} /\ MaxCalls \in Nat /\ MaxPolls \in Nat \ {0}

VARIABLES
    isr,            \* axi_dmac_default_isr is registered with the interrupt controller
    enabled,        \* AXI_DMAC_REG_CTRL, the enable bit
    reg,            \* the address, X_LENGTH and FLAGS registers
    start,          \* AXI_DMAC_REG_START_TRANSFER
    pend,           \* AXI_DMAC_REG_IRQ_PENDING
    queue,          \* transfers the controller has accepted
    next_id,        \* AXI_DMAC_REG_TRANSFER_ID
    done,           \* AXI_DMAC_REG_TRANSFER_DONE
    big,            \* dmac->big_transfer, without transfer_done
    transfer_done,  \* dmac->big_transfer.transfer_done
    pc, req,        \* the application: where it is, its call
    id,             \* transfer_id of axi_dmac_transfer
    reg_val,        \* what axi_dmac_transfer last read of IRQ_PENDING
    timeout,        \* polls of axi_dmac_transfer
    ret,            \* result of the last call
    calls,          \* number of calls made
    moved,          \* history: bytes moved since the controller was reset
    raced,          \* history: the handler rewrote a big_transfer half written
    asked           \* history: bytes of all the transfers asked for

hw == <<enabled, reg, start, pend, queue, next_id, done>>
sw == <<pc, req, id, reg_val, timeout, ret, calls, asked>>
vars == <<isr, hw, big, transfer_done, sw, moved, raced>>

Both == {"SOT", "EOT"}
NoTransfer == [address |-> 0, size |-> 0, size_done |-> 0]
Range(address, bytes) == address..address + bytes - 1

\* axi_dmac_init: malloc leaves transfer_done undefined.
Init ==
    /\ isr \in BOOLEAN
    /\ enabled = FALSE /\ start = FALSE
    /\ reg = [address |-> 0, length |-> 0, cyclic |-> FALSE]
    /\ pend = {} /\ queue = <<>> /\ next_id = 0 /\ done = {}
    /\ big = NoTransfer
    /\ transfer_done \in BOOLEAN
    /\ pc = "idle" /\ req = [kind |-> "none", address |-> 0, size |-> 0]
    /\ id = 0 /\ reg_val = {} /\ timeout = 0 /\ ret = "none" /\ calls = 0
    /\ moved = {} /\ asked = {} /\ raced = FALSE

-----------------------------------------------------------------------------
(* The controller (external).                                              *)

\* A submitted transfer enters the queue: start of transfer.
HwAccept ==
    /\ enabled /\ start /\ Len(queue) < Depth
    /\ queue' = Append(queue, [address |-> reg.address, length |-> reg.length,
                               id |-> next_id, cyclic |-> reg.cyclic])
    /\ start' = FALSE
    /\ done' = done \ {next_id}
    /\ next_id' = (next_id + 1) % 4
    /\ pend' = pend \cup {"SOT"}
    /\ UNCHANGED <<isr, enabled, reg, big, transfer_done, sw, moved, raced>>

\* The oldest transfer is finished: end of transfer.  A cyclic one starts over.
HwComplete ==
    /\ enabled /\ queue # <<>>
    /\ LET t == Head(queue) IN
       /\ moved' = moved \cup Range(t.address, t.length + 1)
       /\ IF t.cyclic
          THEN UNCHANGED <<queue, done, pend>>
          ELSE /\ queue' = Tail(queue)
               /\ done' = done \cup {t.id}
               /\ pend' = pend \cup {"EOT"}
    /\ UNCHANGED <<isr, enabled, reg, start, next_id, big, transfer_done, sw, raced>>

-----------------------------------------------------------------------------
(* The interrupt handler.                                                  *)

\* Where the caller has stored a part of big_transfer and not yet the rest.
HalfWritten == {"size", "size_done"}

\* Mutant: the segment that follows starts one byte further.
Isr_next_byte ==
    /\ isr /\ enabled /\ pend # {}
    /\ pend' = {}
    /\ LET remaining == big.size - big.size_done
           burst     == IF remaining <= Max THEN remaining ELSE Max
           segment   == "SOT" \in pend /\ big.size # 0
           advanced  == [address   |-> big.address + burst + 1,
                         size      |-> big.size,
                         size_done |-> big.size_done + burst]
       IN  /\ reg' = IF segment THEN [address |-> advanced.address, length |-> burst,
                                     cyclic |-> reg.cyclic]
                     ELSE reg
           /\ start' = (start \/ segment)
           /\ big' = IF "EOT" \in pend THEN NoTransfer
                     ELSE IF segment THEN advanced ELSE big
    /\ transfer_done' = (transfer_done \/ "EOT" \in pend)
    /\ raced' = (raced \/ (pc \in HalfWritten /\ big' # big))
    /\ UNCHANGED <<isr, enabled, queue, next_id, done, sw, moved>>

\* axi_dmac_default_isr: queue the next segment of a big transfer, note the end.
Isr ==
    /\ isr /\ enabled /\ pend # {}
    /\ pend' = {}
    /\ LET remaining == big.size - big.size_done
           burst     == IF remaining <= Max THEN remaining ELSE Max
           segment   == "SOT" \in pend /\ big.size # 0
           advanced  == [address   |-> big.address + burst,
                         size      |-> big.size,
                         size_done |-> big.size_done + burst]
       IN  /\ reg' = IF segment THEN [address |-> advanced.address, length |-> burst,
                                     cyclic |-> reg.cyclic]
                     ELSE reg
           /\ start' = (start \/ segment)
           /\ big' = IF "EOT" \in pend THEN NoTransfer
                     ELSE IF segment THEN advanced ELSE big
    /\ transfer_done' = (transfer_done \/ "EOT" \in pend)
    /\ raced' = (raced \/ (pc \in HalfWritten /\ big' # big))
    /\ UNCHANGED <<isr, enabled, queue, next_id, done, sw, moved>>

-----------------------------------------------------------------------------
(* The application's calls.                                                *)

\* (size - 1) > transfer_max_size: one transfer of the controller is not enough.
IsBig == req.size - 1 > Max

\* The entry of axi_dmac_transfer and axi_dmac_transfer_nonblocking.
Call(kind, address, size) ==
    /\ pc = "idle" /\ calls < MaxCalls
    /\ calls' = calls + 1
    /\ req' = [kind |-> kind, address |-> address, size |-> size]
    /\ \/ /\ size = 0
          /\ ret' = "SUCCESS"
          /\ UNCHANGED <<pc, asked>>
       \/ /\ size # 0
          /\ ret' = "none"
          /\ pc' = IF kind = "nonblock" THEN "nb_check" ELSE "reset"
          /\ asked' = asked \cup Range(address, size)
    /\ UNCHANGED <<isr, hw, big, transfer_done, id, reg_val, timeout, moved,
                   raced>>

\* axi_dmac_transfer: disabling the controller drops whatever it was doing.
Reset ==
    /\ pc = "reset"
    /\ enabled' = TRUE
    /\ start' = FALSE /\ queue' = <<>> /\ next_id' = 0 /\ done' = {}
    /\ moved' = {}
    /\ pc' = "program"
    /\ UNCHANGED <<isr, reg, pend, big, transfer_done, req, id, reg_val, timeout, ret,
                   calls, asked, raced>>

\* Both kinds of call: the address register, then big_transfer if the handler goes by it.
SetAddress ==
    /\ reg' = [reg EXCEPT !.address = req.address]
    /\ pc' = IF IsBig THEN "address" ELSE "length"

\* axi_dmac_transfer: note the ID, clear the interrupts, set the address.
Program ==
    /\ pc = "program"
    /\ id' = next_id
    /\ pend' = {}
    /\ SetAddress
    /\ UNCHANGED <<isr, enabled, start, queue, next_id, done, big, transfer_done, req,
                   reg_val, timeout, ret, calls, moved, asked, raced>>

\* Both kinds of call: the three stores of big_transfer, ...
SetBig(here, then) ==
    /\ pc = here /\ pc' = then
    /\ UNCHANGED <<isr, hw, transfer_done, req, id, reg_val, timeout, ret, calls, moved,
                   asked, raced>>

SetBigAddress == SetBig("address", "size") /\ big' = [big EXCEPT !.address = req.address]
SetBigSize == SetBig("size", "size_done") /\ big' = [big EXCEPT !.size = req.size - 1]
SetSizeDone == SetBig("size_done", "length") /\ big' = [big EXCEPT !.size_done = Max]

\* ... the length of the first segment and the flags.
SetReg(here, then) ==
    /\ pc = here /\ pc' = then
    /\ UNCHANGED <<isr, enabled, start, pend, queue, next_id, done, big, transfer_done,
                   req, id, reg_val, timeout, ret, calls, moved, asked, raced>>

SetLength ==
    /\ SetReg("length", "flags")
    /\ reg' = [reg EXCEPT !.length = IF IsBig THEN Max ELSE req.size - 1]

SetFlags == SetReg("flags", "submit") /\ reg' = [reg EXCEPT !.cyclic = req.kind = "cyclic"]

\* axi_dmac_transfer: submit; a small cyclic transfer is not waited for.
Start ==
    /\ pc = "submit" /\ req.kind # "nonblock"
    /\ start' = TRUE
    /\ timeout' = 0
    /\ pc' = IF IsBig THEN "wait_flag"
             ELSE IF req.kind = "cyclic" THEN "idle" ELSE "wait_queued"
    /\ ret' = IF pc' = "idle" THEN "SUCCESS" ELSE ret
    /\ UNCHANGED <<isr, enabled, reg, pend, queue, next_id, done, big, transfer_done, req,
                   id, reg_val, calls, moved, asked, raced>>

\* A big transfer waits for the handler to set transfer_done.
WaitFlag ==
    /\ pc = "wait_flag"
    /\ \/ /\ transfer_done
          /\ big' = NoTransfer
          /\ ret' = "SUCCESS" /\ pc' = "idle"
          /\ UNCHANGED timeout
       \/ /\ ~transfer_done
          /\ timeout' = timeout + 1
          /\ IF timeout' = MaxPolls THEN ret' = "FAILURE" /\ pc' = "idle"
                                    ELSE UNCHANGED <<ret, pc>>
          /\ UNCHANGED big
    /\ UNCHANGED <<isr, hw, transfer_done, req, id, reg_val, calls, moved, asked, raced>>

\* A small transfer waits until it is queued.
WaitQueued ==
    /\ pc = "wait_queued" /\ ~start
    /\ pc' = "read_pending"
    /\ UNCHANGED <<isr, hw, big, transfer_done, req, id, reg_val, timeout, ret, calls,
                   moved, asked, raced>>

\* Then it polls the pending interrupts ...
ReadPending ==
    /\ pc = "read_pending"
    /\ reg_val' = pend
    /\ pc' = IF pend = Both THEN "wait_id" ELSE "read_flag"
    /\ UNCHANGED <<isr, hw, big, transfer_done, req, id, timeout, ret, calls, moved, asked,
                   raced>>

\* ... or the flag the handler sets, clearing the interrupts it saw.
ReadFlag ==
    /\ pc = "read_flag"
    /\ pc' = IF transfer_done THEN "wait_id" ELSE "read_pending"
    /\ pend' = IF transfer_done THEN pend \ reg_val ELSE pend
    /\ UNCHANGED <<isr, enabled, reg, start, queue, next_id, done, big, transfer_done,
                   req, id, reg_val, timeout, ret, calls, moved, asked,
                   raced>>

\* Mutant: the flag is trusted, the transfer's own bit is not awaited.
WaitId_trust_flag ==
    /\ pc = "wait_id"
    /\ ret' = "SUCCESS" /\ pc' = "idle"
    /\ UNCHANGED <<isr, hw, big, transfer_done, req, id, reg_val, timeout, calls, moved,
                   asked, raced>>

\* Mutant: waits for the transfer after its own.
WaitId_next ==
    /\ pc = "wait_id" /\ next_id \in done
    /\ ret' = "SUCCESS" /\ pc' = "idle"
    /\ UNCHANGED <<isr, hw, big, transfer_done, req, id, reg_val, timeout, calls, moved,
                   asked, raced>>

\* Last, it waits for the bit of its own transfer.
WaitId ==
    /\ pc = "wait_id" /\ id \in done
    /\ ret' = "SUCCESS" /\ pc' = "idle"
    /\ UNCHANGED <<isr, hw, big, transfer_done, req, id, reg_val, timeout, calls, moved,
                   asked, raced>>

\* axi_dmac_transfer_nonblocking: enable the controller, refuse if it is busy.
NbCheck ==
    /\ pc = "nb_check"
    /\ enabled' = TRUE
    /\ \/ start /\ ret' = "FAILURE" /\ pc' = "idle"
       \/ ~start /\ pc' = "nb_program" /\ UNCHANGED ret
    /\ UNCHANGED <<isr, reg, start, pend, queue, next_id, done, big, transfer_done, req,
                   id, reg_val, timeout, calls, moved, asked, raced>>

\* axi_dmac_transfer_nonblocking: set the address ...
NbProgram ==
    /\ pc = "nb_program"
    /\ SetAddress
    /\ UNCHANGED <<isr, enabled, start, pend, queue, next_id, done, big, transfer_done,
                   req, id, reg_val, timeout, ret, calls, moved, asked, raced>>

\* ... and, after the same stores, submit and return.
NbStart ==
    /\ pc = "submit" /\ req.kind = "nonblock"
    /\ start' = TRUE
    /\ ret' = "SUCCESS" /\ pc' = "idle"
    /\ UNCHANGED <<isr, enabled, reg, pend, queue, next_id, done, big, transfer_done, req,
                   id, reg_val, timeout, calls, moved, asked, raced>>

Driver ==
    \/ Reset \/ Program \/ SetBigAddress \/ SetBigSize \/ SetSizeDone
    \/ SetLength \/ SetFlags \/ Start \/ WaitFlag \/ WaitQueued
    \/ ReadPending \/ ReadFlag \/ WaitId \/ NbCheck \/ NbProgram \/ NbStart

Next ==
    \/ \E kind \in Kinds, address \in Addresses, size \in Sizes : Call(kind, address, size)
    \/ /\ calls = MaxCalls - 1
       /\ \E kind \in Kinds, address \in Addresses, size \in LastSizes : Call(kind, address, size)
    \/ Driver
    \/ Isr
    \/ HwAccept
    \/ HwComplete

Spec == Init /\ [][Next]_vars

\* The caller and the handler run, and the controller finishes what it accepted.
FairSpec ==
    Spec /\ WF_vars(Driver) /\ WF_vars(Isr) /\ WF_vars(HwAccept) /\ WF_vars(HwComplete)

-----------------------------------------------------------------------------
(* Properties.                                                             *)

\* The controller is never told to move a byte that no caller asked for, neither by
\* the first segment nor by those the handler adds, unless the handler rewrote a
\* big_transfer that the caller had half written: the one interleaving that breaks it.
DmaInRange ==
    ~raced =>
       /\ start => Range(reg.address, reg.length + 1) \subseteq asked
       /\ \A k \in 1..Len(queue) :
            Range(queue[k].address, queue[k].length + 1) \subseteq asked

\* When axi_dmac_transfer has returned SUCCESS, every byte it was asked for has moved.
ReturnMeansMoved ==
    req.kind = "block" /\ ret = "SUCCESS" => Range(req.address, req.size) \subseteq moved

\* The same for a transfer that the controller takes whole, whatever transfer_done says
\* and whoever of the caller and the handler sees the interrupts.
SmallReturnMeansMoved == ~IsBig => ReturnMeansMoved

\* axi_dmac_transfer returns, whether the handler is installed or not.
Returns == pc # "idle" ~> pc = "idle"
=============================================================================
