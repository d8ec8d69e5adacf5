# A verification of the no-OS core libraries and drivers

no-OS is a collection of C libraries and drivers for systems without an operating system:
device drivers for converters, transceivers and sensors, the platform code under them, AXI
cores, and small libraries (buffers, lists, sockets, IIO).  Most of its lines are register
maps and configuration sequences.  Its own logic, the part in which an order of events that
nobody tested can go wrong, is in the code that runs on both sides of an interrupt and in the
libraries everything else is built on.  This directory models that part in TLA+, checks it
with TLC and proves its main properties with TLAPS.

* [The system](#the-system)
* [Modules](#modules): which module models what, and how
* [Runs](#runs): what TLC checks, the bounds, the fairness
* [Proofs](#proofs): what is proved, from what, and how
* [What the checks showed](#what-the-checks-showed): disagreements and observations
* [What is not modelled](#what-is-not-modelled)
* [Plan](#plan)

Paths are relative to the repository.  To repeat a check, `tlc -config X.cfg M` for the
module and configuration of a run, and `tlapm M.tla` for a module of proofs.

## The system

The components modelled so far, and how they meet:

```
   application / iio / mqtt                         axi_dmac.c: axi_dmac_transfer (application)
     |            |                                   and axi_dmac_default_isr (interrupt) share
     |  list.c    | socket_*                          big_transfer and the controller's registers
     v            v
  elements   tcp_socket.c
                  |
               wifi.c  <----- _wifi_connection_callback ------+      (interrupt)
                  |  at_run_cmd                               |
                  v                                           |
            at_parser.c: at_run_cmd <--- result ----- at_callback ---> circular_buffer.c
                  | uart_write              uart_read_nonblocking ^          ^ cb_read by
                  v                                   |           |          | socket_recv
            aducm3029/uart.c  <-----------------------+   uart_callback
                  |                                               ^
                  v              aducm3029/irq.c ---> NVIC, XINT, RTC, GPIO
            ADI UART driver ----------------- interrupt ----------+
                  |
            ESP8266 module and its peers
```

| Component | State | Operations | What is hard | What makes it correct |
|---|---|---|---|---|
| `util/circular_buffer.c` | two pointers (index, lap counter, open transaction), the bytes | `cb_init`, `cb_remove`, `cb_size`, `cb_prepare_async_*`, `cb_end_async_*`, `cb_write`, `cb_read` | producer in an interrupt, consumer in the application; lap counters that overflow; a producer that does not wait | bytes come out in order, once; a region handed out stays intact and inside the buffer; `cb_size` is right |
| `drivers/axi_core/axi_dmac/axi_dmac.c` | registers, `big_transfer` | `axi_dmac_init`, `axi_dmac_transfer`, `axi_dmac_transfer_nonblocking`, the handler | the caller polls what the handler clears; segments queued in the interrupt; timeouts | SUCCESS means moved; no byte outside the buffers; calls return |
| `drivers/platform/aducm3029/uart.c` | one `op_desc` per direction, errors | `uart_init`, `uart_remove`, blocking and nonblocking transfers, `uart_get_errors`, `uart_callback` | the callback runs between any two steps of a call and may start the next transfer; line errors | transfers are cut, moved in order and reported when whole; blocking calls return |
| `drivers/platform/aducm3029/irq.c` | configuration, callbacks, mask of enabled interrupts | `irq_ctrl_init/remove`, `irq_register_callback`, `irq_unregister`, `irq_enable/disable`, `irq_global_enable/disable` | the hardware keeps its own idea; a registration can fail half way | what is delivered has a callback; the global switches do what they say |
| `network/wifi/at_parser.c` | state of the callback, connections, result buffer, errors | `at_run_cmd` (with AT_SEND, AT_RESET, AT_DISCONNECT_NETWORK), `at_callback` | the result is filled, shortened and searched on both sides of the interrupt without a lock; timeouts and late answers; a damaged line | always one read with the UART; payload to its connection, responses to their command; no CLOSED overlooked |
| `network/wifi/wifi.c`, `network/tcp_socket.c` | sockets, connection table, server and its backlog, circular buffers, descriptors | open, close, connect, disconnect, send, bind, listen, accept, `wifi_remove`; the connection callback | the callback changes the tables between any two steps of a call; peers close at any moment; commands that fail after all | the two tables agree; data go to the buffer of their socket; a connected socket has a connection; a buffer has one owner |
| `util/list.c` | elements with two links, ends, counts, iterators | add, edit, read, get at an end, by index, by comparison; iterators; removal | iterators that outlive elements; ends that move together; an iterator inside the descriptor that keeps its last place | the links are one sequence; iterators stay on their elements; ordered insertion is stable |

Interactions the models rely on: `uart.c` runs the user's callback in the interrupt, as
`at_parser.c` uses it to submit the next read (constant `Rearm`); `irq.c` passes the
descriptor of a UART to `uart.c` through the registration (`SetCallback`); the completion
handlers of `at_parser.c` are the producers of circular buffers.  `AtParser` takes of the UART
that it holds at most two reads and of a circular buffer where a transaction stops;
`WifiSockets` takes of the parser that a message is handled as a whole and that a command
gets the first response there is, which is what `AtParser` shows of it.

## Modules

### CircularBuffer, ByteStream, CircularBufferThreads

`CircularBuffer` has the two `struct cb_ptr` as records `write` and `read` with the fields of
the code, the memory `buff`, and for the blocking calls the variables of `cb_operation`
(`wpc`, `wleft`, `rpc`, `rleft`, `sticky`).  A library call is one step; the bytes of an open
transaction move one at a time (`FillByte`, `CopyByte`), so the two sides interleave inside a
transaction.  The bytes of the stream are numbered, and a cell of `buff` holds the number of
its byte: what a byte contains does not matter, which one it is does.  `SpinMod` stands for
2^32, and `MaxAhead` for the discipline of the producer: at most `Size` unread bytes is flow
control, more is a producer that overruns.  `sent`, `taken` and `got` are history.

`ByteStream` is what a queue promises: a bounded stream from which each byte is taken once,
in order.  `ImplementsStream` states that the pointers, counters and memory implement it.

`CircularBufferThreads` takes the same code at the grain of its loads and stores: the reader
loads `write.spin_count` and `write.idx` separately, the writer stores them separately.

### AxiDmac

The registers, `big_transfer` and the local variables of the two calls.  The controller
(`HwAccept`, `HwComplete`) is external: it accepts a started transfer when its queue has room,
moves the bytes of the oldest one, and raises start and end of transfer.  Memory is a set of
addresses; the direction makes no difference to the control.  `axi_dmac_init` leaves
`transfer_done` undefined (`malloc`), which is a choice in `Init`.  The handler can run
between any two stores of a call: the address register, the three fields of `big_transfer`
(`SetBigAddress`, `SetBigSize`, `SetSizeDone`), the length, the flags and the start bit are
a step each.  `raced` notes that the handler rewrote a `big_transfer` that the caller had half
written, between the stores of its address and its `size_done`.  That is a bug of the code
(described [below](#what-the-checks-showed)), and the one thing `DmaInRange` leaves out: TLC and the proof show that no other
interleaving takes a segment out of the buffers.

### AducmUart

`desc` has the `op_desc` of each direction, `hw` the buffers the ADI driver holds (external).
`Processed` and `ErrorEvent` are `uart_callback`, which may run between any two steps of
`uart_read`, `uart_write` and their nonblocking forms; `NbPending`, `NbBuff` and `NbSubmit`
are the separate assignments of the latter, and `NbClaim` the one that claims the direction
after `NbCall` has looked at it.  Every transfer is numbered, and a place in memory
is a transfer and an offset, so that a chunk moved to the wrong buffer is seen.

`faulty` notes that the line or the DMA has reported an error: from then on the descriptor and
the ADI driver may disagree.  `overtaken` notes that a callback has started a transfer in the
direction a nonblocking call has looked at and is about to claim (`uart.c:376`, `:378`): both
submit, and one descriptor describes two transfers (see [below](#what-the-checks-showed)).  The two safety
properties leave both out; TLC and the proofs show that nothing else breaks them.
`BlockingReturns` leaves out neither.

### AtParser

What the module sends is a sequence of pieces, each standing for the characters between which
nothing of interest happens: the header of a payload is three pieces, "c,CLOSED" three, a
response one.  `result` is what is below `result.len`; a length that wraps below zero is `lack`.
`ReadDone` is a whole run of `at_callback`, with `Character`, `PayloadPart` and `Skip` for its
states; `UartError` is its other event, with a character damaged or lost.  The application
(`RunCmd` to `ReportErrors`) makes one step for each access to what it shares with the
interrupt: `Poll` is one round of `wait_for_response`, `Trim` its read-modify-write of
`result.len`, `TimedOut` its end without a response.  The module (external) answers, late or
never, and sends payloads, CLOSED and network messages unasked.  Every answer carries the
number of the write it answers, and every byte its place in the stream of its peer, so that one
taken for another is seen.

`broken` is history: the accesses after which the code itself no longer keeps its promises
(`clobbered`: AT_SEND or AT_RESET sets the state while a payload is being read; `cut`: the
application shortened the result inside a message or with a length that is no longer true;
`overflown`: `at_callback` itself cleared the result when it was full, which may be inside a
message too (`at_parser.c:447`); `shrunk`: the interrupt shortened the result behind the index
of the wait; `late`: a wait ended without its answer; `left`: AT_DISCONNECT_NETWORK failed at
its last look and left its answer in the result (`:562`, `:867`); `faulty`: a damaged line).  Each property names the ones it depends
on, so that the rest of the interleavings are covered by it and the exceptions are explicit.

### WifiSockets

`sockets`, `map` and `server` are the fields of `struct wifi_desc`; `live` is the heap of
circular buffers, `at` the buffer that the parser writes to for each connection, `handles` the
descriptors of `tcp_socket.c`.  A call of the application puts the steps it has still to do in
`work`, a sequence of jobs that unfold as the functions call each other
(`wifi_socket_close` to `wifi_socket_disconnect` to `_remove_server_back_log` and back); a job
runs between two commands, and `Interrupt`, the connection callback, between any two jobs.  A
command ends by a response (`Response`), by an error after the module carried it out, or by
`TimedOut`, with its answer still to come.  `cb_init` fails when `Memory` buffers exist: its
first allocation fails then (when only the second one does, `cb_init` leaves a pointer to freed
memory in the socket, which is an observation below).

A call looks for a free connection number (`Connect`, `wifi.c:172`), which `found` then holds, and
stores it in a step of its own (`JobClaim`, `:173`, `:174`); the command that asks for the
connection, by the number the socket has by then, is another (`JobStart`).  A release loads the
number (`LoadNumber`, `:188`) and clears both tables in a second step (`ReleaseFound`, in
`JobUnlink` and `JobParted`).  These are one step each, because the interrupt between them has
the same effect as before or after both:

* the two stores of `JobClaim`, except for CLOSED of the number that is being stored, which
  releases the number that the socket had before: that is the second disjunct of `JobClaim`
  (in a socket that never had one this is number 0, since a new `wifi_desc` is zeroed);
* the two stores of `ReleaseFound` (`:194`, `:195`), whatever comes between them;
* the look at the state and the load of the number in `JobDisconnect` (`:608`, `:623`): a CLOSED
  between them has the call stop connection -1, which the module refuses as it refuses to stop
  one that is closed;
* the stores of `Open`, `Bind` and `Listen` about sockets that no connection leads to; while
  `Listen` fills `client_ids` the callback sees the clients that are there so far, and data that it
  drops for want of one are data that the peer might not have sent.

`flaws` is history as `broken` is above: `twice` (a socket with a role or a connection is given
another), `overtaken` (the interrupt has given the number to a client, or closed it, between the
look at it and the store, or has given it to another socket between the load and the release),
`silent` (a connection number taken by a client the module has not announced),
`raced` (CONNECTED is stored after the peer has closed), `retaken` (a socket is given to a new
client while a call is closing or connecting it), `freed` (the backlog's buffers are freed while in use),
`unsure` (a command failed that the module may have carried out).  `MapsBack` leaves out `twice`
and `retaken` only, since the other flaws keep the two tables inverse.

### AducmIrq

`conf`, `configured` and `enabled` are the driver's; `nvic`, `callbacks`, `group` and
`polarity` are what the hardware and the ADI drivers keep (external).  A GPIO registration is
one of a pin in a group with a mode.  Every registration may pass a NULL callback, which the
code accepts for every kind of interrupt: it takes the callback away, or, for a GPIO group,
keeps the one the group has.  `wanted` is history: what the application enabled and has not
disabled.  So is `bare`: what has no callback because the application registered it with NULL
and never with one since, or because it unregistered the RTC, which `irq_unregister` leaves on
(see [below](#what-the-checks-showed)).  `DeliveredHasCallback` is about every other interrupt, the RTC included.

### LinkedList, ListSequence, MCLinkedList

`LinkedList` has the fields of the elements as functions of their addresses, the ends and
counts of the descriptor, and the iterators, `l_it` among them.  A call begins (`Begin`), walks
the links one element per step where the code loops (`MoveStep`, `FindStep`, `SearchStep`),
and takes effect in a last step, through the same helpers as the code: `update_desc`,
`update_links` (`NextLinks`, `PrevLinks`), `create_element` (`Create`, `NoMemory`).  `Allowed`
has what the code leaves to its caller: no iterator is followed after another call removed its
element (such an iterator has the place `Freed`), and no element of an empty list is edited.
`order` is history, the elements in the order the calls put them.  An index that does not fit
an `int32_t` is left out (`IndexAssumption`, and an observation below).

`ListSequence` is the abstract list: a sequence of data, iterators as places in it, each call
one step.  `ImplementsSequence` states that the links implement it, results included.

## Runs

Every passing run lists its properties in its `.cfg`; each of them is shown to be able to
fail by a changed form of a definition (the operators marked *Mutant* in the modules).

| Run | Module, configuration | What it shows |
|---|---|---|
| `cb_flow` | CircularBuffer, `_flow` | with flow control: `FlowInv`, `SizeExact`, `ReadRegionIntact`, `DeliveredInOrder`, `ImplementsStream`; `cb_write` returns and `cb_read` drains |
| `cb_overrun` | CircularBuffer, `_overrun` | without flow control: regions stay in the buffer, `cb_size` never overstates, -EOVERRUN is real |
| `cb_threads` | CircularBufferThreads | single loads and stores: the reader stays in the buffer, and its bytes are right until a wrapping commit overlaps its prepare |
| `cb_race` | CircularBufferThreads, `_race` | violation: the documented thread safety |
| `dmac_calls` | AxiDmac, `_calls` | small transfers return with their bytes moved, nothing else moves, every call returns |
| `dmac_early` | AxiDmac, `_early` | violation: a big transfer returns before its bytes have moved |
| `uart_transfers` | AducmUart, `_transfers` | transfers in both directions, re-armed in the callback, with line errors: chunks in order and reported when whole until an error or a callback that comes between look and claim; blocking calls return |
| `at_calls` | AtParser, `_calls` | commands against everything the module may send: the parser keeps listening, payload and responses are kept apart, result and circular buffers are not overrun, a command takes its own answer and misses none, CLOSED is seen |
| `wifi_calls` | WifiSockets, `_calls` | calls against peers, failing commands and lack of memory: tables agree, data go to their owner, connected sockets are open, buffers are not shared |
| `irq_calls` | AducmIrq, `_calls` | every sequence of calls: `IrqInv`, callbacks for what is delivered, the global switches |
| `list_ops` | MCLinkedList, `LinkedList_ops` | every sequence of calls: links, iterators, count, priority order, `ImplementsSequence` |
| `list_last` | MCLinkedList, `LinkedList_last` | violation: the iterator of the last element after `iterator_get` |

Bounds, and why they are enough for the cases that matter:

* `cb_flow`: three cells, requests up to three, and a stream of seven bytes wrap the buffer
  twice; `SpinMod = 2` makes both counters overflow within that.  `cb_overrun`: two cells and a
  producer up to four laps ahead, with `SpinMod = 3`, so that the producer may be exactly as many
  laps ahead as the spin counters can count and look as if it were on the reader's lap.  `cb_threads`: nine
  bytes through three cells, three laps.
* `dmac_calls`: segments of three bytes, sizes of none, one and one full segment, and a last
  call of several segments, the last one full or shorter; a queue of two; two polls before the timeout, fewer than a
  transfer may need.  A big transfer is the last call because of what `dmac_early` finds: it
  ends early, so no later call can be judged (see below).
* `uart_transfers`: buffers of two bytes stand for 1024; sizes of none and of three buffers,
  the last one shorter, beside the single bytes that the callback reads; three transfers, so
  that two can be under way while a third is asked for.
* `at_calls`: two connections, one of them without a buffer; circular buffers of two bytes and
  payloads of three, so that every payload is read in parts and wraps; a result of five
  pieces, which overflows; two commands (AT_SEND and AT_RESET write twice or three times) and two
  unasked messages or line errors, the least with which one message can arrive inside the
  handling of another and a late answer can meet a second command.
* `wifi_calls`: two connections and three sockets (MAX_CONNECTIONS + 1, as in the code); five
  calls are open, bind, listen, accept and one more, or two sockets with a connection each;
  three events of the peers are a connection, its data and its end; five buffers are too few
  for a backlog of two beside another socket, so that memory also runs out; one failure.
* `irq_calls`: one external interrupt, one GPIO group, two pins, with the UART and the RTC;
  no bound on the number of calls.  NULL callbacks are passed for the external interrupt and
  the group (`Nulls`): the UART's is stored like the former's, and the proofs hold of any
  `Nulls`.
* `list_ops`: three addresses, so that `calloc` also fails; one iterator beside `l_it`; three
  data values; indices past the end; no bound on the number of calls.  The addresses are
  interchangeable, and the configuration says so (`Symmetry`).

Fairness.  `CircularBuffer!FairSpec`: a thread inside `cb_write` or `cb_read` keeps running, a
transfer that was started moves its bytes, and its completion handler ends the transaction;
nothing is assumed of whoever starts transactions.  `AxiDmac!FairSpec`: caller and handler run,
and the controller finishes what it accepted.  `AducmUart!FairSpec`: a call under way goes on
and the ADI driver moves the buffers it holds; nothing is assumed of line errors.  The bound on
transfers also bounds how often the callback re-arms: `BlockingReturns` is about a callback that
stops at some time, since one that always starts the next read keeps `uart_read` waiting for
ever.  Weak fairness is what an interrupt that preempts the application for a bounded time
gives.  `AtParser` and `WifiSockets` are checked for safety only: their waits end by counting.

`CHECK_DEADLOCK FALSE` is set where the bound on the number of calls ends the behaviour
(AxiDmac, AducmUart, AtParser, WifiSockets); there is no deadlock elsewhere.

## Proofs

For every value of the constants that satisfies the assumptions of its module.

**CircularBufferProofs.**  Assumptions: `Size` positive, `SpinMod` at least 2, the bounds
natural.  `FlowControl` is a hypothesis of the theorems that need it.

* `FlowInvariance`: `Spec => []FlowInv`.  The invariant relates the counters and the indices
  to the unread bytes (`Distance`: the writer is on the reader's lap or on the next one), says
  that unread bytes and the open write fit (`Room`), what the transactions agree on, and which
  byte each cell holds (`Contents`).  `SizeExact` alone is not inductive: that `cb_size` is
  right now says nothing of the next lap without `Distance`, and that a store does not hit a
  region handed out needs `Room`.
* `FlowSizeExact`, `FlowReadRegionIntact`, `FlowDeliveredInOrder`: consequences, the last one
  as an action property.
* `FlowImplementsStream`: `Spec => ImplementsStream`, every step a step of `ByteStream` or a
  stutter.
* `TypeCorrect`, `RegionsInBuffer`: with no assumption on the producer, from the smaller
  invariant `SafeInv`.
* `SizesNeverOverstated`, `OverrunsAreReal`: with no assumption on the producer either.  Neither
  property is inductive: `AheadInvariance` adds `Lapped`, that the distance of the two indices plus a
  number `L` of laps is the unread bytes and the spin counters differ by `L` up to some number of
  overflows, and that an open read covers written bytes, without which the reader could start a
  lap the producer has not.  Only `L = 0` and `L = 1` must be told apart (`SpinsTellLaps`); with two
  laps or more either branch of `cb_size` understates, so the result stands even when 2^32 laps
  are outstanding and the counters look equal, a case first kept out by a hypothesis on the
  producer that the proof turned out not to need.

**AducmIrqProofs.**  Assumptions: the kinds of interrupts are disjoint, and the modes are
numbers of pins.  `IrqInvariance`: `Spec => []IrqInv`, whose added parts are the chain
`enabled`, `configured`, `callbacks` or `bare`, and what `wanted` owes to `enabled`; from it
`IrqDeliveredHasCallback` and the two action properties, `IrqGlobalDisable` and
`IrqGlobalEnable`.

**LinkedListProofs.**  Assumptions: `Null` is no address, the iterators are finitely many, the
marks of the model are no addresses.  `ListInvariance`: `Spec => []ListInv`, the conjunction of
types, `WellLinked`, `IteratorsValid` and `IteratorsCounted`, which need each other: links are
preserved only if the element that leaves or is inserted beside is in the list, which is what
`IteratorsValid` says, and it is valid in the next state only if the links are.  The argument:
`InsertFact` and `RemoveFact` say where the elements of a sequence go; `InsertLinks` and
`RemoveLinks` that `update_links` between neighbours is the insertion or removal at one place;
`AddFirstFact`, `AddLastFact`, `InsertBesideFact` and the `Unlink...Fact` lemmas bring each
function, with its use of `update_desc`, to one of these two; `ReturnFact`, `WalkFact` and
`ArriveFact` cover the three ways in which a step of a call ends; `NextFact` has one case per
action.  The theorems `ListWellLinked`, `ListIteratorsValid` and `ListIteratorsCounted` follow.

* `ListPriorityOrder` and `ListImplementsSequence` need what a loop of a call has done so far:
  `CourseInv` adds `Course`, by the place of the call.  `list_add_find` has passed only elements
  that are not greater (`Searching`), a find only elements that are not equal (`Finding`), and
  `iterator_move` has still to go the distance to the place that the call names (`Moving`), so
  that it leaves the list only if there is no such place.  That a list is in order now says
  nothing of where the insertion that is under way will put its element.
* `ListImplementsSequence`: the steps of a loop are stutters of `ListSequence`, and the step in
  which a call returns is its whole call there, result included: one lemma for each function
  and each way to name an element.

**CircularBufferThreads**, at the end of CircularBufferProofs, which instantiates it for the
constants of the circular buffer and variables of its own.  `ThreadsInvariance`: types and regions always (`ThreadsTypeOK`), and, until the reader has seen half a commit
(`torn`), that the distance of the two pointers is what was sent and not taken, one lap more
while the writer is between its two stores.  `ThreadsRegionInBuffer` needs only the first part,
so it holds for every torn view; `ThreadsFresh` needs the second, and says that a commit which
wraps between the reader's loads is the only way to hand it other bytes than the next ones.

**AxiDmacProofs.**  Assumptions: a positive transfer limit and natural sizes and addresses.
`SmallFirst` is a hypothesis of the theorems: sizes up to the limit, except in the last call.
It is the bound of `dmac_calls`, and it is needed: a big transfer that was left early leaves
`big_transfer.size` behind, and a later call is then judged by it (`dmac_early` and the
observations).  `DmacInvariance` relates registers, queue, `big_transfer` and the program
counter of the call; its hardest part is the handler's arithmetic, which advances the address by
the length of the segment to come, so that the address trails `size_done` by one segment.
Once the handler has rewritten a half-written `big_transfer` (`raced`), only the part about
small blocking transfers is kept: such a call is the last one, and not small.
`DmacStaysInRange` and `DmacSmallReturn` follow.

**AducmUartProofs.**  `UartInvariance`: until an error is reported (`faulty`) or a callback
comes between look and claim (`overtaken`), a transfer is with
the caller or with the interrupt and not both, what the ADI driver holds starts where the bytes
filled so far end, and what is left to submit is `pending`.  Its parts are stated for values of
the variables and not for the variables, since `uart_callback` runs the driver's half and then
the user's callback, which may start the next transfer in the state that the first half left:
each half is a lemma.  `UartChunksInOrder` and `UartDoneMeansAll` follow.

**AtParserProofs.**  For any connections, sizes, commands and payloads.  Four invariants:

* `Sound`, with no exception: types, one read with the UART while the parser listens, the
  indices of the circular buffers, and how the states of `at_callback` and `at_run_cmd`
  combine.  It gives `AtTypes` and `AtListens`.
* `Framed`, while the application has not cut a message and the result has not been full
  (`Uncut`): the result ends with the
  part of a message that `ipd_idx` and `async_idx` stand for, so what `at_callback` takes off
  is there, and `wait_for_response` is not past a response of its command: `AtLenNeverWraps`,
  `AtNoneMissed`.
* `Owned`, until a wait ends without its answer or a command leaves it behind (`Untold`): of the module, the line, the read
  under way and the result, at most one holds a response, the one to the last write:
  `AtAnswerIsOwn`.  That the answer is right now is not inductive; that no other one is under way is.
* `InStep`, while the state is not overwritten and the line is good (`Clean`): the pieces on
  the line continue the message that the parser is in, byte by byte of the payload:
  `AtPayloadKeptApart`, `AtClosedIsSeen`.

**WifiSocketsProofs, WifiBuffersProofs.**  For any number of connections and sockets, any memory,
calls, peers and failures.  Eight invariants, which `WifiInvariants` defines: the first six each
rest on those before them, `Housing` on the first three, and `Delivered` on all but `Tracked`.
The last two are in WifiBuffersProofs:

* `Sane`: types, and the order of the jobs of a call (a descriptor is given back by the last
  job, a client is accepted by a call of its own): `WifiTypesHold`.
* `MapsBack`, through the fact that every step leaves the numbers alone, gives one to a socket,
  or releases one (`NumbersChange`): `WifiMapsBack`.
* `Serving`: only the server listens, and the jobs about the server are about that socket.
* `Paired`: of `todo`, `line` and `resp`, one holds the response of the command under way.
* `Announced`: the end of a connection comes behind its data.
* `Tracked`: what is known of a socket by the job under way.  `ConnectedIsOpen` says nothing of a
  socket whose connect is waiting, so it is not inductive: the connection must be known to
  exist when OK is taken (`Connecting`), and to be gone, the interrupt having run, when the OK
  of a stop is (`Stopping`: CLOSED is before OK in the line).  A socket that has looked for a
  number and not stored it (`claim`) is only known not to be connected; that the number is still
  free at the store is what `overtaken` denies.  `WifiConnectedIsOpen` follows.
* `Housing`: whose the buffers are, unless a socket took a second role (`twice`), was given to a
  new client under a call (`retaken`) or was freed under its client (`freed`).  `BuffersApart`
  leaves out the sockets that the call is about, and is not inductive for just that reason: a
  buffer of the backlog is freed before its socket is closed, and the socket keeps the pointer.
  So `Housing` says in which order the jobs of a call stand (`Shape`: the backlog is freed in
  rising order of its sockets, before the server is let go and its own socket closed), what each
  job knows of its socket (`Standing`), which sockets may have a connection (`Linked`), that the
  server has a descriptor (`ServerHeld`), that an entry of the backlog is waiting to be freed,
  unused or dead (`Backlogged`), and which buffers are allocated and each in one place
  (`Buffers`).  The last includes sockets that are unused but still in `client_ids`, as long as
  some call may yet free them (`Sound`), since `client_ids` is never cleared.
  `WifiBuffersApart` follows.
* `Delivered`: the buffer that the parser has for a connection is the buffer of the socket that
  has the connection (`Stored`).  This is not inductive, since `_wifi_release_conn` takes the
  number out of the tables and leaves the parser's buffer alone: a release is harmless only when
  the parser has none any more.  So `Handed` says what a call knows of its connection when it gets
  to a release: a connect that fails leaves nothing of its connection, in the module, on the line
  or with the parser (`Quieted`), or its CLOSED before any response (`Still`), from the step
  that stores the number on; a disconnect that
  succeeds has CLOSED before its OK, and the interrupt has released the connection before the
  call does.  Releases by the interrupt come with the parser's own forgetting of the buffer.
  `WifiDataToOwner` follows, with `Buffers` of `Housing` for the buffer being allocated.

The attempt to prove `ConnectedIsOpen` as it was first stated failed, and showed a case beyond
the bounds of the run: the release after a failed connect (`wifi.c:573`) can hit the
connection of a new client.  `JobUnmap` now notes it as `retaken`, and `silent` turned out to
be no exception of this property.

Every invariant that a run must pass is proved.  Only model-checked: liveness, which is beyond
the prover used, as are ENABLED and what a recursive definition computes for every input.

## What the checks showed

Disagreements between the code and what the repository says of it, each a run that TLC must
find violated:

* **`cb_race`**: `circular_buffer.c` says that it is thread safe for one writer and one reader.
  A commit that wraps the buffer between the reader's loads of `write.spin_count` and
  `write.idx` (`circular_buffer.c:163` and on) is seen half done: the reader takes it for an
  overrun, moves its own pointer, and reads bytes that are not the next.  `cb_threads` shows
  that this is the only window and that no read leaves the buffer.
* **`dmac_early`**: `axi_dmac_transfer` returns from a transfer of several segments on
  `transfer_done`, which is never cleared, undefined at first, and set at the end of the first
  segment (`axi_dmac.c:94`, `:244`).  The caller in `projects/ad7768-evb` reads the buffer then.
* **`list_last`**: `list.c:763` says that the iterator of a last element moves to the previous
  one.  `list.c:782` compares with `list->last` after it was moved, so the iterator is left on
  NULL, where `iterator_insert` and `iterator_edit` follow it.

Other places where the code does not do what a comment says are named exceptions of properties
that hold otherwise.  The following are each in reach of their run: TLC finds the case in the same
configuration when the exception is taken out of the property:

* **`raced` in `DmaInRange`**: the handler says that a segment is queued when "the current transfer was
  started" (`axi_dmac.c:87`).  A late start-of-transfer interrupt of an earlier small transfer
  between the stores of `size` and `size_done` of a non-blocking call (`:160`, `:161`) queues a
  segment of a transfer that was not, and moves the address on while `size_done` is stored anew:
  from then on the address is one segment ahead, and the last segments pass the end of the
  buffer.  An end-of-transfer interrupt one store earlier clears the address.
* **`overtaken` in `ChunksInOrder` and `DoneMeansAll`**: "Driver can not submit an other buffer when there is already one"
  (`uart.c:375`).  A write ends while `uart_read_nonblocking` is between the look at
  `is_nonblocking` (`:376`) and the claim (`:378`), and its callback starts a read: both reads
  are submitted, `pending` and `buff` are those of the later one, and the first completion is
  taken for it.
* **`late` in `AnswerIsOwn`**: "Wait the response for the last command for MODULE_TIMEOUT milliseconds"
  (`at_parser.c:479`).  After the timeout (`:519`) the response is still to come; it is found
  by the wait of the next command, which returns its verdict.
* **`overtaken` in `DataToOwner`**: "Set the socket connection ID with an ID that is not used yet" (`wifi.c:165`).
  Between the look at `conn_id_to_sock_id` (`:172`) and the store (`:173`) the interrupt can give
  the number to a client of the server; the store then takes it from the client, which waits to
  be accepted with a number that leads to another socket.
* **`Xint` in `EnableRestores`**: "Enable all previously enabled interrupts by irq_enable()" (`irq.c:322`).
  `irq_global_disable` goes through `irq_disable` for the UART, the RTC and the GPIO groups,
  which forgets that they were enabled (`:364`), so `irq_global_enable` brings back the
  external interrupts only.
* **`bare` in `DeliveredHasCallback`**: `irq_unregister` clears the configuration (`irq.c:314`) before `irq_disable`
  needs it to reach the RTC (`:427`): it returns SUCCESS, and the RTC stays on, without a
  callback.

Further observations made while modelling.  Most contradict no document; where a comment is
contradicted too, it is quoted:

* circular buffer: a producer two laps ahead with a smaller index is not reported as an
  overrun, since only the sign of the lap difference is used (`circular_buffer.c:171`);
  `cb_size` then reports fewer bytes than there are, never more.
* DMAC: a big transfer that was left early or timed out keeps `big_transfer.size`.  A late
  interrupt in the next call queues a segment of the old buffer, so that
  address and length of two transfers can mix (`axi_dmac.c:145`, `:246`).  The handler advances
  the address by the length of the segment it is about to queue, not of the one before it
  (`:75`): full segments overlap by one byte, but a shorter last segment starts too early, and
  the last bytes of the buffer are never moved, however long one waits.
* interrupts: a NULL callback is accepted and the interrupt can then be enabled
  (`irq.c:190`, `:200`, `:210`, `:229`).  The polarity of a GPIO pin is set at the
  bit of the mode, not of the pin (`:238`).  A registration that fails leaves its configuration in
  place of a working one (`:206`).  `irq_ctrl_remove` leaves the GPIO groups on (`:144`).
* UART: an error raised between the read and the clear of `uart_get_errors` is lost
  (`uart.c:538`); a `uart_init` that fails leaves the device marked as initialized (`:452`);
  `uart_read` returns the size of its last chunk.  A second
  buffer is submitted while there is one, beside the case above, when the callback of a write starts a read
  while a blocking read has one with the ADI driver, and after a line error (`:256`), when
  `is_nonblocking` is clear and the ADI driver still has the buffer: the first completion is
  then taken for the second transfer's.
* AT parser, beyond the exceptions that its properties name: AT_SEND sets WAITING_SEND in the
  middle of a payload, whose rest is taken for a response while the transaction of the circular
  buffer stays open and every later payload of the connection is thrown away (`at_parser.c:538`);
  trimming or clearing the result inside a header or a CLOSED message, which `at_callback` does
  itself when the result is full (`:447`), makes `result.len` wrap,
  which is reported as an overflow, loses the CLOSED, and has `parse_result` copy that many
  bytes if the command ends before the next character (`:259`, `:287`, `:523`, `:831`); a
  CLOSED that shortens the result behind the index of the wait hides the response (`:497`); `while (timeout--)` never leaves 0,
  so AT_SEND, AT_DISCONNECT_NETWORK and AT_RESET do not notice a timeout, and report one if the
  event comes in the very last round (`:548`, `:562`, `:805`); AT_DISCONNECT_NETWORK does not
  wait for its OK, which the next command finds; `errors` is read and cleared in two steps
  (`:889`); AT_RESET leaves the callback in READING_PAYLOAD (`:808`), which works as long as
  `current_conn` is still 0, and a header may name connection 4 (`:242`) where there are four.
* wifi sockets, beyond the exceptions that the properties name: CONNECTED is stored after the
  peer has closed (`wifi.c:577`, `:830`), and the socket can then neither be used nor closed,
  since the module has no connection -1; a number that looks free in the table may belong to a
  client that has not sent anything (`:172`); a release that is interrupted between its load of
  the number and its stores (`:188`, `:194`) clears a number that by then is another socket's;
  a socket that never had a connection has number 0, not `INVALID_ID`, as the descriptor is
  zeroed, and a CLOSED between the two stores of a number (`:173`, `:174`) then releases
  connection 0, whoever has it; after CLOSED and before OK of a stop, a socket of
  the backlog may be given to a new client, whose connection is then released (`:628`); so may
  a socket of the backlog that the application was given and connects again, with an old CLOSED
  of its number on the way, and the release after the failed connect then hits the new client
  (`:573`);
  `_remove_server_back_log` frees the buffers before it stops the connections (`:589`);
  `client_ids` is never cleared, so a socket that is opened later may be taken for one of the
  backlog, get incoming connections and leak its buffer (`:528`); `wifi_socket_listen`
  allocates a buffer for each entry that it then replaces (`:776`, `:783`, `:786`); listening
  twice frees buffers twice; binding a socket that is still in `client_ids` makes the server one
  of its own clients, and `wifi_socket_disconnect` and `_remove_server_back_log` then call each
  other without end (`:589`, `:618`); a server that is bound and closed without listening keeps
  `server.id` for ever; `bind` and `listen` accept a connected socket; `socket_accept` without
  memory closes the listening socket and leaves the client without an owner
  (`tcp_socket.c:460`); when the second allocation of `cb_init` fails it leaves a pointer to
  freed memory, which `wifi_socket_listen` frees again (`circular_buffer.c:121`, `wifi.c:788`).
* list: an index goes from `uint32_t` to the `int32_t` of `iterator_move` (`list.c:360`, `:432`),
  where 0x80000000 has no `abs` (`:703`): the loop does not run, and the call succeeds on the
  first element; from 0x80000001 on the walk goes backwards, and fails as it should.
  `list_edit_first` of an empty list, and `iterator_insert` and `iterator_edit` of an
  iterator on no element, follow NULL; the default comparator cuts the difference of two
  pointers to 32 bits.

## What is not modelled

* Of the modelled components: the adapters of `list_init` (they are pointers to modelled
  functions), baud rates and memory layout of the UART, directions of the DMAC, contents of
  bytes, and failures of `calloc` at initialisation other than through the result.  Of the AT
  parser: the error paths of `at_init`, `at_remove`, the commands' text, single connection mode.
  Of the sockets: TLS (calls into mbedtls), `socket_recv` (it only reads the circular buffer,
  which `CircularBuffer` models), and commands that keep no state (`wifi_connect`,
  `wifi_get_ip`).
* Register maps, device drivers, projects and legacy code: configuration sequences whose
  correctness is that of the hardware's documentation.
* Platforms other than the ADuCM3029 and their thin drivers: one vendor or system call per
  function.
* Text: IIO attributes and XML, AT commands, formatting.
* Vendored code: FatFs, mbedtls, libtinyiiod and Paho MQTT (the last three are empty here).

`PROJECT.json` lists every component with its status, and the hazards with the properties that
cover them; those with no property have a note.

## Plan

Done in this order: circular buffer, DMAC, interrupt controller, UART, list, AT parser, wifi
and TCP sockets.  Next:

1. **IioSockets** (`iio/iio.c`): the queue of clients and the current one, which overwrites its
   oldest entries when more clients connect than it holds.
2. **SpiEngine** and **XilinxUart** (`spi_engine.c`, `xilinx/uart.c` with `util/fifo.c`): the
   command queue and the 8-bit sync identifier; a queue filled in the interrupt.

To keep the set of runs small, `cb_threads` and `cb_overrun` can be joined to runs on larger
instances as runs for new modules come.
