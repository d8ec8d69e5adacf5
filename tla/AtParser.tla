------------------------------ MODULE AtParser ------------------------------
(***************************************************************************)
(* network/wifi/at_parser.c: the driver of an ESP8266 module over a UART.  *)
(* at_callback parses what the module sends, in the interrupt; at_run_cmd  *)
(* sends a command and waits for its response, in the application.  They   *)
(* share result, callback_operation, the connections and errors.           *)
(*                                                                         *)
(* What the module sends is a sequence of pieces, each standing for the    *)
(* characters between which nothing of interest happens: <<"ipd">> is      *)
(* "\r\n+IPD,", <<"conn", c>> the connection of a payload, <<"len", n>>    *)
(* its length up to the colon, <<"byte", c, i>> the i-th byte that the     *)
(* peer of c sent; <<"id", c>>, <<"clo">>, <<"sed">> make up "c,CLOSED";   *)
(* <<"ok", n>> and <<"fail", n>> answer the n-th thing written to the      *)
(* module.  A piece takes one place of the result buffer, of which the     *)
(* model keeps what is below result.len; lack > 0 is a length that has     *)
(* wrapped to 2^32 - lack.                                                 *)
(***************************************************************************)
EXTENDS Integers, Sequences, SequencesExt

CONSTANTS
    MAX_CONNECTIONS,    \* connections of the parser
    RESULT_BUFF_LEN,    \* size of the result buffer
    CbSize,             \* size of a connection's circular buffer
    Buffered,           \* connections the user has a circular buffer for
    Cmds,               \* commands the application runs
    Lengths,            \* lengths of the payloads
    MaxWrites,          \* bound: no command starts after so many writes to the module
    MaxEvents           \* bound: messages the module sends unasked, and UART errors

Conns == 0..MAX_CONNECTIONS - 1

ASSUME AtAssumption ==
    /\ {MAX_CONNECTIONS, RESULT_BUFF_LEN, CbSize} \subseteq Nat \ {0}
    /\ Buffered \subseteq Conns /\ Lengths \subseteq Nat \ {0}
    /\ Cmds \subseteq {"exec", "send", "disc", "reset"}
    /\ {MaxWrites, MaxEvents} \subseteq Nat

VARIABLES
    callback_operation, \* state of the callback
    conn,               \* the connections: cbuff (is set), to_read, active
    current_conn,       \* connection of the payload being read, or -1
    ipd_idx,            \* progress in the header of a payload
    async_idx,          \* progress in "CLOSED"
    result, lack,       \* result.buff up to result.len
    errors,             \* the errors to report
    is_wifi_connected,
    cb,                 \* the circular buffers, as the parser writes them
    reads,              \* UART: the reads submitted
    line,               \* UART: what the module sent and nobody read yet
    todo,               \* module: what was written to it and it did not answer yet
    link,               \* module: the connections that are open
    pc, cmd, stage,     \* at_run_cmd: where it is, its command, what it waits for
    i, len,             \* wait_for_response: its index, and result.len as it loaded it
    seen,               \* at_run_cmd: the errors it loaded
    ret,                \* result of the last command
    nwrites, nevents,   \* counters of the bounds
    recv, sent,         \* history: pieces stored for a connection, bytes its peer sent
    broken              \* history: what happened that the code does not foresee

parser == <<callback_operation, conn, current_conn, ipd_idx, async_idx>>
res == <<result, lack>>
uart == <<cb, reads, line>>
module == <<todo, link, sent>>
main == <<pc, cmd, stage, i, len, seen, ret, nwrites>>
history == <<recv, broken>>
vars == <<parser, res, errors, is_wifi_connected, uart, module, main, nevents, history>>

-----------------------------------------------------------------------------
(* UART and circular buffers (AducmUart and CircularBuffer have the code). *)

\* uart_read_nonblocking: at most two buffers are held, and an empty one is refused.
Submit(queue, dest, n) ==
    IF n > 0 /\ Len(queue) < 2 THEN Append(queue, [dest |-> dest, n |-> n]) ELSE queue

READ_CH == -1

ReadChar(queue) == Submit(queue, READ_CH, 1)

\* cb_prepare_async_write hands out what is wanted up to the end of the buffer.
Available(cn, b) == IF cn.to_read < CbSize - b.idx THEN cn.to_read ELSE CbSize - b.idx

\* Mutant: the index is not brought back to the start of the buffer.
EndWrite_no_wrap(b) ==
    [idx |-> IF b.started THEN b.idx + b.size ELSE b.idx,
     started |-> FALSE, size |-> 0, data |-> <<>>]

\* cb_end_async_write: what was handed out is taken as written.
EndWrite(b) ==
    [idx |-> IF b.started THEN (b.idx + b.size) % CbSize ELSE b.idx,
     started |-> FALSE, size |-> 0, data |-> <<>>]

-----------------------------------------------------------------------------
NoConn == [cbuff |-> FALSE, to_read |-> 0, active |-> FALSE]

\* at_init has succeeded, and the module has several connections (CIPMUX).
Init ==
    /\ callback_operation = "READING_RESPONSES"
    /\ conn = [c \in Conns |-> NoConn] /\ current_conn = 0
    /\ ipd_idx = 0 /\ async_idx = 0
    /\ result = <<>> /\ lack = 0
    /\ errors = {} /\ is_wifi_connected = FALSE
    /\ cb = [c \in Conns |-> [idx |-> 0, started |-> FALSE, size |-> 0, data |-> <<>>]]
    /\ reads = ReadChar(<<>>) /\ line = <<>> /\ todo = <<>> /\ link = {}
    /\ pc = "idle" /\ cmd = "exec" /\ stage = "last" /\ i = 0 /\ len = 0
    /\ seen = {} /\ ret = "SUCCESS"
    /\ nwrites = 0 /\ nevents = 0
    /\ recv = [c \in Conns |-> <<>>] /\ sent = [c \in Conns |-> 0]
    /\ broken = {}

-----------------------------------------------------------------------------
(* The interrupt: at_callback, after the UART has filled the oldest read.  *)

\* is_payload_message: the header ends with this character ...
HeaderDone(ch) == ipd_idx = 2 /\ ch[1] = "len"

\* ... or goes on, or starts again.
HeaderIdx(ch) ==
    CASE ipd_idx = 0 /\ ch = <<"ipd">> -> 1
      [] ipd_idx = 1 /\ ch[1] = "conn" /\ ch[2] \in 0..MAX_CONNECTIONS -> 2
      [] OTHER -> 0

\* start_conn_read, once the connection is known: read into its buffer, or one
\* character to throw away when it has none or its buffer is busy.
StartConnRead(c, cn, b, queue) ==
    IF cn.cbuff /\ ~b.started
    THEN /\ conn' = [conn EXCEPT ![c] = [cn EXCEPT !.to_read = @ - Available(cn, b)]]
         /\ cb' = [cb EXCEPT ![c] = [b EXCEPT !.started = TRUE, !.size = Available(cn, b)]]
         /\ reads' = Submit(queue, c, Available(cn, b))
    ELSE /\ conn' = [conn EXCEPT ![c] = [cn EXCEPT !.to_read = @ - 1]]
         /\ cb' = [cb EXCEPT ![c] = b]
         /\ reads' = ReadChar(queue)

\* The connection as a new message of n bytes finds it: connection_callback has given
\* it a circular buffer if the user has one.
NewMessage(c, n) ==
    IF conn[c].active
    THEN [conn[c] EXCEPT !.to_read = n]
    ELSE [cbuff |-> c \in Buffered, to_read |-> n, active |-> c \in Buffered]

\* result.len -= n, where the length may be shorter than n.
Shorten(n) ==
    /\ result' = SubSeq(result, 1, Len(result) - n)
    /\ lack' = IF n > Len(result) THEN lack + n - Len(result) ELSE lack
    /\ broken' = IF pc = "wait" /\ i > Len(result') THEN broken \cup {"shrunk"} ELSE broken

\* Mutant: the colon counts as well, which is not in the result.
HeaderSize_with_colon == ipd_idx + 1

\* What the header takes in the result.
HeaderSize == ipd_idx

\* A payload begins.
PayloadBegins(ch, store, queue) ==
    /\ HeaderDone(ch)
    /\ callback_operation' = "READING_PAYLOAD"
    /\ ipd_idx' = 0
    /\ Shorten(HeaderSize)
    /\ StartConnRead(current_conn, NewMessage(current_conn, ch[2]), store[current_conn], queue)
    /\ UNCHANGED <<current_conn, async_idx, errors, is_wifi_connected, recv>>

\* A part of a message is in the result buffer.
Partial ==
    \/ ipd_idx # 0 \/ async_idx # 0
    \/ result # <<>> /\ Last(result)[1] = "id"

\* Mutant: the number of the connection is looked up one place too early.
ClosedId_before ==
    LET end == Len(result) - 2
    IN IF lack = 0 /\ end >= 1 /\ result[end][1] = "id" THEN result[end][2] ELSE -1

\* check_conn_id: the number of the closed connection stands before the message.
ClosedId ==
    LET end == Len(result) - 1
    IN IF lack = 0 /\ end >= 1 /\ result[end][1] = "id" THEN result[end][2] ELSE -1

\* is_async_messages found "CLOSED": take it and the number off the result, close the
\* connection, and keep the last character of the message; if no number stands before
\* it, take off the message alone.
ClosedMessage ==
    /\ async_idx' = 0
    /\ \/ /\ ClosedId >= 0
          /\ conn' = [conn EXCEPT ![ClosedId].active = FALSE, ![ClosedId].cbuff = FALSE]
          /\ current_conn' = ClosedId
          /\ result' = Append(SubSeq(result, 1, Len(result) - 2), <<"text">>)
          /\ broken' = IF pc = "wait" /\ i > Len(result') - 1
                       THEN broken \cup {"shrunk"} ELSE broken
          /\ UNCHANGED lack
       \/ /\ ClosedId < 0
          /\ Shorten(1)
          /\ UNCHANGED <<conn, current_conn>>
    /\ UNCHANGED <<callback_operation, errors, is_wifi_connected>>

\* What is still told apart once it is in the result.
Kept(ch) == IF ch[1] \in {"id", "ok", "fail"} THEN ch
            ELSE IF ch[1] = "byte" THEN <<"byte">> ELSE <<"text">>

\* Any other character of a response: keep it.
OtherCharacter(ch) ==
    /\ async_idx' = IF ch = <<"clo">> THEN 1 ELSE 0
    /\ is_wifi_connected' = CASE ch = <<"lost">> -> FALSE
                              [] ch = <<"gotip">> -> TRUE
                              [] OTHER -> is_wifi_connected
    /\ result' = Append(result, Kept(ch))
    /\ current_conn' = IF ipd_idx = 1 /\ HeaderIdx(ch) = 2 THEN ch[2] ELSE current_conn
    /\ UNCHANGED <<callback_operation, conn, lack, errors, broken>>

\* Mutant: one character too many.
Full_late == lack > 0 \/ Len(result) > RESULT_BUFF_LEN

\* result.len >= RESULT_BUFF_LEN.
Full == lack > 0 \/ Len(result) >= RESULT_BUFF_LEN

\* The result buffer is full: report it and start again, also in the middle of a message.
Overflow(ch) ==
    /\ errors' = errors \cup {"AT_ERROR_INTERNAL_BUFFER_OVERFLOW"}
    /\ result' = <<>> /\ lack' = 0
    /\ broken' = broken \cup {"overflown"}
    /\ current_conn' = IF ipd_idx = 1 /\ HeaderIdx(ch) = 2 THEN ch[2] ELSE current_conn
    /\ UNCHANGED <<callback_operation, conn, async_idx, is_wifi_connected>>

\* WAITING_SEND and READING_RESPONSES.
Character(ch, store, queue) ==
    /\ callback_operation \in {"WAITING_SEND", "READING_RESPONSES"}
    /\ \/ PayloadBegins(ch, store, queue)
       \/ /\ ~HeaderDone(ch)
          /\ ipd_idx' = HeaderIdx(ch)
          /\ \/ /\ ch = <<"prompt">> /\ callback_operation = "WAITING_SEND"
                /\ callback_operation' = "READING_RESPONSES"
                /\ UNCHANGED <<conn, current_conn, async_idx, res, errors,
                               is_wifi_connected, broken>>
             \/ /\ ~(ch = <<"prompt">> /\ callback_operation = "WAITING_SEND")
                /\ \/ Full /\ Overflow(ch)
                   \/ ~Full /\ async_idx = 1 /\ ch = <<"sed">> /\ ClosedMessage
                   \/ ~Full /\ ~(async_idx = 1 /\ ch = <<"sed">>) /\ OtherCharacter(ch)
          /\ cb' = store /\ reads' = ReadChar(queue)
          /\ UNCHANGED recv

\* Mutant: the payload ends with its first part.
LastPart_first(c) == TRUE

\* The whole payload has been read.
LastPart(c) == conn[c].to_read = 0

\* READING_PAYLOAD: a part of the payload is in its buffer; go on with the next part.
PayloadPart(store, queue) ==
    LET c == current_conn
        b == IF conn[c].cbuff THEN EndWrite(store[c]) ELSE store[c]
    IN /\ callback_operation = "READING_PAYLOAD"
       /\ recv' = IF conn[c].cbuff /\ store[c].started
                  THEN [recv EXCEPT ![c] = @ \o store[c].data] ELSE recv
       /\ \/ /\ LastPart(c)
             /\ callback_operation' = "READING_RESPONSES" /\ current_conn' = -1
             /\ cb' = [store EXCEPT ![c] = b] /\ reads' = ReadChar(queue)
             /\ UNCHANGED conn
          \/ /\ ~LastPart(c)
             /\ StartConnRead(c, conn[c], b, queue)
             /\ UNCHANGED <<callback_operation, current_conn>>
       /\ UNCHANGED <<ipd_idx, async_idx, res, errors, is_wifi_connected, broken>>

\* RESETTING_MODULE: skip everything up to "ready".
Skip(ch, store, queue) ==
    /\ callback_operation = "RESETTING_MODULE"
    /\ callback_operation' = IF ch = <<"ready">> THEN "READING_RESPONSES" ELSE callback_operation
    /\ cb' = store /\ reads' = ReadChar(queue)
    /\ UNCHANGED <<conn, current_conn, ipd_idx, async_idx, res, errors, is_wifi_connected,
                   recv, broken>>

\* at_callback, IRQ_READ_DONE.  After a read into a circular buffer, read_ch still
\* holds the colon of the header.
ReadDone ==
    /\ reads # <<>> /\ Len(line) >= Head(reads).n
    /\ LET r == Head(reads)
           data == SubSeq(line, 1, r.n)
           ch == IF r.dest = READ_CH THEN data[1] ELSE <<"text">>
           store == IF r.dest = READ_CH THEN cb ELSE [cb EXCEPT ![r.dest].data = data]
       IN /\ line' = SubSeq(line, r.n + 1, Len(line))
          /\ Skip(ch, store, Tail(reads)) \/ Character(ch, store, Tail(reads))
                \/ PayloadPart(store, Tail(reads))
    /\ UNCHANGED <<module, main, nevents>>

\* at_callback, IRQ_ERROR: a character was damaged or lost.
UartError ==
    /\ nevents < MaxEvents /\ line # <<>>
    /\ nevents' = nevents + 1
    /\ errors' = IF callback_operation # "RESETTING_MODULE"
                 THEN errors \cup {"AT_ERROR_UART"} ELSE errors
    /\ line' \in {<<<<"noise">>>> \o Tail(line), Tail(line)}
    /\ reads' = ReadChar(reads)
    /\ broken' = broken \cup {"faulty"}
    /\ UNCHANGED <<parser, res, is_wifi_connected, cb, module, main, recv>>

-----------------------------------------------------------------------------
(* The application: at_run_cmd.                                            *)

\* uart_write: the module gets a command, or the data of AT_SEND.
Write(what) ==
    /\ nwrites' = nwrites + 1
    /\ todo' = Append(todo, [n |-> nwrites + 1, what |-> what])

\* wait_for_response starts at the beginning of the result.
StartWait(st) == pc' = "wait" /\ stage' = st /\ i' = 0

\* The end of a command, and of its local variables.
Leave(r) ==
    /\ pc' = "idle" /\ stage' = "last" /\ i' = 0 /\ len' = 0 /\ seen' = {}
    /\ ret' = r

\* What the command at the end of AT_RESET returns does not count.
Return(r) == Leave(IF cmd = "reset" /\ stage = "last" THEN "SUCCESS" ELSE r)

\* wifi_init gives the parser up when AT_RESET fails.
Running == cmd = "reset" => pc = "idle" /\ ret = "SUCCESS"

\* callback_operation set by the application, in whatever state the interrupt is.
SetOperation(op) ==
    /\ callback_operation' = op
    /\ broken' = IF callback_operation = "READING_PAYLOAD"
                 THEN broken \cup {"clobbered"} ELSE broken

Keep == UNCHANGED <<conn, current_conn, ipd_idx, async_idx, is_wifi_connected, uart, link,
                    sent, nevents, recv>>
KeepParser == Keep /\ UNCHANGED callback_operation

\* build_cmd and the first write; AT_RESET is run once, by wifi_init, before the
\* module has connections.
RunCmd(op) ==
    /\ pc = "idle" /\ nwrites < MaxWrites
    /\ Running /\ (op = "reset" => nwrites = 0 /\ nevents = 0)
    /\ cmd' = op
    /\ Write(op)
    /\ \/ /\ op = "reset" /\ SetOperation("RESETTING_MODULE")
          /\ pc' = "ready" /\ UNCHANGED <<stage, i>>
       \/ /\ op = "send" /\ pc' = "mode"
          /\ UNCHANGED <<stage, i, callback_operation, broken>>
       \/ /\ op = "disc" /\ pc' = "check"
          /\ UNCHANGED <<stage, i, callback_operation, broken>>
       \/ /\ op = "exec" /\ StartWait("last")
          /\ UNCHANGED <<callback_operation, broken>>
    /\ Keep
    /\ UNCHANGED <<res, errors, len, seen, ret>>

\* send_cmd: the prompt of AT_SEND is expected from now on.
ExpectPrompt ==
    /\ pc = "mode"
    /\ SetOperation("WAITING_SEND")
    /\ StartWait("prompt")
    /\ Keep
    /\ UNCHANGED <<res, errors, todo, cmd, len, seen, ret, nwrites>>

\* send_cmd, AT_DISCONNECT_NETWORK: what follows depends on whether there is a network.
CheckNetwork ==
    /\ pc = "check"
    /\ \/ is_wifi_connected /\ pc' = "disc" /\ UNCHANGED <<stage, i>>
       \/ ~is_wifi_connected /\ StartWait("last")
    /\ KeepParser
    /\ UNCHANGED <<res, errors, todo, cmd, len, seen, ret, nwrites, broken>>

IsResponse(p) == p[1] \in {"ok", "fail"}

\* Mutant: the first character is left out.
Looks_from_second == i > 0

\* wait_for_response looks at every character from the first.
Looks == TRUE

\* What there is to be looked at; when the length has wrapped, all of the memory.
Present == IF lack > 0 THEN RESULT_BUFF_LEN ELSE Len(result)

\* wait_for_response: look at the next character of the result; a response ends it,
\* and so may one left in memory when the length has wrapped.
Poll ==
    /\ pc = "wait" /\ i < Present
    /\ i' = i + 1
    /\ LET there == i < Len(result) /\ Looks /\ IsResponse(result[i+1])
       IN \/ /\ there \/ i >= Len(result)
             /\ pc' = "trim" /\ len' = Len(result)
             /\ ret' \in IF ~there THEN {"SUCCESS", "FAILURE"}
                         ELSE IF result[i+1][1] = "ok" THEN {"SUCCESS"} ELSE {"FAILURE"}
          \/ /\ ~there
             /\ UNCHANGED <<pc, len, ret>>
    /\ KeepParser
    /\ UNCHANGED <<res, errors, todo, cmd, stage, seen, nwrites, broken>>

\* wait_for_response: MODULE_TIMEOUT looks, far more than there are characters.
TimedOut ==
    /\ pc = "wait" /\ i >= Present
    /\ Return("FAILURE")
    /\ broken' = broken \cup {"late"}
    /\ KeepParser
    /\ UNCHANGED <<res, errors, todo, cmd, nwrites>>

\* Mutant: the response stays in the result.
Trimmed_not == len

\* result.len without the response.
Trimmed == len - 1

\* result.len = n, above or below what it is.
Resize(n) ==
    /\ result' = [k \in 1..n |-> IF k <= Len(result) THEN result[k] ELSE <<"text">>]
    /\ lack' = IF n < 0 THEN -n ELSE 0

\* Where the wait leads: the end of the command, the prompt of AT_SEND, or for
\* AT_RESET the command that leaves the network.
AfterWait ==
    \/ /\ ret = "FAILURE" /\ Return(ret)
       /\ Resize(Trimmed) /\ UNCHANGED <<todo, nwrites>>
    \/ /\ ret = "SUCCESS" /\ stage \in {"prompt", "last"}
       /\ pc' = IF stage = "prompt" THEN "prompt" ELSE "finish"
       /\ Resize(Trimmed) /\ UNCHANGED <<todo, nwrites, stage, i, len, seen, ret>>
    \/ /\ ret = "SUCCESS" /\ stage = "echo"
       /\ Resize(0) /\ Write("disc")
       /\ pc' = "check" /\ stage' = "last" /\ i' = 0
       /\ UNCHANGED <<len, seen, ret>>

\* The end of wait_for_response, which stores the length it loaded in Poll.
Trim ==
    /\ pc = "trim"
    /\ AfterWait
    /\ broken' = IF len # Len(result) \/ i # len THEN broken \cup {"cut"} ELSE broken
    /\ KeepParser
    /\ UNCHANGED <<errors, cmd>>

\* send_cmd: the data follow when the callback has left WAITING_SEND or the time is
\* over (while (timeout--) does not end at 0); it fails if the last look ends it.
Prompt ==
    /\ pc = "prompt"
    /\ \/ /\ callback_operation # "WAITING_SEND" /\ Return("FAILURE")
          /\ UNCHANGED <<todo, nwrites, broken>>
       \/ /\ Write("data") /\ StartWait("last") /\ UNCHANGED <<len, seen, ret>>
          /\ broken' = IF callback_operation = "WAITING_SEND" THEN broken \cup {"late"} ELSE broken
    /\ KeepParser
    /\ UNCHANGED <<res, errors, cmd>>

\* send_cmd, AT_DISCONNECT_NETWORK: the network is gone, or the time is over, which
\* do ... while (timeout--) does not tell apart; the response is not waited for.  The
\* command fails if the network is gone at the last look, and then at_run_cmd leaves the
\* response in the result.
Disconnect ==
    /\ pc = "disc"
    /\ LET answered == Contains(result, <<"ok", nwrites>>)
       IN \/ /\ pc' = "finish" /\ ret' = "SUCCESS"
             /\ broken' = IF answered THEN broken ELSE broken \cup {"late"}
             /\ UNCHANGED <<stage, i, len, seen>>
          \/ /\ ~is_wifi_connected /\ Return("FAILURE")
             /\ broken' = broken \cup {IF answered THEN "left" ELSE "late"}
    /\ KeepParser
    /\ UNCHANGED <<res, errors, todo, cmd, nwrites>>

\* handle_special, AT_RESET: "ready", or the time is over, or the last look sees it and
\* AT_RESET fails.
Ready ==
    /\ pc = "ready"
    /\ \/ /\ broken' = IF callback_operation = "RESETTING_MODULE" THEN broken \cup {"late"}
                                                                  ELSE broken
          /\ callback_operation' = "READING_PAYLOAD"
          /\ Resize(0)
          /\ Write("echo") /\ StartWait("echo") /\ UNCHANGED <<len, seen, ret>>
       \/ /\ callback_operation # "RESETTING_MODULE" /\ Leave("FAILURE")
          /\ UNCHANGED <<callback_operation, res, todo, nwrites, broken>>
    /\ Keep
    /\ UNCHANGED <<errors, cmd>>

\* parse_result, or no output parameter: the result is copied and cleared ...
Finish ==
    /\ pc = "finish"
    /\ pc' = "errors" /\ Resize(0) /\ seen' = errors
    /\ broken' = broken \cup (IF Partial THEN {"cut"} ELSE {})
    /\ KeepParser
    /\ UNCHANGED <<errors, todo, cmd, stage, i, len, ret, nwrites>>

\* ... and errors that came up meanwhile are the result of the command.
ReportErrors ==
    /\ pc = "errors"
    /\ \/ seen = {} /\ Return(ret) /\ UNCHANGED errors
       \/ seen # {} /\ Return("ERRORS") /\ errors' = {}
    /\ KeepParser
    /\ UNCHANGED <<res, todo, cmd, nwrites, broken>>

-----------------------------------------------------------------------------
(* The module (external).  It answers what is written to it, or not at     *)
(* all, and sends messages unasked, one at a time and in one piece.        *)

Reply(n, what) ==
    CASE what = "send"  -> {<<<<"ok", n>>, <<"prompt">>>>, <<<<"fail", n>>>>}
      [] what = "disc"  -> {<<<<"ok", n>>, <<"lost">>>>, <<<<"ok", n>>>>}
      [] what = "reset" -> {<<<<"ready">>>>}
      [] what = "echo"  -> {<<<<"text">>, <<"ok", n>>>>}
      [] OTHER          -> {<<<<"ok", n>>>>, <<<<"fail", n>>>>}

Answer ==
    /\ todo # <<>> /\ line = <<>>
    /\ \E reply \in Reply(Head(todo).n, Head(todo).what) : line' = reply
    /\ todo' = Tail(todo)
    /\ link' = IF Head(todo).what = "reset" THEN {} ELSE link
    /\ UNCHANGED <<parser, res, errors, is_wifi_connected, cb, reads, sent, main,
                   nevents, history>>

Unasked(msg) ==
    /\ nevents < MaxEvents /\ Running /\ line = <<>>
    /\ nevents' = nevents + 1
    /\ line' = msg
    /\ UNCHANGED <<parser, res, errors, is_wifi_connected, cb, reads, todo, main,
                   history>>

\* A peer sends n bytes, over a connection that may be new.
PeerSends(c, n) ==
    /\ Unasked(<<<<"ipd">>, <<"conn", c>>, <<"len", n>>>>
                \o [k \in 1..n |-> <<"byte", c, sent[c] + k>>])
    /\ sent' = [sent EXCEPT ![c] = @ + n] /\ link' = link \cup {c}

PeerCloses(c) ==
    /\ c \in link
    /\ Unasked(<<<<"id", c>>, <<"clo">>, <<"sed">>>>)
    /\ link' = link \ {c} /\ UNCHANGED sent

NetworkChanges ==
    /\ \E msg \in {"gotip", "lost"} : Unasked(<<<<msg>>>>)
    /\ UNCHANGED <<link, sent>>

-----------------------------------------------------------------------------
Application == \/ ExpectPrompt \/ CheckNetwork \/ Poll \/ TimedOut \/ Trim \/ Prompt
               \/ Disconnect \/ Ready \/ Finish \/ ReportErrors

Next ==
    \/ \E op \in Cmds : RunCmd(op)
    \/ Application
    \/ ReadDone \/ UartError
    \/ Answer \/ NetworkChanges
    \/ \E c \in Conns : PeerCloses(c) \/ \E n \in Lengths : PeerSends(c, n)

Spec == Init /\ [][Next]_vars

-----------------------------------------------------------------------------
(* Properties.                                                             *)

\* Types, and what at_callback stores stays in the result and the circular buffers.
TypeOK ==
    /\ callback_operation \in {"READING_RESPONSES", "READING_PAYLOAD", "RESETTING_MODULE",
                               "WAITING_SEND"}
    /\ conn \in [Conns -> [cbuff : BOOLEAN, to_read : Nat, active : BOOLEAN]]
    /\ ipd_idx \in 0..2 /\ async_idx \in 0..1
    /\ Len(result) <= RESULT_BUFF_LEN /\ lack \in Nat
    /\ \A c \in Conns : cb[c].idx \in 0..CbSize-1

\* The parser never stops listening: every path of at_callback leaves a read with the
\* UART, or no event would ever come again; and the next event finds the connection of
\* the payload it is in, never conn[-1].
Listening ==
    /\ reads # <<>>
    /\ callback_operation = "READING_PAYLOAD" => current_conn \in Conns

\* What reaches the buffer of a connection is what its peer sent, in order, and none
\* of it is taken for a response, as long as the application does not overwrite
\* READING_PAYLOAD (send_cmd) and the line is good.
PayloadKeptApart ==
    broken \cap {"clobbered", "faulty"} = {} =>
        /\ \A c \in Buffered : \A k \in 1..Len(recv[c]) : recv[c][k] = <<"byte", c, k>>
        /\ \A k \in 1..Len(result) : result[k][1] # "byte"

\* What the interrupt takes off the result is there: result.len does not wrap, unless
\* the application changed it inside a message (cut), or the parser itself did when the
\* result was full (overflown).
LenNeverWraps == broken \cap {"cut", "overflown", "clobbered", "faulty"} = {} => lack = 0

\* The response a command takes is the module's answer to it, unless an earlier wait
\* ended without its response or left it in the result, or the result was cut.
AnswerIsOwn ==
    pc = "trim" /\ i <= Len(result)
    /\ broken \cap {"late", "left", "cut", "overflown", "clobbered", "faulty"} = {} =>
        result[i] \in {<<"ok", nwrites>>, <<"fail", nwrites>>}

\* A connection the module has closed does not stay active.
ClosedIsSeen ==
    line = <<>> /\ broken \cap {"cut", "overflown", "clobbered", "faulty"} = {} =>
        \A c \in Conns : conn[c].active => c \in link

\* "Wait the response for the last command": the part of the result that the wait is
\* past has no response to its command, unless the interrupt shortened the result
\* behind its back.
NoneMissed ==
    pc = "wait" /\ broken \cap {"shrunk", "cut", "overflown", "clobbered", "faulty"} = {} =>
        \A k \in 1..i : k <= Len(result) =>
            result[k] \notin {<<"ok", nwrites>>, <<"fail", nwrites>>}
=============================================================================
