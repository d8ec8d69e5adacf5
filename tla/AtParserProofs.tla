--------------------------- MODULE AtParserProofs ---------------------------
(***************************************************************************)
(* Proofs about AtParser for any number of connections, any sizes of the   *)
(* result and of the circular buffers, and any commands and payloads.      *)
(*                                                                         *)
(* Four invariants, each resting on the ones before it: what at_callback   *)
(* and at_run_cmd keep whatever happens (Sound); how the result buffer     *)
(* ends while a message is being recognised (Framed); whose responses are  *)
(* under way (Owned); and where in a message the parser is (InStep).       *)
(***************************************************************************)
EXTENDS AtParser, SequenceTheorems, TLAPS

-----------------------------------------------------------------------------
(* Types.                                                                  *)

Piece ==
    {<<"ipd">>, <<"clo">>, <<"sed">>, <<"text">>, <<"prompt">>, <<"lost">>, <<"gotip">>,
     <<"ready">>, <<"noise">>}
    \cup ({"conn", "id"} \X Conns) \cup ({"len"} \X Lengths) \cup ({"ok", "fail"} \X Nat)
    \cup ({"byte"} \X Conns \X Nat)

\* What the result buffer holds.
KeptPiece ==
    {<<"text">>, <<"byte">>} \cup ({"id"} \X Conns) \cup ({"ok", "fail"} \X Nat)

Connection == [cbuff : BOOLEAN, to_read : Nat, active : BOOLEAN]
Buffer == [idx : 0..CbSize-1, started : BOOLEAN, size : Nat, data : Seq(Piece)]
Read == [dest : Conns \cup {READ_CH}, n : Nat \ {0}]
Written == [n : Nat, what : {"exec", "send", "disc", "reset", "echo", "data"}]

ParserTypes ==
    /\ callback_operation \in {"READING_RESPONSES", "READING_PAYLOAD", "RESETTING_MODULE",
                               "WAITING_SEND"}
    /\ conn \in [Conns -> Connection]
    /\ current_conn \in Conns \cup {-1} /\ ipd_idx \in 0..2 /\ async_idx \in 0..1
    /\ recv \in [Conns -> Seq(Piece)]

ResultTypes == result \in Seq(KeptPiece) /\ Len(result) <= RESULT_BUFF_LEN /\ lack \in Nat

\* One character at a time is read into read_ch.
WellRead(queue) ==
    queue \in Seq(Read) /\ \A k \in 1..Len(queue) : queue[k].dest = READ_CH => queue[k].n = 1

UartTypes ==
    /\ cb \in [Conns -> Buffer]
    /\ WellRead(reads) /\ Len(reads) \in 1..2
    /\ line \in Seq(Piece)

MainTypes ==
    /\ pc \in {"idle", "mode", "check", "disc", "ready", "wait", "trim", "prompt", "finish", "errors"}
    /\ cmd \in {"exec", "send", "disc", "reset"} /\ stage \in {"last", "prompt", "echo"}
    /\ i \in Nat /\ len \in 0..RESULT_BUFF_LEN
    /\ ret \in {"SUCCESS", "FAILURE", "ERRORS"}
    /\ nwrites \in Nat /\ nevents \in Nat
    /\ todo \in Seq(Written) /\ link \subseteq Conns /\ sent \in [Conns -> Nat]

-----------------------------------------------------------------------------
(* Sound: kept by every step, whatever the line and the application do.    *)

NoConns == [c \in Conns |-> NoConn]
Idling == ipd_idx = 0 /\ async_idx = 0 /\ current_conn = 0 /\ conn = NoConns

\* The connection of a payload is known before it is used.
Located ==
    /\ callback_operation = "READING_PAYLOAD" => current_conn \in Conns /\ ipd_idx = 0
    /\ ipd_idx = 2 => current_conn \in Conns

\* AT_RESET finds the parser as at_init left it, and nothing but its answer is sent
\* while it is waited for; so Ready may set READING_PAYLOAD.
Fresh ==
    /\ nwrites = 0 => pc = "idle"
    /\ nwrites = 0 /\ nevents = 0 =>
          /\ Idling /\ callback_operation = "READING_RESPONSES"
          /\ line = <<>> /\ todo = <<>> /\ result = <<>> /\ lack = 0
    /\ pc = "ready" =>
          /\ Idling /\ callback_operation \in {"READING_RESPONSES", "RESETTING_MODULE"}
          /\ line \in Seq({<<"ready">>, <<"noise">>})
          /\ Len(todo) <= 1 /\ \A k \in DOMAIN todo : todo[k].what = "reset"
          /\ cmd = "reset"

Sound == ParserTypes /\ ResultTypes /\ UartTypes /\ MainTypes /\ Located /\ Fresh

-----------------------------------------------------------------------------
(* Framed: the result buffer ends with what the parser has recognised.     *)

Uncut == broken \cap {"cut", "overflown", "clobbered", "faulty"} = {}

\* What the interrupt will take off the result is there, and is no response.
Tails ==
    /\ lack = 0
    /\ ipd_idx <= Len(result)
    /\ \A k \in Len(result) - ipd_idx + 1..Len(result) : result[k] = <<"text">>
    /\ async_idx = 1 => result # <<>> /\ result[Len(result)] = <<"text">> /\ ipd_idx = 0

\* The response that wait_for_response has found stays where it is.
Found == pc = "trim" => i \in 1..Len(result) /\ i <= len /\ IsResponse(result[i])

\* wait_for_response has seen no response so far.
Unseen ==
    pc = "wait" /\ "shrunk" \notin broken =>
        i <= Len(result) /\ \A k \in 1..i : ~IsResponse(result[k])

Framed == Uncut => Tails /\ Found /\ Unseen

-----------------------------------------------------------------------------
(* Owned: one response at most is under way, the one to the last write.    *)

Untold == broken \cap {"late", "left", "cut", "overflown", "clobbered", "faulty"} = {}

Responses(q) == {k \in DOMAIN q : IsResponse(q[k])}
Own(p, n) == p \in {<<"ok", n>>, <<"fail", n>>}

OneAtATime ==
    /\ Len(todo) <= 1 /\ \A k \in DOMAIN todo : todo[k].n = nwrites
    /\ \A k \in Responses(line) : Own(line[k], nwrites) /\ todo = <<>>
    /\ \A k \in Responses(result) : Own(result[k], nwrites) /\ todo = <<>> /\ Responses(line) = {}
    /\ \A j, k \in Responses(line) : j = k
    /\ \A j, k \in Responses(result) : j = k

Silent == todo = <<>> /\ Responses(line) = {}

\* What at_run_cmd leaves behind when it returns.
Settled ==
    /\ pc \in {"idle", "errors", "prompt"} => Silent /\ Responses(result) = {}
    /\ pc = "finish" => Silent
    /\ pc = "ready" =>
          /\ Responses(result) = {}
          /\ todo # <<>> => line = <<>> /\ callback_operation = "RESETTING_MODULE"

Owned == Untold => OneAtATime /\ Settled

-----------------------------------------------------------------------------
(* InStep: where in what the module sends the parser is.                   *)

Clean == broken \cap {"clobbered", "faulty"} = {}

Plain == {<<"text">>, <<"prompt">>, <<"lost">>, <<"gotip">>, <<"ready">>} \cup ({"ok", "fail"} \X Nat)

Bytes(c, m, n) == [k \in 1..n |-> <<"byte", c, m + k>>]

OneChar == reads = <<[dest |-> READ_CH, n |-> 1]>>
NotStarted(c) == ~cb[c].started

\* All but the last so many bytes that the peer of c has sent are in its buffer.
Stored(c, owed) ==
    c \in Buffered => /\ Len(recv[c]) + owed = sent[c]
                      /\ \A k \in 1..Len(recv[c]) : recv[c][k] = <<"byte", c, k>>

Rested(c) == NotStarted(c) /\ Stored(c, 0)
Others(c) == \A d \in Conns \ {c} : Rested(d)

Between ==
    /\ callback_operation # "READING_PAYLOAD" /\ OneChar /\ ipd_idx = 0
    /\ line \in Seq(Plain)
    /\ \A c \in Conns : Rested(c)

InHeader(c, n) ==
    /\ callback_operation \in {"WAITING_SEND", "READING_RESPONSES"} /\ OneChar
    /\ \/ ipd_idx = 0 /\ line = <<<<"ipd">>, <<"conn", c>>, <<"len", n>>>> \o Bytes(c, sent[c] - n, n)
       \/ ipd_idx = 1 /\ line = <<<<"conn", c>>, <<"len", n>>>> \o Bytes(c, sent[c] - n, n)
       \/ /\ ipd_idx = 2 /\ line = <<<<"len", n>>>> \o Bytes(c, sent[c] - n, n)
          /\ current_conn = c
    /\ c \in link /\ n <= sent[c]
    /\ Stored(c, n) /\ NotStarted(c)
    /\ Others(c)

InPayload(c, n) ==
    /\ callback_operation = "READING_PAYLOAD" /\ current_conn = c /\ ipd_idx = 0
    /\ n <= sent[c] /\ line = Bytes(c, sent[c] - n, n)
    /\ Len(reads) = 1 /\ reads[1].n + conn[c].to_read = n
    /\ conn[c].cbuff = (c \in Buffered)
    /\ conn[c].cbuff => reads[1].dest = c /\ cb[c].started
    /\ ~conn[c].cbuff => reads[1].dest = READ_CH /\ NotStarted(c)
    /\ c \in link
    /\ Stored(c, n)
    /\ Others(c)

InClosing(c) ==
    /\ callback_operation \in {"WAITING_SEND", "READING_RESPONSES"} /\ OneChar /\ ipd_idx = 0
    /\ \/ line = <<<<"id", c>>, <<"clo">>, <<"sed">>>>
       \/ /\ line = <<<<"clo">>, <<"sed">>>>
          /\ Uncut => result # <<>> /\ result[Len(result)] = <<"id", c>>
       \/ /\ line = <<<<"sed">>>>
          /\ Uncut => /\ async_idx = 1 /\ Len(result) >= 2
                      /\ result[Len(result) - 1] = <<"id", c>>
    /\ \A d \in Conns : Rested(d)

\* The application's wait for "ready" is over: the next character ends READING_PAYLOAD.
Echoing ==
    /\ callback_operation = "READING_PAYLOAD" /\ Idling /\ OneChar
    /\ line \in Seq(Plain)
    /\ cmd = "reset" /\ result = <<>> /\ lack = 0
    /\ \/ pc = "wait" /\ stage = "echo"
       \/ pc = "idle" /\ ret = "FAILURE"
    /\ \A c \in Conns : Rested(c)

\* The module has not answered AT_RESET yet, or nobody has read its answer.
Resetting ==
    /\ callback_operation = "RESETTING_MODULE" => pc = "ready"
    /\ \A k \in DOMAIN todo : todo[k].what = "reset" =>
          /\ k = 1 /\ line = <<>> /\ result = <<>> /\ lack = 0 /\ conn = NoConns
          /\ cmd = "reset"
          /\ \/ pc = "ready" \/ (pc = "wait" /\ stage = "echo")
             \/ (pc = "idle" /\ ret = "FAILURE")

Phase ==
    \/ Between \/ Echoing
    \/ \E c \in Conns : InClosing(c)
    \/ \E c \in Conns : \E n \in Lengths : InHeader(c, n)
    \/ \E c \in Conns : \E n \in 1..Len(line) : InPayload(c, n)

Attached ==
    \A c \in Conns :
       /\ conn[c].active = conn[c].cbuff /\ (conn[c].cbuff => c \in Buffered)
       /\ Uncut /\ conn[c].active => c \in link \/ InClosing(c)

NoBytes == \A k \in 1..Len(result) : result[k][1] # "byte"

InStep == Clean => Phase /\ Attached /\ NoBytes /\ Resetting

-----------------------------------------------------------------------------
(* Pieces and sequences.                                                   *)

\* What the first part of a piece tells of the others.
LEMMA PieceParts ==
    ASSUME NEW ch \in Piece
    PROVE  /\ ch[1] = "conn" => ch[2] \in Conns
           /\ ch[1] = "id" => ch[2] \in Conns
           /\ ch[1] = "len" => ch[2] \in Lengths
           /\ ch[1] \in {"ok", "fail"} => ch[2] \in Nat /\ ch = <<ch[1], ch[2]>>
BY DEF Piece

\* What is kept of a piece.
LEMMA KeptIsKept ==
    ASSUME NEW ch \in Piece
    PROVE  Kept(ch) \in KeptPiece
BY DEF Piece, Kept, KeptPiece

LEMMA KeptParts ==
    ASSUME NEW p \in KeptPiece
    PROVE  /\ p[1] = "id" => p[2] \in Conns
           /\ IsResponse(p) => p[2] \in Nat /\ p = <<p[1], p[2]>>
BY DEF KeptPiece, IsResponse

\* The front of a sequence, which may be shorter than nothing.
LEMMA FrontOf ==
    ASSUME NEW S, NEW q \in Seq(S), NEW n \in Int, n <= Len(q)
    PROVE  /\ SubSeq(q, 1, n) \in Seq(S)
           /\ Len(SubSeq(q, 1, n)) = IF n < 0 THEN 0 ELSE n
           /\ \A k \in 1..n : SubSeq(q, 1, n)[k] = q[k]
OBVIOUS

\* The rest of a sequence.
LEMMA RestOf ==
    ASSUME NEW S, NEW q \in Seq(S), NEW n \in Nat, n <= Len(q)
    PROVE  /\ SubSeq(q, n + 1, Len(q)) \in Seq(S)
           /\ Len(SubSeq(q, n + 1, Len(q))) = Len(q) - n
           /\ \A k \in 1..Len(q) - n : SubSeq(q, n + 1, Len(q))[k] = q[k + n]
OBVIOUS

LEMMA Longer ==
    ASSUME NEW S, NEW q \in Seq(S), NEW e \in S
    PROVE  /\ Append(q, e) \in Seq(S)
           /\ Len(Append(q, e)) = Len(q) + 1
           /\ \A k \in 1..Len(q) : Append(q, e)[k] = q[k]
           /\ Append(q, e)[Len(q) + 1] = e
OBVIOUS

LEMMA Shorter ==
    ASSUME NEW S, NEW q \in Seq(S), q # <<>>
    PROVE  /\ Head(q) \in S /\ Head(q) = q[1] /\ Len(q) >= 1
           /\ Tail(q) \in Seq(S)
           /\ Len(Tail(q)) = Len(q) - 1
           /\ \A k \in 1..Len(q) - 1 : Tail(q)[k] = q[k + 1]
OBVIOUS

-----------------------------------------------------------------------------
(* The UART and its reads.                                                 *)

LEMMA AtMostOne ==
    ASSUME NEW m \in 0..1
    PROVE  m <= 1 /\ m <= 2
OBVIOUS

LEMMA AtMostTwo ==
    ASSUME NEW m \in 1..2
    PROVE  m <= 2
OBVIOUS

\* A read is added while fewer than two are held; none is lost.
LEMMA SubmitReads ==
    ASSUME NEW queue, WellRead(queue), Len(queue) <= 2,
           NEW dest \in Conns \cup {READ_CH}, NEW n \in Nat, dest = READ_CH => n = 1
    PROVE  /\ WellRead(Submit(queue, dest, n))
           /\ Len(Submit(queue, dest, n)) \in 0..2
           /\ n > 0 \/ queue # <<>> => Len(Submit(queue, dest, n)) \in 1..2
           /\ n > 0 /\ queue = <<>> => Submit(queue, dest, n) = <<[dest |-> dest, n |-> n]>>
<1> DEFINE r == [dest |-> dest, n |-> n]
<1>1. CASE n > 0 /\ Len(queue) < 2
  <2>1. r \in Read /\ queue \in Seq(Read)
    BY <1>1 DEF Read, WellRead
  <2>2. Submit(queue, dest, n) = Append(queue, r)
    BY <1>1 DEF Submit
  <2>3. /\ Append(queue, r) \in Seq(Read)
        /\ Len(Append(queue, r)) = Len(queue) + 1
        /\ \A k \in 1..Len(queue) : Append(queue, r)[k] = queue[k]
        /\ Append(queue, r)[Len(queue) + 1] = r
    <3> HIDE DEF r
    <3> QED
      BY <2>1, Longer
  <2>4. r.dest = dest /\ r.n = n
    OBVIOUS
  <2>5. queue = <<>> => Append(queue, r) = <<r>>
    OBVIOUS
  <2> HIDE DEF r
  <2>6. WellRead(Append(queue, r))
    BY <1>1, <2>1, <2>3, <2>4 DEF WellRead
  <2>7. Len(Append(queue, r)) \in 1..2
    BY <1>1, <2>1, <2>3
  <2> QED
    BY <2>2, <2>5, <2>6, <2>7 DEF r
<1>2. CASE ~(n > 0 /\ Len(queue) < 2)
  <2>1. queue \in Seq(Read) /\ Submit(queue, dest, n) = queue
    BY <1>2 DEF Submit, WellRead
  <2>2. Len(queue) \in Nat /\ (queue = <<>> <=> Len(queue) = 0)
    BY <2>1
  <2>3. Len(queue) \in 0..2 /\ (n > 0 \/ queue # <<>> => Len(queue) \in 1..2)
    <3>1. PICK l \in Nat : l = Len(queue)
      BY <2>2
    <3>2. l <= 2 /\ (n > 0 => l = 2) /\ (queue # <<>> => l # 0)
      BY <1>2, <2>2, <3>1
    <3>3. l \in 0..2 /\ (n > 0 \/ queue # <<>> => l \in 1..2)
      BY <3>2
    <3> QED
      BY <3>1, <3>3, Zenon
  <2>4. ~(n > 0 /\ queue = <<>>)
    BY <1>2, <2>2
  <2> QED
    BY <2>1, <2>3, <2>4, Zenon
<1> QED
  BY <1>1, <1>2

\* What is handed out of a circular buffer is wanted, and it is something.
LEMMA AvailableBounds ==
    ASSUME NEW cn \in Connection, cn.to_read # 0, NEW b \in Buffer
    PROVE  /\ Available(cn, b) \in 1..cn.to_read
           /\ Available(cn, b) \in Nat
BY AtAssumption DEF Connection, Buffer, Available

\* The index of a circular buffer stays in it.
LEMMA EndWriteBuffer ==
    ASSUME NEW b \in Buffer
    PROVE  EndWrite(b) \in Buffer /\ ~EndWrite(b).started
<1>1. b.idx \in 0..CbSize-1 /\ b.started \in BOOLEAN /\ b.size \in Nat
  BY DEF Buffer
<1>2. CbSize \in Nat \ {0}
  BY AtAssumption
<1>3. \A k \in Nat : k % CbSize \in 0..CbSize-1
  BY <1>2
<1>4. b.idx + b.size \in Nat
  BY <1>1, <1>2
<1>5. (b.idx + b.size) % CbSize \in 0..CbSize-1
  BY <1>3, <1>4
<1>6. <<>> \in Seq(Piece)
  OBVIOUS
<1> QED
  BY <1>1, <1>5, <1>6 DEF EndWrite, Buffer

\* start_conn_read leaves a read with the UART, and the counts in their ranges.
LEMMA StartConnReadSound ==
    ASSUME conn \in [Conns -> Connection], cb \in [Conns -> Buffer],
           NEW c \in Conns, NEW cn \in Connection, cn.to_read # 0, NEW b \in Buffer,
           NEW queue, WellRead(queue), Len(queue) <= 1,
           StartConnRead(c, cn, b, queue)
    PROVE  /\ conn' \in [Conns -> Connection]
           /\ cb' \in [Conns -> Buffer]
           /\ WellRead(reads') /\ Len(reads') \in 1..2
<1>0. /\ Available(cn, b) \in 1..cn.to_read /\ Available(cn, b) \in Nat
      /\ cn.to_read \in Nat /\ queue \in Seq(Read) /\ Len(queue) \in Nat
  BY AvailableBounds DEF Connection, WellRead
<1>1. CASE cn.cbuff /\ ~b.started
  <2>1. [cn EXCEPT !.to_read = @ - Available(cn, b)] \in Connection
    BY <1>0, SMTT(30) DEF Connection
  <2>2. [b EXCEPT !.started = TRUE, !.size = Available(cn, b)] \in Buffer
    BY <1>0 DEF Buffer
  <2>3. reads' = Submit(queue, c, Available(cn, b))
    BY <1>1 DEF StartConnRead
  <2>4. c \in Conns \cup {READ_CH} /\ c # READ_CH
    BY AtAssumption DEF Conns, READ_CH
  <2>5. WellRead(reads') /\ Len(reads') \in 1..2
    BY <1>0, <2>3, <2>4, SubmitReads
  <2> QED
    BY <1>1, <2>1, <2>2, <2>5 DEF StartConnRead
<1>2. CASE ~(cn.cbuff /\ ~b.started)
  <2>0. cn.to_read - 1 \in Nat
    BY <1>0
  <2>1. [cn EXCEPT !.to_read = @ - 1] \in Connection
    BY <2>0 DEF Connection
  <2>2. reads' = Submit(queue, READ_CH, 1)
    BY <1>2 DEF StartConnRead, ReadChar
  <2>3. READ_CH \in Conns \cup {READ_CH} /\ 1 \in Nat /\ 1 > 0 /\ Len(queue) <= 2
    BY <1>0
  <2>4. WellRead(reads') /\ Len(reads') \in 1..2
    BY <2>2, <2>3, SubmitReads, Zenon
  <2> QED
    BY <1>2, <2>1, <2>4 DEF StartConnRead
<1> QED
  BY <1>1, <1>2

\* read_char after a character.
LEMMA ReadCharSound ==
    ASSUME NEW queue, WellRead(queue), Len(queue) <= 2
    PROVE  /\ WellRead(ReadChar(queue)) /\ Len(ReadChar(queue)) \in 1..2
           /\ queue = <<>> => ReadChar(queue) = <<[dest |-> READ_CH, n |-> 1]>>
<1>1. READ_CH \in Conns \cup {READ_CH} /\ 1 \in Nat /\ 1 > 0
  OBVIOUS
<1> QED
  BY <1>1, SubmitReads, Zenon DEF ReadChar

-----------------------------------------------------------------------------
(* at_callback keeps Sound.                                                *)

\* The read that is done: what has been read, and where it went.
Reading(ch, store, queue) ==
    /\ reads # <<>> /\ Len(line) >= reads[1].n /\ queue = Tail(reads)
    /\ line' = SubSeq(line, reads[1].n + 1, Len(line))
    /\ ch = IF reads[1].dest = READ_CH THEN line[1] ELSE <<"text">>
    /\ store = IF reads[1].dest = READ_CH THEN cb
               ELSE [cb EXCEPT ![reads[1].dest].data = SubSeq(line, 1, reads[1].n)]
    /\ UNCHANGED <<module, main, nevents>>

LEMMA ReadDoneParts ==
    ASSUME UartTypes, ReadDone
    PROVE  \E ch \in Piece, store \in [Conns -> Buffer], queue \in Seq(Read) :
              /\ Reading(ch, store, queue)
              /\ WellRead(queue) /\ Len(queue) \in 0..1
              /\ line # <<>> /\ line' \in Seq(Piece) /\ reads[1] \in Read
              /\ \/ Skip(ch, store, queue) \/ Character(ch, store, queue)
                 \/ PayloadPart(store, queue)
<1>1. /\ reads \in Seq(Read) /\ reads # <<>> /\ line \in Seq(Piece)
      /\ \A k \in 1..Len(reads) : reads[k].dest = READ_CH => reads[k].n = 1
      /\ Len(reads) \in 1..2 /\ cb \in [Conns -> Buffer]
  BY DEF UartTypes, WellRead, ReadDone
<1>2. Head(reads) = reads[1] /\ reads[1] \in Read /\ Tail(reads) \in Seq(Read)
      /\ Len(Tail(reads)) = Len(reads) - 1
      /\ \A k \in 1..Len(reads) - 1 : Tail(reads)[k] = reads[k + 1]
  BY <1>1, Shorter
<1> DEFINE queue == Tail(reads)
           n == reads[1].n
           dest == reads[1].dest
           data == SubSeq(line, 1, n)
           ch == IF dest = READ_CH THEN line[1] ELSE <<"text">>
           store == IF dest = READ_CH THEN cb ELSE [cb EXCEPT ![dest].data = data]
<1>3. n \in Nat \ {0} /\ dest \in Conns \cup {READ_CH} /\ (dest = READ_CH => n = 1)
  BY <1>1, <1>2 DEF Read
<1>4. Len(line) >= n /\ line' = SubSeq(line, n + 1, Len(line))
  BY <1>2 DEF ReadDone
<1>5. line # <<>> /\ line[1] \in Piece /\ data \in Seq(Piece) /\ Len(data) = n /\ data[1] = line[1]
  <2>1. Len(line) \in Nat /\ n \in Int /\ n <= Len(line) /\ n >= 1 /\ 1 \in 1..n
    BY <1>1, <1>3, <1>4
  <2> HIDE DEF n
  <2>2. /\ data \in Seq(Piece) /\ Len(data) = IF n < 0 THEN 0 ELSE n
        /\ \A k \in 1..n : data[k] = line[k]
    BY <1>1, <2>1, FrontOf, Zenon
  <2> HIDE DEF data
  <2>3. Len(data) = n /\ data[1] = line[1]
    BY <2>1, <2>2
  <2>4. line # <<>> /\ line[1] \in Piece
    BY <1>1, <2>1
  <2> QED
    BY <2>2, <2>3, <2>4
<1>6. line' \in Seq(Piece)
  BY <1>1, <1>3, <1>4, RestOf
<1>7. ch \in Piece
  BY <1>5 DEF Piece
<1>8. store \in [Conns -> Buffer]
  BY <1>1, <1>3, <1>5 DEF Buffer
<1>9. WellRead(queue) /\ Len(queue) \in 0..1
  BY <1>1, <1>2 DEF WellRead
<1>10. Reading(ch, store, queue)
  BY <1>1, <1>2, <1>4 DEF Reading, ReadDone
<1>11. Skip(ch, store, queue) \/ Character(ch, store, queue) \/ PayloadPart(store, queue)
  <2> DEFINE r == Head(reads)
             ch1 == IF r.dest = READ_CH THEN SubSeq(line, 1, r.n)[1] ELSE <<"text">>
             store1 == IF r.dest = READ_CH THEN cb
                       ELSE [cb EXCEPT ![r.dest].data = SubSeq(line, 1, r.n)]
  <2>1. Skip(ch1, store1, queue) \/ Character(ch1, store1, queue) \/ PayloadPart(store1, queue)
    BY Zenon DEF ReadDone
  <2>2. ch1 = ch /\ store1 = store
    BY <1>2, <1>5
  <2> HIDE DEF ch, store, ch1, store1, queue
  <2> QED
    BY <2>1, <2>2, Zenon
<1>12. queue \in Seq(Read)
  BY <1>2
<1> QED
  <2> HIDE DEF queue, ch, store
  <2> QED
    BY <1>2, <1>12, <1>5, <1>6, <1>7, <1>8, <1>9, <1>10, <1>11

\* result.len -= n.
LEMMA ShortenSound ==
    ASSUME ResultTypes, NEW n \in Nat, Shorten(n)
    PROVE  /\ ResultTypes' /\ Len(result') <= Len(result)
           /\ Len(result') = IF n > Len(result) THEN 0 ELSE Len(result) - n
           /\ \A k \in 1..Len(result') : result'[k] = result[k]
           /\ n <= Len(result) => lack' = lack
<1>1. result \in Seq(KeptPiece) /\ Len(result) <= RESULT_BUFF_LEN /\ lack \in Nat
      /\ RESULT_BUFF_LEN \in Nat
  BY AtAssumption DEF ResultTypes
<1>2. Len(result) \in Nat /\ Len(result) - n \in Int /\ Len(result) - n <= Len(result)
  BY <1>1
<1>3. /\ result' = SubSeq(result, 1, Len(result) - n)
      /\ lack' = IF n > Len(result) THEN lack + n - Len(result) ELSE lack
  BY DEF Shorten
<1>4. /\ result' \in Seq(KeptPiece)
      /\ Len(result') = IF Len(result) - n < 0 THEN 0 ELSE Len(result) - n
      /\ \A k \in 1..Len(result) - n : result'[k] = result[k]
  BY <1>1, <1>2, <1>3, FrontOf
<1>5. Len(result') = IF n > Len(result) THEN 0 ELSE Len(result) - n
  BY <1>2, <1>4
<1>6. \A k \in 1..Len(result') : result'[k] = result[k]
  BY <1>2, <1>4, <1>5
<1>7. lack' \in Nat /\ (n <= Len(result) => lack' = lack)
  BY <1>1, <1>2, <1>3
<1>8. ResultTypes'
  BY <1>1, <1>2, <1>4, <1>5, <1>7 DEF ResultTypes
<1>9. Len(result') <= Len(result)
  BY <1>2, <1>5
<1> QED
  BY <1>5, <1>6, <1>7, <1>8, <1>9

\* result.len = n.
LEMMA ResizeSound ==
    ASSUME ResultTypes, NEW n \in Int, n <= RESULT_BUFF_LEN, Resize(n)
    PROVE  /\ ResultTypes'
           /\ Len(result') = IF n < 0 THEN 0 ELSE n
           /\ \A k \in 1..Len(result') : k <= Len(result) => result'[k] = result[k]
           /\ lack' = IF n < 0 THEN -n ELSE 0
           /\ \A k \in 1..Len(result') : k > Len(result) => result'[k] = <<"text">>
<1>1. result \in Seq(KeptPiece) /\ Len(result) <= RESULT_BUFF_LEN /\ lack \in Nat
      /\ RESULT_BUFF_LEN \in Nat
  BY AtAssumption DEF ResultTypes
<1>2. /\ result' = [k \in 1..n |-> IF k <= Len(result) THEN result[k] ELSE <<"text">>]
      /\ lack' = IF n < 0 THEN -n ELSE 0
  BY DEF Resize
<1>3. <<"text">> \in KeptPiece
  BY DEF KeptPiece
<1> DEFINE m == IF n < 0 THEN 0 ELSE n
<1>4. m \in Nat /\ 1..n = 1..m /\ m <= RESULT_BUFF_LEN
  BY <1>1
<1>5. \A k \in 1..m : (IF k <= Len(result) THEN result[k] ELSE <<"text">>) \in KeptPiece
  BY <1>1, <1>3
<1>6. result' = [k \in 1..m |-> IF k <= Len(result) THEN result[k] ELSE <<"text">>]
  BY <1>2, <1>4
<1> HIDE DEF m
<1>7. result' \in Seq(KeptPiece) /\ Len(result') = m
  <2>1. result' \in [1..m -> KeptPiece]
    BY <1>5, <1>6
  <2> QED
    BY <1>4, <2>1
<1>8. lack' \in Nat
  BY <1>2
<1>9. ResultTypes'
  BY <1>4, <1>7, <1>8 DEF ResultTypes
<1>10. \A k \in 1..m : result'[k] = IF k <= Len(result) THEN result[k] ELSE <<"text">>
  BY <1>6
<1>11. Len(result) \in Nat
  BY <1>1
<1>12. \A k \in 1..Len(result') : k <= Len(result) => result'[k] = result[k]
  BY <1>4, <1>7, <1>10, <1>11
<1>13. \A k \in 1..Len(result') : k > Len(result) => result'[k] = <<"text">>
  BY <1>4, <1>7, <1>10, <1>11
<1> QED
  BY <1>2, <1>7, <1>9, <1>12, <1>13, Zenon DEF m

\* What at_callback leaves, whatever it read.
CallbackSound ==
    /\ ParserTypes /\ ResultTypes /\ Located
    /\ cb \in [Conns -> Buffer] /\ WellRead(reads) /\ Len(reads) \in 1..2

LEMMA SkipSound ==
    ASSUME CallbackSound, NEW ch, NEW store \in [Conns -> Buffer],
           NEW queue, WellRead(queue), Len(queue) \in 0..1, Skip(ch, store, queue)
    PROVE  CallbackSound'
<1>1. WellRead(reads') /\ Len(reads') \in 1..2
  <2>1. reads' = ReadChar(queue)
    BY DEF Skip
  <2> QED
    BY <2>1, AtMostOne, ReadCharSound
<1>2. ResultTypes'
  BY DEF CallbackSound, ResultTypes, Skip, res
<1>3. ParserTypes' /\ Located'
  BY DEF CallbackSound, ParserTypes, Located, Skip
<1> QED
  BY <1>1, <1>2, <1>3 DEF CallbackSound, Skip

LEMMA PayloadPartSound ==
    ASSUME CallbackSound, NEW store \in [Conns -> Buffer],
           NEW queue, WellRead(queue), Len(queue) \in 0..1, PayloadPart(store, queue)
    PROVE  CallbackSound'
<1> DEFINE c == current_conn
           b == IF conn[c].cbuff THEN EndWrite(store[c]) ELSE store[c]
<1>1. /\ callback_operation = "READING_PAYLOAD" /\ c \in Conns /\ ipd_idx = 0
      /\ conn \in [Conns -> Connection] /\ conn[c] \in Connection
      /\ store[c] \in Buffer /\ cb \in [Conns -> Buffer]
  BY DEF PayloadPart, CallbackSound, Located, ParserTypes
<1>2. b \in Buffer
  BY <1>1, EndWriteBuffer
<1>3. recv' \in [Conns -> Seq(Piece)]
  <2>1. store[c].data \in Seq(Piece) /\ recv \in [Conns -> Seq(Piece)]
    BY <1>1 DEF Buffer, CallbackSound, ParserTypes
  <2>2. recv[c] \o store[c].data \in Seq(Piece)
    BY <1>1, <2>1
  <2> QED
    BY <1>1, <2>1, <2>2 DEF PayloadPart
<1>4. ResultTypes'
  BY DEF CallbackSound, ResultTypes, PayloadPart, res
<1>5. CASE LastPart(c)
  <2>1. /\ callback_operation' = "READING_RESPONSES" /\ current_conn' = -1 /\ conn' = conn
        /\ cb' = [store EXCEPT ![c] = b] /\ reads' = ReadChar(queue)
        /\ UNCHANGED <<ipd_idx, async_idx>>
    BY <1>5 DEF PayloadPart
  <2>2. WellRead(reads') /\ Len(reads') \in 1..2
    BY <2>1, AtMostOne, ReadCharSound
  <2>3. cb' \in [Conns -> Buffer]
    <3> HIDE DEF b
    <3> QED
      BY <1>1, <1>2, <2>1
  <2>4. ParserTypes' /\ Located'
    BY <1>1, <1>3, <2>1 DEF CallbackSound, ParserTypes, Located
  <2> QED
    BY <1>4, <2>2, <2>3, <2>4 DEF CallbackSound
<1>6. CASE ~LastPart(c)
  <2>1. /\ StartConnRead(c, conn[c], b, queue)
        /\ UNCHANGED <<callback_operation, current_conn, ipd_idx, async_idx>>
    BY <1>6 DEF PayloadPart
  <2>2. conn[c].to_read # 0 /\ Len(queue) <= 1
    BY <1>6, AtMostOne DEF LastPart
  <2>3. /\ conn' \in [Conns -> Connection] /\ cb' \in [Conns -> Buffer]
        /\ WellRead(reads') /\ Len(reads') \in 1..2
    <3> HIDE DEF b, c
    <3> QED
      BY <1>1, <1>2, <2>1, <2>2, StartConnReadSound
  <2>4. ParserTypes' /\ Located'
    BY <1>1, <1>3, <2>1, <2>3 DEF CallbackSound, ParserTypes, Located
  <2> QED
    BY <1>4, <2>3, <2>4 DEF CallbackSound
<1> QED
  BY <1>5, <1>6

LEMMA PayloadBeginsSound ==
    ASSUME CallbackSound, NEW ch \in Piece, NEW store \in [Conns -> Buffer],
           NEW queue, WellRead(queue), Len(queue) \in 0..1,
           PayloadBegins(ch, store, queue)
    PROVE  CallbackSound'
<1> DEFINE c == current_conn
           cn == NewMessage(c, ch[2])
<1>1. /\ ipd_idx = 2 /\ ch[2] \in Nat \ {0} /\ c \in Conns
      /\ conn \in [Conns -> Connection] /\ conn[c] \in Connection
      /\ store[c] \in Buffer /\ cb \in [Conns -> Buffer]
  BY PieceParts, AtAssumption
     DEF PayloadBegins, HeaderDone, CallbackSound, Located, ParserTypes
<1>2. cn \in Connection /\ cn.to_read # 0
  BY <1>1 DEF NewMessage, Connection
<1>3. /\ conn' \in [Conns -> Connection] /\ cb' \in [Conns -> Buffer]
      /\ WellRead(reads') /\ Len(reads') \in 1..2
  <2>1. StartConnRead(c, cn, store[c], queue) /\ Len(queue) <= 1
    BY AtMostOne DEF PayloadBegins
  <2> HIDE DEF c, cn
  <2> QED
    BY <1>1, <1>2, <2>1, StartConnReadSound
<1>4. ResultTypes'
  <2>1. HeaderSize \in Nat /\ Shorten(HeaderSize)
    BY <1>1 DEF HeaderSize, PayloadBegins
  <2> QED
    BY <2>1, ShortenSound DEF CallbackSound
<1>5. ParserTypes' /\ Located'
  BY <1>1, <1>3 DEF PayloadBegins, CallbackSound, ParserTypes, Located
<1> QED
  BY <1>3, <1>4, <1>5 DEF CallbackSound

\* is_payload_message notes only connections that there are.
LEMMA HeaderConn ==
    ASSUME NEW ch \in Piece, ipd_idx \in 0..2
    PROVE  /\ HeaderIdx(ch) \in 0..2
           /\ HeaderIdx(ch) = 2 => ipd_idx = 1 /\ ch[1] = "conn" /\ ch[2] \in Conns
<1>1. HeaderIdx(ch) \in 0..2 /\ (HeaderIdx(ch) = 2 => ipd_idx = 1 /\ ch[1] = "conn")
  BY DEF HeaderIdx
<1> QED
  BY <1>1, PieceParts

\* check_conn_id finds the number of a connection.
LEMMA ClosedIdConn ==
    ASSUME ResultTypes
    PROVE  /\ ClosedId \in Conns \cup {-1}
           /\ ClosedId >= 0 => /\ ClosedId \in Conns /\ Len(result) >= 2
                               /\ result[Len(result) - 1] = <<"id", ClosedId>>
<1>1. result \in Seq(KeptPiece) /\ Len(result) \in Nat
  BY DEF ResultTypes
<1>2. CASE lack = 0 /\ Len(result) - 1 >= 1 /\ result[Len(result) - 1][1] = "id"
  <2>1. result[Len(result) - 1] \in KeptPiece /\ Len(result) >= 2
    BY <1>1, <1>2
  <2>2. ClosedId = result[Len(result) - 1][2]
    BY <1>2 DEF ClosedId
  <2>3. \A p \in KeptPiece : p[1] = "id" => p[2] \in Conns /\ p = <<"id", p[2]>>
    BY DEF KeptPiece
  <2> QED
    BY <1>2, <2>1, <2>2, <2>3
<1>3. CASE ~(lack = 0 /\ Len(result) - 1 >= 1 /\ result[Len(result) - 1][1] = "id")
  <2>1. ClosedId = -1
    BY <1>3 DEF ClosedId
  <2> QED
    BY <2>1
<1> QED
  BY <1>2, <1>3

\* "CLOSED" takes as much off the result as is there.
LEMMA ClosedMessageSound ==
    ASSUME ResultTypes, ParserTypes, ~Full, ClosedMessage
    PROVE  /\ ResultTypes' /\ conn' \in [Conns -> Connection]
           /\ current_conn' \in Conns \cup {-1}
           /\ ClosedId >= 0 =>
                 /\ Len(result') = Len(result) - 1
                 /\ \A k \in 1..Len(result) - 2 : result'[k] = result[k]
                 /\ result'[Len(result) - 1] = <<"text">>
<1>1. /\ result \in Seq(KeptPiece) /\ Len(result) \in Nat /\ Len(result) <= RESULT_BUFF_LEN
      /\ RESULT_BUFF_LEN \in Nat /\ lack \in Nat
      /\ conn \in [Conns -> Connection] /\ current_conn \in Conns \cup {-1}
  BY AtAssumption DEF ResultTypes, ParserTypes
<1>2. CASE ClosedId >= 0
  <2>1. ClosedId \in Conns /\ Len(result) >= 2
    BY <1>2, ClosedIdConn
  <2>2. /\ conn' = [conn EXCEPT ![ClosedId].active = FALSE, ![ClosedId].cbuff = FALSE]
        /\ current_conn' = ClosedId /\ lack' = lack
        /\ result' = Append(SubSeq(result, 1, Len(result) - 2), <<"text">>)
    <3>1. ~(ClosedId < 0)
      BY <1>2, <2>1 DEF Conns
    <3> QED
      BY <3>1 DEF ClosedMessage
  <2>3. conn' \in [Conns -> Connection]
    BY <1>1, <2>1, <2>2 DEF Connection
  <2> DEFINE front == SubSeq(result, 1, Len(result) - 2)
  <2>4. /\ front \in Seq(KeptPiece) /\ Len(front) = Len(result) - 2
        /\ \A k \in 1..Len(result) - 2 : front[k] = result[k]
    <3>1. PICK n \in Int : n = Len(result) - 2
      BY <1>1
    <3>2. n <= Len(result) /\ ~(n < 0)
      BY <1>1, <2>1, <3>1
    <3>3. /\ SubSeq(result, 1, n) \in Seq(KeptPiece) /\ Len(SubSeq(result, 1, n)) = n
          /\ \A k \in 1..n : SubSeq(result, 1, n)[k] = result[k]
      BY <1>1, <3>2, FrontOf
    <3> QED
      BY <3>1, <3>3
  <2>5. <<"text">> \in KeptPiece
    BY DEF KeptPiece
  <2> HIDE DEF front
  <2>6. /\ result' \in Seq(KeptPiece) /\ Len(result') = Len(front) + 1
        /\ \A k \in 1..Len(front) : result'[k] = front[k]
        /\ result'[Len(front) + 1] = <<"text">>
    BY <2>2, <2>4, <2>5, Longer DEF front
  <2>7. /\ Len(result') = Len(result) - 1
        /\ \A k \in 1..Len(result) - 2 : result'[k] = result[k]
        /\ result'[Len(result) - 1] = <<"text">>
    BY <1>1, <2>1, <2>4, <2>6
  <2>8. ResultTypes'
    BY <1>1, <2>2, <2>6, <2>7 DEF ResultTypes
  <2> QED
    BY <2>1, <2>2, <2>3, <2>7, <2>8
<1>3. CASE ~(ClosedId >= 0)
  <2>1. Shorten(1) /\ UNCHANGED <<conn, current_conn>>
    BY <1>3 DEF ClosedMessage
  <2> QED
    BY <1>1, <1>3, <2>1, ShortenSound
<1> QED
  BY <1>2, <1>3

\* A character is kept while there is room.
LEMMA OtherCharacterSound ==
    ASSUME ResultTypes, ~Full, NEW ch \in Piece, OtherCharacter(ch)
    PROVE  /\ ResultTypes' /\ Len(result') = Len(result) + 1
           /\ \A k \in 1..Len(result) : result'[k] = result[k]
           /\ result'[Len(result) + 1] = Kept(ch)
<1>1. /\ result \in Seq(KeptPiece) /\ Len(result) < RESULT_BUFF_LEN
      /\ RESULT_BUFF_LEN \in Nat /\ lack \in Nat /\ Len(result) \in Nat
  BY AtAssumption DEF ResultTypes, Full
<1>2. Kept(ch) \in KeptPiece
  BY KeptIsKept
<1>3. result' = Append(result, Kept(ch)) /\ lack' = lack
  BY DEF OtherCharacter
<1>4. /\ result' \in Seq(KeptPiece)
      /\ Len(result') = Len(result) + 1
      /\ \A k \in 1..Len(result) : result'[k] = result[k]
      /\ result'[Len(result) + 1] = Kept(ch)
  BY <1>1, <1>2, <1>3, Longer
<1>5. ResultTypes'
  BY <1>1, <1>3, <1>4 DEF ResultTypes
<1> QED
  BY <1>4, <1>5

\* The ways in which a character of a response is taken.
LEMMA CharacterCases ==
    ASSUME NEW ch, NEW store, NEW queue, Character(ch, store, queue),
           ~PayloadBegins(ch, store, queue)
    PROVE  /\ callback_operation \in {"WAITING_SEND", "READING_RESPONSES"}
           /\ ~HeaderDone(ch) /\ ipd_idx' = HeaderIdx(ch)
           /\ cb' = store /\ reads' = ReadChar(queue) /\ recv' = recv
           /\ \/ /\ ch = <<"prompt">> /\ callback_operation' = "READING_RESPONSES"
                 /\ UNCHANGED <<conn, current_conn, async_idx, res, errors, broken>>
              \/ Full /\ Overflow(ch)
              \/ ~Full /\ async_idx = 1 /\ ch = <<"sed">> /\ ClosedMessage
              \/ ~Full /\ OtherCharacter(ch)
BY Zenon DEF Character

LEMMA CharacterSound ==
    ASSUME CallbackSound, NEW ch \in Piece, NEW store \in [Conns -> Buffer],
           NEW queue, WellRead(queue), Len(queue) \in 0..1,
           Character(ch, store, queue)
    PROVE  CallbackSound'
<1>1. CASE PayloadBegins(ch, store, queue)
  BY <1>1, PayloadBeginsSound
<1>2. CASE ~PayloadBegins(ch, store, queue)
  <2>1. /\ callback_operation \in {"WAITING_SEND", "READING_RESPONSES"}
        /\ ~HeaderDone(ch) /\ ipd_idx' = HeaderIdx(ch)
        /\ cb' = store /\ reads' = ReadChar(queue) /\ recv' = recv
    BY <1>2, CharacterCases
  <2>2. WellRead(reads') /\ Len(reads') \in 1..2
    BY <2>1, AtMostOne, ReadCharSound
  <2>3. /\ ipd_idx \in 0..2 /\ ipd_idx' \in 0..2
        /\ ipd_idx' = 2 => ipd_idx = 1 /\ HeaderIdx(ch) = 2 /\ ch[1] = "conn" /\ ch[2] \in Conns
    BY <2>1, HeaderConn DEF CallbackSound, ParserTypes
  <2>4. ParserTypes /\ ResultTypes
    BY DEF CallbackSound
  <2>5. SUFFICES /\ callback_operation' \in {"WAITING_SEND", "READING_RESPONSES"}
                 /\ conn' \in [Conns -> Connection] /\ current_conn' \in Conns \cup {-1}
                 /\ async_idx' \in 0..1 /\ ResultTypes'
                 /\ ipd_idx' = 2 => current_conn' \in Conns
    BY <2>1, <2>2, <2>3, <2>4 DEF CallbackSound, ParserTypes, Located
  <2>6. CASE /\ ch = <<"prompt">> /\ callback_operation' = "READING_RESPONSES"
             /\ UNCHANGED <<conn, current_conn, async_idx, res, errors, broken>>
    BY <2>3, <2>4, <2>6 DEF ParserTypes, ResultTypes, res
  <2>7. CASE Full /\ Overflow(ch)
    <3>1. /\ result' = <<>> /\ lack' = 0
          /\ current_conn' = IF ipd_idx = 1 /\ HeaderIdx(ch) = 2 THEN ch[2] ELSE current_conn
          /\ UNCHANGED <<callback_operation, conn, async_idx>>
      BY <2>7 DEF Overflow
    <3>2. ResultTypes'
      BY <3>1, AtAssumption DEF ResultTypes
    <3> QED
      BY <2>1, <2>3, <2>4, <3>1, <3>2, HeaderConn DEF ParserTypes
  <2>8. CASE ~Full /\ async_idx = 1 /\ ch = <<"sed">> /\ ClosedMessage
    <3>1. /\ ResultTypes' /\ conn' \in [Conns -> Connection]
          /\ current_conn' \in Conns \cup {-1}
      BY <2>4, <2>8, ClosedMessageSound
    <3>2. callback_operation' = callback_operation /\ async_idx' = 0
      BY <2>8 DEF ClosedMessage
    <3>3. ipd_idx' # 2
      BY <2>3, <2>8
    <3> QED
      BY <2>1, <3>1, <3>2, <3>3
  <2>9. CASE ~Full /\ OtherCharacter(ch)
    <3>1. ResultTypes'
      BY <2>4, <2>9, OtherCharacterSound
    <3>2. /\ async_idx' = IF ch = <<"clo">> THEN 1 ELSE 0
          /\ current_conn' = IF ipd_idx = 1 /\ HeaderIdx(ch) = 2 THEN ch[2] ELSE current_conn
          /\ UNCHANGED <<callback_operation, conn>>
      BY <2>9 DEF OtherCharacter
    <3> QED
      BY <2>1, <2>3, <2>4, <3>1, <3>2, HeaderConn DEF ParserTypes
  <2> QED
    BY <1>2, <2>6, <2>7, <2>8, <2>9, CharacterCases
<1> QED
  BY <1>1, <1>2

\* While "ready" is waited for, no character changes more than the result.
LEMMA ReadDoneFresh ==
    ASSUME Sound, NEW ch \in Piece, NEW store, NEW queue,
           Reading(ch, store, queue), line # <<>>, reads[1] \in Read,
           \/ Skip(ch, store, queue) \/ Character(ch, store, queue)
           \/ PayloadPart(store, queue)
    PROVE  Fresh'
<1>1. UNCHANGED <<nwrites, nevents, pc, todo, cmd>>
  BY DEF Reading, module, main
<1>2. ~(nwrites = 0 /\ nevents = 0)
  BY DEF Sound, Fresh
<1>3. ASSUME pc = "ready"
      PROVE  /\ Idling' /\ callback_operation' \in {"READING_RESPONSES", "RESETTING_MODULE"}
             /\ line' \in Seq({<<"ready">>, <<"noise">>})
  <2>1. /\ Idling /\ callback_operation \in {"READING_RESPONSES", "RESETTING_MODULE"}
        /\ line \in Seq({<<"ready">>, <<"noise">>})
    BY <1>3 DEF Sound, Fresh
  <2>2. reads[1].n \in Nat /\ reads[1].n <= Len(line) /\ Len(line) \in Nat
    BY <2>1 DEF Read, Reading
  <2>3. line' \in Seq({<<"ready">>, <<"noise">>})
    <3>1. PICK n \in Nat : n = reads[1].n
      BY <2>2
    <3>2. line' = SubSeq(line, n + 1, Len(line)) /\ n <= Len(line)
      BY <2>2, <3>1 DEF Reading
    <3> QED
      BY <2>1, <3>2, RestOf
  <2>4. ch \in {<<"ready">>, <<"noise">>, <<"text">>}
    BY <2>1 DEF Reading
  <2>5. CASE Skip(ch, store, queue)
    BY <2>1, <2>3, <2>5 DEF Skip, Idling
  <2>6. CASE Character(ch, store, queue)
    <3>1. ~PayloadBegins(ch, store, queue)
      BY <2>1 DEF PayloadBegins, HeaderDone, Idling
    <3>2. HeaderIdx(ch) = 0
      BY <2>1, <2>4 DEF HeaderIdx, Idling
    <3>3. ipd_idx' = 0
      BY <2>6, <3>1, <3>2, CharacterCases
    <3>4. \/ Full /\ Overflow(ch)
          \/ ~Full /\ OtherCharacter(ch)
      BY <2>4, <2>6, <3>1, CharacterCases
    <3>5. /\ conn' = conn /\ callback_operation' = callback_operation
          /\ current_conn' = IF ipd_idx = 1 /\ HeaderIdx(ch) = 2 THEN ch[2] ELSE current_conn
          /\ async_idx' = async_idx \/ async_idx' = IF ch = <<"clo">> THEN 1 ELSE 0
      BY <3>4, Zenon DEF Overflow, OtherCharacter
    <3>6. async_idx' = 0 /\ current_conn' = current_conn
      BY <2>1, <2>4, <3>2, <3>5 DEF Idling
    <3> QED
      BY <2>1, <2>3, <3>3, <3>5, <3>6 DEF Idling
  <2>7. CASE PayloadPart(store, queue)
    BY <2>1, <2>7 DEF PayloadPart
  <2> QED
    BY <2>5, <2>6, <2>7
<1>4. pc = "ready" =>
         /\ Len(todo) <= 1 /\ \A k \in DOMAIN todo : todo[k].what = "reset"
         /\ cmd = "reset"
  BY DEF Sound, Fresh
<1>5. nwrites = 0 => pc = "idle"
  BY DEF Sound, Fresh
<1> QED
  BY <1>1, <1>2, <1>3, <1>4, <1>5 DEF Fresh

LEMMA ReadDoneSound ==
    ASSUME Sound, ReadDone
    PROVE  Sound'
<1>1. UartTypes /\ CallbackSound /\ MainTypes
  BY DEF Sound, UartTypes, CallbackSound
<1>2. PICK ch \in Piece, store \in [Conns -> Buffer], queue \in Seq(Read) :
              /\ Reading(ch, store, queue)
              /\ WellRead(queue) /\ Len(queue) \in 0..1
              /\ line # <<>> /\ line' \in Seq(Piece) /\ reads[1] \in Read
              /\ \/ Skip(ch, store, queue) \/ Character(ch, store, queue)
                 \/ PayloadPart(store, queue)
  BY <1>1, ReadDoneParts
<1>3. CallbackSound'
  BY <1>1, <1>2, SkipSound, CharacterSound, PayloadPartSound
<1>4. Fresh'
  BY <1>2, ReadDoneFresh
<1>5. MainTypes'
  BY <1>1, <1>2 DEF Reading, MainTypes, module, main
<1> QED
  BY <1>2, <1>3, <1>4, <1>5 DEF Sound, UartTypes, CallbackSound

-----------------------------------------------------------------------------
(* The line and the module keep Sound.                                     *)

LEMMA UartErrorSound ==
    ASSUME Sound, UartError
    PROVE  Sound'
<1>1. /\ line \in Seq(Piece) /\ line # <<>> /\ WellRead(reads) /\ Len(reads) \in 1..2
      /\ reads' = ReadChar(reads) /\ nevents' = nevents + 1
      /\ line' \in {<<<<"noise">>>> \o Tail(line), Tail(line)}
      /\ UNCHANGED <<parser, res, cb, module, main, recv>>
  BY DEF UartError, Sound, UartTypes
<1>2. line' \in Seq(Piece)
  <2>1. Tail(line) \in Seq(Piece)
    BY <1>1, Shorter
  <2>2. <<<<"noise">>>> \in Seq(Piece)
    BY DEF Piece
  <2>3. <<<<"noise">>>> \o Tail(line) \in Seq(Piece)
    BY <2>1, <2>2, ConcatProperties, Zenon
  <2> QED
    BY <1>1, <2>1, <2>3, Zenon
<1>3. UartTypes'
  <2>1. WellRead(reads') /\ Len(reads') \in 1..2
    BY <1>1, AtMostTwo, ReadCharSound, Zenon
  <2> QED
    BY <1>1, <1>2, <2>1 DEF Sound, UartTypes
<1>4. ParserTypes' /\ ResultTypes' /\ Located'
  BY <1>1 DEF Sound, ParserTypes, ResultTypes, Located, parser, res
<1>5. MainTypes'
  <2>1. UNCHANGED <<pc, cmd, stage, i, len, ret, nwrites, todo, link, sent>>
    BY <1>1 DEF module, main
  <2> QED
    BY <1>1, <2>1 DEF Sound, MainTypes
<1>6. Fresh'
  <2>1. nevents' # 0
    BY <1>1 DEF Sound, MainTypes
  <2>2. UNCHANGED <<pc, cmd, todo, nwrites, ipd_idx, async_idx, current_conn, conn,
                    callback_operation>>
    BY <1>1 DEF module, main, parser
  <2>3. ASSUME pc = "ready"
        PROVE  line' \in Seq({<<"ready">>, <<"noise">>})
    <3>1. line \in Seq({<<"ready">>, <<"noise">>})
      BY <2>3 DEF Sound, Fresh
    <3>2. Tail(line) \in Seq({<<"ready">>, <<"noise">>})
      BY <1>1, <3>1, Shorter
    <3>3. <<<<"noise">>>> \in Seq({<<"ready">>, <<"noise">>})
      OBVIOUS
    <3>4. <<<<"noise">>>> \o Tail(line) \in Seq({<<"ready">>, <<"noise">>})
      BY <3>2, <3>3, ConcatProperties, Zenon
    <3> QED
      BY <1>1, <3>2, <3>4, Zenon
  <2> QED
    BY <2>1, <2>2, <2>3 DEF Sound, Fresh, Idling
<1> QED
  BY <1>3, <1>4, <1>5, <1>6 DEF Sound

\* What the module sends keeps Sound, when the parser has nothing to do with it.
LEMMA LineSound ==
    ASSUME Sound, UNCHANGED <<parser, res, cb, reads, main, recv>>,
           line' \in Seq(Piece), nevents' \in Nat, todo' \in Seq(Written),
           link' \subseteq Conns, sent' \in [Conns -> Nat], Fresh'
    PROVE  Sound'
<1>1. UNCHANGED <<pc, cmd, stage, i, len, ret, nwrites, ipd_idx, async_idx, current_conn, conn,
                  callback_operation, result, lack, cb, reads, recv>>
  BY DEF main, parser, res
<1>2. ParserTypes' /\ ResultTypes' /\ Located'
  BY <1>1 DEF Sound, ParserTypes, ResultTypes, Located
<1>3. MainTypes' /\ UartTypes'
  BY <1>1 DEF Sound, MainTypes, UartTypes
<1> QED
  BY <1>2, <1>3 DEF Sound

\* The answers of the module are pieces, and so is what it sends unasked.
LEMMA ReplyPieces ==
    ASSUME NEW n \in Nat, NEW what, NEW reply \in Reply(n, what)
    PROVE  /\ reply \in Seq(Piece) /\ Len(reply) \in 1..2
           /\ what = "reset" => reply = <<<<"ready">>>>
<1>1. \/ reply \in {<<<<"ok", n>>, <<"prompt">>>>, <<<<"fail", n>>>>} /\ what = "send"
      \/ reply \in {<<<<"ok", n>>, <<"lost">>>>, <<<<"ok", n>>>>} /\ what = "disc"
      \/ reply \in {<<<<"ready">>>>} /\ what = "reset"
      \/ reply \in {<<<<"text">>, <<"ok", n>>>>} /\ what = "echo"
      \/ reply \in {<<<<"ok", n>>>>, <<<<"fail", n>>>>} /\ what # "reset"
  BY DEF Reply
<1>2. /\ <<"ok", n>> \in Piece /\ <<"fail", n>> \in Piece /\ <<"prompt">> \in Piece
      /\ <<"lost">> \in Piece /\ <<"ready">> \in Piece /\ <<"text">> \in Piece
  BY DEF Piece
<1>3. \A p \in Piece : <<p>> \in Seq(Piece) /\ Len(<<p>>) = 1
  OBVIOUS
<1>4. \A p, q \in Piece : <<p, q>> \in Seq(Piece) /\ Len(<<p, q>>) = 2
  OBVIOUS
<1>5. reply \in Seq(Piece) /\ Len(reply) \in 1..2
  <2>1. reply \in Seq(Piece) /\ (Len(reply) = 1 \/ Len(reply) = 2)
    BY <1>1, <1>2, <1>3, <1>4, Zenon
  <2> QED
    BY <2>1
<1>6. what = "reset" => reply = <<<<"ready">>>>
  BY <1>1
<1> QED
  BY <1>5, <1>6

LEMMA AnswerSound ==
    ASSUME Sound, Answer
    PROVE  Sound'
<1>1. PICK reply \in Reply(Head(todo).n, Head(todo).what) : line' = reply
  BY DEF Answer
<1>2. /\ todo # <<>> /\ line = <<>> /\ todo' = Tail(todo) /\ todo \in Seq(Written)
      /\ link' \subseteq Conns /\ sent' \in [Conns -> Nat] /\ nevents' \in Nat
      /\ UNCHANGED <<parser, res, cb, reads, main, recv, nevents>>
  BY DEF Answer, Sound, MainTypes, history
<1>3. /\ Head(todo) \in Written /\ Head(todo) = todo[1] /\ Tail(todo) \in Seq(Written)
      /\ Len(Tail(todo)) = Len(todo) - 1 /\ Len(todo) \in Nat
  BY <1>2, Shorter
<1>4. Head(todo).n \in Nat
  BY <1>3 DEF Written
<1>5. line' \in Seq(Piece) /\ (Head(todo).what = "reset" => line' = <<<<"ready">>>>)
  BY <1>1, <1>4, ReplyPieces
<1>6. Fresh'
  <2>1. UNCHANGED <<pc, cmd, nwrites, nevents, ipd_idx, async_idx, current_conn, conn,
                    callback_operation, result, lack>>
    BY <1>2 DEF main, parser, res
  <2>2. ~(nwrites = 0 /\ nevents = 0)
    BY <1>2 DEF Sound, Fresh
  <2>3. ASSUME pc = "ready"
        PROVE  /\ line' \in Seq({<<"ready">>, <<"noise">>})
               /\ Len(todo') <= 1 /\ \A k \in DOMAIN todo' : todo'[k].what = "reset"
    <3>1. Len(todo) <= 1 /\ \A k \in DOMAIN todo : todo[k].what = "reset"
      BY <2>3 DEF Sound, Fresh
    <3>2. Len(todo) = 1 /\ todo[1].what = "reset"
      BY <1>2, <1>3, <3>1
    <3>3. line' = <<<<"ready">>>> /\ Len(todo') = 0
      BY <1>2, <1>3, <1>5, <3>2
    <3>4. todo' = <<>>
      BY <1>2, <1>3, <3>3
    <3> QED
      BY <3>3, <3>4
  <2> QED
    BY <2>1, <2>2, <2>3 DEF Sound, Fresh, Idling
<1> QED
  BY <1>2, <1>3, <1>5, <1>6, LineSound

\* A message that the module sends unasked.
LEMMA UnaskedSound ==
    ASSUME Sound, NEW msg \in Seq(Piece), Unasked(msg),
           link' \subseteq Conns, sent' \in [Conns -> Nat]
    PROVE  Sound'
<1>1. /\ nevents' = nevents + 1 /\ line' = msg /\ todo' = todo
      /\ UNCHANGED <<parser, res, cb, reads, main, recv>>
  BY DEF Unasked, history
<1>2. nevents' \in Nat /\ nevents' # 0 /\ todo' \in Seq(Written)
  BY <1>1 DEF Sound, MainTypes
<1>3. pc' = pc /\ pc # "ready" /\ nwrites' = nwrites /\ (nwrites = 0 => pc = "idle")
  BY <1>1 DEF Unasked, Running, Sound, Fresh, main
<1>4. Fresh'
  BY <1>2, <1>3 DEF Fresh
<1> QED
  BY <1>1, <1>2, <1>4, LineSound

LEMMA PeerSendsSound ==
    ASSUME Sound, NEW c \in Conns, NEW n \in Lengths, PeerSends(c, n)
    PROVE  Sound'
<1> DEFINE head == <<<<"ipd">>, <<"conn", c>>, <<"len", n>>>>
           bytes == [k \in 1..n |-> <<"byte", c, sent[c] + k>>]
<1>1. n \in Nat /\ sent[c] \in Nat /\ sent \in [Conns -> Nat] /\ link \subseteq Conns
  BY AtAssumption DEF Sound, MainTypes
<1>2. head \in Seq(Piece)
  BY DEF Piece
<1>3. bytes \in Seq(Piece)
  <2>1. \A k \in 1..n : <<"byte", c, sent[c] + k>> \in Piece
    BY <1>1 DEF Piece
  <2>2. bytes \in [1..n -> Piece]
    BY <2>1
  <2> QED
    BY <1>1, <2>2
<1>4. /\ Unasked(head \o bytes)
      /\ sent' = [sent EXCEPT ![c] = @ + n] /\ link' = link \cup {c}
  BY DEF PeerSends
<1>5. head \o bytes \in Seq(Piece)
  BY <1>2, <1>3, ConcatProperties, Zenon
<1>6. sent' \in [Conns -> Nat] /\ link' \subseteq Conns
  BY <1>1, <1>4
<1> QED
  BY <1>4, <1>5, <1>6, UnaskedSound

LEMMA PeerClosesSound ==
    ASSUME Sound, NEW c \in Conns, PeerCloses(c)
    PROVE  Sound'
<1>1. <<<<"id", c>>, <<"clo">>, <<"sed">>>> \in Seq(Piece)
  BY DEF Piece
<1>2. link' \subseteq Conns /\ sent' \in [Conns -> Nat]
  BY DEF Sound, MainTypes, PeerCloses
<1>3. Unasked(<<<<"id", c>>, <<"clo">>, <<"sed">>>>)
  BY DEF PeerCloses
<1> QED
  BY <1>1, <1>2, <1>3, UnaskedSound

LEMMA NetworkChangesSound ==
    ASSUME Sound, NetworkChanges
    PROVE  Sound'
<1>1. PICK msg \in {"gotip", "lost"} : Unasked(<<<<msg>>>>)
  BY DEF NetworkChanges
<1>2. <<<<msg>>>> \in Seq(Piece)
  BY DEF Piece
<1>3. link' \subseteq Conns /\ sent' \in [Conns -> Nat]
  BY DEF Sound, MainTypes, NetworkChanges
<1> QED
  BY <1>1, <1>2, <1>3, UnaskedSound

-----------------------------------------------------------------------------
(* at_run_cmd keeps Sound.                                                 *)

\* uart_write.
LEMMA WriteSound ==
    ASSUME MainTypes, NEW what \in {"exec", "send", "disc", "reset", "echo", "data"}, Write(what)
    PROVE  /\ nwrites' \in Nat /\ nwrites' # 0 /\ nwrites' = nwrites + 1
           /\ todo' \in Seq(Written) /\ Len(todo') = Len(todo) + 1
           /\ \A k \in 1..Len(todo) : todo'[k] = todo[k]
           /\ todo'[Len(todo) + 1] = [n |-> nwrites', what |-> what]
<1>1. nwrites \in Nat /\ todo \in Seq(Written) /\ nwrites' = nwrites + 1
  BY DEF MainTypes, Write
<1>2. nwrites' \in Nat /\ nwrites' # 0
  BY <1>1
<1>3. PICK w : w = [n |-> nwrites', what |-> what]
  OBVIOUS
<1>4. w \in Written /\ todo' = Append(todo, w)
  BY <1>1, <1>2, <1>3 DEF Written, Write
<1> QED
  BY <1>1, <1>2, <1>3, <1>4, Longer

\* A step of the application leaves the interrupt's own state alone.
LEMMA ApplicationSound ==
    ASSUME Sound, Keep, MainTypes', ResultTypes', nwrites' # 0,
           \/ callback_operation' = callback_operation
           \/ callback_operation' \in {"RESETTING_MODULE", "WAITING_SEND"}
           \/ callback_operation' = "READING_PAYLOAD" /\ pc = "ready",
           pc' # "ready" \/ (nwrites = 0 /\ nevents = 0 /\ cmd' = "reset" /\ Len(todo') <= 1
                             /\ (\A k \in DOMAIN todo' : todo'[k].what = "reset")
                             /\ callback_operation' = "RESETTING_MODULE")
    PROVE  Sound'
<1>1. UNCHANGED <<conn, current_conn, ipd_idx, async_idx, cb, reads, line, nevents, recv>>
  BY DEF Keep, uart
<1>2. UartTypes'
  BY <1>1 DEF Sound, UartTypes
<1>3. ParserTypes'
  BY <1>1 DEF Sound, ParserTypes
<1>4. pc = "ready" => current_conn \in Conns /\ ipd_idx = 0
  BY AtAssumption DEF Sound, Fresh, Idling, Conns
<1>5. Located'
  BY <1>1, <1>4 DEF Sound, Located
<1>6. Fresh'
  <2>1. CASE pc' # "ready"
    BY <2>1 DEF Fresh
  <2>2. CASE pc' = "ready"
    <3>1. Idling /\ line = <<>>
      BY <2>2 DEF Sound, Fresh
    <3>2. <<>> \in Seq({<<"ready">>, <<"noise">>})
      OBVIOUS
    <3>3. Idling'
      BY <1>1, <3>1 DEF Idling
    <3>4. line' \in Seq({<<"ready">>, <<"noise">>})
      BY <1>1, <3>1, <3>2
    <3> QED
      BY <2>2, <3>3, <3>4 DEF Fresh
  <2> QED
    BY <2>1, <2>2
<1> QED
  BY <1>2, <1>3, <1>5, <1>6 DEF Sound

\* A command under way has been written.
LEMMA UnderWay ==
    ASSUME Sound, pc # "idle"
    PROVE  nwrites \in Nat /\ nwrites # 0
BY DEF Sound, Fresh, MainTypes

LEMMA RunCmdSound ==
    ASSUME Sound, NEW op \in Cmds, RunCmd(op)
    PROVE  Sound'
<1>1. /\ op \in {"exec", "send", "disc", "reset"} /\ MainTypes /\ ResultTypes
      /\ Write(op) /\ cmd' = op /\ Keep /\ UNCHANGED <<res, len, ret>>
  BY AtAssumption DEF Sound, RunCmd
<1>2. /\ nwrites' \in Nat /\ nwrites' # 0
      /\ todo' \in Seq(Written) /\ Len(todo') = Len(todo) + 1
      /\ \A k \in 1..Len(todo) : todo'[k] = todo[k]
      /\ todo'[Len(todo) + 1] = [n |-> nwrites', what |-> op]
  BY <1>1, WriteSound
<1>3. pc' \in {"ready", "mode", "check", "wait"} /\ stage' \in {stage, "last"} /\ i' \in {i, 0}
  BY DEF RunCmd, StartWait
<1>4. MainTypes'
  <2>1. UNCHANGED <<link, sent, nevents, len, ret>>
    BY <1>1 DEF Keep
  <2> QED
    BY <1>1, <1>2, <1>3, <2>1 DEF MainTypes
<1>5. ResultTypes'
  BY <1>1 DEF ResultTypes, res
<1>6. CASE op = "reset"
  <2>1. nwrites = 0 /\ nevents = 0 /\ callback_operation' = "RESETTING_MODULE" /\ todo = <<>>
    BY <1>6 DEF RunCmd, SetOperation, Sound, Fresh
  <2>2. Len(todo') = 1 /\ todo'[1].what = "reset" /\ DOMAIN todo' = 1..1
    BY <1>2, <1>6, <2>1
  <2> QED
    BY <1>1, <1>2, <1>4, <1>5, <1>6, <2>1, <2>2, ApplicationSound
<1>7. CASE op # "reset"
  <2>1. callback_operation' = callback_operation /\ pc' # "ready"
    BY <1>7 DEF RunCmd, StartWait
  <2> QED
    BY <1>1, <1>2, <1>4, <1>5, <2>1, ApplicationSound
<1> QED
  BY <1>6, <1>7

LEMMA ExpectPromptSound ==
    ASSUME Sound, ExpectPrompt
    PROVE  Sound'
<1>1. /\ pc = "mode" /\ pc' = "wait" /\ stage' = "prompt" /\ i' = 0 /\ Keep
      /\ callback_operation' = "WAITING_SEND"
      /\ UNCHANGED <<result, lack, todo, cmd, len, ret, nwrites>>
  BY DEF ExpectPrompt, SetOperation, StartWait, res
<1>2. MainTypes' /\ ResultTypes'
  BY <1>1 DEF Sound, MainTypes, ResultTypes, Keep
<1> QED
  BY <1>1, <1>2, UnderWay, ApplicationSound

LEMMA CheckNetworkSound ==
    ASSUME Sound, CheckNetwork
    PROVE  Sound'
<1>1. /\ pc = "check" /\ pc' \in {"disc", "wait"} /\ stage' \in {stage, "last"} /\ i' \in {i, 0}
      /\ Keep /\ UNCHANGED <<callback_operation, result, lack, todo, cmd, len, ret, nwrites>>
  BY DEF CheckNetwork, StartWait, KeepParser, res
<1>2. MainTypes' /\ ResultTypes'
  BY <1>1 DEF Sound, MainTypes, ResultTypes, Keep
<1> QED
  BY <1>1, <1>2, UnderWay, ApplicationSound

LEMMA PollSound ==
    ASSUME Sound, Poll
    PROVE  Sound'
<1>1. /\ pc = "wait" /\ i' = i + 1 /\ Keep /\ callback_operation' = callback_operation
      /\ UNCHANGED <<result, lack, todo, cmd, stage, nwrites>>
      /\ \/ pc' = "trim" /\ len' = Len(result) /\ ret' \in {"SUCCESS", "FAILURE"}
         \/ UNCHANGED <<pc, len, ret>>
  BY DEF Poll, KeepParser, res
<1>2. Len(result) \in 0..RESULT_BUFF_LEN
  BY AtAssumption DEF Sound, ResultTypes
<1>3. MainTypes' /\ ResultTypes'
  BY <1>1, <1>2 DEF Sound, MainTypes, ResultTypes, Keep
<1> QED
  BY <1>1, <1>3, UnderWay, ApplicationSound

LEMMA TimedOutSound ==
    ASSUME Sound, TimedOut
    PROVE  Sound'
<1>1. /\ pc = "wait" /\ pc' = "idle" /\ stage' = "last" /\ i' = 0 /\ len' = 0 /\ Keep
      /\ ret' \in {"SUCCESS", "FAILURE"} /\ callback_operation' = callback_operation
      /\ UNCHANGED <<result, lack, todo, cmd, nwrites>>
  BY DEF TimedOut, Return, Leave, KeepParser, res
<1>2. MainTypes' /\ ResultTypes'
  BY <1>1, AtAssumption DEF Sound, MainTypes, ResultTypes, Keep
<1> QED
  BY <1>1, <1>2, UnderWay, ApplicationSound

LEMMA TrimSound ==
    ASSUME Sound, Trim
    PROVE  Sound'
<1>1. pc = "trim" /\ Keep /\ UNCHANGED <<callback_operation, cmd>>
  BY DEF Trim, KeepParser
<1>2. /\ len \in 0..RESULT_BUFF_LEN /\ RESULT_BUFF_LEN \in Nat /\ MainTypes /\ ResultTypes
      /\ nwrites \in Nat /\ nwrites # 0
  BY <1>1, AtAssumption, UnderWay DEF Sound, MainTypes
<1>3. ResultTypes'
  <2>1. Resize(len - 1) \/ Resize(0)
    BY DEF Trim, AfterWait, Trimmed
  <2>2. len - 1 \in Int /\ len - 1 <= RESULT_BUFF_LEN /\ 0 \in Int /\ 0 <= RESULT_BUFF_LEN
    BY <1>2
  <2> QED
    BY <1>2, <2>1, <2>2, ResizeSound, Zenon
<1>4. /\ todo' \in Seq(Written) /\ nwrites' \in Nat /\ nwrites' # 0
      /\ pc' \in {"idle", "prompt", "finish", "check"} /\ stage' \in {stage, "last"}
      /\ i' \in {i, 0} /\ len' \in {len, 0} /\ ret' \in {ret, "SUCCESS"}
  <2>1. CASE UNCHANGED <<todo, nwrites>>
    <3>1. todo' \in Seq(Written) /\ nwrites' \in Nat /\ nwrites' # 0
      BY <1>2, <2>1 DEF MainTypes
    <3> QED
      BY <3>1, Zenon DEF Trim, AfterWait, Return, Leave
  <2>2. CASE Write("disc")
    <3>1. todo' \in Seq(Written) /\ nwrites' \in Nat /\ nwrites' # 0
      BY <1>2, <2>2, WriteSound
    <3> QED
      BY <3>1, Zenon DEF Trim, AfterWait, Return, Leave
  <2> QED
    BY <2>1, <2>2 DEF Trim, AfterWait
<1>5. MainTypes'
  BY <1>1, <1>2, <1>4 DEF MainTypes, Keep
<1> QED
  BY <1>1, <1>3, <1>4, <1>5, ApplicationSound

LEMMA PromptSound ==
    ASSUME Sound, Prompt
    PROVE  Sound'
<1>1. pc = "prompt" /\ Keep /\ UNCHANGED <<callback_operation, cmd, result, lack>>
  BY DEF Prompt, KeepParser, res
<1>2. RESULT_BUFF_LEN \in Nat /\ MainTypes /\ ResultTypes /\ nwrites \in Nat /\ nwrites # 0
  BY <1>1, AtAssumption, UnderWay DEF Sound
<1>3. CASE Return("FAILURE") /\ UNCHANGED <<todo, nwrites>>
  <2>1. MainTypes' /\ ResultTypes'
    BY <1>1, <1>2, <1>3 DEF MainTypes, ResultTypes, Keep, Return, Leave
  <2>2. pc' = "idle" /\ nwrites' # 0
    BY <1>2, <1>3 DEF Return, Leave
  <2> QED
    BY <1>1, <2>1, <2>2, ApplicationSound
<1>4. CASE Write("data") /\ StartWait("last") /\ UNCHANGED <<len, seen, ret>>
  <2>1. todo' \in Seq(Written) /\ nwrites' \in Nat /\ nwrites' # 0
    BY <1>2, <1>4, WriteSound
  <2>2. MainTypes' /\ ResultTypes'
    BY <1>1, <1>2, <1>4, <2>1 DEF MainTypes, ResultTypes, Keep, StartWait
  <2>3. pc' = "wait"
    BY <1>4 DEF StartWait
  <2> QED
    BY <1>1, <2>1, <2>2, <2>3, ApplicationSound
<1> QED
  BY <1>3, <1>4 DEF Prompt

LEMMA DisconnectSound ==
    ASSUME Sound, Disconnect
    PROVE  Sound'
<1>1. /\ pc = "disc" /\ pc' \in {"finish", "idle"} /\ ret' \in {"SUCCESS", "FAILURE"} /\ Keep
      /\ stage' \in {stage, "last"} /\ i' \in {i, 0} /\ len' \in {len, 0}
      /\ UNCHANGED <<callback_operation, result, lack, todo, cmd, nwrites>>
  BY DEF Disconnect, KeepParser, res, Return, Leave
<1>2. MainTypes' /\ ResultTypes'
  BY <1>1, AtAssumption DEF Sound, MainTypes, ResultTypes, Keep
<1> QED
  BY <1>1, <1>2, UnderWay, ApplicationSound

LEMMA ReadySound ==
    ASSUME Sound, Ready
    PROVE  Sound'
<1>1. pc = "ready" /\ Keep /\ UNCHANGED cmd
  BY DEF Ready
<1>2. MainTypes /\ ResultTypes /\ 0 \in Int /\ 0 <= RESULT_BUFF_LEN
  BY AtAssumption DEF Sound
<1>3. CASE /\ callback_operation' = "READING_PAYLOAD" /\ Resize(0) /\ Write("echo")
           /\ StartWait("echo") /\ UNCHANGED <<len, ret>>
  <2>1. pc' = "wait" /\ stage' = "echo" /\ i' = 0
    BY <1>3 DEF StartWait
  <2>2. ResultTypes'
    BY <1>2, <1>3, ResizeSound, Zenon
  <2>3. todo' \in Seq(Written) /\ nwrites' \in Nat /\ nwrites' # 0
    BY <1>2, <1>3, WriteSound
  <2>4. MainTypes'
    BY <1>1, <1>2, <1>3, <2>1, <2>3 DEF MainTypes, Keep
  <2> QED
    BY <1>1, <1>3, <2>1, <2>2, <2>3, <2>4, ApplicationSound
<1>4. CASE Leave("FAILURE") /\ UNCHANGED <<callback_operation, res, todo, nwrites>>
  <2>1. /\ pc' = "idle" /\ stage' = "last" /\ i' = 0 /\ len' = 0 /\ ret' = "FAILURE"
        /\ UNCHANGED <<callback_operation, result, lack, todo, nwrites>>
    BY <1>4 DEF Leave, res
  <2>2. MainTypes' /\ ResultTypes'
    BY <1>1, <1>2, <2>1 DEF MainTypes, ResultTypes, Keep
  <2> QED
    BY <1>1, <2>1, <2>2, UnderWay, ApplicationSound
<1> QED
  BY <1>3, <1>4 DEF Ready

LEMMA FinishSound ==
    ASSUME Sound, Finish
    PROVE  Sound'
<1>1. /\ pc = "finish" /\ Resize(0) /\ pc' = "errors" /\ Keep
      /\ UNCHANGED <<callback_operation, todo, cmd, stage, i, len, ret, nwrites>>
  BY DEF Finish, KeepParser
<1>2. MainTypes /\ ResultTypes /\ 0 \in Int /\ 0 <= RESULT_BUFF_LEN
  BY AtAssumption DEF Sound
<1>3. ResultTypes'
  BY <1>1, <1>2, ResizeSound, Zenon
<1>4. MainTypes'
  BY <1>1, <1>2 DEF MainTypes, Keep
<1> QED
  BY <1>1, <1>3, <1>4, UnderWay, ApplicationSound

LEMMA ReportErrorsSound ==
    ASSUME Sound, ReportErrors
    PROVE  Sound'
<1>1. /\ pc = "errors" /\ pc' = "idle" /\ stage' = "last" /\ i' = 0 /\ len' = 0 /\ Keep
      /\ ret' \in {ret, "SUCCESS", "ERRORS"}
      /\ UNCHANGED <<callback_operation, result, lack, todo, cmd, nwrites>>
  BY Zenon DEF ReportErrors, Return, Leave, KeepParser, res
<1>2. MainTypes' /\ ResultTypes'
  BY <1>1, AtAssumption DEF Sound, MainTypes, ResultTypes, Keep
<1> QED
  BY <1>1, <1>2, UnderWay, ApplicationSound

-----------------------------------------------------------------------------
(* Sound is an invariant.                                                  *)

LEMMA InitSound ==
    ASSUME Init
    PROVE  Sound
<1>1. /\ MAX_CONNECTIONS \in Nat \ {0} /\ RESULT_BUFF_LEN \in Nat /\ CbSize \in Nat \ {0}
      /\ 0 \in Conns
  BY AtAssumption DEF Conns
<1>2. reads = <<[dest |-> READ_CH, n |-> 1]>>
  BY DEF Init, ReadChar, Submit
<1>3. WellRead(reads) /\ Len(reads) \in 1..2
  BY <1>2 DEF WellRead, Read
<1>4. ParserTypes
  BY <1>1 DEF Init, ParserTypes, Connection, NoConn
<1>5. ResultTypes
  BY <1>1 DEF Init, ResultTypes
<1>6. UartTypes
  BY <1>1, <1>3 DEF Init, UartTypes, Buffer
<1>7. MainTypes
  BY <1>1 DEF Init, MainTypes
<1>8. Located /\ Fresh
  BY <1>1 DEF Init, Located, Fresh, Idling, NoConns
<1> QED
  BY <1>4, <1>5, <1>6, <1>7, <1>8 DEF Sound

\* A step in which nothing changes.
LEMMA StutterSound ==
    ASSUME Sound, UNCHANGED vars
    PROVE  Sound'
<1>1. UNCHANGED <<parser, res, cb, reads, line, main, nevents, recv, todo, link, sent>>
  BY DEF vars, uart, module, history
<1>2. Fresh'
  BY <1>1 DEF Sound, Fresh, Idling, parser, res, main
<1>3. /\ line' \in Seq(Piece) /\ nevents' \in Nat /\ todo' \in Seq(Written)
      /\ link' \subseteq Conns /\ sent' \in [Conns -> Nat]
  BY <1>1 DEF Sound, UartTypes, MainTypes
<1> QED
  BY <1>1, <1>2, <1>3, LineSound

\* Whatever the module sends, whatever is lost on the line and whenever the interrupt
\* comes: at_callback leaves a read with the UART and its indices in their arrays.
THEOREM AtSoundInvariance == Spec => []Sound
<1>1. Init => Sound
  BY InitSound
<1>2. Sound /\ [Next]_vars => Sound'
  <2> SUFFICES ASSUME Sound, [Next]_vars PROVE Sound'
    OBVIOUS
  <2>1. ASSUME NEW op \in Cmds, RunCmd(op) PROVE Sound'
    BY <2>1, RunCmdSound
  <2>2. CASE Application
    BY <2>2, ExpectPromptSound, CheckNetworkSound, PollSound, TimedOutSound, TrimSound, PromptSound,
       DisconnectSound, ReadySound, FinishSound, ReportErrorsSound DEF Application
  <2>3. CASE ReadDone \/ UartError
    BY <2>3, ReadDoneSound, UartErrorSound
  <2>4. CASE Answer \/ NetworkChanges
    BY <2>4, AnswerSound, NetworkChangesSound
  <2>5. ASSUME NEW c \in Conns, PeerCloses(c) \/ \E n \in Lengths : PeerSends(c, n)
        PROVE  Sound'
    BY <2>5, PeerClosesSound, PeerSendsSound
  <2>6. CASE UNCHANGED vars
    BY <2>6, StutterSound
  <2> QED
    BY <2>1, <2>2, <2>3, <2>4, <2>5, <2>6 DEF Next
<1> QED
  BY <1>1, <1>2, PTL DEF Spec

\* What at_callback stores stays in the result and in the circular buffers.
THEOREM AtTypes == Spec => []TypeOK
<1>1. Sound => TypeOK
  <2>1. Sound => \A c \in Conns : cb[c].idx \in 0..CbSize-1
    BY DEF Sound, UartTypes, Buffer
  <2>2. Sound => /\ callback_operation \in {"READING_RESPONSES", "READING_PAYLOAD",
                                            "RESETTING_MODULE", "WAITING_SEND"}
                 /\ conn \in [Conns -> [cbuff : BOOLEAN, to_read : Nat, active : BOOLEAN]]
                 /\ ipd_idx \in 0..2 /\ async_idx \in 0..1
    BY DEF Sound, ParserTypes, Connection
  <2>3. Sound => Len(result) <= RESULT_BUFF_LEN /\ lack \in Nat
    BY DEF Sound, ResultTypes
  <2> QED
    BY <2>1, <2>2, <2>3 DEF TypeOK
<1> QED
  BY <1>1, AtSoundInvariance, PTL

\* The parser never stops listening, and it knows the connection of a payload.
THEOREM AtListens == Spec => []Listening
<1>1. Sound => Listening
  BY DEF Sound, UartTypes, WellRead, Located, Listening
<1> QED
  BY <1>1, AtSoundInvariance, PTL

-----------------------------------------------------------------------------
(* Framed is an invariant.                                                 *)

\* Nothing is ever taken off the history of what went wrong.
LEMMA BrokenGrows ==
    ASSUME broken \subseteq broken'
    PROVE  /\ Uncut' => Uncut
           /\ Untold' => Untold
           /\ Clean' => Clean
BY DEF Uncut, Untold, Clean

\* A step that leaves the result alone, and the progress in it.
LEMMA SameFrame ==
    ASSUME Framed, broken \subseteq broken',
           UNCHANGED <<result, lack, async_idx>>, ipd_idx' \in {ipd_idx, 0}, ipd_idx \in 0..2,
           result \in Seq(KeptPiece), i \in Nat, i' \in Nat,
           Found' \/ UNCHANGED <<pc, i, len>>,
           pc' = "wait" => i' = 0 \/ UNCHANGED <<pc, i>>
    PROVE  Framed'
<1> SUFFICES ASSUME Uncut' PROVE (Tails /\ Found /\ Unseen)'
  BY DEF Framed
<1>1. Tails /\ Found /\ Unseen
  BY BrokenGrows DEF Framed
<1>2. Len(result) \in Nat
  OBVIOUS
<1>3. Tails'
  <2>1. CASE ipd_idx' = ipd_idx
    BY <1>1, <2>1 DEF Tails
  <2>2. CASE ipd_idx' = 0
    BY <1>1, <1>2, <2>2 DEF Tails
  <2> QED
    BY <2>1, <2>2
<1>4. Found'
  BY <1>1 DEF Found
<1>5. Unseen'
  BY <1>1, <1>2 DEF Unseen
<1> QED
  BY <1>3, <1>4, <1>5

\* The header of a payload is taken off the result.
LEMMA PayloadBeginsFramed ==
    ASSUME Sound, Framed, NEW ch, NEW store, NEW queue, PayloadBegins(ch, store, queue),
           UNCHANGED <<pc, i, len>>
    PROVE  Framed'
<1>1. /\ ipd_idx = 2 /\ ipd_idx' = 0 /\ async_idx' = async_idx
      /\ Shorten(2)
      /\ broken' = IF pc = "wait" /\ i > Len(result') THEN broken \cup {"shrunk"} ELSE broken
  BY DEF PayloadBegins, HeaderDone, HeaderSize, Shorten
<1> SUFFICES ASSUME Uncut' PROVE (Tails /\ Found /\ Unseen)'
  BY DEF Framed
<1>2. Tails /\ Found /\ Unseen
  <2>1. broken \subseteq broken'
    BY <1>1
  <2> QED
    BY <2>1, BrokenGrows DEF Framed
<1>3. result \in Seq(KeptPiece) /\ Len(result) \in Nat /\ ResultTypes /\ i \in Nat
  BY DEF Sound, ResultTypes, MainTypes
<1>4. /\ Len(result) >= 2 /\ lack = 0 /\ async_idx # 1
      /\ result[Len(result)] = <<"text">> /\ result[Len(result) - 1] = <<"text">>
  BY <1>1, <1>2, <1>3 DEF Tails
<1>5. /\ Len(result') = Len(result) - 2 /\ lack' = 0
      /\ \A k \in 1..Len(result') : result'[k] = result[k]
  <2>1. /\ Len(result') = IF 2 > Len(result) THEN 0 ELSE Len(result) - 2
        /\ \A k \in 1..Len(result') : result'[k] = result[k]
        /\ 2 <= Len(result) => lack' = lack
    BY <1>1, <1>3, ShortenSound
  <2> QED
    BY <1>3, <1>4, <2>1
<1>6. Tails'
  BY <1>1, <1>3, <1>4, <1>5 DEF Tails
<1>7. Found'
  <2>1. ~IsResponse(<<"text">>)
    BY DEF IsResponse
  <2>2. pc = "trim" => i \in 1..Len(result) - 2
    BY <1>2, <1>3, <1>4, <2>1 DEF Found
  <2> QED
    BY <1>2, <1>3, <1>5, <2>2 DEF Found
<1>8. Unseen'
  BY <1>1, <1>2, <1>3, <1>5, SMTT(30) DEF Unseen
<1> QED
  BY <1>6, <1>7, <1>8

\* "CLOSED" and the number before it are taken off the result.
LEMMA ClosedMessageFramed ==
    ASSUME Sound, Framed, async_idx = 1, ~Full, ClosedMessage, ipd_idx' = 0,
           UNCHANGED <<pc, i, len>>
    PROVE  Framed'
<1>1. result \in Seq(KeptPiece) /\ Len(result) \in Nat /\ ResultTypes /\ ParserTypes /\ i \in Nat
  BY DEF Sound, ResultTypes, MainTypes
<1>2. broken \subseteq broken' /\ async_idx' = 0
  BY DEF ClosedMessage, Shorten
<1> SUFFICES ASSUME Uncut' PROVE (Tails /\ Found /\ Unseen)'
  BY DEF Framed
<1>3. Tails /\ Found /\ Unseen
  BY <1>2, BrokenGrows DEF Framed
<1>4. Len(result) >= 1 /\ lack = 0 /\ result[Len(result)] = <<"text">>
  BY <1>1, <1>3 DEF Tails
<1>5. ~IsResponse(<<"text">>)
  BY DEF IsResponse
<1>6. CASE ClosedId >= 0
  <2>1. /\ ClosedId \in Conns /\ Len(result) >= 2
        /\ result[Len(result) - 1] = <<"id", ClosedId>>
    BY <1>1, <1>6, ClosedIdConn
  <2>2. /\ Len(result') = Len(result) - 1
        /\ \A k \in 1..Len(result) - 2 : result'[k] = result[k]
    BY <1>1, <1>6, ClosedMessageSound
  <2>3. /\ lack' = lack
        /\ broken' = IF pc = "wait" /\ i > Len(result') - 1
                     THEN broken \cup {"shrunk"} ELSE broken
    <3>1. ~(ClosedId < 0)
      BY <1>6, <2>1 DEF Conns
    <3> QED
      BY <3>1 DEF ClosedMessage
  <2>4. Tails'
    BY <1>1, <1>2, <1>4, <2>1, <2>2, <2>3 DEF Tails
  <2>5. ~IsResponse(result[Len(result) - 1])
    BY <2>1 DEF IsResponse
  <2>6. pc = "trim" => i \in 1..Len(result) - 2
    BY <1>1, <1>3, <1>4, <1>5, <2>5 DEF Found
  <2>7. Found'
    BY <1>1, <1>3, <2>2, <2>6 DEF Found
  <2>8. Unseen'
    BY <1>1, <1>3, <2>2, <2>3 DEF Unseen
  <2> QED
    BY <2>4, <2>7, <2>8
<1>7. CASE ~(ClosedId >= 0)
  <2>1. Shorten(1)
    BY <1>7 DEF ClosedMessage
  <2>2. /\ Len(result') = IF 1 > Len(result) THEN 0 ELSE Len(result) - 1
        /\ \A k \in 1..Len(result') : result'[k] = result[k]
        /\ 1 <= Len(result) => lack' = lack
    BY <1>1, <2>1, ShortenSound
  <2>3. Len(result') = Len(result) - 1 /\ lack' = 0
    BY <1>1, <1>4, <2>2
  <2>4. broken' = IF pc = "wait" /\ i > Len(result') THEN broken \cup {"shrunk"} ELSE broken
    BY <2>1 DEF Shorten
  <2>5. Tails'
    BY <1>1, <1>2, <1>4, <2>3 DEF Tails
  <2>6. pc = "trim" => i \in 1..Len(result) - 1
    BY <1>1, <1>3, <1>4, <1>5 DEF Found
  <2>7. Found'
    BY <1>1, <1>3, <2>2, <2>3, <2>6 DEF Found
  <2>8. Unseen'
    BY <1>1, <1>3, <2>2, <2>3, <2>4 DEF Unseen
  <2> QED
    BY <2>5, <2>7, <2>8
<1> QED
  BY <1>6, <1>7

\* A character is kept: one that may become part of a message is no response.
LEMMA OtherCharacterFramed ==
    ASSUME Sound, Framed, NEW ch \in Piece, ~Full, OtherCharacter(ch), ipd_idx' = HeaderIdx(ch),
           UNCHANGED <<pc, i, len>>
    PROVE  Framed'
<1>1. /\ result \in Seq(KeptPiece) /\ Len(result) \in Nat /\ ResultTypes /\ i \in Nat
      /\ ipd_idx \in 0..2
  BY DEF Sound, ResultTypes, MainTypes, ParserTypes
<1>2. /\ broken' = broken /\ lack' = lack
      /\ async_idx' = IF ch = <<"clo">> THEN 1 ELSE 0
  BY DEF OtherCharacter
<1> SUFFICES ASSUME Uncut' PROVE (Tails /\ Found /\ Unseen)'
  BY DEF Framed
<1>3. Tails /\ Found /\ Unseen
  BY <1>2, BrokenGrows DEF Framed
<1>4. /\ Len(result') = Len(result) + 1
      /\ \A k \in 1..Len(result) : result'[k] = result[k]
      /\ result'[Len(result) + 1] = Kept(ch)
  BY <1>1, OtherCharacterSound
<1>5. Tails'
  <2>1. CASE ipd_idx' = 2
    <3>1. ipd_idx = 1 /\ ch[1] = "conn"
      BY <1>1, <2>1, HeaderConn
    <3>2. Kept(ch) = <<"text">> /\ ch # <<"clo">>
      BY <3>1 DEF Kept
    <3>3. Len(result) >= 1 /\ result[Len(result)] = <<"text">> /\ lack = 0
      BY <1>1, <1>3, <3>1 DEF Tails
    <3> QED
      BY <1>1, <1>2, <1>4, <2>1, <3>2, <3>3 DEF Tails
  <2>2. CASE ipd_idx' = 1
    <3>1. ch = <<"ipd">>
      BY <2>2 DEF HeaderIdx
    <3>2. Kept(ch) = <<"text">> /\ ch # <<"clo">>
      BY <3>1 DEF Kept
    <3>3. lack = 0
      BY <1>3 DEF Tails
    <3> QED
      BY <1>1, <1>2, <1>4, <2>2, <3>2, <3>3 DEF Tails
  <2>3. CASE ipd_idx' = 0
    <3>1. ch = <<"clo">> => Kept(ch) = <<"text">>
      BY DEF Kept
    <3>2. lack = 0
      BY <1>3 DEF Tails
    <3>3. result' # <<>>
      BY <1>1, <1>4
    <3> QED
      BY <1>1, <1>2, <1>4, <2>3, <3>1, <3>2, <3>3 DEF Tails
  <2> QED
    BY <1>1, <2>1, <2>2, <2>3, HeaderConn
<1>6. Found'
  BY <1>1, <1>3, <1>4 DEF Found
<1>7. Unseen'
  BY <1>1, <1>2, <1>3, <1>4 DEF Unseen
<1> QED
  BY <1>5, <1>6, <1>7

LEMMA ReadDoneFramed ==
    ASSUME Sound, Framed, ReadDone
    PROVE  Framed'
<1>1. UartTypes
  BY DEF Sound
<1>2. PICK ch \in Piece, store \in [Conns -> Buffer], queue \in Seq(Read) :
              /\ Reading(ch, store, queue)
              /\ \/ Skip(ch, store, queue) \/ Character(ch, store, queue)
                 \/ PayloadPart(store, queue)
  BY <1>1, ReadDoneParts
<1>3. /\ UNCHANGED <<pc, i, len>> /\ ipd_idx \in 0..2
      /\ result \in Seq(KeptPiece) /\ i \in Nat
  BY <1>2 DEF Reading, main, Sound, ParserTypes, ResultTypes, MainTypes
<1>4. CASE Skip(ch, store, queue)
  <2>1. UNCHANGED <<result, lack, async_idx, ipd_idx, broken>>
    BY <1>4 DEF Skip, res
  <2> QED
    BY <1>3, <2>1, SameFrame
<1>5. CASE PayloadPart(store, queue)
  <2>1. UNCHANGED <<result, lack, async_idx, ipd_idx, broken>>
    BY <1>5 DEF PayloadPart, res
  <2> QED
    BY <1>3, <2>1, SameFrame
<1>6. CASE PayloadBegins(ch, store, queue)
  BY <1>3, <1>6, PayloadBeginsFramed
<1>7. CASE Character(ch, store, queue) /\ ~PayloadBegins(ch, store, queue)
  <2>1. ipd_idx' = HeaderIdx(ch)
    BY <1>7, CharacterCases
  <2>2. CASE ch = <<"prompt">> /\ UNCHANGED <<conn, current_conn, async_idx, res, errors, broken>>
    <3>1. ipd_idx' = 0
      BY <1>3, <2>1, <2>2 DEF HeaderIdx
    <3>2. UNCHANGED <<result, lack, async_idx, broken>>
      BY <2>2 DEF res
    <3> QED
      BY <1>3, <3>1, <3>2, SameFrame
  <2>3. CASE Full /\ Overflow(ch)
    BY <2>3 DEF Overflow, Framed, Uncut
  <2>4. CASE ~Full /\ async_idx = 1 /\ ch = <<"sed">> /\ ClosedMessage
    <3>1. ipd_idx' = 0
      BY <1>3, <2>1, <2>4 DEF HeaderIdx
    <3> QED
      BY <1>3, <2>4, <3>1, ClosedMessageFramed
  <2>5. CASE ~Full /\ OtherCharacter(ch)
    BY <1>3, <2>1, <2>5, OtherCharacterFramed
  <2> QED
    BY <1>7, <2>2, <2>3, <2>4, <2>5, CharacterCases
<1> QED
  BY <1>2, <1>4, <1>5, <1>6, <1>7

\* The application found a response at the end of the result, and takes it off.
LEMMA TrimFramed ==
    ASSUME Sound, Framed, Trim
    PROVE  Framed'
<1>1. /\ pc = "trim" /\ UNCHANGED <<ipd_idx, async_idx>>
      /\ broken' = IF len # Len(result) \/ i # len THEN broken \cup {"cut"} ELSE broken
  BY DEF Trim, KeepParser, Keep
<1>2. result \in Seq(KeptPiece) /\ Len(result) \in Nat /\ ResultTypes /\ i \in Nat
      /\ ipd_idx \in 0..2 /\ async_idx \in 0..1 /\ Len(result) <= RESULT_BUFF_LEN
      /\ RESULT_BUFF_LEN \in Nat
  BY AtAssumption DEF Sound, ResultTypes, MainTypes, ParserTypes
<1> SUFFICES ASSUME Uncut' PROVE (Tails /\ Found /\ Unseen)'
  BY DEF Framed
<1>3. Tails /\ Found /\ len = Len(result) /\ i = len
  BY <1>1, BrokenGrows DEF Framed, Uncut
<1>4. Len(result) >= 1 /\ IsResponse(result[Len(result)])
  BY <1>1, <1>2, <1>3 DEF Found
<1>5. result[Len(result)] # <<"text">>
  BY <1>4 DEF IsResponse
<1>6. ipd_idx = 0 /\ async_idx = 0
  BY <1>2, <1>3, <1>4, <1>5 DEF Tails
<1>7. /\ Resize(len - 1) \/ Resize(0)
      /\ pc' # "trim" /\ (pc' = "wait" => i' = 0)
  BY DEF Trim, AfterWait, Trimmed, Return, Leave
<1>8. lack' = 0 /\ ResultTypes'
  <2>1. len - 1 \in Int /\ len - 1 <= RESULT_BUFF_LEN /\ 0 \in Int /\ 0 <= RESULT_BUFF_LEN
        /\ ~(len - 1 < 0) /\ ~(0 < 0)
    BY <1>2, <1>3, <1>4
  <2> QED
    BY <1>2, <1>7, <2>1, ResizeSound, Zenon
<1>9. result' \in Seq(KeptPiece) /\ Len(result') \in Nat
  BY <1>8 DEF ResultTypes
<1>10. Tails'
  BY <1>1, <1>6, <1>8, <1>9 DEF Tails
<1>11. Found' /\ Unseen'
  BY <1>7, <1>9 DEF Found, Unseen
<1> QED
  BY <1>10, <1>11

\* The application clears the result between two messages.
LEMMA ClearFramed ==
    ASSUME Sound, Framed, Resize(0), UNCHANGED <<ipd_idx, async_idx>>, broken \subseteq broken',
           Uncut' => ipd_idx = 0 /\ async_idx = 0,
           pc' # "trim", pc' = "wait" => i' = 0
    PROVE  Framed'
<1> SUFFICES ASSUME Uncut' PROVE (Tails /\ Found /\ Unseen)'
  BY DEF Framed
<1>1. ResultTypes /\ 0 \in Int /\ 0 <= RESULT_BUFF_LEN /\ ~(0 < 0)
  BY AtAssumption DEF Sound
<1>2. lack' = 0 /\ ResultTypes'
  BY <1>1, ResizeSound, Zenon
<1>3. result' \in Seq(KeptPiece) /\ Len(result') \in Nat
  BY <1>2 DEF ResultTypes
<1>4. Tails'
  BY <1>2, <1>3 DEF Tails
<1>5. Found' /\ Unseen'
  BY <1>3 DEF Found, Unseen
<1> QED
  BY <1>4, <1>5

LEMMA PollFramed ==
    ASSUME Sound, Framed, Poll
    PROVE  Framed'
<1>1. /\ pc = "wait" /\ i < Present /\ i' = i + 1
      /\ UNCHANGED <<ipd_idx, async_idx, result, lack, broken>>
  BY DEF Poll, KeepParser, Keep, res
<1>2. result \in Seq(KeptPiece) /\ Len(result) \in Nat /\ i \in Nat
  BY DEF Sound, ResultTypes, MainTypes
<1> SUFFICES ASSUME Uncut' PROVE (Tails /\ Found /\ Unseen)'
  BY DEF Framed
<1>3. Tails /\ Found /\ Unseen
  BY <1>1, BrokenGrows DEF Framed
<1>4. i < Len(result)
  BY <1>1, <1>3 DEF Tails, Present
<1>5. \/ pc' = "trim" /\ len' = Len(result) /\ IsResponse(result[i+1])
      \/ pc' = pc /\ ~IsResponse(result[i+1])
  BY <1>2, <1>4 DEF Poll, Looks
<1>6. Tails'
  BY <1>1, <1>3 DEF Tails
<1>7. Found'
  BY <1>1, <1>2, <1>4, <1>5 DEF Found
<1>8. Unseen'
  <2>1. ASSUME pc' = "wait", "shrunk" \notin broken'
        PROVE  i' <= Len(result') /\ \A k \in 1..i' : ~IsResponse(result'[k])
    <3>1. \A k \in 1..i : ~IsResponse(result[k])
      BY <1>1, <1>3, <2>1 DEF Unseen
    <3>2. ~IsResponse(result[i+1])
      BY <1>5, <2>1
    <3> QED
      BY <1>1, <1>2, <1>4, <3>1, <3>2
  <2> QED
    BY <2>1 DEF Unseen
<1> QED
  BY <1>6, <1>7, <1>8

\* The other steps of the application leave the result alone.
LEMMA ApplicationFramed ==
    ASSUME Sound, Framed, Application
    PROVE  Framed'
<1>1. ipd_idx \in 0..2 /\ result \in Seq(KeptPiece) /\ i \in Nat
  BY DEF Sound, ParserTypes, ResultTypes, MainTypes
<1>2. CASE ExpectPrompt \/ CheckNetwork \/ TimedOut \/ Prompt \/ Disconnect \/ ReportErrors
  <2>1. UNCHANGED <<result, lack, async_idx, ipd_idx>> /\ broken \subseteq broken'
    BY <1>2 DEF ExpectPrompt, CheckNetwork, TimedOut, Prompt, Disconnect, ReportErrors,
                SetOperation, Keep, KeepParser, res
  <2>2. pc' # "trim" /\ (pc' = "wait" => i' = 0) /\ i' \in {i, 0}
    BY <1>2, Zenon DEF ExpectPrompt, CheckNetwork, TimedOut, Prompt, Disconnect, ReportErrors,
                       StartWait, Return, Leave
  <2>3. Found' /\ i' \in Nat
    BY <1>1, <2>2 DEF Found
  <2> QED
    BY <1>1, <2>1, <2>2, <2>3, SameFrame
<1>3. CASE Ready
  <2>1. /\ ipd_idx = 0 /\ async_idx = 0
        /\ UNCHANGED <<ipd_idx, async_idx>> /\ broken \subseteq broken'
    BY <1>3 DEF Ready, Keep, Sound, Fresh, Idling
  <2>2. CASE Resize(0) /\ StartWait("echo")
    BY <2>1, <2>2, ClearFramed DEF StartWait
  <2>3. CASE Leave("FAILURE") /\ UNCHANGED res
    <3>1. UNCHANGED <<result, lack>> /\ pc' = "idle" /\ i' = 0
      BY <2>3 DEF Leave, res
    <3>2. Found' /\ i' \in Nat
      BY <3>1 DEF Found
    <3> QED
      BY <1>1, <2>1, <3>1, <3>2, SameFrame
  <2> QED
    BY <1>3, <2>2, <2>3 DEF Ready
<1>4. CASE Finish
  <2>1. /\ Resize(0) /\ UNCHANGED <<ipd_idx, async_idx>> /\ pc' = "errors"
        /\ broken' = broken \cup (IF Partial THEN {"cut"} ELSE {})
    BY <1>4 DEF Finish, KeepParser, Keep
  <2>2. Uncut' => ipd_idx = 0 /\ async_idx = 0
    BY <2>1 DEF Uncut, Partial
  <2>3. broken \subseteq broken' /\ pc' # "trim" /\ pc' # "wait"
    BY <2>1
  <2> QED
    BY <2>1, <2>2, <2>3, ClearFramed
<1> QED
  BY <1>2, <1>3, <1>4, PollFramed, TrimFramed DEF Application

\* The interrupt takes off the result what it has put there, and at_run_cmd misses no
\* response, as long as the application does not change the result inside a message (cut)
\* and at_callback does not clear it because it is full (overflown, at_parser.c:447).
THEOREM AtFramedInvariance == Spec => []Framed
<1>1. Init => Framed
  BY DEF Init, Framed, Tails, Found, Unseen
<1>2. Sound /\ Framed /\ [Next]_vars => Framed'
  <2> SUFFICES ASSUME Sound, Framed, [Next]_vars PROVE Framed'
    OBVIOUS
  <2>1. ipd_idx \in 0..2 /\ result \in Seq(KeptPiece) /\ i \in Nat
    BY DEF Sound, ParserTypes, ResultTypes, MainTypes
  <2>2. ASSUME NEW op \in Cmds, RunCmd(op) PROVE Framed'
    <3>1. UNCHANGED <<result, lack, async_idx, ipd_idx>> /\ broken \subseteq broken'
      BY <2>2 DEF RunCmd, SetOperation, Keep, res
    <3>2. pc' # "trim" /\ (pc' = "wait" => i' = 0) /\ i' \in {i, 0}
      BY <2>2, Zenon DEF RunCmd, StartWait
    <3>3. Found' /\ i' \in Nat
      BY <2>1, <3>2 DEF Found
    <3> QED
      BY <2>1, <3>1, <3>2, <3>3, SameFrame
  <2>3. CASE UartError
    BY <2>3 DEF UartError, Framed, Uncut
  <2>4. CASE UNCHANGED <<parser, res, main, broken>>
    <3>1. UNCHANGED <<result, lack, async_idx, ipd_idx, broken, pc, i, len>>
      BY <2>4 DEF parser, res, main
    <3> QED
      BY <2>1, <3>1, SameFrame
  <2>5. CASE Answer \/ NetworkChanges \/ UNCHANGED vars
    BY <2>4, <2>5 DEF Answer, NetworkChanges, Unasked, history, vars
  <2>6. ASSUME NEW c \in Conns, PeerCloses(c) \/ \E n \in Lengths : PeerSends(c, n)
        PROVE  Framed'
    BY <2>4, <2>6 DEF PeerCloses, PeerSends, Unasked, history
  <2> QED
    BY <2>2, <2>3, <2>5, <2>6, ReadDoneFramed, ApplicationFramed DEF Next
<1> QED
  BY <1>1, <1>2, AtSoundInvariance, PTL DEF Spec

\* result.len does not wrap below zero, unless the application changed the result inside a
\* message or at_callback cleared it when it was full.
THEOREM AtLenNeverWraps == Spec => []LenNeverWraps
<1>1. Framed => LenNeverWraps
  BY DEF Framed, Uncut, Tails, LenNeverWraps
<1> QED
  BY <1>1, AtFramedInvariance, PTL

\* wait_for_response is past no response to its command.
THEOREM AtNoneMissed == Spec => []NoneMissed
<1>1. Framed => NoneMissed
  <2> SUFFICES ASSUME Framed, pc = "wait",
                      broken \cap {"shrunk", "cut", "overflown", "clobbered", "faulty"} = {},
                      NEW k \in 1..i, k <= Len(result)
               PROVE  result[k] \notin {<<"ok", nwrites>>, <<"fail", nwrites>>}
    BY DEF NoneMissed
  <2>1. ~IsResponse(result[k])
    BY DEF Framed, Uncut, Unseen
  <2> QED
    BY <2>1 DEF IsResponse
<1> QED
  BY <1>1, AtFramedInvariance, PTL

-----------------------------------------------------------------------------
(* Owned is an invariant.                                                  *)

\* What is left on the line.
LEMMA LineRest ==
    ASSUME NEW S, line \in Seq(S), NEW n \in Nat, n <= Len(line),
           line' = SubSeq(line, n + 1, Len(line))
    PROVE  /\ line' \in Seq(S) /\ Len(line') = Len(line) - n /\ DOMAIN line' = 1..Len(line) - n
           /\ \A k \in 1..Len(line) - n : line'[k] = line[k + n]
<1>1. PICK r : r = SubSeq(line, n + 1, Len(line))
  OBVIOUS
<1>2. /\ r \in Seq(S) /\ Len(r) = Len(line) - n
      /\ \A k \in 1..Len(line) - n : r[k] = line[k + n]
  BY <1>1, RestOf
<1>3. DOMAIN r = 1..Len(line) - n
  BY <1>2
<1> QED
  BY <1>1, <1>2, <1>3

\* The interrupt moves a response from the line to the result, or drops it.
LEMMA MovedOwned ==
    ASSUME Sound, Owned, broken \subseteq broken', UNCHANGED <<pc, todo, nwrites>>,
           line # <<>>, result' \in Seq(KeptPiece),
           NEW n \in Nat, n # 0, n <= Len(line), line' = SubSeq(line, n + 1, Len(line)),
           \A k \in Responses(result') :
              \/ k \in Responses(result) /\ result'[k] = result[k]
              \/ n = 1 /\ k = Len(result) + 1 /\ 1 \in Responses(line) /\ result'[k] = line[1]
    PROVE  Owned'
<1> SUFFICES ASSUME Untold' PROVE OneAtATime' /\ Settled'
  BY DEF Owned
<1>1. OneAtATime /\ Settled
  BY BrokenGrows DEF Owned
<1>2. /\ line \in Seq(Piece) /\ result \in Seq(KeptPiece)
      /\ DOMAIN line = 1..Len(line) /\ DOMAIN result = 1..Len(result)
      /\ Len(line) \in Nat /\ Len(result) \in Nat
  BY DEF Sound, UartTypes, ResultTypes
<1>3. /\ DOMAIN line' = 1..Len(line) - n
      /\ \A k \in 1..Len(line) - n : line'[k] = line[k + n]
  BY <1>2, LineRest, Zenon
<1>4. \A k \in Responses(line') : k + n \in Responses(line) /\ line'[k] = line[k + n] /\ k \in Nat \ {0}
  BY <1>2, <1>3, SMTT(30) DEF Responses
<1>5. \A k \in Responses(line') : Own(line'[k], nwrites') /\ todo' = <<>>
  BY <1>1, <1>4 DEF OneAtATime
<1>6. \A j, k \in Responses(line') : j = k
  BY <1>1, <1>4 DEF OneAtATime
<1>7. \A k \in Responses(result') : Own(result'[k], nwrites') /\ todo' = <<>>
  BY <1>1 DEF OneAtATime
<1>8. \A k \in Responses(result') : Responses(line') = {}
  <2>1. SUFFICES ASSUME NEW k \in Responses(result'), NEW j \in Responses(line') PROVE FALSE
    OBVIOUS
  <2>2. j + n \in Responses(line) /\ j \in Nat \ {0}
    BY <1>4
  <2>3. CASE k \in Responses(result)
    BY <1>1, <2>2, <2>3 DEF OneAtATime
  <2>4. CASE n = 1 /\ 1 \in Responses(line)
    <3>1. j + n = 1
      BY <1>1, <2>2, <2>4 DEF OneAtATime
    <3> QED
      BY <2>2, <2>4, <3>1
  <2> QED
    BY <2>3, <2>4
<1>9. \A j, k \in Responses(result') : j = k
  <2>1. SUFFICES ASSUME NEW j \in Responses(result'), NEW k \in Responses(result') PROVE j = k
    OBVIOUS
  <2>2. CASE j \in Responses(result) /\ k \in Responses(result)
    BY <1>1, <2>2 DEF OneAtATime
  <2>3. CASE 1 \in Responses(line) /\ (j \in Responses(result) \/ k \in Responses(result))
    BY <1>1, <2>3 DEF OneAtATime
  <2>4. CASE j = Len(result) + 1 /\ k = Len(result) + 1
    BY <2>4
  <2> QED
    BY <2>2, <2>3, <2>4
<1>10. OneAtATime'
  BY <1>1, <1>5, <1>6, <1>7, <1>8, <1>9 DEF OneAtATime
<1>11. ASSUME Responses(line) = {} PROVE Responses(line') = {}
  BY <1>4, <1>11
<1>12. ASSUME Responses(line) = {}, Responses(result) = {} PROVE Responses(result') = {}
  BY <1>12
<1>13. pc = "ready" => Responses(line) = {}
  <2>1. SUFFICES ASSUME pc = "ready", NEW k \in Responses(line) PROVE FALSE
    OBVIOUS
  <2>2. line \in Seq({<<"ready">>, <<"noise">>})
    BY <2>1 DEF Sound, Fresh
  <2>3. line[k] \in {<<"ready">>, <<"noise">>}
    BY <2>2 DEF Responses
  <2> QED
    BY <2>3 DEF Responses, IsResponse
<1>14. Settled'
  BY <1>1, <1>11, <1>12, <1>13 DEF Settled, Silent
<1> QED
  BY <1>10, <1>14

LEMMA ReadDoneOwned ==
    ASSUME Sound, Owned, ReadDone
    PROVE  Owned'
<1>1. UartTypes /\ ResultTypes /\ ParserTypes
  BY DEF Sound
<1>2. PICK ch \in Piece, store \in [Conns -> Buffer], queue \in Seq(Read) :
              /\ Reading(ch, store, queue)
              /\ line # <<>> /\ reads[1] \in Read
              /\ \/ Skip(ch, store, queue) \/ Character(ch, store, queue)
                 \/ PayloadPart(store, queue)
  BY <1>1, ReadDoneParts
<1>3. Sound'
  BY ReadDoneSound
<1>4. PICK n \in Nat : n = reads[1].n /\ n # 0
  BY <1>2 DEF Read
<1>5. /\ n <= Len(line) /\ line' = SubSeq(line, n + 1, Len(line)) /\ UNCHANGED <<pc, todo, nwrites>>
      /\ result \in Seq(KeptPiece) /\ result' \in Seq(KeptPiece) /\ Len(result) \in Nat
      /\ DOMAIN result = 1..Len(result) /\ DOMAIN result' = 1..Len(result')
      /\ Len(result') \in Nat /\ line \in Seq(Piece) /\ Len(line) \in Nat
  <2>1. UNCHANGED <<pc, todo, nwrites>>
    BY <1>2 DEF Reading, main, module
  <2>2. n <= Len(line) /\ line' = SubSeq(line, n + 1, Len(line)) /\ line \in Seq(Piece)
    BY <1>1, <1>2, <1>4 DEF Reading, UartTypes
  <2>3. result \in Seq(KeptPiece) /\ result' \in Seq(KeptPiece)
    BY <1>1, <1>3 DEF Sound, ResultTypes
  <2> QED
    BY <2>1, <2>2, <2>3
<1>6. (ch = line[1] /\ n = 1) \/ ch = <<"text">>
  <2>1. reads[1].dest = READ_CH => reads[1].n = 1
    BY <1>1 DEF UartTypes, WellRead
  <2> QED
    BY <1>2, <1>4, <2>1 DEF Reading
<1>7. CASE UNCHANGED <<result, broken>>
  BY <1>2, <1>4, <1>5, <1>7, MovedOwned
<1>8. CASE Skip(ch, store, queue) \/ PayloadPart(store, queue)
  BY <1>7, <1>8 DEF Skip, PayloadPart, res
<1>9. ASSUME NEW m \in Nat, Shorten(m) PROVE Owned'
  <2>1. Len(result') <= Len(result) /\ \A k \in 1..Len(result') : result'[k] = result[k]
    BY <1>1, <1>9, ShortenSound
  <2>2. broken \subseteq broken'
    BY <1>9 DEF Shorten
  <2>3. 1..Len(result') \subseteq 1..Len(result)
    BY <1>5, <2>1
  <2>4. \A k \in Responses(result') : k \in Responses(result) /\ result'[k] = result[k]
    BY <1>5, <2>1, <2>3, Zenon DEF Responses
  <2> QED
    BY <1>2, <1>4, <1>5, <2>2, <2>4, MovedOwned
<1>10. CASE PayloadBegins(ch, store, queue)
  <2>1. HeaderSize \in Nat /\ Shorten(HeaderSize)
    BY <1>1, <1>10 DEF PayloadBegins, HeaderSize, ParserTypes
  <2> QED
    BY <1>9, <2>1
<1>11. CASE Full /\ Overflow(ch)
  BY <1>11 DEF Overflow, Owned, Untold
<1>12. CASE ~Full /\ ClosedMessage
  <2>1. CASE ClosedId >= 0
    <3>1. /\ Len(result') = Len(result) - 1
          /\ \A k \in 1..Len(result) - 2 : result'[k] = result[k]
          /\ result'[Len(result) - 1] = <<"text">>
      BY <1>1, <1>12, <2>1, ClosedMessageSound
    <3>2. ~IsResponse(<<"text">>)
      BY DEF IsResponse
    <3>3. \A k \in 1..Len(result') :
             k \in 1..Len(result) /\ (k \in 1..Len(result) - 2 \/ k = Len(result) - 1)
      BY <1>5, <3>1
    <3>5. \A k \in Responses(result') : k \in Responses(result) /\ result'[k] = result[k]
      BY <1>5, <3>1, <3>2, <3>3, Zenon DEF Responses
    <3>4. broken \subseteq broken'
      BY <1>12 DEF ClosedMessage, Shorten
    <3> QED
      BY <1>2, <1>4, <1>5, <3>4, <3>5, MovedOwned
  <2>2. CASE ~(ClosedId >= 0)
    BY <1>9, <1>12, <2>2 DEF ClosedMessage
  <2> QED
    BY <2>1, <2>2
<1>13. CASE ~Full /\ OtherCharacter(ch)
  <2>1. /\ Len(result') = Len(result) + 1
        /\ \A k \in 1..Len(result) : result'[k] = result[k]
        /\ result'[Len(result) + 1] = Kept(ch)
    BY <1>1, <1>13, OtherCharacterSound
  <2>2. IsResponse(Kept(ch)) => Kept(ch) = ch /\ IsResponse(ch) /\ ch # <<"text">>
    BY DEF Kept, IsResponse
  <2>3. 1 \in DOMAIN line
    BY <1>2, <1>5
  <2>4. \A k \in Responses(result') :
              \/ k \in Responses(result) /\ result'[k] = result[k]
              \/ n = 1 /\ k = Len(result) + 1 /\ 1 \in Responses(line) /\ result'[k] = line[1]
    BY <1>5, <1>6, <2>1, <2>2, <2>3 DEF Responses
  <2>5. broken \subseteq broken'
    BY <1>13 DEF OtherCharacter
  <2> QED
    BY <1>2, <1>4, <1>5, <2>4, <2>5, MovedOwned
<1> QED
  BY <1>2, <1>7, <1>8, <1>10, <1>11, <1>12, <1>13, CharacterCases DEF res

\* Something is written when nothing is under way.
LEMMA WriteOwned ==
    ASSUME Sound, todo = <<>>, Responses(line) = {}, Responses(result') = {}, line' = line,
           NEW what \in {"exec", "send", "disc", "reset", "echo", "data"}, Write(what)
    PROVE  OneAtATime'
<1>1. /\ Len(todo') = Len(todo) + 1
      /\ todo'[Len(todo) + 1] = [n |-> nwrites', what |-> what]
      /\ todo' \in Seq(Written)
  BY WriteSound DEF Sound
<1>2. Len(todo') = 1 /\ todo'[1].n = nwrites' /\ DOMAIN todo' = 1..1
  BY <1>1
<1> QED
  BY <1>2 DEF OneAtATime

\* A step that moves nothing.
LEMMA SameOwned ==
    ASSUME Owned, broken \subseteq broken', UNCHANGED <<todo, nwrites, line, result>>,
           Untold' => Settled'
    PROVE  Owned'
<1>1. Untold' => OneAtATime
  BY BrokenGrows DEF Owned
<1>2. Untold' => OneAtATime'
  BY <1>1 DEF OneAtATime
<1> QED
  BY <1>2 DEF Owned

LEMMA RunCmdOwned ==
    ASSUME Sound, Owned, NEW op \in Cmds, RunCmd(op)
    PROVE  Owned'
<1>1. /\ pc = "idle" /\ Write(op) /\ UNCHANGED <<line, result>>
      /\ op \in {"exec", "send", "disc", "reset", "echo", "data"}
      /\ broken \subseteq broken'
  BY AtAssumption DEF RunCmd, Keep, uart, res, SetOperation
<1> SUFFICES ASSUME Untold' PROVE OneAtATime' /\ Settled'
  BY DEF Owned
<1>2. todo = <<>> /\ Responses(line) = {} /\ Responses(result) = {}
  BY <1>1, BrokenGrows DEF Owned, Settled, Silent
<1>3. OneAtATime'
  BY <1>1, <1>2, WriteOwned
<1>4. pc' \notin {"idle", "errors", "prompt", "finish"}
  BY DEF RunCmd, StartWait
<1>5. pc' = "ready" => line = <<>> /\ callback_operation' = "RESETTING_MODULE"
  BY DEF RunCmd, StartWait, SetOperation, Sound, Fresh
<1>6. Settled'
  BY <1>1, <1>2, <1>4, <1>5 DEF Settled
<1> QED
  BY <1>3, <1>6

LEMMA TrimOwned ==
    ASSUME Sound, Framed, Owned, Trim
    PROVE  Owned'
<1>1. /\ pc = "trim" /\ AfterWait /\ line' = line
      /\ broken' = IF len # Len(result) \/ i # len THEN broken \cup {"cut"} ELSE broken
  BY DEF Trim, KeepParser, Keep, uart
<1>2. result \in Seq(KeptPiece) /\ Len(result) \in Nat /\ ResultTypes /\ i \in Nat
      /\ Len(result) <= RESULT_BUFF_LEN /\ RESULT_BUFF_LEN \in Nat
      /\ DOMAIN result = 1..Len(result)
  BY AtAssumption DEF Sound, ResultTypes, MainTypes
<1> SUFFICES ASSUME Untold' PROVE OneAtATime' /\ Settled'
  BY DEF Owned
<1>3. OneAtATime /\ Found /\ len = Len(result) /\ i = len
  BY <1>1, BrokenGrows DEF Framed, Owned, Uncut, Untold
<1>4. Len(result) \in Responses(result) /\ Len(result) >= 1
  BY <1>1, <1>2, <1>3 DEF Found, Responses
<1>5. todo = <<>> /\ Responses(line) = {} /\ \A k \in Responses(result) : k = Len(result)
  BY <1>3, <1>4 DEF OneAtATime
<1>6. Responses(result') = {}
  <2>1. ASSUME NEW m \in Int, m <= RESULT_BUFF_LEN, m <= Len(result) - 1, Resize(m)
        PROVE  Responses(result') = {}
    <3>1. /\ ResultTypes' /\ Len(result') = IF m < 0 THEN 0 ELSE m
          /\ \A k \in 1..Len(result') : k <= Len(result) => result'[k] = result[k]
      BY <1>2, <2>1, ResizeSound
    <3>2. DOMAIN result' = 1..Len(result') /\ Len(result') \in Nat
      BY <3>1 DEF ResultTypes
    <3>3. \A k \in 1..Len(result') : k \in 1..Len(result) /\ k <= Len(result) /\ k # Len(result)
      <4>1. PICK a \in Nat, b \in Nat : a = Len(result') /\ b = Len(result)
        BY <1>2, <3>2
      <4>2. b >= 1 /\ a = (IF m < 0 THEN 0 ELSE m) /\ m <= b - 1
        BY <1>4, <2>1, <3>1, <4>1
      <4>3. \A k \in 1..a : k \in 1..b /\ k <= b /\ k # b
        BY <4>2
      <4> QED
        BY <4>1, <4>3, SMTT(30)
    <3>4. \A k \in Responses(result') : k \in Responses(result) /\ k # Len(result)
      BY <1>2, <3>1, <3>2, <3>3, Zenon DEF Responses
    <3> QED
      BY <1>5, <3>4
  <2>2. Resize(len - 1) \/ Resize(0)
    BY <1>1 DEF AfterWait, Trimmed
  <2>3. len - 1 \in Int /\ len - 1 <= RESULT_BUFF_LEN /\ len - 1 <= Len(result) - 1
        /\ 0 \in Int /\ 0 <= RESULT_BUFF_LEN /\ 0 <= Len(result) - 1
    BY <1>2, <1>3, <1>4
  <2> QED
    BY <2>1, <2>2, <2>3
<1>7. CASE UNCHANGED <<todo, nwrites>>
  <2>1. OneAtATime'
    BY <1>1, <1>5, <1>6, <1>7 DEF OneAtATime
  <2>2. pc' # "ready"
    BY <1>1 DEF AfterWait, Return, Leave
  <2>3. Settled'
    BY <1>1, <1>5, <1>6, <1>7, <2>2 DEF Settled, Silent
  <2> QED
    BY <2>1, <2>3
<1>8. CASE Write("disc") /\ pc' = "check"
  <2>1. OneAtATime'
    BY <1>1, <1>5, <1>6, <1>8, WriteOwned
  <2>2. Settled'
    BY <1>8 DEF Settled
  <2> QED
    BY <2>1, <2>2
<1> QED
  BY <1>1, <1>7, <1>8 DEF AfterWait

LEMMA PromptOwned ==
    ASSUME Sound, Owned, Prompt
    PROVE  Owned'
<1>1. pc = "prompt" /\ UNCHANGED <<line, result>> /\ broken \subseteq broken'
  BY DEF Prompt, KeepParser, Keep, uart, res
<1> SUFFICES ASSUME Untold' PROVE OneAtATime' /\ Settled'
  BY DEF Owned
<1>2. /\ todo = <<>> /\ Responses(line) = {} /\ Responses(result) = {} /\ OneAtATime
  BY <1>1, BrokenGrows DEF Owned, Settled, Silent
<1>3. CASE Return("FAILURE") /\ UNCHANGED <<todo, nwrites>>
  <2>1. OneAtATime' /\ pc' = "idle"
    BY <1>1, <1>2, <1>3 DEF OneAtATime, Return, Leave
  <2> QED
    BY <1>1, <1>2, <1>3, <2>1 DEF Settled, Silent
<1>4. CASE Write("data") /\ StartWait("last")
  <2>1. OneAtATime'
    BY <1>1, <1>2, <1>4, WriteOwned
  <2> QED
    BY <1>4, <2>1 DEF Settled, StartWait
<1> QED
  BY <1>3, <1>4 DEF Prompt

\* The result is empty.
LEMMA NoResponses ==
    ASSUME ResultTypes, Resize(0)
    PROVE  Responses(result') = {}
<1>1. 0 \in Int /\ 0 <= RESULT_BUFF_LEN /\ ~(0 < 0)
  BY AtAssumption
<1>2. ResultTypes' /\ Len(result') = IF 0 < 0 THEN 0 ELSE 0
  BY <1>1, ResizeSound, Zenon
<1>3. result' = <<>>
  BY <1>2 DEF ResultTypes
<1> QED
  BY <1>3 DEF Responses

LEMMA ReadyOwned ==
    ASSUME Sound, Owned, Ready
    PROVE  Owned'
<1>1. /\ pc = "ready" /\ line' = line
      /\ \/ /\ Resize(0) /\ Write("echo") /\ pc' = "wait"
            /\ broken' = IF callback_operation = "RESETTING_MODULE" THEN broken \cup {"late"}
                                                                     ELSE broken
         \/ /\ callback_operation # "RESETTING_MODULE" /\ pc' = "idle"
            /\ UNCHANGED <<result, todo, nwrites, broken>>
  BY DEF Ready, StartWait, Leave, Keep, uart, res
<1> SUFFICES ASSUME Untold' PROVE OneAtATime' /\ Settled'
  BY DEF Owned
<1>2. callback_operation # "RESETTING_MODULE" /\ Untold
  BY <1>1 DEF Untold
<1>3. todo = <<>> /\ OneAtATime /\ Responses(result) = {}
  BY <1>1, <1>2 DEF Owned, Settled
<1>4. Responses(line) = {}
  <2>1. line \in Seq({<<"ready">>, <<"noise">>})
    BY <1>1 DEF Sound, Fresh
  <2>2. \A k \in DOMAIN line : line[k] \in {<<"ready">>, <<"noise">>}
    BY <2>1
  <2>3. ~IsResponse(<<"ready">>) /\ ~IsResponse(<<"noise">>)
    BY DEF IsResponse
  <2> QED
    BY <2>2, <2>3 DEF Responses
<1>5. CASE Resize(0) /\ Write("echo") /\ pc' = "wait"
  <2>1. Responses(result') = {}
    BY <1>5, NoResponses DEF Sound
  <2>2. OneAtATime'
    BY <1>1, <1>3, <1>4, <1>5, <2>1, WriteOwned
  <2>3. Settled'
    BY <1>5 DEF Settled
  <2> QED
    BY <2>2, <2>3
<1>6. CASE pc' = "idle" /\ UNCHANGED <<result, todo, nwrites>>
  <2>1. OneAtATime'
    BY <1>1, <1>3, <1>6 DEF OneAtATime
  <2>2. Settled'
    BY <1>1, <1>3, <1>4, <1>6 DEF Settled, Silent
  <2> QED
    BY <2>1, <2>2
<1> QED
  BY <1>1, <1>5, <1>6

LEMMA FinishOwned ==
    ASSUME Sound, Owned, Finish
    PROVE  Owned'
<1>1. /\ pc = "finish" /\ pc' = "errors" /\ Resize(0) /\ UNCHANGED <<line, todo, nwrites>>
      /\ broken \subseteq broken'
  BY DEF Finish, KeepParser, Keep, uart
<1> SUFFICES ASSUME Untold' PROVE OneAtATime' /\ Settled'
  BY DEF Owned
<1>2. Silent /\ OneAtATime
  BY <1>1, BrokenGrows DEF Owned, Settled
<1>3. Responses(result') = {}
  BY <1>1, NoResponses DEF Sound
<1>4. OneAtATime'
  BY <1>1, <1>2, <1>3 DEF OneAtATime, Silent
<1>5. Settled'
  BY <1>1, <1>2, <1>3 DEF Settled, Silent
<1> QED
  BY <1>4, <1>5

\* The network is left when the module has agreed; a command that fails at the last look
\* is one of the exceptions.
LEMMA DisconnectOwned ==
    ASSUME Sound, Owned, Disconnect
    PROVE  Owned'
<1>1. /\ UNCHANGED <<line, result, todo, nwrites>> /\ broken \subseteq broken'
      /\ \/ pc' = "finish" /\ Contains(result, <<"ok", nwrites>>)
         \/ "late" \in broken' \/ "left" \in broken'
  BY DEF Disconnect, KeepParser, Keep, uart, res
<1>2. result \in Seq(KeptPiece)
  BY DEF Sound, ResultTypes
<1>3. ASSUME Untold' PROVE Silent
  <2>1. Contains(result, <<"ok", nwrites>>) /\ OneAtATime
    BY <1>1, <1>3, BrokenGrows DEF Untold, Owned
  <2>2. PICK k \in 1..Len(result) : result[k] = <<"ok", nwrites>>
    BY <2>1 DEF Contains
  <2>3. k \in Responses(result)
    BY <1>2, <2>2 DEF Responses, IsResponse
  <2> QED
    BY <2>1, <2>3 DEF OneAtATime, Silent
<1>4. Untold' => Settled'
  BY <1>1, <1>3 DEF Untold, Settled, Silent
<1> QED
  BY <1>1, <1>4, SameOwned

LEMMA ApplicationOwned ==
    ASSUME Sound, Framed, Owned, Application
    PROVE  Owned'
<1>1. CASE ExpectPrompt \/ CheckNetwork \/ Poll
  <2>1. /\ UNCHANGED <<todo, nwrites, line, result>> /\ broken \subseteq broken'
        /\ pc' \in {"disc", "wait", "trim"}
    BY <1>1 DEF ExpectPrompt, CheckNetwork, Poll, SetOperation, StartWait, Keep, KeepParser, uart, res
  <2>2. Settled'
    BY <2>1 DEF Settled
  <2> QED
    BY <2>1, <2>2, SameOwned
<1>2. CASE TimedOut
  BY <1>2 DEF TimedOut, Owned, Untold
<1>3. CASE ReportErrors
  <2>1. /\ pc = "errors" /\ pc' = "idle" /\ UNCHANGED <<todo, nwrites, line, result, broken>>
    BY <1>3, Zenon DEF ReportErrors, Return, Leave, Keep, KeepParser, uart, res
  <2>2. Untold' => Settled
    BY <2>1, BrokenGrows DEF Owned
  <2>3. Untold' => Settled'
    BY <2>1, <2>2 DEF Settled, Silent
  <2> QED
    BY <2>1, <2>3, SameOwned
<1> QED
  BY <1>1, <1>2, <1>3, TrimOwned, PromptOwned, DisconnectOwned, ReadyOwned, FinishOwned
     DEF Application

\* An answer holds at most one response, with the number of the write.
LEMMA ReplyResponses ==
    ASSUME NEW n \in Nat, NEW what, NEW reply \in Reply(n, what)
    PROVE  /\ \A k \in Responses(reply) : Own(reply[k], n)
           /\ \A j, k \in Responses(reply) : j = k
<1>1. \/ reply = <<<<"ok", n>>, <<"prompt">>>>
      \/ reply = <<<<"ok", n>>, <<"lost">>>>
      \/ reply = <<<<"text">>, <<"ok", n>>>>
      \/ reply = <<<<"ready">>>> \/ reply = <<<<"ok", n>>>> \/ reply = <<<<"fail", n>>>>
  BY DEF Reply
<1>2. /\ ~IsResponse(<<"prompt">>) /\ ~IsResponse(<<"lost">>) /\ ~IsResponse(<<"text">>)
      /\ ~IsResponse(<<"ready">>)
  BY DEF IsResponse
<1>3. \A p : DOMAIN <<p>> = {1} /\ <<p>>[1] = p
  OBVIOUS
<1>4. \A p, q : DOMAIN <<p, q>> = {1, 2} /\ <<p, q>>[1] = p /\ <<p, q>>[2] = q
  OBVIOUS
<1>5. \/ Responses(reply) = {}
      \/ Responses(reply) = {1} /\ reply[1] = <<"ok", n>>
      \/ Responses(reply) = {1} /\ reply[1] = <<"fail", n>>
      \/ Responses(reply) = {2} /\ reply[2] = <<"ok", n>>
  <2>1. IsResponse(<<"ok", n>>) /\ IsResponse(<<"fail", n>>)
    BY DEF IsResponse
  <2> QED
    BY <1>1, <1>2, <1>3, <1>4, <2>1 DEF Responses
<1> QED
  BY <1>5 DEF Own

LEMMA AnswerOwned ==
    ASSUME Sound, Owned, Answer
    PROVE  Owned'
<1>1. PICK reply \in Reply(Head(todo).n, Head(todo).what) : line' = reply
  BY DEF Answer
<1>2. /\ todo # <<>> /\ todo' = Tail(todo) /\ todo \in Seq(Written)
      /\ UNCHANGED <<pc, nwrites, result, broken>>
  BY DEF Answer, Sound, MainTypes, main, res, history
<1> SUFFICES ASSUME Untold' PROVE OneAtATime' /\ Settled'
  BY DEF Owned
<1>3. OneAtATime /\ Settled
  BY <1>2, BrokenGrows DEF Owned
<1>4. /\ Len(todo) = 1 /\ Head(todo) = todo[1]
      /\ Len(Tail(todo)) = Len(todo) - 1 /\ Tail(todo) \in Seq(Written)
  <2>1. /\ Len(todo) >= 1 /\ Head(todo) = todo[1] /\ Len(todo) \in Nat
        /\ Len(Tail(todo)) = Len(todo) - 1 /\ Tail(todo) \in Seq(Written)
    BY <1>2, Shorter
  <2>2. Len(todo) <= 1
    BY <1>3 DEF OneAtATime
  <2> QED
    BY <2>1, <2>2
<1>5. todo' = <<>> /\ Head(todo).n = nwrites /\ nwrites \in Nat
  BY <1>2, <1>3, <1>4 DEF OneAtATime, Sound, MainTypes
<1>6. /\ \A k \in Responses(line') : Own(line'[k], nwrites)
      /\ \A j, k \in Responses(line') : j = k
  BY <1>1, <1>5, ReplyResponses
<1>7. Responses(result) = {}
  BY <1>2, <1>3 DEF OneAtATime
<1>8. OneAtATime'
  BY <1>2, <1>5, <1>6, <1>7 DEF OneAtATime
<1>9. Settled'
  BY <1>2, <1>3, <1>5, <1>7 DEF Settled, Silent
<1> QED
  BY <1>8, <1>9

\* A message that the module sends unasked holds no response.
LEMMA UnaskedOwned ==
    ASSUME Sound, Owned, NEW msg, Unasked(msg), Responses(msg) = {}
    PROVE  Owned'
<1>1. line' = msg /\ UNCHANGED <<pc, nwrites, result, broken, todo>>
  BY DEF Unasked, main, res, history
<1>2. pc # "ready"
  BY DEF Unasked, Running, Sound, Fresh
<1> SUFFICES ASSUME Untold' PROVE OneAtATime' /\ Settled'
  BY DEF Owned
<1>3. OneAtATime /\ Settled
  BY <1>1, BrokenGrows DEF Owned
<1>4. OneAtATime'
  BY <1>1, <1>3 DEF OneAtATime
<1>5. Settled'
  BY <1>1, <1>2, <1>3 DEF Settled, Silent
<1> QED
  BY <1>4, <1>5

LEMMA PeersOwned ==
    ASSUME Sound, Owned, NEW c \in Conns,
           PeerCloses(c) \/ (\E n \in Lengths : PeerSends(c, n)) \/ NetworkChanges
    PROVE  Owned'
<1>1. CASE PeerCloses(c)
  <2>1. Responses(<<<<"id", c>>, <<"clo">>, <<"sed">>>>) = {}
    BY DEF Responses, IsResponse
  <2> QED
    BY <1>1, <2>1, UnaskedOwned DEF PeerCloses
<1>2. ASSUME NEW n \in Lengths, PeerSends(c, n) PROVE Owned'
  <2> DEFINE head == <<<<"ipd">>, <<"conn", c>>, <<"len", n>>>>
             bytes == [k \in 1..n |-> <<"byte", c, sent[c] + k>>]
  <2>1. n \in Nat
    BY AtAssumption
  <2>2. /\ \A k \in 1..3 : ~IsResponse(head[k])
        /\ \A k \in 1..n : ~IsResponse(bytes[k])
    BY <2>1 DEF IsResponse
  <2>3. Responses(head \o bytes) = {}
    <3>1. Len(head) = 3 /\ Len(bytes) = n
      BY <2>1
    <3>2. DOMAIN (head \o bytes) = 1..3 + n
      BY <2>1, <3>1
    <3>3. \A k \in 1..3 + n : (head \o bytes)[k] = IF k <= 3 THEN head[k] ELSE bytes[k - 3]
      BY <2>1, <3>1
    <3> HIDE DEF head, bytes
    <3>4. ASSUME NEW k \in 1..3 + n PROVE ~IsResponse((head \o bytes)[k])
      <4>1. CASE k <= 3
        <5>1. k \in 1..3
          BY <4>1
        <5> QED
          BY <2>2, <3>3, <4>1, <5>1, Zenon
      <4>2. CASE ~(k <= 3)
        <5>1. k - 3 \in 1..n
          BY <2>1, <4>2
        <5> QED
          BY <2>2, <3>3, <4>2, <5>1
      <4> QED
        BY <4>1, <4>2
    <3> QED
      BY <3>2, <3>4 DEF Responses
  <2> QED
    BY <1>2, <2>3, UnaskedOwned DEF PeerSends
<1>3. CASE NetworkChanges
  <2>1. PICK msg \in {"gotip", "lost"} : Unasked(<<<<msg>>>>)
    BY <1>3 DEF NetworkChanges
  <2>2. Responses(<<<<msg>>>>) = {}
    BY DEF Responses, IsResponse
  <2> QED
    BY <2>1, <2>2, UnaskedOwned
<1> QED
  BY <1>1, <1>2, <1>3

\* One response at most is under way, and it answers the last thing written, until a wait
\* ends without its response (late) or a command fails and leaves it in the result (left).
THEOREM AtOwnedInvariance == Spec => []Owned
<1>1. Init => Owned
  BY DEF Init, Owned, OneAtATime, Settled, Silent, Responses
<1>2. Sound /\ Framed /\ Owned /\ [Next]_vars => Owned'
  <2> SUFFICES ASSUME Sound, Framed, Owned, [Next]_vars PROVE Owned'
    OBVIOUS
  <2>1. CASE UartError
    BY <2>1 DEF UartError, Owned, Untold
  <2>2. CASE NetworkChanges
    <3>1. 0 \in Conns
      BY AtAssumption DEF Conns
    <3> QED
      BY <2>2, <3>1, PeersOwned
  <2>3. CASE UNCHANGED vars
    <3>1. UNCHANGED <<pc, todo, nwrites, line, result, broken, callback_operation>>
      BY <2>3 DEF vars, main, module, uart, res, history, parser
    <3>2. Untold' => Settled
      BY <3>1, BrokenGrows DEF Owned
    <3>3. Untold' => Settled'
      BY <3>1, <3>2 DEF Settled, Silent
    <3> QED
      BY <3>1, <3>3, SameOwned
  <2> QED
    BY <2>1, <2>2, <2>3, RunCmdOwned, ApplicationOwned, ReadDoneOwned, AnswerOwned, PeersOwned
       DEF Next
<1> QED
  BY <1>1, <1>2, AtSoundInvariance, AtFramedInvariance, PTL DEF Spec

\* The response that a command takes is the module's answer to it, until an earlier command
\* ended without its response or left it in the result.
THEOREM AtAnswerIsOwn == Spec => []AnswerIsOwn
<1>1. Sound /\ Framed /\ Owned => AnswerIsOwn
  <2> SUFFICES ASSUME Sound, Framed, Owned, pc = "trim", Untold
               PROVE  result[i] \in {<<"ok", nwrites>>, <<"fail", nwrites>>}
    BY DEF AnswerIsOwn, Untold
  <2>1. Found /\ OneAtATime
    BY DEF Framed, Owned, Uncut, Untold
  <2>2. result \in Seq(KeptPiece)
    BY DEF Sound, ResultTypes
  <2>3. i \in Responses(result)
    BY <2>1, <2>2 DEF Found, Responses
  <2> QED
    BY <2>1, <2>3 DEF OneAtATime, Own
<1> QED
  BY <1>1, AtSoundInvariance, AtFramedInvariance, AtOwnedInvariance, PTL

-----------------------------------------------------------------------------
(* InStep is an invariant: the module and the line.                        *)

\* The bytes that a peer sent.
LEMMA BytesOf ==
    ASSUME NEW c \in Conns, NEW m \in Nat, NEW n \in Nat
    PROVE  /\ Bytes(c, m, n) \in Seq(Piece) /\ Len(Bytes(c, m, n)) = n
           /\ \A k \in 1..n : Bytes(c, m, n)[k] = <<"byte", c, m + k>>
<1>1. \A k \in 1..n : <<"byte", c, m + k>> \in Piece
  BY DEF Piece
<1>2. Bytes(c, m, n) \in [1..n -> Piece]
  BY <1>1 DEF Bytes
<1> QED
  BY <1>2 DEF Bytes

\* What is left of a message after its first piece.
LEMMA HeadedLine ==
    ASSUME NEW q \in Seq(Piece), NEW a \in Piece, NEW b \in Piece, NEW d \in Piece
    PROVE  /\ <<a>> \o q # <<>> /\ <<a, b>> \o q # <<>> /\ <<a, b, d>> \o q # <<>>
           /\ (<<a>> \o q)[1] = a /\ (<<a, b>> \o q)[1] = a /\ (<<a, b, d>> \o q)[1] = a
           /\ SubSeq(<<a>> \o q, 2, Len(<<a>> \o q)) = q
           /\ SubSeq(<<a, b>> \o q, 2, Len(<<a, b>> \o q)) = <<b>> \o q
           /\ SubSeq(<<a, b, d>> \o q, 2, Len(<<a, b, d>> \o q)) = <<b, d>> \o q
<1>1. <<a>> \in Seq(Piece) /\ <<a, b>> \in Seq(Piece) /\ <<b>> \in Seq(Piece)
      /\ <<a, b, d>> \in Seq(Piece) /\ <<b, d>> \in Seq(Piece) /\ Len(q) \in Nat
  OBVIOUS
<1>2. /\ <<a>> \o q \in Seq(Piece) /\ Len(<<a>> \o q) = Len(q) + 1 /\ (<<a>> \o q)[1] = a
      /\ \A k \in 1..Len(q) : (<<a>> \o q)[k + 1] = q[k]
  OBVIOUS
<1>3. SubSeq(<<a>> \o q, 2, Len(<<a>> \o q)) = q
  BY <1>2
<1>4. /\ <<a, b>> \o q \in Seq(Piece) /\ Len(<<a, b>> \o q) = Len(q) + 2 /\ (<<a, b>> \o q)[1] = a
  BY <1>1
<1>5. SubSeq(<<a, b>> \o q, 2, Len(<<a, b>> \o q)) = <<b>> \o q
  OBVIOUS
<1>6. /\ <<a, b, d>> \o q \in Seq(Piece) /\ Len(<<a, b, d>> \o q) = Len(q) + 3
      /\ (<<a, b, d>> \o q)[1] = a
  BY <1>1
<1>7. SubSeq(<<a, b, d>> \o q, 2, Len(<<a, b, d>> \o q)) = <<b, d>> \o q
  OBVIOUS
<1>8. <<a>> \o q # <<>> /\ <<a, b>> \o q # <<>> /\ <<a, b, d>> \o q # <<>>
  BY <1>1, <1>2, <1>4, <1>6
<1> QED
  BY <1>2, <1>3, <1>4, <1>5, <1>6, <1>7, <1>8, Zenon

\* The header of a payload, and what is left of it after the next piece.
LEMMA HeaderOnLine ==
    ASSUME Sound, NEW c \in Conns, NEW n \in Lengths, InHeader(c, n)
    PROVE  /\ line # <<>>
           /\ \/ /\ ipd_idx = 0 /\ line[1] = <<"ipd">>
                 /\ SubSeq(line, 2, Len(line))
                       = <<<<"conn", c>>, <<"len", n>>>> \o Bytes(c, sent[c] - n, n)
              \/ /\ ipd_idx = 1 /\ line[1] = <<"conn", c>>
                 /\ SubSeq(line, 2, Len(line)) = <<<<"len", n>>>> \o Bytes(c, sent[c] - n, n)
              \/ /\ ipd_idx = 2 /\ line[1] = <<"len", n>> /\ current_conn = c
                 /\ SubSeq(line, 2, Len(line)) = Bytes(c, sent[c] - n, n)
<1>1. n \in Nat /\ sent[c] \in Nat /\ n <= sent[c]
  BY AtAssumption DEF InHeader, Sound, MainTypes
<1>2. PICK m \in Nat : m = sent[c] - n
  BY <1>1
<1>3. PICK bytes \in Seq(Piece) : bytes = Bytes(c, m, n)
  BY <1>1, BytesOf
<1>4. PICK p1 \in Piece, p2 \in Piece, p3 \in Piece :
         p1 = <<"ipd">> /\ p2 = <<"conn", c>> /\ p3 = <<"len", n>>
  BY DEF Piece
<1>5. /\ <<p1, p2, p3>> \o bytes # <<>> /\ <<p2, p3>> \o bytes # <<>> /\ <<p3>> \o bytes # <<>>
      /\ (<<p1, p2, p3>> \o bytes)[1] = p1
      /\ (<<p2, p3>> \o bytes)[1] = p2
      /\ (<<p3>> \o bytes)[1] = p3
      /\ SubSeq(<<p1, p2, p3>> \o bytes, 2, Len(<<p1, p2, p3>> \o bytes)) = <<p2, p3>> \o bytes
      /\ SubSeq(<<p2, p3>> \o bytes, 2, Len(<<p2, p3>> \o bytes)) = <<p3>> \o bytes
      /\ SubSeq(<<p3>> \o bytes, 2, Len(<<p3>> \o bytes)) = bytes
  BY HeadedLine, SMTT(30)
<1>6. \/ ipd_idx = 0 /\ line = <<p1, p2, p3>> \o bytes
      \/ ipd_idx = 1 /\ line = <<p2, p3>> \o bytes
      \/ ipd_idx = 2 /\ line = <<p3>> \o bytes /\ current_conn = c
  BY <1>2, <1>3, <1>4, Zenon DEF InHeader
<1> QED
  BY <1>2, <1>3, <1>4, <1>5, <1>6, Zenon

LEMMA ShortMessage ==
    ASSUME NEW a \in Piece, NEW b \in Piece, NEW d \in Piece
    PROVE  /\ <<a, b, d>> # <<>> /\ <<a, b>> # <<>> /\ <<a, b, d>>[1] = a /\ <<a, b>>[1] = a
           /\ SubSeq(<<a, b, d>>, 2, Len(<<a, b, d>>)) = <<b, d>>
           /\ SubSeq(<<a, b>>, 2, Len(<<a, b>>)) = <<b>>
<1>1. <<a, b, d>> # <<>> /\ <<a, b>> # <<>> /\ <<a, b, d>>[1] = a /\ <<a, b>>[1] = a
  OBVIOUS
<1>2. <<a, b, d>> \in Seq(Piece) /\ <<a, b>> \in Seq(Piece)
  OBVIOUS
<1>3. Tail(<<a, b, d>>) = <<b, d>>
  OBVIOUS
<1>4. Tail(<<a, b>>) = <<b>>
  OBVIOUS
<1>5. \A q \in Seq(Piece) : q # <<>> => SubSeq(q, 2, Len(q)) = Tail(q)
  BY TailIsSubSeq
<1> QED
  BY <1>1, <1>2, <1>3, <1>4, <1>5, Zenon

\* The end of a connection, and what is left of the message after the next piece.
LEMMA ClosingOnLine ==
    ASSUME NEW c \in Conns, InClosing(c)
    PROVE  /\ line # <<>>
           /\ \/ line[1] = <<"id", c>> /\ SubSeq(line, 2, Len(line)) = <<<<"clo">>, <<"sed">>>>
              \/ line[1] = <<"clo">> /\ SubSeq(line, 2, Len(line)) = <<<<"sed">>>>
              \/ line[1] = <<"sed">> /\ SubSeq(line, 2, Len(line)) = <<>>
<1>0. <<"id", c>> \in Piece /\ <<"clo">> \in Piece /\ <<"sed">> \in Piece
  BY DEF Piece
<1>1. CASE line = <<<<"id", c>>, <<"clo">>, <<"sed">>>>
  <2>1. PICK p1 \in Piece, p2 \in Piece, p3 \in Piece :
           p1 = <<"id", c>> /\ p2 = <<"clo">> /\ p3 = <<"sed">>
    BY <1>0
  <2>2. line = <<p1, p2, p3>>
    BY <1>1, <2>1
  <2>3. /\ <<p1, p2, p3>> # <<>> /\ <<p1, p2, p3>>[1] = p1
        /\ SubSeq(<<p1, p2, p3>>, 2, Len(<<p1, p2, p3>>)) = <<p2, p3>>
    BY ShortMessage, ZenonT(60)
  <2> QED
    BY <2>1, <2>2, <2>3, Zenon
<1>2. CASE line = <<<<"clo">>, <<"sed">>>>
  <2>1. PICK p2 \in Piece, p3 \in Piece : p2 = <<"clo">> /\ p3 = <<"sed">>
    BY <1>0
  <2>2. line = <<p2, p3>>
    BY <1>2, <2>1
  <2> QED
    BY <2>1, <2>2, ShortMessage
<1>3. CASE line = <<<<"sed">>>>
  BY <1>3
<1> QED
  BY <1>1, <1>2, <1>3, Zenon DEF InClosing

\* The payload on the line.
LEMMA PayloadOnLine ==
    ASSUME Sound, NEW c \in Conns, NEW n \in Nat, InPayload(c, n)
    PROVE  /\ sent[c] \in Nat /\ sent[c] - n \in Nat /\ Len(line) = n
           /\ \A k \in 1..n : line[k] = <<"byte", c, sent[c] - n + k>>
<1>1. sent[c] \in Nat /\ n <= sent[c] /\ line = Bytes(c, sent[c] - n, n)
  BY DEF Sound, MainTypes, InPayload
<1>2. PICK m \in Nat : m = sent[c] - n
  BY <1>1
<1>3. line = Bytes(c, m, n)
  BY <1>1, <1>2
<1>4. Len(line) = n /\ \A k \in 1..n : line[k] = <<"byte", c, m + k>>
  BY <1>3, BytesOf, Zenon
<1> QED
  BY <1>1, <1>2, <1>4

\* Nothing is on the line: the parser is between two messages.
LEMMA EmptyLine ==
    ASSUME Phase, line = <<>>, Sound
    PROVE  /\ Between \/ Echoing
           /\ \A c \in Conns : ~InClosing(c)
<1>1. \A c \in Conns : ~InClosing(c)
  BY DEF InClosing
<1>2. \A c \in Conns : \A n \in Lengths : ~InHeader(c, n)
  BY HeaderOnLine
<1>3. \A c \in Conns : \A n \in 1..Len(line) : ~InPayload(c, n)
  OBVIOUS
<1> QED
  BY <1>1, <1>2, <1>3 DEF Phase

\* A wait that has not ended yet: AT_RESET is not over.
LEMMA NotRunning ==
    ASSUME Sound, Resetting, Running
    PROVE  /\ ~Echoing /\ callback_operation # "RESETTING_MODULE"
           /\ \A k \in DOMAIN todo : todo[k].what # "reset"
<1>1. ~Echoing
  BY DEF Running, Echoing
<1>2. callback_operation # "RESETTING_MODULE"
  BY DEF Resetting, Running, Sound, Fresh
<1>3. \A k \in DOMAIN todo : todo[k].what # "reset"
  BY DEF Resetting, Running
<1> QED
  BY <1>1, <1>2, <1>3

\* The answers of the module.
LEMMA ReplyPlain ==
    ASSUME NEW n \in Nat, NEW what, NEW reply \in Reply(n, what)
    PROVE  reply \in Seq(Plain)
<1>1. \/ reply \in {<<<<"ok", n>>, <<"prompt">>>>, <<<<"fail", n>>>>}
      \/ reply \in {<<<<"ok", n>>, <<"lost">>>>, <<<<"ok", n>>>>}
      \/ reply \in {<<<<"ready">>>>}
      \/ reply \in {<<<<"text">>, <<"ok", n>>>>}
      \/ reply \in {<<<<"ok", n>>>>, <<<<"fail", n>>>>}
  BY DEF Reply
<1>2. /\ <<"ok", n>> \in Plain /\ <<"fail", n>> \in Plain /\ <<"prompt">> \in Plain
      /\ <<"lost">> \in Plain /\ <<"ready">> \in Plain /\ <<"text">> \in Plain
  BY DEF Plain
<1>3. \A p \in Plain : <<p>> \in Seq(Plain)
  OBVIOUS
<1>4. \A p, q \in Plain : <<p, q>> \in Seq(Plain)
  OBVIOUS
<1> QED
  BY <1>1, <1>2, <1>3, <1>4, Zenon

LEMMA AnswerInStep ==
    ASSUME Sound, InStep, Answer
    PROVE  InStep'
<1>1. PICK reply \in Reply(Head(todo).n, Head(todo).what) : line' = reply
  BY DEF Answer
<1>2. /\ todo # <<>> /\ line = <<>> /\ todo' = Tail(todo) /\ todo \in Seq(Written)
      /\ link' = IF Head(todo).what = "reset" THEN {} ELSE link
      /\ UNCHANGED <<parser, res, cb, reads, main, recv, sent, broken>>
  BY DEF Answer, Sound, MainTypes, history
<1>3. UNCHANGED <<callback_operation, conn, current_conn, ipd_idx, async_idx, result, lack,
                  cb, reads, recv, sent, broken, pc, cmd, stage, ret>>
  BY <1>2 DEF parser, res, main
<1>4. /\ Head(todo) \in Written /\ Head(todo) = todo[1] /\ Tail(todo) \in Seq(Written)
      /\ Len(Tail(todo)) = Len(todo) - 1 /\ Len(todo) \in Nat /\ Len(todo) >= 1
      /\ \A k \in 1..Len(todo) - 1 : Tail(todo)[k] = todo[k + 1]
  BY <1>2, Shorter
<1>5. line' \in Seq(Plain)
  <2>1. Head(todo).n \in Nat
    BY <1>4 DEF Written
  <2> QED
    BY <1>1, <2>1, ReplyPlain
<1> SUFFICES ASSUME Clean' PROVE (Phase /\ Attached /\ NoBytes /\ Resetting)'
  BY DEF InStep
<1>6. Phase /\ Attached /\ NoBytes /\ Resetting
  BY <1>3 DEF InStep, Clean
<1>7. (Between \/ Echoing) /\ \A c \in Conns : ~InClosing(c)
  BY <1>2, <1>6, EmptyLine
<1>8. Phase'
  <2>1. CASE Between
    BY <1>3, <1>5, <2>1 DEF Phase, Between, OneChar, Rested, NotStarted, Stored
  <2>2. CASE Echoing
    BY <1>3, <1>5, <2>2 DEF Phase, Echoing, Idling, OneChar, Rested, NotStarted, Stored
  <2> QED
    BY <1>7, <2>1, <2>2
<1>9. Attached'
  <2>1. CASE Head(todo).what = "reset"
    <3>1. 1 \in DOMAIN todo
      BY <1>2, <1>4
    <3>2. conn = NoConns
      BY <1>4, <1>6, <2>1, <3>1 DEF Resetting
    <3> QED
      BY <1>3, <3>2 DEF Attached, NoConns, NoConn
  <2>2. CASE Head(todo).what # "reset"
    <3>1. link' = link
      BY <1>2, <2>2
    <3> QED
      BY <1>3, <1>6, <1>7, <3>1 DEF Attached, Uncut
  <2> QED
    BY <2>1, <2>2
<1>10. NoBytes'
  BY <1>3, <1>6 DEF NoBytes
<1>11. Resetting'
  <2>1. \A k \in DOMAIN todo' : todo'[k].what # "reset"
    <3> SUFFICES ASSUME NEW k \in DOMAIN todo', todo'[k].what = "reset" PROVE FALSE
      OBVIOUS
    <3>1. k \in 1..Len(todo) - 1
      BY <1>2, <1>4
    <3>2. todo[k + 1].what = "reset" /\ k + 1 \in DOMAIN todo /\ k + 1 # 1
      BY <1>2, <1>4, <3>1
    <3> QED
      BY <1>6, <3>2 DEF Resetting
  <2> QED
    BY <1>3, <1>6, <2>1 DEF Resetting
<1> QED
  BY <1>8, <1>9, <1>10, <1>11

\* The module sends something unasked: it finds the parser between two messages.
LEMMA UnaskedInStep ==
    ASSUME Sound, InStep, NEW msg, Unasked(msg)
    PROVE  /\ UNCHANGED <<callback_operation, conn, current_conn, ipd_idx, async_idx, result,
                          lack, cb, reads, recv, broken, pc, cmd, stage, ret, todo>>
           /\ line' = msg
           /\ Clean' => /\ Between /\ Attached /\ NoBytes' /\ Resetting'
                        /\ callback_operation \in {"WAITING_SEND", "READING_RESPONSES"}
                        /\ \A c \in Conns : ~InClosing(c)
<1>1. /\ UNCHANGED <<callback_operation, conn, current_conn, ipd_idx, async_idx, result,
                     lack, cb, reads, recv, broken, pc, cmd, stage, ret, todo>>
      /\ line' = msg /\ line = <<>> /\ Running
  BY DEF Unasked, parser, res, main, history
<1>2. ASSUME Clean'
      PROVE  /\ Between /\ Attached /\ NoBytes' /\ Resetting'
             /\ callback_operation \in {"WAITING_SEND", "READING_RESPONSES"}
             /\ \A c \in Conns : ~InClosing(c)
  <2>1. Phase /\ Attached /\ NoBytes /\ Resetting
    BY <1>1, <1>2 DEF InStep, Clean
  <2>2. /\ ~Echoing /\ callback_operation # "RESETTING_MODULE"
        /\ \A k \in DOMAIN todo : todo[k].what # "reset"
    BY <1>1, <2>1, NotRunning
  <2>3. Between /\ \A c \in Conns : ~InClosing(c)
    BY <1>1, <2>1, <2>2, EmptyLine
  <2>4. callback_operation \in {"WAITING_SEND", "READING_RESPONSES"}
    BY <2>2, <2>3 DEF Between, Sound, ParserTypes
  <2>5. NoBytes' /\ Resetting'
    BY <1>1, <2>1, <2>2 DEF NoBytes, Resetting
  <2> QED
    BY <2>1, <2>3, <2>4, <2>5
<1> QED
  BY <1>1, <1>2

LEMMA NetworkChangesInStep ==
    ASSUME Sound, InStep, NetworkChanges
    PROVE  InStep'
<1>1. PICK msg \in {"gotip", "lost"} : Unasked(<<<<msg>>>>)
  BY DEF NetworkChanges
<1>2. /\ UNCHANGED <<callback_operation, conn, ipd_idx, cb, reads, recv, broken, link, sent>>
      /\ line' = <<<<msg>>>>
  BY <1>1, UnaskedInStep DEF NetworkChanges
<1> SUFFICES ASSUME Clean' PROVE (Phase /\ Attached /\ NoBytes /\ Resetting)'
  BY DEF InStep
<1>3. Between /\ Attached /\ NoBytes' /\ Resetting' /\ \A c \in Conns : ~InClosing(c)
  BY <1>1, UnaskedInStep
<1>4. line' \in Seq(Plain)
  BY <1>2 DEF Plain
<1>5. Phase'
  BY <1>2, <1>3, <1>4 DEF Phase, Between, OneChar, Rested, NotStarted, Stored
<1>6. Attached'
  BY <1>2, <1>3 DEF Attached, Uncut
<1> QED
  BY <1>3, <1>5, <1>6

LEMMA PeerClosesInStep ==
    ASSUME Sound, InStep, NEW c \in Conns, PeerCloses(c)
    PROVE  InStep'
<1>1. Unasked(<<<<"id", c>>, <<"clo">>, <<"sed">>>>) /\ link' = link \ {c} /\ sent' = sent
  BY DEF PeerCloses
<1>2. /\ UNCHANGED <<callback_operation, conn, ipd_idx, cb, reads, recv, broken>>
      /\ line' = <<<<"id", c>>, <<"clo">>, <<"sed">>>>
  BY <1>1, UnaskedInStep
<1> SUFFICES ASSUME Clean' PROVE (Phase /\ Attached /\ NoBytes /\ Resetting)'
  BY DEF InStep
<1>3. /\ Between /\ Attached /\ NoBytes' /\ Resetting' /\ \A d \in Conns : ~InClosing(d)
      /\ callback_operation \in {"WAITING_SEND", "READING_RESPONSES"}
  BY <1>1, UnaskedInStep
<1>4. \A d \in Conns : Rested(d)'
  BY <1>1, <1>2, <1>3 DEF Between, Rested, NotStarted, Stored
<1>5. InClosing(c)'
  BY <1>2, <1>3, <1>4 DEF InClosing, Between, OneChar
<1>6. Attached'
  <2>1. ASSUME NEW d \in Conns
        PROVE  /\ (conn[d].active = conn[d].cbuff /\ (conn[d].cbuff => d \in Buffered))'
               /\ (Uncut /\ conn[d].active => d \in link \/ InClosing(d))'
    <3>1. /\ (conn[d].active = conn[d].cbuff /\ (conn[d].cbuff => d \in Buffered))
          /\ (Uncut /\ conn[d].active => d \in link)
      BY <1>3 DEF Attached
    <3> QED
      BY <1>1, <1>2, <1>5, <3>1 DEF Uncut
  <2> QED
    BY <2>1 DEF Attached
<1>7. Phase'
  BY <1>5 DEF Phase
<1> QED
  BY <1>3, <1>6, <1>7

LEMMA PeerSendsInStep ==
    ASSUME Sound, InStep, NEW c \in Conns, NEW n \in Lengths, PeerSends(c, n)
    PROVE  InStep'
<1>1. /\ Unasked(<<<<"ipd">>, <<"conn", c>>, <<"len", n>>>> \o Bytes(c, sent[c], n))
      /\ link' = link \cup {c} /\ sent' = [sent EXCEPT ![c] = @ + n]
  BY DEF PeerSends, Bytes
<1>2. /\ UNCHANGED <<callback_operation, conn, ipd_idx, cb, reads, recv, broken>>
      /\ line' = <<<<"ipd">>, <<"conn", c>>, <<"len", n>>>> \o Bytes(c, sent[c], n)
  BY <1>1, UnaskedInStep
<1> SUFFICES ASSUME Clean' PROVE (Phase /\ Attached /\ NoBytes /\ Resetting)'
  BY DEF InStep
<1>3. /\ Between /\ Attached /\ NoBytes' /\ Resetting' /\ \A d \in Conns : ~InClosing(d)
      /\ callback_operation \in {"WAITING_SEND", "READING_RESPONSES"}
  BY <1>1, UnaskedInStep
<1>4. n \in Nat /\ sent[c] \in Nat /\ sent \in [Conns -> Nat] /\ recv \in [Conns -> Seq(Piece)]
  BY AtAssumption DEF Sound, MainTypes, ParserTypes
<1>5. sent'[c] = sent[c] + n /\ \A d \in Conns \ {c} : sent'[d] = sent[d]
  BY <1>1, <1>4
<1>6. sent'[c] - n = sent[c] /\ n <= sent'[c]
  BY <1>4, <1>5
<1>7. Others(c)'
  BY <1>2, <1>3, <1>5 DEF Others, Between, Rested, NotStarted, Stored
<1>8. Stored(c, n)' /\ NotStarted(c)'
  <2>1. Stored(c, 0) /\ NotStarted(c) /\ Len(recv[c]) \in Nat
    BY <1>3, <1>4 DEF Between, Rested
  <2>2. recv' = recv /\ cb' = cb
    BY <1>2
  <2>3. c \in Buffered => Len(recv[c]) + n = sent'[c]
    <3>1. c \in Buffered => Len(recv[c]) + 0 = sent[c]
      BY <2>1 DEF Stored
    <3>2. PICK m \in Nat : m = Len(recv[c])
      BY <2>1
    <3> QED
      <4>1. PICK x \in Nat : x = sent[c]
        BY <1>4
      <4>2. PICK z : z = sent'[c]
        OBVIOUS
      <4>3. z = x + n /\ n \in Nat /\ (c \in Buffered => m + 0 = x)
        BY <1>4, <1>5, <3>1, <3>2, <4>1, <4>2, Zenon
      <4>4. c \in Buffered => m + n = z
        BY <4>3
      <4> QED
        BY <3>2, <4>2, <4>4, Zenon
  <2>4. c \in Buffered => \A k \in 1..Len(recv[c]) : recv[c][k] = <<"byte", c, k>>
    BY <2>1 DEF Stored
  <2> QED
    BY <2>1, <2>2, <2>3, <2>4, Zenon DEF Stored, NotStarted
<1>9. InHeader(c, n)'
  BY <1>1, <1>2, <1>3, <1>6, <1>7, <1>8, Zenon DEF InHeader, Between, OneChar
<1>10. Attached'
  BY <1>1, <1>2, <1>3 DEF Attached, Uncut
<1>11. Phase'
  BY <1>9 DEF Phase
<1> QED
  BY <1>3, <1>10, <1>11

-----------------------------------------------------------------------------
(* InStep is an invariant: at_run_cmd.                                     *)

\* "CLOSED" has begun.
Midway == line \in {<<<<"clo">>, <<"sed">>>>, <<<<"sed">>>>}

\* A step of the application leaves what the interrupt works on alone.
LEMMA KeptPhases ==
    ASSUME Keep, NEW c
    PROVE  /\ OneChar => OneChar'
           /\ Rested(c) => Rested(c)'
           /\ \A n : Stored(c, n) => Stored(c, n)'
           /\ NotStarted(c) => NotStarted(c)'
           /\ Others(c) => Others(c)'
<1>1. UNCHANGED <<reads, cb, recv, sent>>
  BY DEF Keep, uart
<1> QED
  BY <1>1 DEF OneChar, Rested, Stored, NotStarted, Others

LEMMA KeptClosing ==
    ASSUME Keep, NEW c \in Conns, InClosing(c), broken \subseteq broken',
           callback_operation' \in {"WAITING_SEND", "READING_RESPONSES"},
           Uncut' /\ Midway => result' = result
    PROVE  InClosing(c)'
<1>1. UNCHANGED <<reads, cb, recv, sent, line, ipd_idx, async_idx>>
  BY DEF Keep, uart
<1>2. OneChar' /\ \A d \in Conns : Rested(d)'
  BY KeptPhases DEF InClosing
<1>3. Uncut' => Uncut
  BY BrokenGrows
<1>4. CASE line = <<<<"id", c>>, <<"clo">>, <<"sed">>>>
  BY <1>1, <1>2, <1>4, Zenon DEF InClosing
<1>5. CASE /\ line = <<<<"clo">>, <<"sed">>>>
           /\ Uncut => result # <<>> /\ result[Len(result)] = <<"id", c>>
  <2>1. Midway
    BY <1>5, Zenon DEF Midway
  <2>2. Uncut' => result' # <<>> /\ result'[Len(result')] = <<"id", c>>
    BY <1>3, <1>5, <2>1
  <2> QED
    BY <1>1, <1>2, <1>5, <2>2, Zenon DEF InClosing
<1>6. CASE /\ line = <<<<"sed">>>>
           /\ Uncut => /\ async_idx = 1 /\ Len(result) >= 2
                       /\ result[Len(result) - 1] = <<"id", c>>
  <2>1. Midway
    BY <1>6, Zenon DEF Midway
  <2>2. Uncut' => /\ async_idx' = 1 /\ Len(result') >= 2
                  /\ result'[Len(result') - 1] = <<"id", c>>
    BY <1>1, <1>3, <1>6, <2>1
  <2> QED
    BY <1>1, <1>2, <1>6, <2>2, Zenon DEF InClosing
<1> QED
  BY <1>4, <1>5, <1>6, Zenon DEF InClosing

\* The parser stays where it is, unless the application tells it that a reset is over.
LEMMA ApplicationInStep ==
    ASSUME Sound, InStep, Keep, broken \subseteq broken',
           Clean' =>
             /\ \/ callback_operation' = callback_operation
                \/ callback_operation # "READING_PAYLOAD" /\ callback_operation' = "WAITING_SEND"
                \/ callback_operation # "READING_PAYLOAD" /\ line = <<>>
                   /\ callback_operation' = "RESETTING_MODULE"
             /\ Uncut' /\ Midway => result' = result
             /\ Echoing => Echoing'
             /\ NoBytes' /\ Resetting'
    PROVE  InStep'
<1> SUFFICES ASSUME Clean' PROVE (Phase /\ Attached /\ NoBytes /\ Resetting)'
  BY DEF InStep
<1>1. Phase /\ Attached /\ Resetting
  BY BrokenGrows DEF InStep
<1>2. UNCHANGED <<conn, current_conn, ipd_idx, async_idx, cb, reads, line, link, sent, recv>>
  BY DEF Keep, uart
<1>3. ASSUME NEW c \in Conns, InClosing(c) PROVE InClosing(c)'
  <2>1. line # <<>>
    BY <1>3, ClosingOnLine, Zenon
  <2>2. callback_operation' \in {"WAITING_SEND", "READING_RESPONSES"}
    BY <1>3, <2>1 DEF InClosing
  <2> QED
    BY <1>3, <2>2, KeptClosing
<1>4. Phase'
  <2>1. CASE Between
    <3>1. callback_operation' # "READING_PAYLOAD"
      BY <2>1 DEF Between
    <3>2. OneChar' /\ \A c \in Conns : Rested(c)'
      BY <2>1, KeptPhases DEF Between
    <3>3. Between'
      BY <1>2, <2>1, <3>1, <3>2 DEF Between
    <3> QED
      BY <3>3 DEF Phase
  <2>2. CASE Echoing
    BY <2>2 DEF Phase
  <2>3. ASSUME NEW c \in Conns, InClosing(c) PROVE Phase'
    BY <1>3, <2>3 DEF Phase
  <2>4. ASSUME NEW c \in Conns, NEW n \in Lengths, InHeader(c, n) PROVE Phase'
    <3>1. line # <<>>
      BY <2>4, HeaderOnLine
    <3>2. callback_operation' \in {"WAITING_SEND", "READING_RESPONSES"}
      BY <2>4, <3>1 DEF InHeader
    <3>3. OneChar' /\ Stored(c, n)' /\ NotStarted(c)' /\ Others(c)'
      BY <2>4, KeptPhases DEF InHeader
    <3>4. InHeader(c, n)'
      BY <1>2, <2>4, <3>2, <3>3, Zenon DEF InHeader
    <3> QED
      BY <3>4 DEF Phase
  <2>5. ASSUME NEW c \in Conns, NEW n \in 1..Len(line), InPayload(c, n) PROVE Phase'
    <3>1. callback_operation' = callback_operation
      BY <2>5 DEF InPayload
    <3>2. Stored(c, n)' /\ Others(c)' /\ (NotStarted(c) => NotStarted(c)')
      BY <2>5, KeptPhases DEF InPayload
    <3>3. InPayload(c, n)'
      BY <1>2, <2>5, <3>1, <3>2 DEF InPayload
    <3>4. n \in 1..Len(line')
      BY <1>2
    <3> QED
      BY <3>3, <3>4 DEF Phase
  <2> QED
    BY <1>1, <2>1, <2>2, <2>3, <2>4, <2>5 DEF Phase
<1>5. Attached'
  <2>1. Uncut' => Uncut
    BY BrokenGrows
  <2> QED
    BY <1>1, <1>2, <1>3, <2>1 DEF Attached
<1> QED
  BY <1>4, <1>5

\* The module has been asked for no reset, or it has answered.
Unreset == \A k \in DOMAIN todo : todo[k].what # "reset"

\* A reset that was not answered is waited for, or given up.
LEMMA NoResetAsked ==
    ASSUME Resetting, pc \notin {"ready", "wait", "idle"}
    PROVE  Unreset /\ callback_operation # "RESETTING_MODULE"
BY DEF Resetting, Unreset

LEMMA WriteUnreset ==
    ASSUME MainTypes, Unreset, NEW what \in {"exec", "send", "disc", "echo", "data"}, Write(what)
    PROVE  Unreset'
<1>1. /\ todo' \in Seq(Written) /\ Len(todo') = Len(todo) + 1
      /\ \A k \in 1..Len(todo) : todo'[k] = todo[k]
      /\ todo'[Len(todo) + 1] = [n |-> nwrites', what |-> what]
  BY WriteSound
<1>2. todo \in Seq(Written) /\ DOMAIN todo = 1..Len(todo) /\ Len(todo) \in Nat
  BY DEF MainTypes
<1>3. ASSUME NEW k \in DOMAIN todo' PROVE todo'[k].what # "reset"
  <2>1. k \in 1..Len(todo) + 1
    BY <1>1
  <2>2. CASE k \in 1..Len(todo)
    BY <1>1, <1>2, <2>2 DEF Unreset
  <2>3. CASE k = Len(todo) + 1
    BY <1>1, <2>3
  <2> QED
    BY <1>2, <2>1, <2>2, <2>3
<1> QED
  BY <1>3 DEF Unreset

LEMMA RunCmdInStep ==
    ASSUME Sound, InStep, NEW op \in Cmds, RunCmd(op)
    PROVE  InStep'
<1>1. /\ Keep /\ Write(op) /\ cmd' = op /\ Running /\ pc = "idle" /\ UNCHANGED <<result, lack>>
      /\ UNCHANGED <<line, conn>>
      /\ op \in {"exec", "send", "disc", "reset"} /\ MainTypes
      /\ op = "reset" => nwrites = 0 /\ nevents = 0
  BY AtAssumption DEF RunCmd, res, Keep, uart, Sound
<1>2. CASE op # "reset"
  <2>1. UNCHANGED <<callback_operation, broken>>
    BY <1>2 DEF RunCmd
  <2>2. ASSUME Clean' PROVE ~Echoing /\ NoBytes' /\ Resetting'
    <3>1. Resetting /\ NoBytes
      BY <2>1, <2>2 DEF InStep, Clean
    <3>2. ~Echoing /\ callback_operation # "RESETTING_MODULE" /\ Unreset
      BY <1>1, <3>1, NotRunning DEF Unreset
    <3>3. Unreset'
      BY <1>1, <1>2, <3>2, WriteUnreset
    <3>4. Resetting'
      BY <2>1, <3>2, <3>3 DEF Unreset, Resetting
    <3> QED
      BY <1>1, <3>1, <3>2, <3>4 DEF NoBytes
  <2> QED
    BY <1>1, <2>1, <2>2, ApplicationInStep
<1>3. CASE op = "reset"
  <2>1. /\ SetOperation("RESETTING_MODULE") /\ pc' = "ready"
    BY <1>3 DEF RunCmd
  <2>2. /\ callback_operation = "READING_RESPONSES" /\ line = <<>> /\ todo = <<>>
        /\ result = <<>> /\ lack = 0 /\ conn = NoConns
    BY <1>1, <1>3 DEF Sound, Fresh, Idling
  <2>3. callback_operation' = "RESETTING_MODULE" /\ broken' = broken
    BY <2>1, <2>2 DEF SetOperation
  <2>4. ~Echoing
    BY <2>2 DEF Echoing
  <2>5. NoBytes'
    BY <1>1, <2>2 DEF NoBytes
  <2>6. \A k \in DOMAIN todo' : k = 1
    <3>1. todo' \in Seq(Written) /\ Len(todo') = Len(todo) + 1
      BY <1>1, WriteSound
    <3> QED
      BY <2>2, <3>1
  <2>7. Resetting'
    BY <1>1, <1>3, <2>1, <2>2, <2>6 DEF Resetting, NoConns
  <2> QED
    BY <1>1, <2>2, <2>3, <2>4, <2>5, <2>7, ApplicationInStep
<1> QED
  BY <1>2, <1>3

LEMMA ExpectPromptInStep ==
    ASSUME Sound, InStep, ExpectPrompt
    PROVE  InStep'
<1>1. /\ pc = "mode" /\ SetOperation("WAITING_SEND") /\ Keep /\ UNCHANGED <<result, lack, todo>>
  BY DEF ExpectPrompt, res
<1>2. broken \subseteq broken' /\ callback_operation' = "WAITING_SEND"
  BY <1>1 DEF SetOperation
<1>3. ASSUME Clean' PROVE callback_operation # "READING_PAYLOAD" /\ ~Echoing /\ NoBytes' /\ Resetting'
  <2>1. Resetting /\ NoBytes
    BY <1>2, <1>3, BrokenGrows DEF InStep
  <2>2. callback_operation # "READING_PAYLOAD"
    BY <1>1, <1>3 DEF SetOperation, Clean
  <2>3. Unreset
    BY <1>1, <2>1, NoResetAsked
  <2> QED
    BY <1>1, <1>2, <2>1, <2>2, <2>3 DEF Echoing, NoBytes, Resetting, Unreset
<1> QED
  BY <1>1, <1>2, <1>3, ApplicationInStep

LEMMA PollInStep ==
    ASSUME Sound, InStep, Poll
    PROVE  InStep'
<1>1. /\ pc = "wait" /\ i < Present /\ Keep
      /\ UNCHANGED <<callback_operation, result, lack, todo, broken>>
  BY DEF Poll, KeepParser, res
<1>2. i \in Nat
  BY DEF Sound, MainTypes
<1>3. ~(result = <<>> /\ lack = 0)
  BY <1>1, <1>2 DEF Present
<1>4. ASSUME Clean' PROVE ~Echoing /\ NoBytes' /\ Resetting'
  <2>1. Resetting /\ NoBytes
    BY <1>1, <1>4 DEF InStep, Clean
  <2>2. Unreset /\ callback_operation # "RESETTING_MODULE"
    BY <1>1, <1>3, <2>1 DEF Resetting, Unreset
  <2> QED
    BY <1>1, <1>3, <2>1, <2>2 DEF Echoing, NoBytes, Resetting, Unreset
<1> QED
  BY <1>1, <1>4, ApplicationInStep

LEMMA TimedOutInStep ==
    ASSUME Sound, InStep, TimedOut
    PROVE  InStep'
<1>1. /\ pc = "wait" /\ Return("FAILURE") /\ broken \subseteq broken' /\ Keep
      /\ UNCHANGED <<callback_operation, result, lack, todo, cmd>>
  BY DEF TimedOut, KeepParser, res
<1>2. pc' = "idle" /\ (stage = "echo" => ret' = "FAILURE")
  BY <1>1 DEF Return, Leave
<1>3. UNCHANGED <<conn, current_conn, ipd_idx, async_idx, line>>
  BY <1>1 DEF Keep, uart
<1>4. Echoing => Echoing'
  BY <1>1, <1>2, <1>3, KeptPhases DEF Echoing, Idling
<1>5. ASSUME Clean' PROVE NoBytes' /\ Resetting'
  <2>1. Resetting /\ NoBytes
    BY <1>1, <1>5, BrokenGrows DEF InStep
  <2>2. NoBytes'
    BY <1>1, <2>1 DEF NoBytes
  <2>3. Resetting'
    BY <1>1, <1>2, <1>3, <2>1 DEF Resetting, NoConns
  <2> QED
    BY <2>2, <2>3
<1> QED
  BY <1>1, <1>4, <1>5, ApplicationInStep

\* The result ends with a part of "CLOSED" once it has begun: it holds no response there.
LEMMA MidwayResult ==
    ASSUME Sound, Framed, Phase, Midway, Uncut
    PROVE  /\ result # <<>> /\ ~IsResponse(result[Len(result)])
           /\ Partial
<1>1. line # <<>> /\ line[1] \in {<<"clo">>, <<"sed">>}
  BY DEF Midway
<1>2. ~Between /\ ~Echoing
  <2>1. line[1] \notin Plain
    BY <1>1 DEF Plain
  <2>2. line \notin Seq(Plain)
    BY <1>1, <2>1
  <2> QED
    BY <2>2 DEF Between, Echoing
<1>3. \A c \in Conns : \A n \in Lengths : ~InHeader(c, n)
  <2> SUFFICES ASSUME NEW c \in Conns, NEW n \in Lengths, InHeader(c, n) PROVE FALSE
    OBVIOUS
  <2>1. line[1] \in {<<"ipd">>, <<"conn", c>>, <<"len", n>>}
    BY HeaderOnLine, Zenon
  <2> QED
    BY <1>1, <2>1
<1>4. \A c \in Conns : \A n \in 1..Len(line) : ~InPayload(c, n)
  <2> SUFFICES ASSUME NEW c \in Conns, NEW n \in 1..Len(line), InPayload(c, n) PROVE FALSE
    OBVIOUS
  <2>1. n \in Nat /\ 1 \in 1..n
    BY DEF Sound, UartTypes
  <2>2. line[1] = <<"byte", c, sent[c] - n + 1>>
    BY <2>1, PayloadOnLine
  <2> QED
    BY <1>1, <2>2
<1>5. PICK c \in Conns : InClosing(c)
  BY <1>2, <1>3, <1>4 DEF Phase
<1>6. line # <<<<"id", c>>, <<"clo">>, <<"sed">>>>
  BY <1>1
<1>7. CASE result # <<>> /\ result[Len(result)] = <<"id", c>>
  BY <1>7 DEF IsResponse, Partial, Last
<1>8. CASE async_idx = 1
  <2>1. result # <<>> /\ result[Len(result)] = <<"text">>
    BY <1>8 DEF Framed, Tails
  <2> QED
    BY <1>8, <2>1 DEF IsResponse, Partial
<1> QED
  BY <1>5, <1>6, <1>7, <1>8 DEF InClosing

\* result.len = n puts no byte into the result.
LEMMA ResizeNoBytes ==
    ASSUME ResultTypes, NoBytes, NEW n \in Int, n <= RESULT_BUFF_LEN, Resize(n)
    PROVE  NoBytes'
<1>1. /\ ResultTypes'
      /\ \A k \in 1..Len(result') : k <= Len(result) => result'[k] = result[k]
      /\ \A k \in 1..Len(result') : k > Len(result) => result'[k] = <<"text">>
  BY ResizeSound
<1>2. Len(result) \in Nat /\ Len(result') \in Nat
  BY <1>1 DEF ResultTypes
<1>3. ASSUME NEW k \in 1..Len(result') PROVE result'[k][1] # "byte"
  <2>1. CASE k <= Len(result)
    <3>1. k \in 1..Len(result)
      BY <1>2, <2>1
    <3> QED
      BY <1>1, <2>1, <3>1 DEF NoBytes
  <2>2. CASE k > Len(result)
    BY <1>1, <2>2
  <2> QED
    BY <1>2, <2>1, <2>2
<1> QED
  BY <1>3 DEF NoBytes

LEMMA TrimInStep ==
    ASSUME Sound, Framed, InStep, Trim
    PROVE  InStep'
<1>1. /\ pc = "trim" /\ AfterWait /\ Keep /\ callback_operation' = callback_operation
      /\ broken' = IF len # Len(result) \/ i # len THEN broken \cup {"cut"} ELSE broken
  BY DEF Trim, KeepParser
<1>2. /\ MainTypes /\ ResultTypes /\ len \in 0..RESULT_BUFF_LEN /\ RESULT_BUFF_LEN \in Nat
      /\ broken \subseteq broken'
  BY <1>1, AtAssumption DEF Sound, MainTypes
<1>3. ~Echoing
  BY <1>1 DEF Echoing
<1>4. ASSUME Clean' PROVE /\ NoBytes' /\ Resetting'
                          /\ ~(Uncut' /\ Midway)
  <2>1. Phase /\ Resetting /\ NoBytes
    BY <1>2, <1>4, BrokenGrows DEF InStep
  <2>2. NoBytes'
    <3>1. Resize(len - 1) \/ Resize(0)
      BY <1>1 DEF AfterWait, Trimmed
    <3>2. len - 1 \in Int /\ len - 1 <= RESULT_BUFF_LEN /\ 0 \in Int /\ 0 <= RESULT_BUFF_LEN
      BY <1>2
    <3> QED
      BY <1>2, <2>1, <3>1, <3>2, ResizeNoBytes, Zenon
  <2>3. Unreset /\ callback_operation # "RESETTING_MODULE"
    BY <1>1, <2>1, NoResetAsked
  <2>4. Unreset'
    <3>1. CASE UNCHANGED todo
      BY <2>3, <3>1 DEF Unreset
    <3>2. CASE Write("disc")
      BY <1>2, <2>3, <3>2, WriteUnreset
    <3> QED
      BY <1>1, <3>1, <3>2 DEF AfterWait
  <2>5. Resetting'
    BY <1>1, <2>3, <2>4 DEF Resetting, Unreset
  <2>6. ASSUME Uncut', Midway PROVE FALSE
    <3>1. Uncut /\ len = Len(result) /\ i = len
      BY <1>1, <1>2, <2>6, BrokenGrows DEF Uncut
    <3>2. IsResponse(result[Len(result)])
      BY <1>1, <3>1 DEF Framed, Found
    <3> QED
      BY <2>1, <2>6, <3>1, <3>2, MidwayResult
  <2> QED
    BY <2>2, <2>5, <2>6
<1> QED
  BY <1>1, <1>2, <1>3, <1>4, ApplicationInStep

LEMMA FinishInStep ==
    ASSUME Sound, Framed, InStep, Finish
    PROVE  InStep'
<1>1. /\ pc = "finish" /\ Resize(0) /\ Keep /\ UNCHANGED <<callback_operation, todo>>
      /\ broken' = broken \cup (IF Partial THEN {"cut"} ELSE {})
  BY DEF Finish, KeepParser
<1>2. ResultTypes /\ 0 \in Int /\ 0 <= RESULT_BUFF_LEN /\ broken \subseteq broken'
  BY <1>1, AtAssumption DEF Sound
<1>3. ~Echoing
  BY <1>1 DEF Echoing
<1>4. ASSUME Clean' PROVE NoBytes' /\ Resetting' /\ ~(Uncut' /\ Midway)
  <2>1. Phase /\ Resetting /\ NoBytes
    BY <1>2, <1>4, BrokenGrows DEF InStep
  <2>2. NoBytes'
    BY <1>1, <1>2, <2>1, ResizeNoBytes, Zenon
  <2>3. Unreset /\ callback_operation # "RESETTING_MODULE"
    BY <1>1, <2>1, NoResetAsked
  <2>4. Resetting'
    BY <1>1, <2>3 DEF Resetting, Unreset
  <2>5. ASSUME Uncut', Midway PROVE FALSE
    <3>1. Uncut /\ ~Partial
      BY <1>1, <1>2, <2>5, BrokenGrows DEF Uncut
    <3> QED
      BY <2>1, <2>5, <3>1, MidwayResult
  <2> QED
    BY <2>2, <2>4, <2>5
<1> QED
  BY <1>1, <1>2, <1>3, <1>4, ApplicationInStep

LEMMA PromptInStep ==
    ASSUME Sound, InStep, Prompt
    PROVE  InStep'
<1>1. /\ pc = "prompt" /\ Keep /\ UNCHANGED <<callback_operation, result, lack>>
      /\ broken \subseteq broken' /\ (UNCHANGED todo \/ Write("data")) /\ MainTypes
  BY DEF Prompt, KeepParser, res, Sound
<1>2. ~Echoing
  BY <1>1 DEF Echoing
<1>3. ASSUME Clean' PROVE NoBytes' /\ Resetting'
  <2>1. Resetting /\ NoBytes
    BY <1>1, <1>3, BrokenGrows DEF InStep
  <2>2. Unreset /\ callback_operation # "RESETTING_MODULE"
    BY <1>1, <2>1, NoResetAsked
  <2>3. Unreset'
    <3>1. CASE UNCHANGED todo
      BY <2>2, <3>1 DEF Unreset
    <3>2. CASE Write("data")
      BY <1>1, <2>2, <3>2, WriteUnreset
    <3> QED
      BY <1>1, <3>1, <3>2
  <2> QED
    BY <1>1, <2>1, <2>2, <2>3 DEF NoBytes, Resetting, Unreset
<1> QED
  BY <1>1, <1>2, <1>3, ApplicationInStep

LEMMA LastStepsInStep ==
    ASSUME Sound, InStep, CheckNetwork \/ Disconnect \/ ReportErrors
    PROVE  InStep'
<1>1. /\ pc \in {"check", "disc", "errors"} /\ Keep
      /\ UNCHANGED <<callback_operation, result, lack, todo>> /\ broken \subseteq broken'
  BY Zenon DEF CheckNetwork, Disconnect, ReportErrors, KeepParser, res
<1>2. ~Echoing
  BY <1>1 DEF Echoing
<1>3. ASSUME Clean' PROVE NoBytes' /\ Resetting'
  <2>1. Resetting /\ NoBytes
    BY <1>1, <1>3, BrokenGrows DEF InStep
  <2>2. Unreset /\ callback_operation # "RESETTING_MODULE"
    BY <1>1, <2>1, NoResetAsked
  <2> QED
    BY <1>1, <2>1, <2>2 DEF NoBytes, Resetting, Unreset
<1> QED
  BY <1>1, <1>2, <1>3, ApplicationInStep

\* AT_RESET fails at the last look.
LEMMA ReadyFailsInStep ==
    ASSUME Sound, InStep, Keep, pc = "ready", pc' = "idle", ret' = "FAILURE",
           callback_operation # "RESETTING_MODULE",
           UNCHANGED <<callback_operation, result, lack, todo, broken, cmd>>
    PROVE  InStep'
<1>1. ~Echoing
  BY DEF Echoing
<1>2. ASSUME Clean' PROVE NoBytes' /\ Resetting'
  <2>1. Resetting /\ NoBytes
    BY <1>2 DEF InStep, Clean
  <2>2. UNCHANGED <<line, conn>>
    BY DEF Keep, uart
  <2> QED
    BY <2>1, <2>2 DEF NoBytes, Resetting, NoConns
<1> QED
  BY <1>1, <1>2, ApplicationInStep

\* A reset is over, or given up: the parser is between two messages, and is told that it
\* is in a payload.
LEMMA ReadyInStep ==
    ASSUME Sound, InStep, Ready
    PROVE  InStep'
<1>0. CASE /\ callback_operation # "RESETTING_MODULE" /\ Leave("FAILURE")
           /\ UNCHANGED <<callback_operation, res, todo, nwrites, broken>>
  <2>1. Keep /\ pc = "ready" /\ cmd' = cmd
    BY DEF Ready
  <2>2. pc' = "idle" /\ ret' = "FAILURE"
    BY <1>0 DEF Leave
  <2> QED
    BY <1>0, <2>1, <2>2, ReadyFailsInStep DEF res
<1> SUFFICES ASSUME callback_operation' = "READING_PAYLOAD", Resize(0), Write("echo"),
                    StartWait("echo"), broken \subseteq broken'
             PROVE  InStep'
  BY <1>0 DEF Ready
<1>1. /\ pc = "ready" /\ callback_operation' = "READING_PAYLOAD" /\ Resize(0) /\ Write("echo")
      /\ pc' = "wait" /\ stage' = "echo" /\ Keep /\ cmd' = cmd /\ broken \subseteq broken'
  BY DEF Ready, StartWait
<1>2. UNCHANGED <<conn, current_conn, ipd_idx, async_idx, cb, reads, line, link, sent, recv>>
  BY <1>1 DEF Keep, uart
<1>3. /\ Idling /\ callback_operation # "READING_PAYLOAD" /\ cmd = "reset"
      /\ line \in Seq({<<"ready">>, <<"noise">>})
  BY <1>1 DEF Sound, Fresh
<1>4. result' = <<>> /\ lack' = 0
  BY <1>1 DEF Resize
<1> SUFFICES ASSUME Clean' PROVE (Phase /\ Attached /\ NoBytes /\ Resetting)'
  BY DEF InStep
<1>5. Phase /\ Attached /\ Resetting
  BY <1>1, BrokenGrows DEF InStep
<1>6. \A c \in Conns : ~InClosing(c)
  <2> SUFFICES ASSUME NEW c \in Conns, InClosing(c) PROVE FALSE
    OBVIOUS
  <2>1. line # <<>> /\ line[1] \in {<<"id", c>>, <<"clo">>, <<"sed">>}
    BY ClosingOnLine, Zenon
  <2> QED
    BY <1>3, <2>1
<1>7. \A c \in Conns : \A n \in Lengths : ~InHeader(c, n)
  <2> SUFFICES ASSUME NEW c \in Conns, NEW n \in Lengths, InHeader(c, n) PROVE FALSE
    OBVIOUS
  <2>1. line # <<>> /\ line[1] \in {<<"ipd">>, <<"conn", c>>, <<"len", n>>}
    BY HeaderOnLine, Zenon
  <2> QED
    BY <1>3, <2>1
<1>8. Between
  BY <1>3, <1>5, <1>6, <1>7 DEF Phase, Echoing, InPayload
<1>9. Echoing'
  <2>1. OneChar' /\ \A c \in Conns : Rested(c)'
    BY <1>1, <1>8, KeptPhases DEF Between
  <2>2. Idling' /\ line' \in Seq(Plain)
    BY <1>2, <1>3, <1>8 DEF Idling, Between
  <2> QED
    BY <1>1, <1>3, <1>4, <2>1, <2>2 DEF Echoing
<1>10. Attached'
  <2>1. Uncut' => Uncut
    BY <1>1, BrokenGrows
  <2> QED
    BY <1>2, <1>5, <1>6, <2>1 DEF Attached
<1>11. Resetting'
  <2>1. /\ todo' \in Seq(Written) /\ Len(todo') = Len(todo) + 1
        /\ \A k \in 1..Len(todo) : todo'[k] = todo[k]
        /\ todo'[Len(todo) + 1] = [n |-> nwrites', what |-> "echo"]
    BY <1>1, WriteSound DEF Sound
  <2>2. todo \in Seq(Written) /\ DOMAIN todo = 1..Len(todo) /\ Len(todo) \in Nat
    BY DEF Sound, MainTypes
  <2>3. ASSUME NEW k \in DOMAIN todo', todo'[k].what = "reset"
        PROVE  k \in DOMAIN todo /\ todo[k].what = "reset"
    <3>1. k \in 1..Len(todo) + 1 /\ k # Len(todo) + 1
      BY <2>1, <2>3
    <3>2. k \in 1..Len(todo)
      BY <2>2, <3>1
    <3> QED
      BY <2>1, <2>2, <2>3, <3>2
  <2>4. ASSUME NEW k \in DOMAIN todo', todo'[k].what = "reset"
        PROVE  k = 1 /\ line = <<>> /\ conn = NoConns
    BY <1>5, <2>3, <2>4 DEF Resetting
  <2> QED
    BY <1>1, <1>2, <1>3, <1>4, <2>4 DEF Resetting, NoConns
<1>12. NoBytes'
  BY <1>4 DEF NoBytes
<1> QED
  BY <1>9, <1>10, <1>11, <1>12 DEF Phase

-----------------------------------------------------------------------------
(* InStep is an invariant: at_callback.                                    *)

\* One character is read at a time, outside payloads.
LEMMA OneCharRead ==
    ASSUME UartTypes, OneChar, NEW ch, NEW store, NEW queue, Reading(ch, store, queue)
    PROVE  /\ ch = line[1] /\ store = cb /\ queue = <<>>
           /\ line' = SubSeq(line, 2, Len(line))
           /\ UNCHANGED <<sent, link, todo, pc, cmd, stage, ret, i>>
           /\ reads' = ReadChar(queue) => OneChar'
<1>1. reads[1] = [dest |-> READ_CH, n |-> 1] /\ Tail(reads) = <<>>
  BY DEF OneChar
<1>2. reads[1].dest = READ_CH /\ reads[1].n = 1
  BY <1>1
<1>3. ch = line[1] /\ store = cb /\ queue = <<>>
  BY <1>1, <1>2 DEF Reading
<1>4. line' = SubSeq(line, 1 + 1, Len(line)) /\ 1 + 1 = 2
  BY <1>2 DEF Reading
<1>5. WellRead(queue) /\ Len(queue) <= 2
  BY <1>3 DEF WellRead
<1>6. ReadChar(queue) = <<[dest |-> READ_CH, n |-> 1]>>
  BY <1>3, <1>5, ReadCharSound
<1> QED
  BY <1>3, <1>4, <1>6 DEF OneChar, Reading, module, main

\* Nothing is left of a message but what follows it.
LEMMA PlainRest ==
    ASSUME line \in Seq(Plain), line # <<>>, line' = SubSeq(line, 2, Len(line))
    PROVE  line' \in Seq(Plain) /\ line[1] \in Plain
<1>1. Len(line) \in Nat /\ Len(line) >= 1 /\ line[1] \in Plain
  OBVIOUS
<1>2. SubSeq(line, 1 + 1, Len(line)) \in Seq(Plain) /\ 1 + 1 = 2
  BY <1>1, RestOf
<1> QED
  BY <1>1, <1>2

\* While something is on the line no reset is under way.
LEMMA ReadResetting ==
    ASSUME Resetting, line # <<>>, UNCHANGED <<todo, pc>>,
           callback_operation' = "RESETTING_MODULE" => callback_operation = "RESETTING_MODULE"
    PROVE  Resetting'
BY DEF Resetting

\* What the interrupt takes off the result.
LEMMA ShortenNoBytes ==
    ASSUME ResultTypes, NoBytes, NEW n \in Nat, Shorten(n)
    PROVE  NoBytes'
<1>1. /\ ResultTypes' /\ Len(result') <= Len(result)
      /\ \A k \in 1..Len(result') : result'[k] = result[k]
  BY ShortenSound
<1>2. Len(result) \in Nat /\ Len(result') \in Nat
  BY <1>1 DEF ResultTypes
<1>3. \A k \in 1..Len(result') : k \in 1..Len(result)
  BY <1>1, <1>2
<1> QED
  BY <1>1, <1>3, Zenon DEF NoBytes

\* A character that is no byte of a payload leaves none in the result.
LEMMA CharacterNoBytes ==
    ASSUME Sound, NoBytes, NEW ch \in Piece, ch[1] # "byte", NEW store, NEW queue,
           Character(ch, store, queue)
    PROVE  NoBytes'
<1>1. ResultTypes /\ ParserTypes /\ result \in Seq(KeptPiece) /\ Len(result) \in Nat
  BY DEF Sound, ResultTypes
<1>2. CASE PayloadBegins(ch, store, queue)
  <2>1. HeaderSize \in Nat /\ Shorten(HeaderSize)
    BY <1>1, <1>2 DEF PayloadBegins, HeaderSize, ParserTypes
  <2> QED
    BY <1>1, <2>1, ShortenNoBytes
<1>3. CASE UNCHANGED result
  BY <1>3 DEF NoBytes
<1>4. CASE Full /\ Overflow(ch)
  <2>1. result' = <<>>
    BY <1>4 DEF Overflow
  <2> QED
    BY <2>1 DEF NoBytes
<1>5. CASE ~Full /\ ClosedMessage
  <2>1. CASE ClosedId >= 0
    <3>1. /\ Len(result') = Len(result) - 1
          /\ \A k \in 1..Len(result) - 2 : result'[k] = result[k]
          /\ result'[Len(result) - 1] = <<"text">>
      BY <1>1, <1>5, <2>1, ClosedMessageSound
    <3>2. \A k \in 1..Len(result') :
             k \in 1..Len(result) /\ (k \in 1..Len(result) - 2 \/ k = Len(result) - 1)
      BY <1>1, <3>1
    <3>3. <<"text">>[1] # "byte"
      OBVIOUS
    <3> QED
      BY <3>1, <3>2, <3>3, Zenon DEF NoBytes
  <2>2. CASE ~(ClosedId >= 0)
    <3>1. Shorten(1)
      BY <1>5, <2>2 DEF ClosedMessage
    <3> QED
      BY <1>1, <3>1, ShortenNoBytes
  <2> QED
    BY <2>1, <2>2
<1>6. CASE ~Full /\ OtherCharacter(ch)
  <2>1. /\ Len(result') = Len(result) + 1
        /\ \A k \in 1..Len(result) : result'[k] = result[k]
        /\ result'[Len(result) + 1] = Kept(ch)
    BY <1>1, <1>6, OtherCharacterSound
  <2>2. Kept(ch)[1] # "byte"
    BY DEF Kept
  <2>3. \A k \in 1..Len(result') : k \in 1..Len(result) \/ k = Len(result) + 1
    BY <1>1, <2>1
  <2> QED
    BY <2>1, <2>2, <2>3, Zenon DEF NoBytes
<1> QED
  BY <1>2, <1>3, <1>4, <1>5, <1>6, CharacterCases DEF res

\* What a character outside payloads leaves as it is.
LEMMA CharacterKeeps ==
    ASSUME Sound, OneChar, NEW ch \in Piece, NEW store, NEW queue, Reading(ch, store, queue),
           Character(ch, store, queue), ~HeaderDone(ch)
    PROVE  /\ OneChar' /\ UNCHANGED <<cb, recv>> /\ ipd_idx' = HeaderIdx(ch)
           /\ callback_operation' \in {"WAITING_SEND", "READING_RESPONSES"}
           /\ broken \subseteq broken'
           /\ ch # <<"sed">> => conn' = conn
           /\ HeaderIdx(ch) = 2 => current_conn' = ch[2] /\ ipd_idx = 1
<1>1. UartTypes /\ ipd_idx \in 0..2
  BY DEF Sound, ParserTypes
<1>2. ~PayloadBegins(ch, store, queue)
  BY DEF PayloadBegins
<1>3. /\ callback_operation \in {"WAITING_SEND", "READING_RESPONSES"}
      /\ ipd_idx' = HeaderIdx(ch)
      /\ cb' = store /\ reads' = ReadChar(queue) /\ recv' = recv
  BY <1>2, CharacterCases
<1>4. OneChar' /\ cb' = cb
  BY <1>1, <1>3, OneCharRead
<1>5. HeaderIdx(ch) = 2 => ipd_idx = 1 /\ ch[1] = "conn"
  BY <1>1, HeaderConn
<1>6. CASE /\ ch = <<"prompt">> /\ callback_operation' = "READING_RESPONSES"
           /\ UNCHANGED <<conn, current_conn, async_idx, res, errors, broken>>
  BY <1>3, <1>4, <1>5, <1>6
<1>7. CASE Full /\ Overflow(ch)
  BY <1>3, <1>4, <1>5, <1>7 DEF Overflow
<1>8. CASE ~Full /\ async_idx = 1 /\ ch = <<"sed">> /\ ClosedMessage
  <2>1. broken \subseteq broken' /\ callback_operation' = callback_operation
    BY <1>8 DEF ClosedMessage, Shorten
  <2> QED
    BY <1>3, <1>4, <1>5, <1>8, <2>1
<1>9. CASE ~Full /\ OtherCharacter(ch)
  BY <1>3, <1>4, <1>5, <1>9 DEF OtherCharacter
<1> QED
  BY <1>2, <1>6, <1>7, <1>8, <1>9, CharacterCases

\* What follows a character: the parser has read it, whole or in part.
LEMMA BetweenRead ==
    ASSUME Sound, Between, Attached, NoBytes, Resetting,
           NEW ch \in Piece, NEW store, NEW queue, Reading(ch, store, queue), line # <<>>,
           Skip(ch, store, queue) \/ Character(ch, store, queue) \/ PayloadPart(store, queue)
    PROVE  (Phase /\ Attached /\ NoBytes /\ Resetting)' /\ broken \subseteq broken'
<1>1. /\ UartTypes /\ OneChar /\ line \in Seq(Plain) /\ ipd_idx = 0
      /\ \A c \in Conns : Rested(c)
  BY DEF Sound, Between
<1>2. /\ ch = line[1] /\ store = cb /\ line' = SubSeq(line, 2, Len(line))
      /\ UNCHANGED <<sent, link, todo, pc>>
      /\ reads' = ReadChar(queue) => OneChar'
  BY <1>1, OneCharRead
<1>3. line' \in Seq(Plain) /\ ch \in Plain
  BY <1>1, <1>2, PlainRest
<1>4. /\ ch[1] \notin {"byte", "len", "conn"} /\ ch # <<"ipd">> /\ ch # <<"sed">>
  BY <1>3 DEF Plain
<1>5. /\ UNCHANGED <<cb, recv, conn, ipd_idx>> /\ OneChar' /\ NoBytes'
      /\ callback_operation' # "READING_PAYLOAD" /\ broken \subseteq broken'
      /\ callback_operation' = "RESETTING_MODULE" => callback_operation = "RESETTING_MODULE"
  <2>1. CASE Skip(ch, store, queue)
    <3>1. NoBytes'
      BY <2>1 DEF Skip, NoBytes, res
    <3> QED
      BY <1>2, <2>1, <3>1 DEF Skip
  <2>2. CASE Character(ch, store, queue)
    <3>1. ~HeaderDone(ch) /\ HeaderIdx(ch) = 0
      BY <1>1, <1>4 DEF HeaderDone, HeaderIdx
    <3>2. NoBytes'
      BY <1>4, <2>2, CharacterNoBytes
    <3>3. /\ OneChar' /\ UNCHANGED <<cb, recv>> /\ ipd_idx' = HeaderIdx(ch)
          /\ callback_operation' \in {"WAITING_SEND", "READING_RESPONSES"}
          /\ broken \subseteq broken'
          /\ ch # <<"sed">> => conn' = conn
      BY <1>1, <2>2, <3>1, CharacterKeeps
    <3> QED
      BY <1>1, <1>4, <3>1, <3>2, <3>3
  <2>3. CASE PayloadPart(store, queue)
    BY <2>3 DEF PayloadPart, Between
  <2> QED
    BY <2>1, <2>2, <2>3
<1>6. Between'
  BY <1>1, <1>2, <1>3, <1>5 DEF Between, Rested, NotStarted, Stored
<1>7. \A c \in Conns : ~InClosing(c)
  <2> SUFFICES ASSUME NEW c \in Conns, InClosing(c) PROVE FALSE
    OBVIOUS
  <2>1. line[1] \in {<<"id", c>>, <<"clo">>, <<"sed">>}
    BY ClosingOnLine, Zenon
  <2> QED
    BY <1>2, <1>3, <2>1 DEF Plain
<1>8. Attached'
  <2>1. Uncut' => Uncut
    BY <1>5, BrokenGrows
  <2> QED
    BY <1>2, <1>5, <1>7, <2>1 DEF Attached
<1>9. Resetting'
  BY <1>2, <1>5, ReadResetting
<1> QED
  BY <1>5, <1>6, <1>8, <1>9 DEF Phase

\* The character after "ready" ends what is no payload.
LEMMA EchoingRead ==
    ASSUME Sound, Echoing, Attached, NoBytes, Resetting,
           NEW ch \in Piece, NEW store, NEW queue, Reading(ch, store, queue), line # <<>>,
           Skip(ch, store, queue) \/ Character(ch, store, queue) \/ PayloadPart(store, queue)
    PROVE  (Phase /\ Attached /\ NoBytes /\ Resetting)' /\ broken \subseteq broken'
<1>1. /\ UartTypes /\ OneChar /\ line \in Seq(Plain) /\ Idling
      /\ \A c \in Conns : Rested(c)
      /\ callback_operation = "READING_PAYLOAD"
  BY DEF Sound, Echoing
<1>2. /\ ch = line[1] /\ store = cb /\ line' = SubSeq(line, 2, Len(line))
      /\ UNCHANGED <<sent, link, todo, pc>>
      /\ reads' = ReadChar(queue) => OneChar'
  BY <1>1, OneCharRead
<1>3. line' \in Seq(Plain) /\ ch \in Plain
  BY <1>1, <1>2, PlainRest
<1>4. PayloadPart(store, queue)
  BY <1>1 DEF Skip, Character
<1>5. current_conn \in Conns /\ conn[current_conn] = NoConn /\ ipd_idx = 0
  BY <1>1, AtAssumption DEF Idling, NoConns, Conns
<1>6. ~conn[current_conn].cbuff /\ LastPart(current_conn)
  BY <1>5 DEF NoConn, LastPart
<1>7. /\ callback_operation' = "READING_RESPONSES" /\ UNCHANGED <<recv, conn, ipd_idx, res, broken>>
      /\ cb' = [store EXCEPT ![current_conn] = store[current_conn]] /\ reads' = ReadChar(queue)
  BY <1>4, <1>6 DEF PayloadPart
<1>8. cb' = cb
  BY <1>2, <1>5, <1>7 DEF Sound, UartTypes
<1>9. Between'
  BY <1>1, <1>2, <1>3, <1>5, <1>7, <1>8 DEF Between, Rested, NotStarted, Stored
<1>10. \A c \in Conns : ~InClosing(c)
  BY <1>1 DEF InClosing
<1>11. Attached'
  BY <1>2, <1>7, <1>10 DEF Attached, Uncut
<1>12. NoBytes' /\ Resetting'
  BY <1>2, <1>7, ReadResetting DEF NoBytes, res
<1> QED
  BY <1>7, <1>9, <1>11, <1>12 DEF Phase

\* The header of a payload, but for its length.
LEMMA HeaderRead ==
    ASSUME Sound, NEW c \in Conns, NEW n \in Lengths, InHeader(c, n), ipd_idx # 2,
           Attached, NoBytes, Resetting,
           NEW ch \in Piece, NEW store, NEW queue, Reading(ch, store, queue), line # <<>>,
           Skip(ch, store, queue) \/ Character(ch, store, queue) \/ PayloadPart(store, queue)
    PROVE  (Phase /\ Attached /\ NoBytes /\ Resetting)' /\ broken \subseteq broken'
<1>1. /\ UartTypes /\ OneChar /\ c \in link /\ n <= sent[c]
      /\ Stored(c, n) /\ NotStarted(c) /\ Others(c)
      /\ callback_operation \in {"WAITING_SEND", "READING_RESPONSES"}
  BY DEF Sound, InHeader
<1>2. /\ ch = line[1] /\ store = cb /\ line' = SubSeq(line, 2, Len(line))
      /\ UNCHANGED <<sent, link, todo, pc>>
  BY <1>1, OneCharRead
<1>3. Character(ch, store, queue)
  BY <1>1 DEF Skip, PayloadPart
<1>4. \/ /\ ipd_idx = 0 /\ ch = <<"ipd">>
         /\ line' = <<<<"conn", c>>, <<"len", n>>>> \o Bytes(c, sent[c] - n, n)
      \/ /\ ipd_idx = 1 /\ ch = <<"conn", c>>
         /\ line' = <<<<"len", n>>>> \o Bytes(c, sent[c] - n, n)
  BY <1>2, HeaderOnLine, Zenon
<1>5. /\ ~HeaderDone(ch) /\ ch[1] # "byte" /\ ch # <<"sed">> /\ HeaderIdx(ch) = ipd_idx + 1
      /\ ipd_idx = 1 => ch[2] = c
  <2>1. c \in 0..MAX_CONNECTIONS
    BY AtAssumption DEF Conns
  <2>2. CASE ipd_idx = 0 /\ ch = <<"ipd">>
    BY <2>2 DEF HeaderDone, HeaderIdx
  <2>3. CASE ipd_idx = 1 /\ ch = <<"conn", c>>
    BY <2>1, <2>3 DEF HeaderDone, HeaderIdx
  <2> QED
    BY <1>4, <2>2, <2>3
<1>6. /\ OneChar' /\ UNCHANGED <<cb, recv>> /\ ipd_idx' = HeaderIdx(ch)
      /\ callback_operation' \in {"WAITING_SEND", "READING_RESPONSES"}
      /\ broken \subseteq broken'
      /\ ch # <<"sed">> => conn' = conn
      /\ HeaderIdx(ch) = 2 => current_conn' = ch[2] /\ ipd_idx = 1
  BY <1>1, <1>3, <1>5, CharacterKeeps
<1>7. NoBytes'
  BY <1>3, <1>5, CharacterNoBytes
<1>8. Stored(c, n)' /\ NotStarted(c)' /\ Others(c)'
  BY <1>1, <1>2, <1>6 DEF Stored, NotStarted, Others, Rested
<1>9. \/ ipd_idx' = 1 /\ line' = <<<<"conn", c>>, <<"len", n>>>> \o Bytes(c, sent'[c] - n, n)
      \/ /\ ipd_idx' = 2 /\ line' = <<<<"len", n>>>> \o Bytes(c, sent'[c] - n, n)
         /\ current_conn' = c
  <2>1. CASE ipd_idx = 0 /\ line' = <<<<"conn", c>>, <<"len", n>>>> \o Bytes(c, sent[c] - n, n)
    <3>1. ipd_idx' = 1 /\ sent' = sent
      BY <1>2, <1>5, <1>6, <2>1
    <3> QED
      BY <2>1, <3>1, Zenon
  <2>2. CASE ipd_idx = 1 /\ line' = <<<<"len", n>>>> \o Bytes(c, sent[c] - n, n)
    <3>1. ipd_idx' = 2 /\ sent' = sent /\ current_conn' = c
      BY <1>2, <1>5, <1>6, <2>2
    <3> QED
      BY <2>2, <3>1, Zenon
  <2> QED
    BY <1>4, <2>1, <2>2, Zenon
<1>10. c \in link' /\ n <= sent'[c]
  BY <1>1, <1>2
<1>11. InHeader(c, n)'
  BY <1>6, <1>8, <1>9, <1>10, Zenon DEF InHeader
<1>12. \A d \in Conns : ~InClosing(d)
  <2> SUFFICES ASSUME NEW d \in Conns, InClosing(d) PROVE FALSE
    OBVIOUS
  <2>1. line[1] \in {<<"id", d>>, <<"clo">>, <<"sed">>}
    BY ClosingOnLine, Zenon
  <2> QED
    BY <1>2, <1>4, <2>1
<1>13. Attached'
  <2>1. Uncut' => Uncut
    BY <1>6, BrokenGrows
  <2> QED
    BY <1>2, <1>5, <1>6, <1>12, <2>1 DEF Attached
<1>14. Resetting'
  BY <1>2, <1>6, ReadResetting
<1> QED
  BY <1>6, <1>7, <1>11, <1>13, <1>14 DEF Phase

\* start_conn_read asks for a part of the payload and leaves the rest to be read.
LEMMA StartsPart ==
    ASSUME conn \in [Conns -> Connection], cb \in [Conns -> Buffer],
           NEW c \in Conns, NEW cn \in Connection, cn.to_read # 0, NEW b \in Buffer, ~b.started,
           StartConnRead(c, cn, b, <<>>)
    PROVE  /\ Len(reads') = 1 /\ reads'[1].n + conn'[c].to_read = cn.to_read
           /\ conn'[c].cbuff = cn.cbuff /\ conn'[c].active = cn.active
           /\ \A d \in Conns \ {c} : conn'[d] = conn[d] /\ cb'[d] = cb[d]
           /\ cn.cbuff => reads'[1].dest = c /\ cb'[c].started
           /\ ~cn.cbuff => reads'[1].dest = READ_CH /\ cb'[c] = b
<1>0. /\ Available(cn, b) \in 1..cn.to_read /\ Available(cn, b) \in Nat
      /\ cn.to_read \in Nat /\ cn.cbuff \in BOOLEAN /\ cn.active \in BOOLEAN
  BY AvailableBounds DEF Connection
<1>1. WellRead(<<>>) /\ Len(<<>>) <= 2
  BY DEF WellRead
<1>2. CASE cn.cbuff
  <2>1. /\ conn' = [conn EXCEPT ![c] = [cn EXCEPT !.to_read = @ - Available(cn, b)]]
        /\ cb' = [cb EXCEPT ![c] = [b EXCEPT !.started = TRUE, !.size = Available(cn, b)]]
        /\ reads' = Submit(<<>>, c, Available(cn, b))
    BY <1>2 DEF StartConnRead
  <2>2. c \in Conns \cup {READ_CH} /\ c # READ_CH /\ Available(cn, b) > 0
    BY <1>0, AtAssumption DEF Conns, READ_CH
  <2>3. PICK m \in Nat : m = Available(cn, b)
    BY <1>0
  <2>4. reads' = <<[dest |-> c, n |-> m]>>
    BY <1>1, <2>1, <2>2, <2>3, SubmitReads
  <2>5. Len(reads') = 1 /\ reads'[1].dest = c /\ reads'[1].n = m
    BY <2>4
  <2>6. /\ conn'[c] = [cn EXCEPT !.to_read = @ - m]
        /\ \A d \in Conns \ {c} : conn'[d] = conn[d] /\ cb'[d] = cb[d]
        /\ cb'[c] = [b EXCEPT !.started = TRUE, !.size = Available(cn, b)]
    BY <2>1, <2>3
  <2>7. conn'[c].to_read = cn.to_read - m /\ conn'[c].cbuff = cn.cbuff /\ conn'[c].active = cn.active
    BY <2>6 DEF Connection
  <2>8. cb'[c].started
    BY <2>6 DEF Buffer
  <2>9. reads'[1].n + conn'[c].to_read = cn.to_read
    <3>1. PICK t \in Nat : t = cn.to_read
      BY <1>0
    <3>2. reads'[1].n = m /\ conn'[c].to_read = t - m
      BY <2>5, <2>7, <3>1
    <3>3. m + (t - m) = t
      OBVIOUS
    <3> QED
      BY <3>1, <3>2, <3>3
  <2> QED
    BY <1>2, <2>5, <2>6, <2>7, <2>8, <2>9
<1>3. CASE ~cn.cbuff
  <2>1. /\ conn' = [conn EXCEPT ![c] = [cn EXCEPT !.to_read = @ - 1]]
        /\ cb' = [cb EXCEPT ![c] = b]
        /\ reads' = ReadChar(<<>>)
    BY <1>3 DEF StartConnRead
  <2>2. reads' = <<[dest |-> READ_CH, n |-> 1]>>
    BY <1>1, <2>1, ReadCharSound
  <2>3. Len(reads') = 1 /\ reads'[1].dest = READ_CH /\ reads'[1].n = 1
    BY <2>2
  <2>4. /\ conn'[c] = [cn EXCEPT !.to_read = @ - 1]
        /\ \A d \in Conns \ {c} : conn'[d] = conn[d] /\ cb'[d] = cb[d]
        /\ cb'[c] = b
    BY <2>1
  <2>5. conn'[c].to_read = cn.to_read - 1 /\ conn'[c].cbuff = cn.cbuff /\ conn'[c].active = cn.active
    BY <2>4 DEF Connection
  <2>6. reads'[1].n + conn'[c].to_read = cn.to_read
    <3>1. PICK t \in Nat : t = cn.to_read
      BY <1>0
    <3>2. reads'[1].n = 1 /\ conn'[c].to_read = t - 1
      BY <2>3, <2>5, <3>1
    <3>3. 1 + (t - 1) = t
      OBVIOUS
    <3> QED
      BY <3>1, <3>2, <3>3
  <2> QED
    BY <1>3, <2>3, <2>4, <2>5, <2>6
<1> QED
  BY <1>0, <1>2, <1>3

\* The length is known: the payload begins, in the buffer of its connection if it has one.
LEMMA LengthRead ==
    ASSUME Sound, NEW c \in Conns, NEW n \in Lengths, InHeader(c, n), ipd_idx = 2,
           Attached, NoBytes, Resetting,
           NEW ch \in Piece, NEW store, NEW queue, Reading(ch, store, queue), line # <<>>,
           Skip(ch, store, queue) \/ Character(ch, store, queue) \/ PayloadPart(store, queue)
    PROVE  (Phase /\ Attached /\ NoBytes /\ Resetting)' /\ broken \subseteq broken'
<1>1. /\ UartTypes /\ OneChar /\ c \in link /\ n <= sent[c]
      /\ Stored(c, n) /\ NotStarted(c) /\ Others(c)
      /\ callback_operation \in {"WAITING_SEND", "READING_RESPONSES"}
  BY DEF Sound, InHeader
<1>2. /\ ch = line[1] /\ store = cb /\ queue = <<>> /\ line' = SubSeq(line, 2, Len(line))
      /\ UNCHANGED <<sent, link, todo, pc>>
  BY <1>1, OneCharRead
<1>3. ch = <<"len", n>> /\ current_conn = c /\ line' = Bytes(c, sent[c] - n, n)
  BY <1>2, HeaderOnLine
<1>4. HeaderDone(ch) /\ ch[1] # "byte" /\ ch[2] = n
  BY <1>3 DEF HeaderDone
<1>5. Character(ch, store, queue) /\ PayloadBegins(ch, store, queue)
  BY <1>1, <1>4 DEF Skip, PayloadPart, Character
<1>6. NoBytes'
  BY <1>4, <1>5, CharacterNoBytes
<1>7. PICK cn : cn = NewMessage(c, n)
  OBVIOUS
<1>8. /\ n \in Nat \ {0} /\ sent[c] \in Nat /\ conn \in [Conns -> Connection]
      /\ cb \in [Conns -> Buffer] /\ cb[c] \in Buffer /\ conn[c] \in Connection
  BY AtAssumption DEF Sound, ParserTypes, MainTypes, UartTypes
<1>9. /\ cn \in Connection /\ cn.to_read = n /\ cn.cbuff = (c \in Buffered) /\ cn.active = cn.cbuff
  <2>1. conn[c].active = conn[c].cbuff /\ (conn[c].cbuff => c \in Buffered)
    BY DEF Attached
  <2>2. CASE conn[c].active
    <3>1. cn = [conn[c] EXCEPT !.to_read = n]
      BY <1>7, <2>2 DEF NewMessage
    <3>2. cn \in Connection /\ cn.to_read = n /\ cn.cbuff = conn[c].cbuff /\ cn.active = conn[c].active
      BY <1>8, <3>1 DEF Connection
    <3> QED
      BY <1>8, <2>1, <2>2, <3>2 DEF Connection
  <2>3. CASE ~conn[c].active
    <3>1. cn = [cbuff |-> c \in Buffered, to_read |-> n, active |-> c \in Buffered]
      BY <1>7, <2>3 DEF NewMessage
    <3> QED
      BY <1>8, <3>1 DEF Connection
  <2> QED
    BY <2>2, <2>3
<1>10. StartConnRead(c, cn, cb[c], <<>>) /\ ~cb[c].started /\ cn.to_read # 0
  <2>1. StartConnRead(current_conn, NewMessage(current_conn, ch[2]), store[current_conn], queue)
    BY <1>5 DEF PayloadBegins
  <2>2. StartConnRead(c, cn, cb[c], <<>>)
    BY <1>2, <1>3, <1>4, <1>7, <2>1
  <2> QED
    BY <1>1, <1>8, <1>9, <2>2 DEF NotStarted
<1>11. /\ Len(reads') = 1 /\ reads'[1].n + conn'[c].to_read = n
       /\ conn'[c].cbuff = cn.cbuff /\ conn'[c].active = cn.active
       /\ \A d \in Conns \ {c} : conn'[d] = conn[d] /\ cb'[d] = cb[d]
       /\ cn.cbuff => reads'[1].dest = c /\ cb'[c].started
       /\ ~cn.cbuff => reads'[1].dest = READ_CH /\ cb'[c] = cb[c]
  BY <1>8, <1>9, <1>10, StartsPart
<1>12. /\ callback_operation' = "READING_PAYLOAD" /\ ipd_idx' = 0 /\ UNCHANGED <<current_conn, recv>>
       /\ broken \subseteq broken'
  BY <1>5 DEF PayloadBegins, Shorten
<1>13. Stored(c, n)' /\ Others(c)'
  BY <1>1, <1>2, <1>11, <1>12 DEF Stored, Others, Rested, NotStarted
<1>14. InPayload(c, n)'
  BY <1>1, <1>2, <1>3, <1>9, <1>11, <1>12, <1>13 DEF InPayload, NotStarted
<1>15. Phase'
  <2>1. PICK m \in Nat : m = sent[c] - n
    BY <1>1, <1>8
  <2>2. Len(line') = n
    BY <1>3, <1>8, <2>1, BytesOf
  <2>3. n \in 1..Len(line')
    BY <1>8, <2>2
  <2> QED
    BY <1>14, <2>3 DEF Phase
<1>16. Attached'
  <2>1. Uncut' => Uncut
    BY <1>12, BrokenGrows
  <2>2. \A d \in Conns : ~InClosing(d)
    <3> SUFFICES ASSUME NEW d \in Conns, InClosing(d) PROVE FALSE
      OBVIOUS
    <3>1. line[1] \in {<<"id", d>>, <<"clo">>, <<"sed">>}
      BY ClosingOnLine, Zenon
    <3> QED
      BY <1>2, <1>3, <3>1
  <2>3. ASSUME NEW d \in Conns
        PROVE  /\ (conn[d].active = conn[d].cbuff /\ (conn[d].cbuff => d \in Buffered))'
               /\ (Uncut /\ conn[d].active => d \in link \/ InClosing(d))'
    <3>1. CASE d = c
      BY <1>1, <1>2, <1>9, <1>11, <3>1
    <3>2. CASE d # c
      BY <1>2, <1>11, <2>1, <2>2, <3>2 DEF Attached
    <3> QED
      BY <3>1, <3>2
  <2> QED
    BY <2>3 DEF Attached
<1>17. Resetting'
  BY <1>2, <1>12, ReadResetting
<1> QED
  BY <1>6, <1>12, <1>15, <1>16, <1>17

\* Bytes of a connection, after so many of them.
Follow(q, c, x) == \A k \in 1..Len(q) : q[k] = <<"byte", c, x + k>>

\* The rest of a payload.
LEMMA BytesRest ==
    ASSUME NEW c \in Conns, NEW q \in Seq(Piece), NEW x \in Nat, Follow(q, c, x),
           NEW m \in Nat, m <= Len(q)
    PROVE  SubSeq(q, m + 1, Len(q)) = Bytes(c, x + m, Len(q) - m)
<1>0. PICK t \in Nat, y \in Nat : t = Len(q) - m /\ y = x + m
  OBVIOUS
<1>1. PICK r : r = SubSeq(q, m + 1, Len(q))
  OBVIOUS
<1>2. m <= Len(q) /\ Len(q) - m = t
  BY <1>0
<1>3. r \in Seq(Piece) /\ Len(r) = t /\ \A k \in 1..t : r[k] = q[k + m]
  BY <1>1, <1>2, RestOf
<1>4. ASSUME NEW k \in 1..t PROVE r[k] = <<"byte", c, y + k>>
  <2>1. PICK j \in 1..Len(q) : j = k + m
    BY <1>0
  <2>2. q[j] = <<"byte", c, x + j>> /\ x + j = y + k
    BY <1>0, <2>1 DEF Follow
  <2>3. r[k] = q[j]
    BY <1>3, <2>1
  <2> QED
    BY <2>2, <2>3
<1>5. PICK z : z = Bytes(c, y, t)
  OBVIOUS
<1>6. z \in Seq(Piece) /\ Len(z) = t /\ \A k \in 1..t : z[k] = <<"byte", c, y + k>>
  BY <1>5, BytesOf
<1>7. r = z
  <2>1. \A k \in 1..Len(r) : r[k] = z[k]
    BY <1>3, <1>4, <1>6
  <2> QED
    BY <1>3, <1>6, <2>1, SeqEqual
<1> QED
  BY <1>0, <1>1, <1>5, <1>7

\* A part of a payload follows what is in the buffer.
LEMMA PartStored ==
    ASSUME NEW c \in Conns, NEW q \in Seq(Piece), NEW data \in Seq(Piece),
           Follow(q, c, 0), NEW x \in Nat, Follow(data, c, x), x = Len(q)
    PROVE  Len(q \o data) = Len(q) + Len(data) /\ Follow(q \o data, c, 0)
<1>1. PICK r : r = q \o data
  OBVIOUS
<1>2. PICK m \in Nat : m = Len(data)
  OBVIOUS
<1>3. /\ Len(r) = x + m
      /\ \A k \in 1..x + m : r[k] = IF k <= x THEN q[k] ELSE data[k - x]
  <2>1. /\ Len(q \o data) = Len(q) + Len(data)
        /\ \A k \in 1..Len(q) + Len(data) :
              (q \o data)[k] = IF k <= Len(q) THEN q[k] ELSE data[k - Len(q)]
    BY ConcatProperties
  <2> QED
    BY <1>1, <1>2, <2>1, Zenon
<1>4. ASSUME NEW k \in 1..x + m PROVE r[k] = <<"byte", c, 0 + k>>
  <2>1. CASE k <= x
    <3>1. k \in 1..Len(q)
      BY <2>1
    <3> QED
      BY <1>3, <2>1, <3>1 DEF Follow
  <2>2. CASE ~(k <= x)
    <3>1. k - x \in 1..Len(data) /\ x + (k - x) = 0 + k
      BY <1>2, <2>2
    <3>2. data[k - x] = <<"byte", c, x + (k - x)>>
      BY <3>1 DEF Follow
    <3> QED
      BY <1>3, <2>2, <3>1, <3>2
  <2> QED
    BY <2>1, <2>2
<1>5. Follow(r, c, 0)
  BY <1>3, <1>4 DEF Follow
<1> QED
  BY <1>1, <1>2, <1>3, <1>5

\* A payload has one read at a time.
LEMMA SingleRead ==
    ASSUME reads \in Seq(Read), Len(reads) = 1
    PROVE  reads[1] \in Read /\ Tail(reads) = <<>>
<1>1. PICK q \in Seq(Read) : q = reads
  OBVIOUS
<1>2. q # <<>> /\ Len(q) = 1
  BY <1>1, SMTT(30)
<1>3. Tail(q) \in Seq(Read) /\ Len(Tail(q)) = 0 /\ q[1] \in Read
  BY <1>2, Shorter
<1>4. Tail(q) = <<>>
  <2>1. PICK x \in Seq(Read) : x = Tail(q)
    BY <1>3
  <2>2. Len(x) = 0
    BY <1>3, <2>1
  <2> QED
    BY <2>1, <2>2
<1> QED
  BY <1>1, <1>3, <1>4

\* What a step does not change of a connection.
LEMMA StaysRested ==
    ASSUME NEW d, Rested(d), sent'[d] = sent[d], recv'[d] = recv[d], cb'[d] = cb[d]
    PROVE  Rested(d)'
BY Zenon DEF Rested, NotStarted, Stored

\* A part of a payload goes where the rest of it will follow.
LEMMA PayloadRead ==
    ASSUME Sound, NEW c \in Conns, NEW n \in 1..Len(line), InPayload(c, n),
           Attached, NoBytes, Resetting,
           NEW ch \in Piece, NEW store, NEW queue, Reading(ch, store, queue), line # <<>>,
           Skip(ch, store, queue) \/ Character(ch, store, queue) \/ PayloadPart(store, queue)
    PROVE  (Phase /\ Attached /\ NoBytes /\ Resetting)' /\ broken \subseteq broken'
<1>1. /\ callback_operation = "READING_PAYLOAD" /\ current_conn = c /\ ipd_idx = 0
      /\ Len(reads) = 1 /\ reads[1].n + conn[c].to_read = n
      /\ conn[c].cbuff = (c \in Buffered)
      /\ conn[c].cbuff => reads[1].dest = c /\ cb[c].started
      /\ ~conn[c].cbuff => reads[1].dest = READ_CH /\ NotStarted(c)
      /\ c \in link /\ Stored(c, n) /\ Others(c)
  BY DEF InPayload
<1>2. /\ UartTypes /\ reads \in Seq(Read) /\ line \in Seq(Piece) /\ n \in Nat
      /\ conn \in [Conns -> Connection] /\ conn[c] \in Connection
      /\ cb \in [Conns -> Buffer] /\ cb[c] \in Buffer
      /\ recv \in [Conns -> Seq(Piece)] /\ recv[c] \in Seq(Piece)
      /\ conn[c].to_read \in Nat /\ conn[c].cbuff \in BOOLEAN
  BY SMTT(30) DEF Sound, UartTypes, WellRead, ParserTypes, Connection
<1>3. PICK m \in Nat, t \in Nat : m = reads[1].n /\ m # 0 /\ t = conn[c].to_read
  <2>1. reads[1] \in Read
    BY <1>1, <1>2, SingleRead
  <2> QED
    BY <1>2, <2>1 DEF Read
<1>4. PICK s \in Nat : s = sent[c]
  BY DEF Sound, MainTypes
<1>5. n = m + t /\ m <= n
  BY <1>1, <1>3
<1>6. /\ m + t <= s /\ Len(line) = m + t /\ m <= Len(line)
      /\ \A k \in 1..m + t : line[k] = <<"byte", c, s - (m + t) + k>>
  <2>1. /\ sent[c] - n \in Nat /\ Len(line) = n
        /\ \A k \in 1..n : line[k] = <<"byte", c, sent[c] - n + k>>
    BY <1>2, PayloadOnLine
  <2> QED
    BY <1>4, <1>5, <2>1
<1>7. /\ queue = <<>> /\ UNCHANGED <<sent, link, todo, pc>>
      /\ line' = SubSeq(line, m + 1, Len(line))
      /\ store = IF reads[1].dest = READ_CH THEN cb
                 ELSE [cb EXCEPT ![reads[1].dest].data = SubSeq(line, 1, m)]
  <2>1. Tail(reads) = <<>>
    BY <1>1, <1>2, SingleRead
  <2> QED
    BY <1>3, <2>1 DEF Reading, module, main
<1>8. line' = Bytes(c, s - t, t)
  <2>1. PICK x \in Nat, y \in Nat : x = s - (m + t) /\ y = s - t
    BY <1>6
  <2>2. Follow(line, c, x) /\ y = x + m
    <3>1. Follow(line, c, s - (m + t))
      BY <1>6, Zenon DEF Follow
    <3> QED
      BY <1>6, <2>1, <3>1
  <2>3. line \in Seq(Piece) /\ Len(line) = m + t
    BY <1>2, <1>6
  <2>4. SubSeq(line, m + 1, Len(line)) = Bytes(c, y, t)
    <3>1. SubSeq(line, m + 1, Len(line)) = Bytes(c, x + m, Len(line) - m)
      <4>1. m <= Len(line) /\ Follow(line, c, x)
        BY <1>6, <2>2
      <4> QED
        BY <2>3, <4>1, BytesRest, Zenon
    <3>2. x + m = y /\ Len(line) - m = t
      BY <2>2, <2>3
    <3> QED
      BY <3>1, <3>2
  <2> QED
    BY <1>7, <2>1, <2>4, Zenon
<1>9. PICK data \in Seq(Piece) : /\ data = SubSeq(line, 1, m) /\ Len(data) = m
                                 /\ \A k \in 1..m : data[k] = line[k]
  <2>1. m \in Int /\ ~(m < 0)
    OBVIOUS
  <2>2. /\ SubSeq(line, 1, m) \in Seq(Piece)
        /\ Len(SubSeq(line, 1, m)) = IF m < 0 THEN 0 ELSE m
        /\ \A k \in 1..m : SubSeq(line, 1, m)[k] = line[k]
    BY <1>2, <1>6, <2>1, FrontOf, Zenon
  <2> QED
    BY <2>1, <2>2, Zenon
<1>10. c # READ_CH
  BY AtAssumption DEF Conns, READ_CH
<1>11. /\ store \in [Conns -> Buffer] /\ \A d \in Conns \ {c} : store[d] = cb[d]
       /\ conn[c].cbuff => store[c].started /\ store[c].data = data
       /\ ~conn[c].cbuff => store[c] = cb[c]
  <2>1. CASE conn[c].cbuff
    <3>1. store = [cb EXCEPT ![c].data = data]
      BY <1>1, <1>7, <1>9, <1>10, <2>1
    <3>2. store \in [Conns -> Buffer] /\ \A d \in Conns \ {c} : store[d] = cb[d]
      BY <1>2, <3>1 DEF Buffer
    <3>3. store[c] = [cb[c] EXCEPT !.data = data]
      BY <1>2, <3>1
    <3>4. store[c].started = cb[c].started /\ store[c].data = data
      BY <1>2, <3>3 DEF Buffer
    <3> QED
      BY <1>1, <2>1, <3>2, <3>4
  <2>2. CASE ~conn[c].cbuff
    <3>1. store = cb
      BY <1>1, <1>7, <2>2
    <3> QED
      BY <1>2, <2>2, <3>1
  <2> QED
    BY <2>1, <2>2
<1>12. PayloadPart(store, queue)
  BY <1>1 DEF Skip, Character
<1>13. PICK b \in Buffer : /\ b = IF conn[c].cbuff THEN EndWrite(store[c]) ELSE store[c]
                           /\ ~b.started
  <2>1. CASE conn[c].cbuff
    BY <1>11, <2>1, EndWriteBuffer
  <2>2. CASE ~conn[c].cbuff
    BY <1>1, <1>2, <1>11, <2>2 DEF NotStarted
  <2> QED
    BY <2>1, <2>2
<1>14. /\ recv' = IF conn[c].cbuff /\ store[c].started
                  THEN [recv EXCEPT ![c] = @ \o store[c].data] ELSE recv
       /\ \/ /\ t = 0
             /\ callback_operation' = "READING_RESPONSES"
             /\ cb' = [store EXCEPT ![c] = b] /\ reads' = ReadChar(queue) /\ conn' = conn
          \/ /\ t # 0
             /\ StartConnRead(c, conn[c], b, queue)
             /\ UNCHANGED <<callback_operation, current_conn>>
       /\ UNCHANGED <<ipd_idx, result, broken>>
  BY <1>1, <1>3, <1>12, <1>13 DEF PayloadPart, LastPart, res
<1>15. Stored(c, t)' /\ \A d \in Conns \ {c} : recv'[d] = recv[d]
  <2>1. CASE conn[c].cbuff
    <3>1. recv' = [recv EXCEPT ![c] = recv[c] \o data]
      BY <1>11, <1>14, <2>1
    <3>2. recv'[c] = recv[c] \o data /\ \A d \in Conns \ {c} : recv'[d] = recv[d]
      BY <1>2, <3>1
    <3>3. c \in Buffered /\ Len(recv[c]) + (m + t) = s
          /\ \A k \in 1..Len(recv[c]) : recv[c][k] = <<"byte", c, k>>
      BY <1>1, <1>4, <1>5, <2>1 DEF Stored
    <3>4. PICK x \in Nat : x = s - (m + t)
      BY <1>6
    <3>5. Follow(data, c, x) /\ Follow(recv[c], c, 0) /\ x = Len(recv[c])
      <4>1. \A k \in 1..m : data[k] = <<"byte", c, x + k>>
        <5>1. \A k \in 1..m : k \in 1..m + t
          OBVIOUS
        <5> QED
          BY <1>6, <1>9, <3>4, <5>1, Zenon
      <4>2. Follow(data, c, x)
        BY <1>9, <4>1, Zenon DEF Follow
      <4>3. Follow(recv[c], c, 0)
        <5>1. \A k \in 1..Len(recv[c]) : 0 + k = k
          BY <1>2
        <5> QED
          BY <3>3, <5>1, Zenon DEF Follow
      <4>4. x = Len(recv[c])
        <5>1. PICK l \in Nat : l = Len(recv[c])
          BY <1>2
        <5>2. l + (m + t) = s
          BY <3>3, <5>1
        <5>3. x = l
          BY <3>4, <5>2
        <5> QED
          BY <5>1, <5>3
      <4> QED
        BY <4>2, <4>3, <4>4
    <3>6. PICK r : r = recv[c] \o data /\ Len(r) + t = s /\ Follow(r, c, 0)
      <4>1. Len(recv[c] \o data) = Len(recv[c]) + Len(data) /\ Follow(recv[c] \o data, c, 0)
        BY <1>2, <3>5, PartStored
      <4>2. Len(recv[c] \o data) + t = s
        BY <1>2, <1>9, <3>3, <4>1
      <4> QED
        BY <4>1, <4>2
    <3>7. Stored(c, t)'
      <4>1. recv'[c] = r /\ sent'[c] = s
        BY <1>4, <1>7, <3>2, <3>6
      <4>2. \A k \in 1..Len(r) : r[k] = <<"byte", c, k>>
        BY <3>6, SMTT(30) DEF Follow
      <4> QED
        BY <3>6, <4>1, <4>2, Zenon DEF Stored
    <3> QED
      BY <3>2, <3>7
  <2>2. CASE ~conn[c].cbuff
    BY <1>1, <1>14, <2>2 DEF Stored
  <2> QED
    BY <2>1, <2>2
<1>16. NoBytes'
  BY <1>14 DEF NoBytes
<1>17. \A d \in Conns : ~InClosing(d)
  BY <1>1 DEF InClosing
<1>18. CASE t = 0
  <2>1. /\ callback_operation' = "READING_RESPONSES" /\ conn' = conn
        /\ cb' = [store EXCEPT ![c] = b] /\ reads' = ReadChar(queue)
    BY <1>14, <1>18
  <2>2. OneChar'
    <3>1. WellRead(queue) /\ Len(queue) <= 2
      BY <1>7 DEF WellRead
    <3> QED
      BY <1>7, <2>1, <3>1, ReadCharSound DEF OneChar
  <2>3. line' \in Seq(Plain)
    <3>1. line' = <<>>
      BY <1>8, <1>18 DEF Bytes
    <3> QED
      BY <3>1
  <2>4. cb'[c] = b /\ \A d \in Conns \ {c} : cb'[d] = cb[d]
    BY <1>11, <2>1
  <2>5. \A d \in Conns : Rested(d)'
    <3>1. Rested(c)'
      BY <1>13, <1>15, <1>18, <2>4 DEF Rested, NotStarted
    <3>2. ASSUME NEW d \in Conns \ {c} PROVE Rested(d)'
      BY <1>1, <1>7, <1>15, <2>4, StaysRested DEF Others
    <3> QED
      BY <3>1, <3>2
  <2>6. Between'
    BY <1>1, <1>14, <2>1, <2>2, <2>3, <2>5, SMTT(30) DEF Between
  <2>7. Attached'
    BY <1>7, <1>14, <1>17, <2>1 DEF Attached, Uncut
  <2>8. Resetting'
    BY <1>7, <2>1, ReadResetting
  <2> QED
    BY <1>14, <1>16, <2>6, <2>7, <2>8 DEF Phase
<1>19. CASE t # 0
  <2>1. StartConnRead(c, conn[c], b, <<>>) /\ UNCHANGED <<callback_operation, current_conn>>
    BY <1>7, <1>14, <1>19
  <2>2. /\ Len(reads') = 1 /\ reads'[1].n + conn'[c].to_read = t
        /\ conn'[c].cbuff = conn[c].cbuff /\ conn'[c].active = conn[c].active
        /\ \A d \in Conns \ {c} : conn'[d] = conn[d] /\ cb'[d] = cb[d]
        /\ conn[c].cbuff => reads'[1].dest = c /\ cb'[c].started
        /\ ~conn[c].cbuff => reads'[1].dest = READ_CH /\ cb'[c] = b
    BY <1>2, <1>3, <1>13, <1>19, <2>1, StartsPart
  <2>3. Others(c)'
    BY <1>1, <1>7, <1>15, <2>2, StaysRested DEF Others
  <2>4. sent'[c] = s /\ t <= s /\ c \in link'
    BY <1>1, <1>4, <1>6, <1>7, SMTT(30)
  <2>5. InPayload(c, t)'
    BY <1>1, <1>8, <1>13, <1>14, <1>15, <2>1, <2>2, <2>3, <2>4 DEF InPayload, NotStarted
  <2>6. t \in 1..Len(line')
    <3>1. PICK x \in Nat : x = s - t
      BY <2>4
    <3>2. Len(line') = t
      BY <1>8, <3>1, BytesOf, SMTT(30)
    <3> QED
      BY <1>19, <3>2
  <2>7. Attached'
    BY <1>7, <1>14, <1>17, <2>2 DEF Attached, Uncut
  <2>8. Resetting'
    BY <1>7, <2>1, ReadResetting
  <2> QED
    BY <1>14, <1>16, <2>5, <2>6, <2>7, <2>8, SMTT(30) DEF Phase
<1> QED
  BY <1>18, <1>19

\* One connection closes at a time.
LEMMA OneCloses ==
    ASSUME NEW c \in Conns, NEW d \in Conns, Uncut, InClosing(c), InClosing(d)
    PROVE  d = c
<1>1. CASE line[1] = <<"id", c>>
  <2>1. line[1] = <<"id", d>>
    BY <1>1, ClosingOnLine
  <2> QED
    BY <1>1, <2>1
<1>2. CASE line[1] = <<"clo">>
  <2>1. \A e \in {c, d} : line # <<<<"id", e>>, <<"clo">>, <<"sed">>>> /\ line # <<<<"sed">>>>
    BY <1>2
  <2>2. result[Len(result)] = <<"id", c>> /\ result[Len(result)] = <<"id", d>>
    BY <2>1 DEF InClosing
  <2> QED
    BY <2>2
<1>3. CASE line[1] = <<"sed">>
  <2>1. \A e \in {c, d} : line # <<<<"id", e>>, <<"clo">>, <<"sed">>>> /\ line # <<<<"clo">>, <<"sed">>>>
    BY <1>3
  <2>2. result[Len(result) - 1] = <<"id", c>> /\ result[Len(result) - 1] = <<"id", d>>
    BY <2>1 DEF InClosing
  <2> QED
    BY <2>2
<1> QED
  BY <1>1, <1>2, <1>3, ClosingOnLine, Zenon

\* "c,CLOSED" is read.
LEMMA ClosingRead ==
    ASSUME Sound, Framed, NEW c \in Conns, InClosing(c), Attached, NoBytes, Resetting,
           NEW ch \in Piece, NEW store, NEW queue, Reading(ch, store, queue), line # <<>>,
           Skip(ch, store, queue) \/ Character(ch, store, queue) \/ PayloadPart(store, queue)
    PROVE  (Phase /\ Attached /\ NoBytes /\ Resetting)' /\ broken \subseteq broken'
<1>1. /\ UartTypes /\ ResultTypes /\ ParserTypes /\ OneChar /\ ipd_idx = 0
      /\ \A d \in Conns : Rested(d)
      /\ callback_operation \in {"WAITING_SEND", "READING_RESPONSES"}
      /\ result \in Seq(KeptPiece) /\ Len(result) \in Nat
  BY DEF Sound, InClosing, ResultTypes
<1>2. /\ ch = line[1] /\ store = cb /\ line' = SubSeq(line, 2, Len(line))
      /\ UNCHANGED <<sent, link, todo, pc>>
  BY <1>1, OneCharRead
<1>3. Character(ch, store, queue)
  BY <1>1 DEF Skip, PayloadPart
<1>4. \/ ch = <<"id", c>> /\ line' = <<<<"clo">>, <<"sed">>>>
      \/ ch = <<"clo">> /\ line' = <<<<"sed">>>>
      \/ ch = <<"sed">> /\ line' = <<>>
  BY <1>2, ClosingOnLine, Zenon
<1>5. ~HeaderDone(ch) /\ HeaderIdx(ch) = 0 /\ ch[1] # "byte" /\ ch # <<"prompt">>
  BY <1>1, <1>4 DEF HeaderDone, HeaderIdx
<1>6. /\ OneChar' /\ UNCHANGED <<cb, recv>> /\ ipd_idx' = 0
      /\ callback_operation' \in {"WAITING_SEND", "READING_RESPONSES"}
      /\ broken \subseteq broken'
      /\ ch # <<"sed">> => conn' = conn
  BY <1>1, <1>3, <1>5, CharacterKeeps
<1>7. NoBytes' /\ Resetting'
  BY <1>2, <1>3, <1>5, <1>6, CharacterNoBytes, ReadResetting
<1>8. \A d \in Conns : Rested(d)'
  BY <1>1, <1>2, <1>6, StaysRested
<1>9. /\ Uncut' => Uncut
      /\ Uncut => \A d \in Conns : conn[d].active => d \in link \/ d = c
  BY <1>6, BrokenGrows, OneCloses DEF Attached
<1>10. Uncut' => \/ ~Full /\ async_idx = 1 /\ ch = <<"sed">> /\ ClosedMessage
                 \/ ~Full /\ ~(async_idx = 1 /\ ch = <<"sed">>) /\ OtherCharacter(ch)
  <2>1. \/ Full /\ Overflow(ch)
        \/ ~Full /\ async_idx = 1 /\ ch = <<"sed">> /\ ClosedMessage
        \/ ~Full /\ ~(async_idx = 1 /\ ch = <<"sed">>) /\ OtherCharacter(ch)
    BY <1>3, <1>5, Zenon DEF Character, PayloadBegins
  <2>2. Overflow(ch) => ~Uncut'
    BY DEF Overflow, Uncut
  <2> QED
    BY <2>1, <2>2
<1>11. ASSUME Uncut', ch # <<"sed">>
       PROVE  /\ Len(result') = Len(result) + 1 /\ result'[Len(result')] = Kept(ch)
              /\ \A k \in 1..Len(result) : result'[k] = result[k]
              /\ async_idx' = IF ch = <<"clo">> THEN 1 ELSE 0
  <2>1. ~Full /\ OtherCharacter(ch)
    BY <1>10, <1>11
  <2>2. /\ Len(result') = Len(result) + 1 /\ result'[Len(result) + 1] = Kept(ch)
        /\ \A k \in 1..Len(result) : result'[k] = result[k]
    BY <1>1, <2>1, OtherCharacterSound
  <2> QED
    BY <2>1, <2>2 DEF OtherCharacter
<1>12. ASSUME InClosing(c)', ch # <<"sed">> PROVE (Phase /\ Attached)'
  <2>1. Attached'
    BY <1>2, <1>6, <1>9, <1>12 DEF Attached
  <2> QED
    BY <1>12, <2>1 DEF Phase
<1>13. CASE ch = <<"id", c>>
  <2>1. ch # <<"sed">> /\ line' = <<<<"clo">>, <<"sed">>>> /\ Kept(ch) = <<"id", c>>
    BY <1>4, <1>13 DEF Kept
  <2>2. ASSUME Uncut' PROVE result' # <<>> /\ result'[Len(result')] = <<"id", c>>
    <3>1. Len(result') = Len(result) + 1 /\ result'[Len(result')] = <<"id", c>>
      BY <1>11, <2>1, <2>2
    <3>2. result' # <<>>
      BY <1>1, <3>1
    <3> QED
      BY <3>1, <3>2
  <2>3. InClosing(c)'
    BY <1>6, <1>8, <2>1, <2>2, Zenon DEF InClosing
  <2> QED
    BY <1>6, <1>7, <1>12, <2>1, <2>3
<1>14. CASE ch = <<"clo">>
  <2>1. ch # <<"sed">> /\ line' = <<<<"sed">>>>
    BY <1>4, <1>14
  <2>2. Uncut => result # <<>> /\ result[Len(result)] = <<"id", c>>
    <3>1. line # <<<<"id", c>>, <<"clo">>, <<"sed">>>> /\ line # <<<<"sed">>>>
      <4>1. ch[1] = "clo" /\ line[1] = ch
        BY <1>2, <1>14
      <4>2. line = <<<<"id", c>>, <<"clo">>, <<"sed">>>> => line[1][1] = "id"
        OBVIOUS
      <4>3. line = <<<<"sed">>>> => line[1][1] = "sed"
        OBVIOUS
      <4> QED
        BY <4>1, <4>2, <4>3
    <3> QED
      BY <3>1, Zenon DEF InClosing
  <2>3. ASSUME Uncut'
        PROVE  async_idx' = 1 /\ Len(result') >= 2 /\ result'[Len(result') - 1] = <<"id", c>>
    <3>1. result # <<>> /\ result[Len(result)] = <<"id", c>>
      BY <1>9, <2>2, <2>3
    <3>2. PICK a \in Nat : a = Len(result) /\ a >= 1
      BY <1>1, <3>1
    <3>3. /\ Len(result') = a + 1 /\ async_idx' = 1
          /\ result'[a] = result[a]
      BY <1>11, <1>14, <2>1, <2>3, <3>2
    <3> QED
      BY <3>1, <3>2, <3>3
  <2>4. InClosing(c)'
    BY <1>6, <1>8, <2>1, <2>3, Zenon DEF InClosing
  <2> QED
    BY <1>6, <1>7, <1>12, <2>1, <2>4
<1>15. CASE ch = <<"sed">>
  <2>1. line' = <<>>
    BY <1>4, <1>15
  <2>2. Between'
    <3>1. <<>> \in Seq(Plain)
      OBVIOUS
    <3> QED
      BY <1>6, <1>8, <2>1, <3>1 DEF Between
  <2>3. conn' = conn \/ (ClosedId \in Conns /\ conn' = [conn EXCEPT ![ClosedId].active = FALSE, ![ClosedId].cbuff = FALSE])
    <3>1. Full /\ Overflow(ch) => conn' = conn
      BY DEF Overflow
    <3>2. ~Full /\ OtherCharacter(ch) => conn' = conn
      BY DEF OtherCharacter
    <3>3. ClosedMessage => conn' = conn \/ (ClosedId >= 0 /\ conn' = [conn EXCEPT ![ClosedId].active = FALSE, ![ClosedId].cbuff = FALSE])
      BY DEF ClosedMessage
    <3>4. ClosedId >= 0 => ClosedId \in Conns
      BY <1>1, ClosedIdConn
    <3>5. ~PayloadBegins(ch, store, queue)
      BY <1>5 DEF PayloadBegins
    <3> QED
      BY <1>3, <1>5, <3>1, <3>2, <3>3, <3>4, <3>5, CharacterCases
  <2>4. conn \in [Conns -> Connection]
    BY <1>1 DEF ParserTypes
  <2>5. ASSUME NEW d \in Conns
        PROVE  /\ conn'[d].active = conn'[d].cbuff /\ (conn'[d].cbuff => d \in Buffered)
               /\ conn'[d].active => conn[d].active
    <3>1. conn[d].active = conn[d].cbuff /\ (conn[d].cbuff => d \in Buffered)
      BY DEF Attached
    <3>2. CASE conn'[d] = conn[d]
      BY <3>1, <3>2
    <3>3. CASE conn'[d] # conn[d]
      <4>1. /\ ClosedId \in Conns /\ d = ClosedId
            /\ conn' = [conn EXCEPT ![ClosedId].active = FALSE, ![ClosedId].cbuff = FALSE]
        BY <2>3, <2>4, <3>3
      <4>2. conn'[d].active = FALSE /\ conn'[d].cbuff = FALSE
        BY <2>4, <4>1 DEF Connection
      <4> QED
        BY <4>2
    <3> QED
      BY <3>2, <3>3
  <2>6. ASSUME Uncut' PROVE ~conn'[c].active
    <3>1. async_idx = 1 /\ Len(result) >= 2 /\ result[Len(result) - 1] = <<"id", c>>
      <4>1. line # <<<<"id", c>>, <<"clo">>, <<"sed">>>> /\ line # <<<<"clo">>, <<"sed">>>>
        <5>1. ch[1] = "sed" /\ line[1] = ch
          BY <1>2, <1>15
        <5>2. line = <<<<"id", c>>, <<"clo">>, <<"sed">>>> => line[1][1] = "id"
          OBVIOUS
        <5>3. line = <<<<"clo">>, <<"sed">>>> => line[1][1] = "clo"
          OBVIOUS
        <5> QED
          BY <5>1, <5>2, <5>3
      <4> QED
        BY <1>9, <2>6, <4>1 DEF InClosing
    <3>2. lack = 0
      BY <1>9, <2>6 DEF Framed, Tails
    <3>3. ClosedId = c
      BY <1>1, <3>1, <3>2 DEF ClosedId
    <3>4. ClosedMessage /\ c >= 0 /\ ~(c < 0)
      BY <1>10, <1>15, <2>6, <3>1 DEF Conns
    <3>5. conn' = [conn EXCEPT ![c].active = FALSE, ![c].cbuff = FALSE]
      BY <3>3, <3>4 DEF ClosedMessage
    <3> QED
      BY <2>4, <3>5 DEF Connection
  <2>7. Attached'
    <3>1. ASSUME NEW d \in Conns, Uncut', conn'[d].active PROVE d \in link'
      BY <1>2, <1>9, <2>5, <2>6, <3>1
    <3> QED
      BY <2>5, <3>1 DEF Attached
  <2> QED
    BY <1>6, <1>7, <2>2, <2>7 DEF Phase
<1> QED
  BY <1>4, <1>13, <1>14, <1>15

\* at_callback never forgets what went wrong.
LEMMA ReadDoneBroken ==
    ASSUME Sound, NEW ch \in Piece, NEW store, NEW queue,
           Skip(ch, store, queue) \/ Character(ch, store, queue) \/ PayloadPart(store, queue)
    PROVE  broken \subseteq broken'
<1>1. Skip(ch, store, queue) \/ PayloadPart(store, queue) => broken' = broken
  BY DEF Skip, PayloadPart
<1>2. \A n : Shorten(n) => broken \subseteq broken'
  BY DEF Shorten
<1>3. PayloadBegins(ch, store, queue) => broken \subseteq broken'
  BY <1>2 DEF PayloadBegins
<1>4. ClosedMessage => broken \subseteq broken'
  BY <1>2 DEF ClosedMessage
<1>5. Overflow(ch) \/ OtherCharacter(ch) => broken \subseteq broken'
  BY DEF Overflow, OtherCharacter
<1> QED
  BY <1>1, <1>3, <1>4, <1>5, CharacterCases

\* at_callback follows what the module sends.
LEMMA ReadDoneInStep ==
    ASSUME Sound, Framed, InStep, ReadDone
    PROVE  InStep'
<1>1. UartTypes
  BY DEF Sound
<1>2. PICK ch \in Piece, store \in [Conns -> Buffer], queue \in Seq(Read) :
              /\ Reading(ch, store, queue) /\ line # <<>>
              /\ Skip(ch, store, queue) \/ Character(ch, store, queue) \/ PayloadPart(store, queue)
  BY <1>1, ReadDoneParts
<1>3. broken \subseteq broken'
  BY <1>2, ReadDoneBroken
<1> SUFFICES ASSUME Clean' PROVE (Phase /\ Attached /\ NoBytes /\ Resetting)'
  BY DEF InStep
<1>4. Phase /\ Attached /\ NoBytes /\ Resetting
  BY <1>3, BrokenGrows DEF InStep
<1>5. CASE Between
  BY <1>2, <1>4, <1>5, BetweenRead
<1>6. CASE Echoing
  BY <1>2, <1>4, <1>6, EchoingRead
<1>7. ASSUME NEW c \in Conns, InClosing(c) PROVE (Phase /\ Attached /\ NoBytes /\ Resetting)'
  BY <1>2, <1>4, <1>7, ClosingRead
<1>8. ASSUME NEW c \in Conns, NEW n \in Lengths, InHeader(c, n)
      PROVE  (Phase /\ Attached /\ NoBytes /\ Resetting)'
  BY <1>2, <1>4, <1>8, HeaderRead, LengthRead
<1>9. ASSUME NEW c \in Conns, NEW n \in 1..Len(line), InPayload(c, n)
      PROVE  (Phase /\ Attached /\ NoBytes /\ Resetting)'
  BY <1>2, <1>4, <1>9, PayloadRead
<1> QED
  BY <1>4, <1>5, <1>6, <1>7, <1>8, <1>9 DEF Phase

\* When at_init has succeeded, nothing has been sent.
LEMMA InitInStep ==
    ASSUME Init
    PROVE  InStep
<1>1. OneChar /\ <<>> \in Seq(Plain)
  BY DEF Init, ReadChar, Submit, OneChar
<1>2. \A c \in Conns : Rested(c)
  BY DEF Init, Rested, NotStarted, Stored
<1>3. Between
  BY <1>1, <1>2 DEF Init, Between
<1>4. Attached
  BY DEF Init, Attached, NoConn
<1>5. NoBytes /\ Resetting
  BY DEF Init, NoBytes, Resetting
<1> QED
  BY <1>3, <1>4, <1>5 DEF InStep, Phase

LEMMA StutterInStep ==
    ASSUME Sound, InStep, UNCHANGED vars
    PROVE  InStep'
<1>1. /\ UNCHANGED <<callback_operation, conn, current_conn, ipd_idx, async_idx, result, lack>>
      /\ UNCHANGED <<cb, reads, line, todo, link, sent, pc, cmd, stage, ret, recv, broken>>
      /\ UNCHANGED <<is_wifi_connected, nevents>>
  BY DEF vars, parser, res, uart, module, main, history
<1>2. Keep
  BY <1>1 DEF Keep, uart
<1>3. Echoing => Echoing'
  <2>1. \A c \in Conns : Rested(c) => Rested(c)'
    BY <1>2, KeptPhases
  <2> QED
    BY <1>1, <2>1 DEF Echoing, Idling, OneChar
<1>4. NoBytes => NoBytes'
  BY <1>1 DEF NoBytes
<1>5. Resetting => Resetting'
  BY <1>1 DEF Resetting
<1>6. Clean' => Clean
  BY <1>1 DEF Clean
<1> QED
  BY <1>1, <1>2, <1>3, <1>4, <1>5, <1>6, ApplicationInStep DEF InStep

-----------------------------------------------------------------------------
(* What is in step is kept apart.                                          *)

\* As long as send_cmd does not overwrite READING_PAYLOAD and the line is good, the
\* parser, the reads it has submitted and the circular buffers are where the message
\* that the module is sending says.
THEOREM AtInStepInvariance == Spec => []InStep
<1>1. Init => InStep
  BY InitInStep
<1>2. Sound /\ Framed /\ InStep /\ [Next]_vars => InStep'
  <2> SUFFICES ASSUME Sound, Framed, InStep, [Next]_vars PROVE InStep'
    OBVIOUS
  <2>1. CASE UartError
    BY <2>1 DEF UartError, InStep, Clean
  <2>2. CASE Application
    BY <2>2, ExpectPromptInStep, PollInStep, TimedOutInStep, TrimInStep, PromptInStep,
       LastStepsInStep, ReadyInStep, FinishInStep DEF Application
  <2> QED
    BY <2>1, <2>2, RunCmdInStep, ReadDoneInStep, AnswerInStep, NetworkChangesInStep,
       PeerClosesInStep, PeerSendsInStep, StutterInStep DEF Next
<1> QED
  BY <1>1, <1>2, AtSoundInvariance, AtFramedInvariance, PTL DEF Spec

\* In every phase, what has been stored for a connection is a prefix of what its peer
\* sent.
LEMMA PhaseStored ==
    ASSUME Phase, NEW c \in Conns
    PROVE  \E owed : Stored(c, owed)
<1>1. \A d \in Conns : Rested(d) => Stored(d, 0)
  BY DEF Rested
<1>2. CASE Between \/ Echoing \/ \E d \in Conns : InClosing(d)
  <2>1. Rested(c)
    BY <1>2 DEF Between, Echoing, InClosing
  <2> QED
    BY <1>1, <2>1
<1>3. ASSUME NEW d \in Conns, NEW n, InHeader(d, n) \/ InPayload(d, n)
      PROVE  \E owed : Stored(c, owed)
  <2>1. Stored(d, n) /\ Others(d)
    BY <1>3 DEF InHeader, InPayload
  <2>2. CASE c = d
    BY <2>1, <2>2
  <2>3. CASE c # d
    BY <1>1, <2>1, <2>3 DEF Others
  <2> QED
    BY <2>2, <2>3
<1> QED
  BY <1>2, <1>3 DEF Phase

\* What at_callback stores in the circular buffer of a connection is what its peer sent,
\* in order, and no byte of a payload is taken for a part of a response, as long as the
\* application does not overwrite READING_PAYLOAD and the line is good.
THEOREM AtPayloadKeptApart == Spec => []PayloadKeptApart
<1>1. InStep => PayloadKeptApart
  <2> SUFFICES ASSUME InStep, Clean
               PROVE  /\ \A c \in Buffered : \A k \in 1..Len(recv[c]) : recv[c][k] = <<"byte", c, k>>
                      /\ \A k \in 1..Len(result) : result[k][1] # "byte"
    BY DEF PayloadKeptApart, Clean
  <2>1. Phase /\ NoBytes
    BY DEF InStep
  <2>2. ASSUME NEW c \in Buffered
        PROVE  \A k \in 1..Len(recv[c]) : recv[c][k] = <<"byte", c, k>>
    <3>1. c \in Conns
      BY AtAssumption
    <3>2. PICK owed : Stored(c, owed)
      BY <2>1, <3>1, PhaseStored
    <3> QED
      BY <3>2 DEF Stored
  <2> QED
    BY <2>1, <2>2 DEF NoBytes
<1> QED
  BY <1>1, AtInStepInvariance, PTL

\* When everything the module sent has been read, a connection that it has closed is not
\* active, unless the application changed the result inside a message or it was full.
THEOREM AtClosedIsSeen == Spec => []ClosedIsSeen
<1>1. Sound /\ InStep => ClosedIsSeen
  <2> SUFFICES ASSUME Sound, InStep, line = <<>>, Uncut, NEW c \in Conns, conn[c].active
               PROVE  c \in link
    BY DEF ClosedIsSeen, Uncut
  <2>1. Phase /\ Attached
    BY DEF InStep, Clean, Uncut
  <2>2. ~InClosing(c)
    BY <2>1, EmptyLine
  <2> QED
    BY <2>1, <2>2 DEF Attached
<1> QED
  BY <1>1, AtSoundInvariance, AtInStepInvariance, PTL
=============================================================================
