----------------------------- MODULE ByteStream -----------------------------
(***************************************************************************)
(* What a loss-free circular buffer promises its two users, with no        *)
(* pointers, no spin counters and no memory: the bytes put in are numbered *)
(* in order, and they come out one at a time, in that order, each once,    *)
(* never before they were put in and never more than Capacity behind.      *)
(***************************************************************************)
EXTENDS Integers

CONSTANT Capacity   \* size of the buffer in bytes

VARIABLES
    sent,   \* number of bytes put into the stream
    got     \* number of the last byte taken out, -1 before the first

streamVars == <<sent, got>>

StreamInit == sent = 0 /\ got = -1

\* The producer adds n bytes.
Put(n) ==
    /\ sent + n - (got + 1) <= Capacity
    /\ sent' = sent + n
    /\ UNCHANGED got

\* The consumer takes the next byte.
Get ==
    /\ got + 1 < sent
    /\ got' = got + 1
    /\ UNCHANGED sent

\* The stream is torn down and started again.
Restart ==
    /\ sent' = 0
    /\ got' = -1

StreamNext == (\E n \in 1..Capacity : Put(n)) \/ Get \/ Restart

StreamSpec == StreamInit /\ [][StreamNext]_streamVars
=============================================================================
