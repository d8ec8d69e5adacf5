---------------------------- MODULE ListSequence ----------------------------
(***************************************************************************)
(* What include/list.h promises, with no pointers: a list is a sequence,   *)
(* an iterator is a place in it, and every call takes effect at once at    *)
(* the place it names.  An iterator stays on its element while others come *)
(* and go around it.                                                       *)
(***************************************************************************)
EXTENDS Integers, Sequences, SequencesExt

CONSTANTS
    Data,       \* what the elements hold
    NoData,     \* NULL
    Rank,       \* the order of the comparator: a function on Data
    Iters,      \* the iterators of the application
    Calls       \* the calls an application makes

VARIABLES
    live,       \* the list exists
    items,      \* its contents
    at,         \* at[i]: the place of iterator i, or one of the values below
    call,       \* the call in progress, or the last one
    ret         \* its result

vars == <<live, items, at, call, ret>>

Nowhere == 0    \* the iterator is on no element
Lost == -1      \* its element was removed by another call
Absent == -2    \* there is no such iterator

Pending == [done |-> FALSE, ok |-> FALSE, data |-> NoData]
Result(ok, data) == [done |-> TRUE, ok |-> ok, data |-> data]

Init ==
    /\ live = FALSE /\ items = <<>>
    /\ at = [i \in Iters |-> Absent]
    /\ call = [kind |-> "none", where |-> "list", it |-> "none", arg |-> 0, data |-> NoData]
    /\ ret = Result(TRUE, NoData)

-----------------------------------------------------------------------------
(* Places.                                                                 *)

\* The first of some places, or Nowhere.
FirstOf(S) == IF S = {} THEN Nowhere ELSE CHOOSE p \in S : \A q \in S : p <= q

Matching(d) == FirstOf({p \in DOMAIN items : Rank[items[p]] = Rank[d]})
Greater(d) == FirstOf({p \in DOMAIN items : Rank[items[p]] > Rank[d]})

\* The place of the element that a call names.
Place ==
    CASE call.where = "first" -> IF items = <<>> THEN Nowhere ELSE 1
      [] call.where = "last" -> Len(items)
      [] call.where = "idx" -> IF call.arg < Len(items) THEN call.arg + 1 ELSE Nowhere
      [] call.where = "find" -> Matching(call.arg)
      [] call.where = "it" -> at[call.it]

\* The place that a new element is to have; Nowhere if the call is refused.
NewPlace ==
    CASE call.where = "first" \/ items = <<>> -> 1
      [] call.where = "last" /\ items # <<>> -> Len(items) + 1
      [] call.where = "idx" /\ items # <<>> ->
            IF call.arg <= Len(items) THEN call.arg + 1 ELSE Nowhere
      [] call.where = "find" /\ items # <<>> ->
            IF Greater(call.data) = Nowhere THEN Len(items) + 1 ELSE Greater(call.data)
      [] call.where = "it" /\ items # <<>> -> at[call.it] + call.arg

\* The iterators after an element came to place p, and after the one at p left: the
\* iterator it that removed it goes on to the next element.
Shifted(p) == [i \in Iters |-> IF at[i] >= p THEN at[i] + 1 ELSE at[i]]
Closed(p, it) ==
    [i \in Iters |->
        CASE i = it -> IF p = Len(items) THEN Nowhere ELSE p
          [] i # it /\ at[i] = p -> Lost
          [] i # it /\ at[i] > p -> at[i] - 1
          [] OTHER -> at[i]]

-----------------------------------------------------------------------------
(* The calls.                                                              *)

Start(c) ==
    /\ ret.done
    /\ call' = c /\ ret' = Pending
    /\ UNCHANGED <<live, items, at>>

Doing(kind) == ~ret.done /\ call.kind = kind /\ UNCHANGED call

\* An element is added, or there is no memory or no such place.
Add ==
    /\ Doing("add") /\ UNCHANGED live
    /\ \/ /\ NewPlace # Nowhere
          /\ items' = InsertAt(items, NewPlace, call.data)
          /\ at' = Shifted(NewPlace)
          /\ ret' = Result(TRUE, NoData)
       \/ ret' = Result(FALSE, NoData) /\ UNCHANGED <<items, at>>

Edit ==
    /\ Doing("edit") /\ UNCHANGED <<live, at>>
    /\ items' = IF Place = Nowhere THEN items ELSE ReplaceAt(items, Place, call.data)
    /\ ret' = Result(Place # Nowhere, NoData)

Read ==
    /\ Doing("read") /\ UNCHANGED <<live, items, at>>
    /\ ret' = IF Place = Nowhere THEN Result(FALSE, NoData) ELSE Result(TRUE, items[Place])

Get ==
    /\ Doing("get") /\ UNCHANGED live
    /\ IF Place = Nowhere
       THEN ret' = Result(FALSE, NoData) /\ UNCHANGED <<items, at>>
       ELSE /\ ret' = Result(TRUE, items[Place])
            /\ items' = RemoveAt(items, Place)
            /\ at' = Closed(Place, call.it)

GetSize ==
    /\ Doing("size") /\ UNCHANGED <<live, items, at>>
    /\ ret' = Result(TRUE, Len(items))

\* The iterator goes to place p, or stays where it is if there is none.
GoTo(p) ==
    /\ UNCHANGED <<live, items>>
    /\ at' = IF p \in DOMAIN items THEN [at EXCEPT ![call.it] = p] ELSE at
    /\ ret' = Result(p \in DOMAIN items, NoData)

Move == Doing("move") /\ GoTo(IF Place = Nowhere THEN Nowhere ELSE Place + call.arg)
Find == Doing("find") /\ GoTo(Matching(call.arg))

NewIterator ==
    /\ Doing("iterator") /\ UNCHANGED <<live, items>>
    /\ at' = [at EXCEPT ![call.it] =
                 IF items = <<>> THEN Nowhere ELSE IF call.arg = 1 THEN 1 ELSE Len(items)]
    /\ ret' = Result(TRUE, NoData)

NoIterator ==
    /\ Doing("drop") /\ UNCHANGED <<live, items>>
    /\ at' = [at EXCEPT ![call.it] = Absent]
    /\ ret' = Result(TRUE, NoData)

NewList ==
    /\ Doing("init") /\ ~live /\ live' = TRUE
    /\ ret' = Result(TRUE, NoData) /\ UNCHANGED <<items, at>>

\* The list is removed element by element, and only if it has no iterators.
NoList ==
    /\ Doing("remove") /\ UNCHANGED at
    /\ IF \E i \in Iters : at[i] # Absent
       THEN ret' = Result(FALSE, NoData) /\ UNCHANGED <<live, items>>
       ELSE IF items # <<>>
            THEN items' = Tail(items) /\ UNCHANGED <<live, ret>>
            ELSE live' = FALSE /\ ret' = Result(TRUE, NoData) /\ UNCHANGED items

Next ==
    \/ \E c \in Calls : Start(c)
    \/ Add \/ Edit \/ Read \/ Get \/ GetSize \/ Move \/ Find
    \/ NewIterator \/ NoIterator \/ NewList \/ NoList

Spec == Init /\ [][Next]_vars

=============================================================================
