----------------------------- MODULE LinkedList -----------------------------
(***************************************************************************)
(* util/list.c: a double linked list with iterators.  A call is begun by   *)
(* the application, walks along the links one element at a time where the  *)
(* code loops, and takes effect in a last step.  The functions by index    *)
(* and by comparison work through l_it, the list's own iterator.           *)
(*                                                                         *)
(* Applications keep to what the code cannot check: they follow no         *)
(* iterator whose element another call removed, and edit no element of an  *)
(* empty list.                                                             *)
(***************************************************************************)
EXTENDS Integers, Sequences, FiniteSets, SequencesExt

CONSTANTS
    Elems,      \* the addresses that calloc can return
    Null,
    Data,       \* what the elements hold
    NoData,     \* NULL
    Rank,       \* the order of the comparator: a function on Data
    Iters,      \* the iterators of the application
    MaxIdx      \* bound: the largest index and distance passed

ASSUME ListAssumption ==
    /\ Null \notin Elems /\ NoData \notin Data
    /\ Rank \in [Data -> Int]
    /\ "l_it" \notin Iters /\ "none" \notin Iters /\ IsFiniteSet(Iters) /\ MaxIdx \in Nat
    /\ {"freed", "absent"} \cap (Elems \cup {Null}) = {}

\* The functions with an index take it as a uint32_t and pass it to iterator_move as an
\* int32_t; WalkIdx is what they do with the indices that this leaves as they are.
ASSUME IndexAssumption == MaxIdx <= 2147483647

Freed == "freed"        \* the position of an iterator whose element was removed
Absent == "absent"      \* the position of an iterator that does not exist
AllIters == Iters \cup {"l_it"}
Ptr == Elems \cup {Null}

VARIABLES
    live,           \* the descriptor exists
    first, last,    \* the ends of the list
    nb_elements, nb_iterators,
    data, prev, next,   \* the fields of the elements
    used,           \* the addresses in use
    it,             \* it[i]: the element of iterator i
    pc,             \* where the call in progress is
    call,           \* the call in progress, or the last one
    elem, left,     \* the local variables of the loops
    ret,            \* the result of the call
    order,          \* history: the elements in the order the calls put them
    ordered         \* history: elements were only added by comparison and none was edited

desc == <<first, last, nb_elements>>
heap == <<data, prev, next, used>>
loop == <<elem, left>>
vars == <<live, desc, nb_iterators, heap, it, pc, call, loop, ret, order, ordered>>

Pending == [done |-> FALSE, ok |-> FALSE, data |-> NoData]
Result(ok, d) == [done |-> TRUE, ok |-> ok, data |-> d]
Return(ok, d) == ret' = Result(ok, d) /\ pc' = "idle" /\ elem' = Null /\ left' = 0

Init ==
    /\ live = FALSE /\ first = Null /\ last = Null /\ nb_elements = 0 /\ nb_iterators = 0
    /\ data = [e \in Elems |-> NoData]
    /\ prev = [e \in Elems |-> Null] /\ next = [e \in Elems |-> Null]
    /\ used = {} /\ it = [i \in AllIters |-> IF i = "l_it" THEN Null ELSE Absent]
    /\ pc = "idle" /\ elem = Null /\ left = 0
    /\ call = [kind |-> "none", where |-> "list", it |-> "none", arg |-> 0, data |-> NoData]
    /\ ret = Result(TRUE, NoData)
    /\ order = <<>> /\ ordered = TRUE

-----------------------------------------------------------------------------
(* The calls.                                                              *)

C(kind, where, i, arg, d) == [kind |-> kind, where |-> where, it |-> i, arg |-> arg, data |-> d]

ListCalls ==
    LET Ends == {"first", "last"} IN
    {C(k, w, "none", 0, d) : k \in {"add", "edit"}, w \in Ends, d \in Data}
    \cup {C(k, w, "none", 0, NoData) : k \in {"read", "get"}, w \in Ends}
    \cup {C(k, "idx", "l_it", n, d) : k \in {"add", "edit"}, n \in 0 .. MaxIdx, d \in Data}
    \cup {C(k, "idx", "l_it", n, NoData) : k \in {"read", "get"}, n \in 0 .. MaxIdx}
    \cup {C("add", "find", "l_it", 0, d) : d \in Data}
    \cup {C("edit", "find", "l_it", c, d) : c \in Data, d \in Data}
    \cup {C(k, "find", "l_it", c, NoData) : k \in {"read", "get"}, c \in Data}
    \cup {C(k, "list", "none", 0, NoData) : k \in {"size", "remove"}}

IterCalls ==
    UNION {{C("add", "it", i, after, d) : after \in {0, 1}, d \in Data}
           \cup {C("edit", "it", i, 0, d) : d \in Data}
           \cup {C(k, "it", i, 0, NoData) : k \in {"read", "get", "drop"}}
           \cup {C("move", "it", i, n, NoData) : n \in -MaxIdx .. MaxIdx}
           \cup {C("find", "it", i, c, NoData) : c \in Data}
           \cup {C("iterator", "it", i, start, NoData) : start \in {0, 1}} : i \in Iters}

Calls == {C("init", "list", "none", 0, NoData)} \cup ListCalls \cup IterCalls

\* What the code relies on and does not check.
Allowed(c) ==
    /\ live <=> c.kind # "init"
    /\ c.kind = "edit" /\ c.where \in {"first", "last"} => first # Null
    /\ c.where = "it" =>
         /\ (c.kind = "iterator") <=> (it[c.it] = Absent)
         /\ c.kind \in {"add", "edit", "read", "get", "move"} => it[c.it] # Freed
         /\ c.kind = "edit" => it[c.it] # Null
         /\ c.kind = "add" => it[c.it] # Null \/ first = Null

Begin(c) ==
    /\ pc = "idle" /\ Allowed(c)
    /\ call' = c /\ ret' = Pending /\ pc' = "entry"
    /\ UNCHANGED <<live, desc, nb_iterators, heap, it, loop, order, ordered>>

-----------------------------------------------------------------------------
(* Links, elements and ends.                                               *)

Pos(e) == CHOOSE p \in DOMAIN order : order[p] = e

\* update_links(p, e, n): the element e comes between p and n, or leaves if e is Null.
NextLinks(p, e, n) ==
    [x \in Elems |-> IF x = p THEN IF e # Null THEN e ELSE n
                     ELSE IF x = e THEN n ELSE next[x]]
PrevLinks(p, e, n) ==
    [x \in Elems |-> IF x = n THEN IF e # Null THEN e ELSE p
                     ELSE IF x = e THEN p ELSE prev[x]]

\* Mutant: the other end is left alone when the list becomes empty.
update_desc_one_end(new_first, new_last) ==
    IF new_first = first THEN last' = new_last /\ first' = first
                         ELSE first' = new_first /\ last' = last

\* update_desc(new_first, new_last)
update_desc(new_first, new_last) ==
    IF new_first = first
    THEN /\ last' = new_last
         /\ first' = IF new_first = Null \/ new_last = Null THEN new_last ELSE first
    ELSE /\ first' = new_first
         /\ last' = IF new_last = Null \/ new_first = Null THEN new_first ELSE last

\* create_element between p and n, with its links.
Create(e, p, n) ==
    /\ used' = used \cup {e}
    /\ data' = [data EXCEPT ![e] = call.data]
    /\ next' = NextLinks(p, e, n) /\ prev' = PrevLinks(p, e, n)
    /\ nb_elements' = nb_elements + 1
    /\ ordered' = (ordered /\ call.where = "find")
    /\ Return(TRUE, NoData)

\* create_element finds no memory.
NoMemory ==
    /\ used = Elems
    /\ Return(FALSE, NoData)
    /\ UNCHANGED <<desc, heap, order, ordered>>

\* list_add_first and list_add_last
AddFirst ==
    \/ NoMemory
    \/ \E e \in Elems \ used :
          /\ Create(e, Null, first)
          /\ update_desc(e, last)
          /\ order' = InsertAt(order, 1, e)
AddLast ==
    \/ NoMemory
    \/ \E e \in Elems \ used :
          /\ Create(e, last, Null)
          /\ update_desc(first, e)
          /\ order' = InsertAt(order, Len(order) + 1, e)

\* The element e leaves: its links, and its memory.
Unlink(e) ==
    /\ used' = used \ {e}
    /\ data' = [data EXCEPT ![e] = NoData]
    /\ next' = [NextLinks(prev[e], Null, next[e]) EXCEPT ![e] = Null]
    /\ prev' = [PrevLinks(prev[e], Null, next[e]) EXCEPT ![e] = Null]
    /\ nb_elements' = nb_elements - 1
    /\ order' = RemoveAt(order, Pos(e))

\* What becomes of the iterators when e is freed.
Orphaned(e) == [i \in AllIters |-> IF it[i] = e THEN Freed ELSE it[i]]
-----------------------------------------------------------------------------
(* The ends of the list, and its size.                                     *)

At(kind, where) == pc = "entry" /\ call.kind = kind /\ call.where = where
End == IF call.where = "first" THEN first ELSE last

AddEnd ==
    /\ \/ At("add", "first") /\ AddFirst
       \/ At("add", "last") /\ AddLast
    /\ UNCHANGED <<live, nb_iterators, it, call>>

\* list_edit_first, list_edit_last
EditEnd ==
    /\ At("edit", "first") \/ At("edit", "last")
    /\ data' = [data EXCEPT ![End] = call.data]
    /\ ordered' = FALSE /\ Return(TRUE, NoData)
    /\ UNCHANGED <<live, desc, nb_iterators, prev, next, used, it, call, order>>

\* list_read_first, list_read_last
ReadEnd ==
    /\ At("read", "first") \/ At("read", "last")
    /\ IF End = Null THEN Return(FALSE, NoData) ELSE Return(TRUE, data[End])
    /\ UNCHANGED <<live, desc, nb_iterators, heap, it, call, order, ordered>>

\* list_get_first, list_get_last
GetFirst ==
    /\ Unlink(first) /\ update_desc(next[first], last)
    /\ it' = Orphaned(first)
GetLast ==
    /\ Unlink(last) /\ update_desc(first, prev[last])
    /\ it' = Orphaned(last)

GetEnd ==
    /\ At("get", "first") \/ At("get", "last")
    /\ IF nb_elements = 0
       THEN Return(FALSE, NoData) /\ UNCHANGED <<desc, heap, it, order>>
       ELSE /\ IF call.where = "first" THEN GetFirst ELSE GetLast
            /\ Return(TRUE, data[End])
    /\ UNCHANGED <<live, nb_iterators, call, ordered>>

\* list_get_size
GetSize ==
    /\ At("size", "list") /\ Return(TRUE, nb_elements)
    /\ UNCHANGED <<live, desc, nb_iterators, heap, it, call, order, ordered>>

-----------------------------------------------------------------------------
(* Walks: iterator_move, iterator_find and the search of list_add_find.    *)

walked == <<live, desc, nb_iterators, heap, call, order, ordered>>

\* Mutant: l_it goes on from where the last call left it.
WalkIdx_stale ==
    /\ pc' = "move" /\ elem' = it["l_it"] /\ left' = call.arg
    /\ UNCHANGED <<walked, it, ret>>

\* l_it goes to the first element and iterator_move starts.
WalkIdx ==
    /\ it' = [it EXCEPT !["l_it"] = first]
    /\ pc' = "move" /\ elem' = first /\ left' = call.arg
    /\ UNCHANGED <<walked, ret>>

\* list_add_idx
AddIdx ==
    /\ At("add", "idx")
    /\ \/ /\ nb_elements = 0 \/ call.arg = 0
          /\ AddFirst
          /\ UNCHANGED <<live, nb_iterators, it, call>>
       \/ /\ nb_elements # 0 /\ call.arg # 0 /\ nb_elements = call.arg
          /\ AddLast
          /\ UNCHANGED <<live, nb_iterators, it, call>>
       \/ /\ nb_elements # 0 /\ call.arg # 0 /\ nb_elements # call.arg
          /\ WalkIdx

\* list_edit_idx, list_read_idx, list_get_idx
EditIdx == At("edit", "idx") /\ WalkIdx
ReadIdx ==
    /\ At("read", "idx")
    /\ \/ call.arg >= nb_elements /\ Return(FALSE, NoData) /\ UNCHANGED <<walked, it>>
       \/ call.arg < nb_elements /\ WalkIdx
GetIdx == At("get", "idx") /\ WalkIdx

\* iterator_move, called by the application
ItMove ==
    /\ At("move", "it")
    /\ pc' = "move" /\ elem' = it[call.it]
    /\ left' = IF call.arg < 0 THEN -call.arg ELSE call.arg
    /\ UNCHANGED <<walked, it, ret>>

MoveStep ==
    /\ pc = "move" /\ left > 0 /\ elem # Null
    /\ elem' = IF call.kind = "move" /\ call.arg < 0 THEN prev[elem] ELSE next[elem]
    /\ left' = left - 1
    /\ UNCHANGED <<walked, it, pc, ret>>

\* The iterator is put on e for what the call does next, or the call is done.
Arrive(e, what) ==
    /\ it' = [it EXCEPT ![call.it] = e]
    /\ IF call.where = "it" THEN Return(TRUE, NoData)
                            ELSE pc' = what /\ elem' = Null /\ left' = 0 /\ UNCHANGED ret

MoveEnd ==
    /\ pc = "move"
    /\ \/ elem = Null /\ Return(FALSE, NoData) /\ UNCHANGED it
       \/ elem # Null /\ left = 0 /\ Arrive(elem, IF call.kind = "add" THEN "before" ELSE "at")
    /\ UNCHANGED walked

\* iterator_find starts at the first element, wherever the iterator is.
WalkFind ==
    /\ pc' = "find" /\ elem' = first
    /\ UNCHANGED <<walked, left, ret>>

\* list_edit_find, list_read_find, list_get_find, and iterator_find by the application
EditFind == At("edit", "find") /\ WalkFind /\ it' = [it EXCEPT !["l_it"] = first]
ReadFind == At("read", "find") /\ WalkFind /\ it' = [it EXCEPT !["l_it"] = first]
GetFind == At("get", "find") /\ WalkFind /\ it' = [it EXCEPT !["l_it"] = first]
ItFind == At("find", "it") /\ WalkFind /\ UNCHANGED it

FindStep ==
    /\ pc = "find" /\ elem # Null
    /\ Rank[data[elem]] # Rank[call.arg]
    /\ elem' = next[elem]
    /\ UNCHANGED <<walked, it, pc, left, ret>>

FindEnd ==
    /\ pc = "find"
    /\ \/ elem = Null /\ Return(FALSE, NoData) /\ UNCHANGED it
       \/ elem # Null /\ Rank[data[elem]] = Rank[call.arg] /\ Arrive(elem, "at")
    /\ UNCHANGED walked

\* list_add_find
AddFind ==
    /\ At("add", "find")
    /\ pc' = "search" /\ elem' = first
    /\ UNCHANGED <<walked, it, left, ret>>

\* Mutant: the search also stops at an equal element.
Stops_at_equal(e) == Rank[data[e]] >= Rank[call.data]

\* Mutant: the comparison is the other way round.
Stops_lower(e) == Rank[data[e]] < Rank[call.data]

Stops(e) == Rank[data[e]] > Rank[call.data]

SearchStep ==
    /\ pc = "search" /\ elem # Null /\ ~Stops(elem)
    /\ elem' = next[elem]
    /\ UNCHANGED <<walked, it, pc, left, ret>>

SearchEnd ==
    /\ pc = "search"
    /\ \/ elem = Null /\ Arrive(last, "after")
       \/ elem # Null /\ Stops(elem) /\ Arrive(elem, "before")
    /\ UNCHANGED walked

-----------------------------------------------------------------------------
(* The rest of the iterator functions.                                     *)

\* The call works on the element of its iterator.
Here(kind) == call.kind = kind /\ (pc = "at" \/ (pc = "entry" /\ call.where = "it"))

ItInsert ==
    /\ call.kind = "add"
    /\ pc \in {"before", "after"} \/ (pc = "entry" /\ call.where = "it")
    /\ LET after == pc = "after" \/ (pc = "entry" /\ call.arg = 1)
           x == it[call.it]
       IN  \/ after /\ x = last /\ AddLast
           \/ ~after /\ x = first /\ AddFirst
           \/ /\ x # (IF after THEN last ELSE first)
              /\ \/ NoMemory
                 \/ \E e \in Elems \ used :
                       /\ IF after THEN Create(e, x, next[x]) ELSE Create(e, prev[x], x)
                       /\ order' = InsertAt(order, Pos(x) + (IF after THEN 1 ELSE 0), e)
                       /\ UNCHANGED <<first, last>>
    /\ UNCHANGED <<live, nb_iterators, it, call>>

ItEdit ==
    /\ Here("edit")
    /\ data' = [data EXCEPT ![it[call.it]] = call.data]
    /\ ordered' = FALSE /\ Return(TRUE, NoData)
    /\ UNCHANGED <<live, desc, nb_iterators, prev, next, used, it, call, order>>

ItRead ==
    /\ Here("read")
    /\ IF it[call.it] = Null THEN Return(FALSE, NoData) ELSE Return(TRUE, data[it[call.it]])
    /\ UNCHANGED <<live, desc, nb_iterators, heap, it, call, order, ordered>>

\* iterator_get: the ends are updated before the element is compared with the last one.
ItGet ==
    /\ Here("get")
    /\ LET e == it[call.it] IN
       IF e = Null
       THEN Return(FALSE, NoData) /\ UNCHANGED <<desc, heap, it, order>>
       ELSE /\ Unlink(e)
            /\ CASE e = first -> update_desc(next[e], last)
                 [] e # first /\ e = last -> update_desc(first, prev[e])
                 [] OTHER -> UNCHANGED <<first, last>>
            /\ it' = [Orphaned(e) EXCEPT ![call.it] = IF e = last' THEN prev[e] ELSE next[e]]
            /\ Return(TRUE, data[e])
    /\ UNCHANGED <<live, nb_iterators, call, ordered>>

\* iterator_init, iterator_remove
ItInit ==
    /\ At("iterator", "it")
    /\ it' = [it EXCEPT ![call.it] = IF call.arg = 1 THEN first ELSE last]
    /\ nb_iterators' = nb_iterators + 1
    /\ Return(TRUE, NoData)
    /\ UNCHANGED <<live, desc, heap, call, order, ordered>>

ItRemove ==
    /\ At("drop", "it")
    /\ it' = [it EXCEPT ![call.it] = Absent]
    /\ nb_iterators' = nb_iterators - 1
    /\ Return(TRUE, NoData)
    /\ UNCHANGED <<live, desc, heap, call, order, ordered>>

-----------------------------------------------------------------------------
(* The list itself.                                                        *)

\* list_init
ListInit ==
    /\ At("init", "list")
    /\ live' = TRUE /\ first' = Null /\ last' = Null /\ nb_elements' = 0 /\ nb_iterators' = 0
    /\ it' = [it EXCEPT !["l_it"] = Null]
    /\ ordered' = TRUE
    /\ Return(TRUE, NoData)
    /\ UNCHANGED <<heap, call, order>>

\* Mutant: iterators do not keep the list.
ListRemove_with_iterators ==
    /\ At("remove", "list")
    /\ \/ /\ nb_elements # 0
          /\ GetFirst
          /\ UNCHANGED <<live, pc, loop, ret>>
       \/ /\ nb_elements = 0
          /\ live' = FALSE /\ Return(TRUE, NoData)
          /\ UNCHANGED <<desc, heap, it, order>>
    /\ UNCHANGED <<nb_iterators, call, ordered>>

\* list_remove: refused while there are iterators; the elements are removed one by one.
ListRemove ==
    /\ At("remove", "list")
    /\ \/ /\ nb_iterators # 0
          /\ Return(FALSE, NoData)
          /\ UNCHANGED <<live, desc, heap, it, order>>
       \/ /\ nb_iterators = 0 /\ nb_elements # 0
          /\ GetFirst
          /\ UNCHANGED <<live, pc, loop, ret>>
       \/ /\ nb_iterators = 0 /\ nb_elements = 0
          /\ live' = FALSE /\ Return(TRUE, NoData)
          /\ UNCHANGED <<desc, heap, it, order>>
    /\ UNCHANGED <<nb_iterators, call, ordered>>

Next ==
    \/ \E c \in Calls : Begin(c)
    \/ AddEnd \/ EditEnd \/ ReadEnd \/ GetEnd \/ GetSize
    \/ AddIdx \/ EditIdx \/ ReadIdx \/ GetIdx \/ ItMove \/ MoveStep \/ MoveEnd
    \/ EditFind \/ ReadFind \/ GetFind \/ ItFind \/ FindStep \/ FindEnd \/ AddFind \/ SearchStep \/ SearchEnd
    \/ ItInsert \/ ItEdit \/ ItRead \/ ItGet \/ ItInit \/ ItRemove
    \/ ListInit \/ ListRemove

Spec == Init /\ [][Next]_vars

-----------------------------------------------------------------------------
(* Properties.                                                             *)

\* What the parameters of a call are.
WellFormed(c) ==
    /\ c.kind \in {"add", "edit"} => c.data \in Data
    /\ c.where = "it" => c.it \in Iters
    /\ c.where \in {"idx", "find"} => c.it = "l_it"
    /\ c.where = "idx" => c.arg \in Nat
    /\ c.kind = "move" => c.arg \in Int
    /\ c.kind \in {"move", "find", "iterator", "drop"} => c.where = "it"

TypeOK ==
    /\ live \in BOOLEAN /\ first \in Ptr /\ last \in Ptr
    /\ nb_elements \in Nat /\ nb_iterators \in Nat
    /\ data \in [Elems -> Data \cup {NoData}]
    /\ prev \in [Elems -> Ptr] /\ next \in [Elems -> Ptr] /\ used \subseteq Elems
    /\ it \in [AllIters -> Ptr \cup {Freed, Absent}]
    /\ elem \in Ptr /\ left \in Nat
    /\ pc \in {"idle", "entry", "move", "find", "search", "before", "after", "at"}
    /\ WellFormed(call)
    /\ order \in Seq(Elems)

\* The links describe one sequence, the same read from either end, whose elements are the
\* ones in use: no call loses, repeats or leaks an element.
WellLinked ==
    /\ \A p, q \in DOMAIN order : order[p] = order[q] => p = q
    /\ used = {order[p] : p \in DOMAIN order}
    /\ nb_elements = Len(order)
    /\ first = (IF order = <<>> THEN Null ELSE order[1])
    /\ last = (IF order = <<>> THEN Null ELSE order[Len(order)])
    /\ \A p \in DOMAIN order :
          /\ prev[order[p]] = (IF p = 1 THEN Null ELSE order[p - 1])
          /\ next[order[p]] = (IF p = Len(order) THEN Null ELSE order[p + 1])

\* No iterator and no loop is on a removed element when the code follows it: the element
\* was checked or chosen in an earlier step, in the same list.
IteratorsValid ==
    /\ \A i \in AllIters : it[i] \in used \cup {Null, Freed, Absent}
    /\ IF pc \in {"move", "find", "search"} THEN elem \in used \cup {Null} ELSE elem = Null
    /\ pc \in {"at", "before"} => it[call.it] \in used
    /\ pc = "after" => it[call.it] = last
    /\ pc = "search" => call.where = "find"
    /\ pc \notin {"idle", "entry"} => call.where \in {"it", "idx", "find"}
    /\ pc = "entry" /\ call.where = "it" =>
         /\ call.kind \in {"add", "edit", "read", "get", "move"} => it[call.it] \in used \cup {Null}
         /\ call.kind = "edit" => it[call.it] \in used
         /\ call.kind = "add" => it[call.it] \in used \/ first = Null
    /\ pc = "entry" /\ call.kind = "edit" /\ call.where \in {"first", "last"} => first # Null

\* The list counts its iterators, so that list_remove frees no list that an iterator still
\* uses, and a removed list has left no element behind.
IteratorsCounted ==
    /\ nb_iterators = Cardinality({i \in Iters : it[i] # Absent})
    /\ ~live => used = {} /\ nb_iterators = 0
    /\ pc = "entry" => (live <=> call.kind # "init")
    /\ pc \notin {"idle", "entry"} => live
    /\ pc = "entry" /\ call.where = "it" => (call.kind = "iterator" <=> it[call.it] = Absent)
    /\ pc \in {"move", "find"} /\ call.where = "it" => it[call.it] # Absent

\* The inductive invariant of the list.
ListInv == TypeOK /\ WellLinked /\ IteratorsValid /\ IteratorsCounted

\* A list to which elements are only added by comparison is in ascending order, the
\* promise of LIST_PRIORITY_LIST, and elements that compare equal keep the order in which
\* they came (checked by ImplementsSequence).
PriorityOrder ==
    live /\ ordered =>
        \A p, q \in DOMAIN order : p < q => Rank[data[order[p]]] <= Rank[data[order[q]]]

\* The contents of the list, and where its iterators are, as include/list.h sees them.
Items == [p \in DOMAIN order |-> data[order[p]]]
Places == [i \in Iters |-> CASE it[i] = Null -> 0
                             [] it[i] = Freed -> -1
                             [] it[i] = Absent -> -2
                             [] OTHER -> Pos(it[i])]

\* The linked list is the sequence of include/list.h: every function acts at the place it
\* names, returns what is there, and leaves every other iterator on its element.
Abstract == INSTANCE ListSequence WITH items <- Items, at <- Places
ImplementsSequence == Abstract!Spec

\* iterator_get: "If the current item is the last one, the iterator will be moved to the
\* previous one."
GetKeepsPlace ==
    pc = "idle" /\ call.kind = "get" /\ call.where = "it" /\ ret.ok /\ order # <<>>
        => it[call.it] # Null

=============================================================================
