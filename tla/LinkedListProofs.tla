-------------------------- MODULE LinkedListProofs --------------------------
(***************************************************************************)
(* Proofs about util/list.c, for any number of elements and iterators and  *)
(* any sequence of calls: the links always describe one sequence, the code *)
(* follows no iterator to an element that was removed, a priority list is  *)
(* in order, and the list implements the sequence of ListSequence.         *)
(***************************************************************************)
EXTENDS LinkedList, TLAPS, SequenceTheorems, FiniteSetTheorems

-----------------------------------------------------------------------------
(* Sequences.                                                              *)

\* An insertion pushes the elements from place p on back by one place.
LEMMA InsertFact ==
    ASSUME NEW S, NEW s \in Seq(S), NEW e \in S, NEW p \in 1 .. Len(s) + 1
    PROVE  /\ InsertAt(s, p, e) \in Seq(S)
           /\ Len(InsertAt(s, p, e)) = Len(s) + 1
           /\ InsertAt(s, p, e)[p] = e
           /\ \A i \in 1 .. p - 1 : InsertAt(s, p, e)[i] = s[i]
           /\ \A i \in p + 1 .. Len(s) + 1 : InsertAt(s, p, e)[i] = s[i - 1]
<1> DEFINE a == SubSeq(s, 1, p - 1)
           b == SubSeq(s, p, Len(s))
<1>0. Len(s) \in Nat /\ p \in Int
  OBVIOUS
<1>1. a \in Seq(S) /\ Len(a) = p - 1 /\ \A i \in 1 .. p - 1 : a[i] = s[i]
  BY <1>0
<1>2. b \in Seq(S) /\ Len(b) = Len(s) - p + 1 /\ \A i \in 1 .. Len(s) - p + 1 : b[i] = s[p + i - 1]
  BY <1>0
<1>3. InsertAt(s, p, e) = (a \o <<e>>) \o b
  BY DEF InsertAt
<1> HIDE DEF a, b
<1> DEFINE c == a \o <<e>>
<1>4. c \in Seq(S) /\ Len(c) = p /\ c[p] = e /\ \A i \in 1 .. p - 1 : c[i] = a[i]
  BY <1>0, <1>1, SMTT(30)
<1> HIDE DEF c
<1>5. /\ c \o b \in Seq(S) /\ Len(c \o b) = Len(c) + Len(b)
      /\ \A i \in 1 .. Len(c) + Len(b) : (c \o b)[i] = IF i <= Len(c) THEN c[i] ELSE b[i - Len(c)]
  BY <1>2, <1>4
<1>6. InsertAt(s, p, e) = c \o b
  BY <1>3 DEF c
<1> QED
  BY <1>0, <1>1, <1>2, <1>4, <1>5, <1>6

\* A removal brings the elements after place p forward by one place.
LEMMA RemoveFact ==
    ASSUME NEW S, NEW s \in Seq(S), NEW p \in 1 .. Len(s)
    PROVE  /\ RemoveAt(s, p) \in Seq(S)
           /\ Len(RemoveAt(s, p)) = Len(s) - 1
           /\ \A i \in 1 .. p - 1 : RemoveAt(s, p)[i] = s[i]
           /\ \A i \in p .. Len(s) - 1 : RemoveAt(s, p)[i] = s[i + 1]
<1> DEFINE a == SubSeq(s, 1, p - 1)
           b == SubSeq(s, p + 1, Len(s))
<1>0. Len(s) \in Nat /\ p \in Int
  OBVIOUS
<1>1. a \in Seq(S) /\ Len(a) = p - 1 /\ \A i \in 1 .. p - 1 : a[i] = s[i]
  BY <1>0
<1>2. b \in Seq(S) /\ Len(b) = Len(s) - p /\ \A i \in 1 .. Len(s) - p : b[i] = s[p + i]
  BY <1>0
<1>3. RemoveAt(s, p) = a \o b
  BY DEF RemoveAt
<1> HIDE DEF a, b
<1>4. /\ a \o b \in Seq(S) /\ Len(a \o b) = Len(a) + Len(b)
      /\ \A i \in 1 .. Len(a) + Len(b) : (a \o b)[i] = IF i <= Len(a) THEN a[i] ELSE b[i - Len(a)]
  BY <1>1, <1>2, ConcatProperties
<1>5. \A i \in p .. Len(s) - 1 : (a \o b)[i] = s[i + 1]
  <2> SUFFICES ASSUME NEW i \in p .. Len(s) - 1
               PROVE  (a \o b)[i] = s[i + 1]
    OBVIOUS
  <2>1. (a \o b)[i] = b[i - (p - 1)]
    BY <1>0, <1>1, <1>2, <1>4
  <2>2. b[i - (p - 1)] = s[p + (i - (p - 1))]
    BY <1>0, <1>2
  <2> QED
    BY <1>0, <2>1, <2>2
<1>6. \A i \in 1 .. p - 1 : (a \o b)[i] = s[i]
  BY <1>0, <1>1, <1>2, <1>4
<1> QED
  BY <1>0, <1>1, <1>2, <1>3, <1>4, <1>5, <1>6, SMTT(30)
-----------------------------------------------------------------------------
(* Links.                                                                  *)

\* The neighbours of place p, and of an element that comes to place p.
Low(p) == IF p = 1 THEN Null ELSE order[p - 1]
High(p) == IF p > Len(order) THEN Null ELSE order[p]

\* An element that comes between the neighbours of place p, with update_links, is in the
\* sequence at place p, whichever function put it there.
LEMMA InsertLinks ==
    ASSUME TypeOK, WellLinked,
           NEW e \in Elems \ used, NEW p \in 1 .. Len(order) + 1,
           order' = InsertAt(order, p, e), used' = used \cup {e},
           nb_elements' = nb_elements + 1,
           next' = NextLinks(Low(p), e, High(p)), prev' = PrevLinks(Low(p), e, High(p)),
           first' = (IF p = 1 THEN e ELSE first),
           last' = (IF p = Len(order) + 1 THEN e ELSE last)
    PROVE  WellLinked' /\ order' \in Seq(Elems)
<1> DEFINE n == Len(order)
<1>0. n \in Nat /\ p \in Int /\ 1 <= p /\ p <= n + 1 /\ e # Null /\ DOMAIN order = 1 .. n
  BY ListAssumption DEF TypeOK
<1>1. /\ order' \in Seq(Elems) /\ Len(order') = n + 1 /\ order'[p] = e
      /\ \A i \in 1 .. p - 1 : order'[i] = order[i]
      /\ \A i \in p + 1 .. n + 1 : order'[i] = order[i - 1]
  <2>1. order \in Seq(Elems) /\ e \in Elems
    BY DEF TypeOK
  <2>2. /\ InsertAt(order, p, e) \in Seq(Elems)
        /\ Len(InsertAt(order, p, e)) = Len(order) + 1
        /\ InsertAt(order, p, e)[p] = e
        /\ \A i \in 1 .. p - 1 : InsertAt(order, p, e)[i] = order[i]
        /\ \A i \in p + 1 .. Len(order) + 1 : InsertAt(order, p, e)[i] = order[i - 1]
    BY ONLY <2>1, p \in 1 .. Len(order) + 1, InsertFact
  <2> QED
    BY <2>2
<1>d. DOMAIN order' = 1 .. n + 1
  BY <1>1
<1>2. \A i \in 1 .. n : order[i] \in used /\ order[i] \in Elems /\ order[i] # e /\ order[i] # Null
  BY <1>0, ListAssumption DEF TypeOK, WellLinked
<1>3. \A i, j \in 1 .. n : order[i] = order[j] => i = j
  BY <1>0 DEF WellLinked
<1> HIDE DEF n
<1>5. \A i, j \in 1 .. n + 1 : order'[i] = order'[j] => i = j
  <2> SUFFICES ASSUME NEW i \in 1 .. n + 1, NEW j \in 1 .. n + 1, order'[i] = order'[j]
               PROVE  i = j
    OBVIOUS
  <2> QED
    BY <1>0, <1>1, <1>2, <1>3, SMTT(30)
<1>6. used' = {order'[q] : q \in 1 .. n + 1}
  <2>1. used = {order[q] : q \in 1 .. n}
    BY <1>0 DEF WellLinked
  <2>2. ASSUME NEW x \in used'
        PROVE  \E q \in 1 .. n + 1 : x = order'[q]
    <3>1. CASE x = e
      BY <1>0, <1>1, <3>1
    <3>2. CASE x # e
      <4>1. PICK q \in 1 .. n : x = order[q]
        BY <2>1, <3>2
      <4>2. CASE q < p
        BY <1>0, <1>1, <4>1, <4>2
      <4>3. CASE q >= p
        <5>1. q + 1 \in p + 1 .. n + 1 /\ (q + 1) - 1 = q
          BY <1>0, <4>3
        <5>2. order'[q + 1] = order[(q + 1) - 1] /\ q + 1 \in 1 .. n + 1
          BY <1>0, <1>1, <5>1
        <5> QED
          BY <4>1, <5>1, <5>2
      <4> QED
        BY <1>0, <4>2, <4>3
    <3> QED
      BY <3>1, <3>2
  <2>3. ASSUME NEW q \in 1 .. n + 1
        PROVE  order'[q] \in used'
    <3>1. CASE q = p
      BY <1>1, <3>1
    <3>2. CASE q < p
      BY <1>0, <1>1, <1>2, <3>2
    <3>3. CASE q > p
      <4>1. q - 1 \in 1 .. n /\ order'[q] = order[q - 1]
        BY <1>0, <1>1, <3>3
      <4> QED
        BY <1>2, <4>1
    <3> QED
      BY <1>0, <3>1, <3>2, <3>3
  <2> QED
    BY <2>2, <2>3
<1>7. nb_elements' = n + 1
  BY DEF WellLinked, n
<1>8. first' = order'[1] /\ last' = order'[n + 1]
  <2>1. first' = order'[1]
    BY <1>0, <1>1 DEF WellLinked, n
  <2>2. last' = order'[n + 1]
    BY <1>0, <1>1 DEF WellLinked, n
  <2> QED
    BY <2>1, <2>2
<1>9. ASSUME NEW q \in 1 .. n + 1
      PROVE  next'[order'[q]] = (IF q = n + 1 THEN Null ELSE order'[q + 1])
  <2>0. \A x \in Elems : next'[x] = IF x = Low(p) THEN e ELSE IF x = e THEN High(p) ELSE next[x]
    BY <1>0 DEF NextLinks
  <2>n. \A i \in 1 .. n : next[order[i]] = IF i = n THEN Null ELSE order[i + 1]
    BY <1>0 DEF WellLinked, n
  <2>1. CASE q = p
    BY <1>0, <1>1, <1>2, <2>0, <2>1, SMTT(30) DEF Low, High, n
  <2>2. CASE q = p - 1
    BY <1>0, <1>1, <1>2, <2>0, <2>2 DEF Low
  <2>3. CASE q < p - 1
    <3>1. order'[q] = order[q] /\ order'[q + 1] = order[q + 1] /\ order[q] # order[p - 1]
      BY <1>0, <1>1, <1>3, <2>3
    <3> QED
      BY <1>0, <1>2, <2>0, <2>n, <2>3, <3>1 DEF Low
  <2>4. CASE q > p
    <3>1. /\ q - 1 \in 1 .. n /\ order'[q] = order[q - 1]
          /\ q # n + 1 => order'[q + 1] = order[q]
          /\ p # 1 => order[q - 1] # order[p - 1]
      BY <1>0, <1>1, <1>3, <2>4
    <3>2. next'[order'[q]] = next[order[q - 1]]
      BY <1>0, <1>2, <2>0, <3>1 DEF Low
    <3> QED
      BY <1>0, <2>n, <3>1, <3>2
  <2> QED
    BY <1>0, <2>1, <2>2, <2>3, <2>4
<1>10. ASSUME NEW q \in 1 .. n + 1
       PROVE  prev'[order'[q]] = (IF q = 1 THEN Null ELSE order'[q - 1])
  <2>0. \A x \in Elems : prev'[x] = IF x = High(p) THEN e ELSE IF x = e THEN Low(p) ELSE prev[x]
    BY <1>0 DEF PrevLinks
  <2>n. \A i \in 1 .. n : prev[order[i]] = IF i = 1 THEN Null ELSE order[i - 1]
    BY <1>0 DEF WellLinked, n
  <2>1. CASE q = p
    BY <1>0, <1>1, <1>2, <2>0, <2>1 DEF Low, High, n
  <2>2. CASE q = p + 1
    <3>1. order'[q] = order[p] /\ order'[q - 1] = e /\ p \in 1 .. n
      BY <1>0, <1>1, <2>2
    <3> QED
      BY <1>0, <1>2, <2>0, <2>2, <3>1 DEF High, n
  <2>3. CASE q < p
    <3>1. order'[q] = order[q] /\ (q # 1 => order'[q - 1] = order[q - 1]) /\ q \in 1 .. n
      BY <1>0, <1>1, <2>3
    <3>2. p <= n => order[q] # order[p]
      BY <1>0, <1>3, <2>3
    <3> QED
      BY <1>0, <1>2, <2>0, <2>n, <2>3, <3>1, <3>2 DEF High, n
  <2>4. CASE q > p + 1
    <3>1. /\ q - 1 \in 1 .. n /\ order'[q] = order[q - 1] /\ order'[q - 1] = order[(q - 1) - 1]
          /\ order[q - 1] # order[p] /\ q # 1 /\ q - 1 # 1 /\ p <= n
      BY <1>0, <1>1, <1>3, <2>4
    <3>2. prev'[order'[q]] = prev[order[q - 1]]
      BY <1>0, <1>2, <2>0, <3>1 DEF High, n
    <3> QED
      BY <1>0, <2>n, <3>1, <3>2
  <2> QED
    BY <1>0, <2>1, <2>2, <2>3, <2>4
<1> QED
  <2>1. order' # <<>> /\ Len(order') = n + 1
    BY <1>0, <1>1
  <2>2. /\ \A i, j \in DOMAIN order' : order'[i] = order'[j] => i = j
        /\ used' = {order'[q] : q \in DOMAIN order'}
        /\ nb_elements' = Len(order')
    BY <1>d, <1>5, <1>6, <1>7, <2>1
  <2>3. /\ first' = (IF order' = <<>> THEN Null ELSE order'[1])
        /\ last' = (IF order' = <<>> THEN Null ELSE order'[Len(order')])
    BY <1>8, <2>1
  <2>4. \A q \in DOMAIN order' :
          /\ prev'[order'[q]] = (IF q = 1 THEN Null ELSE order'[q - 1])
          /\ next'[order'[q]] = (IF q = Len(order') THEN Null ELSE order'[q + 1])
    BY <1>d, <1>9, <1>10, <2>1
  <2> QED
    BY <1>1, <2>2, <2>3, <2>4 DEF WellLinked
\* An element whose neighbours are joined by update_links is out of the sequence,
\* whichever function removed it.
LEMMA RemoveLinks ==
    ASSUME TypeOK, WellLinked, NEW p \in 1 .. Len(order), NEW e, e = order[p],
           order' = RemoveAt(order, p), used' = used \ {e}, nb_elements' = nb_elements - 1,
           next' = [NextLinks(prev[e], Null, next[e]) EXCEPT ![e] = Null],
           prev' = [PrevLinks(prev[e], Null, next[e]) EXCEPT ![e] = Null],
           first' = (IF p = 1 THEN next[e] ELSE first),
           last' = (IF p = Len(order) THEN prev[e] ELSE last)
    PROVE  WellLinked' /\ order' \in Seq(Elems)
<1> DEFINE n == Len(order)
<1>0. n \in Nat /\ p \in Int /\ 1 <= p /\ p <= n /\ DOMAIN order = 1 .. n
  BY DEF TypeOK
<1>1. /\ order' \in Seq(Elems) /\ Len(order') = n - 1
      /\ \A i \in 1 .. p - 1 : order'[i] = order[i]
      /\ \A i \in p .. n - 1 : order'[i] = order[i + 1]
  <2>1. order \in Seq(Elems)
    BY DEF TypeOK
  <2>2. /\ RemoveAt(order, p) \in Seq(Elems)
        /\ Len(RemoveAt(order, p)) = Len(order) - 1
        /\ \A i \in 1 .. p - 1 : RemoveAt(order, p)[i] = order[i]
        /\ \A i \in p .. Len(order) - 1 : RemoveAt(order, p)[i] = order[i + 1]
    BY ONLY <2>1, p \in 1 .. Len(order), RemoveFact
  <2> QED
    BY <2>2
<1>d. DOMAIN order' = 1 .. n - 1
  BY <1>1
<1>2. \A i \in 1 .. n : order[i] \in used /\ order[i] \in Elems /\ order[i] # Null
  <2>1. \A i \in 1 .. n : order[i] \in used
    BY <1>0 DEF WellLinked
  <2>2. used \subseteq Elems /\ Null \notin Elems
    BY ListAssumption DEF TypeOK
  <2> QED
    BY <2>1, <2>2
<1>3. \A i, j \in 1 .. n : order[i] = order[j] => i = j
  BY <1>0 DEF WellLinked
<1>4. /\ prev[e] = (IF p = 1 THEN Null ELSE order[p - 1])
      /\ next[e] = (IF p = n THEN Null ELSE order[p + 1])
  BY <1>0 DEF WellLinked
<1>n. \A i \in 1 .. n : next[order[i]] = IF i = n THEN Null ELSE order[i + 1]
  BY <1>0 DEF WellLinked
<1>p. \A i \in 1 .. n : prev[order[i]] = IF i = 1 THEN Null ELSE order[i - 1]
  BY <1>0, SMTT(30) DEF WellLinked
<1>nx. \A x \in Elems \ {e} : next'[x] = IF x = prev[e] THEN next[e] ELSE next[x]
  BY <1>0, <1>2, ListAssumption, ZenonT(60) DEF NextLinks
<1>px. \A x \in Elems \ {e} : prev'[x] = IF x = next[e] THEN prev[e] ELSE prev[x]
  BY <1>0, <1>2, ListAssumption DEF PrevLinks
<1>f. first = order[1] /\ last = order[n]
  BY <1>0 DEF WellLinked
<1> HIDE DEF n
<1>5. \A i, j \in 1 .. n - 1 : order'[i] = order'[j] => i = j
  <2> SUFFICES ASSUME NEW i \in 1 .. n - 1, NEW j \in 1 .. n - 1, order'[i] = order'[j]
               PROVE  i = j
    OBVIOUS
  <2>1. order'[i] = order[IF i < p THEN i ELSE i + 1]
    BY <1>0, <1>1
  <2>2. order'[j] = order[IF j < p THEN j ELSE j + 1]
    BY <1>0, <1>1
  <2> DEFINE k == IF i < p THEN i ELSE i + 1
             l == IF j < p THEN j ELSE j + 1
  <2>3. k \in 1 .. n /\ l \in 1 .. n /\ (k = l => i = j)
    BY <1>0
  <2>4. order[k] = order[l]
    BY <2>1, <2>2
  <2> HIDE DEF k, l
  <2> QED
    BY <1>3, <2>3, <2>4
<1>6. used' = {order'[q] : q \in 1 .. n - 1}
  <2>1. used = {order[q] : q \in 1 .. n}
    BY <1>0 DEF WellLinked
  <2>2. ASSUME NEW x \in used'
        PROVE  \E q \in 1 .. n - 1 : x = order'[q]
    <3>1. PICK q \in 1 .. n : x = order[q] /\ q # p
      BY <2>1
    <3>2. CASE q < p
      BY <1>0, <1>1, <3>1, <3>2
    <3>3. CASE q > p
      <4>1. q - 1 \in p .. n - 1 /\ (q - 1) + 1 = q
        BY <1>0, <3>3
      <4>2. order'[q - 1] = order[(q - 1) + 1] /\ q - 1 \in 1 .. n - 1
        BY <1>0, <1>1, <4>1
      <4> QED
        BY <3>1, <4>1, <4>2
    <3> QED
      BY <1>0, <3>1, <3>2, <3>3
  <2>3. ASSUME NEW q \in 1 .. n - 1
        PROVE  order'[q] \in used'
    <3>1. CASE q < p
      BY <1>0, <1>1, <1>2, <1>3, <3>1, SMTT(30)
    <3>2. CASE q >= p
      <4>1. q + 1 \in 1 .. n /\ order'[q] = order[q + 1] /\ q + 1 # p
        BY <1>0, <1>1, <3>2
      <4> QED
        BY <1>0, <1>2, <1>3, <4>1
    <3> QED
      BY <1>0, <3>1, <3>2
  <2> QED
    BY <2>2, <2>3
<1>7. nb_elements' = n - 1
  BY DEF WellLinked, n
<1>8. ASSUME n # 1
      PROVE  first' = order'[1] /\ last' = order'[n - 1]
  <2>1. first' = order'[1]
    BY <1>0, <1>1, <1>4, <1>f, <1>8
  <2>2. last' = order'[n - 1]
    <3>1. CASE p = n
      <4>1. n - 1 \in 1 .. p - 1 /\ last' = prev[e]
        BY <1>0, <1>8, <3>1 DEF n
      <4>2. order'[n - 1] = order[n - 1]
        BY <1>1, <4>1
      <4>3. p # 1 /\ p - 1 = n - 1
        BY <1>0, <1>8, <3>1
      <4> QED
        BY <1>4, <4>1, <4>2, <4>3
    <3>2. CASE p # n
      <4>1. n - 1 \in p .. n - 1 /\ (n - 1) + 1 = n
        BY <1>0, <1>8, <3>2
      <4>2. order'[n - 1] = order[(n - 1) + 1]
        BY <1>1, <4>1
      <4>3. last' = last
        BY <3>2 DEF n
      <4> QED
        BY <1>f, <4>1, <4>2, <4>3
    <3> QED
      BY <3>1, <3>2
  <2> QED
    BY <2>1, <2>2
<1>9. ASSUME n = 1
      PROVE  first' = Null /\ last' = Null
  BY <1>0, <1>4, <1>9 DEF n
<1>10. ASSUME NEW q \in 1 .. n - 1
       PROVE  next'[order'[q]] = (IF q = n - 1 THEN Null ELSE order'[q + 1])
  <2>1. CASE q = p - 1
    <3>1. order'[q] = order[q] /\ order[q] = prev[e] /\ order[q] \in Elems \ {e}
      BY <1>0, <1>1, <1>2, <1>3, <1>4, <2>1
    <3>2. next'[order'[q]] = next[e]
      BY <1>nx, <3>1
    <3> QED
      BY <1>0, <1>1, <1>4, <2>1, <3>2
  <2>2. CASE q < p - 1
    <3>1. order'[q] = order[q] /\ order'[q + 1] = order[q + 1] /\ order[q] \in Elems \ {e}
      BY <1>0, <1>1, <1>2, <1>3, <2>2
    <3>2. order[q] # prev[e]
      BY <1>0, <1>2, <1>3, <1>4, <2>2
    <3>3. next'[order'[q]] = next[order[q]]
      BY <1>nx, <3>1, <3>2
    <3> QED
      BY <1>0, <1>n, <2>2, <3>1, <3>3
  <2>3. CASE q >= p
    <3>1. /\ q + 1 \in 1 .. n /\ order'[q] = order[q + 1]
          /\ q # n - 1 => order'[q + 1] = order[(q + 1) + 1]
      <4>1. q \in p .. n - 1 /\ q + 1 \in 1 .. n
        BY <1>0, <2>3
      <4>2. q # n - 1 => q + 1 \in p .. n - 1
        BY <1>0, <4>1
      <4> QED
        BY <1>1, <4>1, <4>2
    <3>2. order[q + 1] # prev[e] /\ order[q + 1] \in Elems \ {e}
      BY <1>0, <1>2, <1>3, <1>4, <2>3, <3>1
    <3>3. next'[order'[q]] = next[order[q + 1]]
      BY <1>nx, <3>1, <3>2
    <3> QED
      BY <1>0, <1>n, <3>1, <3>3
  <2> QED
    BY <1>0, <2>1, <2>2, <2>3
<1>11. ASSUME NEW q \in 1 .. n - 1
       PROVE  prev'[order'[q]] = (IF q = 1 THEN Null ELSE order'[q - 1])
  <2>1. CASE q = p
    <3>1. order'[q] = order[q + 1] /\ order[q + 1] = next[e] /\ order[q + 1] \in Elems \ {e}
      BY <1>0, <1>1, <1>2, <1>3, <1>4, <2>1
    <3>2. prev'[order'[q]] = prev[e]
      BY <1>px, <3>1
    <3> QED
      BY <1>0, <1>1, <1>4, <2>1, <3>2
  <2>2. CASE q < p
    <3>1. order'[q] = order[q] /\ (q # 1 => order'[q - 1] = order[q - 1]) /\ order[q] \in Elems \ {e}
      BY <1>0, <1>1, <1>2, <1>3, <2>2
    <3>2. order[q] # next[e]
      BY <1>0, <1>2, <1>3, <1>4, <2>2
    <3>3. prev'[order'[q]] = prev[order[q]]
      BY <1>px, <3>1, <3>2
    <3> QED
      BY <1>0, <1>p, <2>2, <3>1, <3>3
  <2>3. CASE q > p
    <3>1. /\ q + 1 \in 1 .. n /\ order'[q] = order[q + 1]
          /\ q # 1 /\ q + 1 # 1 /\ order'[q - 1] = order[(q - 1) + 1] /\ (q - 1) + 1 = (q + 1) - 1
      BY <1>0, <1>1, <2>3, SMTT(30)
    <3>2. order[q + 1] # next[e] /\ order[q + 1] \in Elems \ {e}
      BY <1>0, <1>2, <1>3, <1>4, <2>3, <3>1
    <3>3. prev'[order'[q]] = prev[order[q + 1]]
      BY <1>px, <3>1, <3>2
    <3> QED
      BY <1>0, <1>p, <3>1, <3>3
  <2> QED
    BY <1>0, <2>1, <2>2, <2>3
<1> QED
  <2>1. Len(order') = n - 1 /\ (order' = <<>> <=> n = 1)
    BY <1>0, <1>1
  <2>2. /\ \A i, j \in DOMAIN order' : order'[i] = order'[j] => i = j
        /\ used' = {order'[q] : q \in DOMAIN order'}
        /\ nb_elements' = Len(order')
    BY <1>d, <1>5, <1>6, <1>7, <2>1
  <2>3. /\ first' = (IF order' = <<>> THEN Null ELSE order'[1])
        /\ last' = (IF order' = <<>> THEN Null ELSE order'[Len(order')])
    BY <1>8, <1>9, <2>1
  <2>4. \A q \in DOMAIN order' :
          /\ prev'[order'[q]] = (IF q = 1 THEN Null ELSE order'[q - 1])
          /\ next'[order'[q]] = (IF q = Len(order') THEN Null ELSE order'[q + 1])
    BY <1>d, <1>10, <1>11, <2>1
  <2> QED
    BY <1>1, <2>2, <2>3, <2>4 DEF WellLinked
-----------------------------------------------------------------------------
(* The elements of the list, and their places.                             *)

\* Every element in use has a place.
LEMMA PosFact ==
    ASSUME TypeOK, WellLinked, NEW e \in used
    PROVE  Pos(e) \in 1 .. Len(order) /\ order[Pos(e)] = e
<1>1. \E p \in DOMAIN order : order[p] = e
  BY DEF WellLinked
<1>2. DOMAIN order = 1 .. Len(order)
  BY DEF TypeOK
<1> QED
  BY <1>1, <1>2 DEF Pos

\* The ends are the first and the last place; an element's fields are its neighbours.
LEMMA EndFact ==
    ASSUME TypeOK, WellLinked
    PROVE  /\ Len(order) \in Nat /\ DOMAIN order = 1 .. Len(order)
           /\ order = <<>> <=> Len(order) = 0
           /\ first = Null <=> order = <<>>
           /\ last = Null <=> order = <<>>
           /\ nb_elements = Len(order)
           /\ order # <<>> => /\ first = order[1] /\ last = order[Len(order)]
                              /\ first \in used /\ last \in used
           /\ \A e \in used : prev[e] \in used \cup {Null} /\ next[e] \in used \cup {Null}
           /\ Null \notin used
<1>1. Len(order) \in Nat /\ DOMAIN order = 1 .. Len(order) /\ (order = <<>> <=> Len(order) = 0)
  BY DEF TypeOK
<1>2. \A p \in 1 .. Len(order) : order[p] \in used
  BY <1>1 DEF WellLinked
<1>3. Null \notin used
  BY ListAssumption DEF TypeOK
<1>4. order # <<>> => /\ first = order[1] /\ last = order[Len(order)]
                      /\ first \in used /\ last \in used
  BY <1>1, <1>2 DEF WellLinked
<1>5. ASSUME NEW e \in used
      PROVE  prev[e] \in used \cup {Null} /\ next[e] \in used \cup {Null}
  <2>1. PICK p \in 1 .. Len(order) : order[p] = e
    BY <1>1 DEF WellLinked
  <2>2. /\ prev[e] = (IF p = 1 THEN Null ELSE order[p - 1])
        /\ next[e] = (IF p = Len(order) THEN Null ELSE order[p + 1])
    BY <1>1, <2>1 DEF WellLinked
  <2> DEFINE n == Len(order)
  <2>n. n \in Nat /\ p \in 1 .. n
    BY <1>1
  <2> HIDE DEF n
  <2>3. (p # 1 => p - 1 \in 1 .. n) /\ (p # n => p + 1 \in 1 .. n)
    BY <2>n
  <2>4. prev[e] \in used \cup {Null}
    BY <1>2, <2>2, <2>3 DEF n
  <2>5. next[e] \in used \cup {Null}
    BY <1>2, <2>2, <2>3 DEF n
  <2> QED
    BY <2>4, <2>5
<1>6. (order = <<>> => first = Null /\ last = Null) /\ nb_elements = Len(order)
  BY DEF WellLinked
<1> QED
  BY <1>1, <1>3, <1>4, <1>5, <1>6
-----------------------------------------------------------------------------
(* What the functions do to the elements.                                  *)

HeapTypes ==
    /\ first \in Ptr /\ last \in Ptr /\ nb_elements \in Nat
    /\ data \in [Elems -> Data \cup {NoData}]
    /\ prev \in [Elems -> Ptr] /\ next \in [Elems -> Ptr] /\ used \subseteq Elems
    /\ order \in Seq(Elems)

\* A call that leaves elements and ends alone keeps the links.
LEMMA SameLinks ==
    ASSUME TypeOK, WellLinked, UNCHANGED <<first, last, nb_elements, data, prev, next, used, order>>
    PROVE  WellLinked' /\ HeapTypes' /\ used' = used
BY DEF TypeOK, WellLinked, HeapTypes

\* create_element and update_links between any two neighbours.
LEMMA CreateFact ==
    ASSUME TypeOK, WellLinked, call.data \in Data,
           NEW e \in Elems \ used, NEW p \in 1 .. Len(order) + 1,
           Create(e, Low(p), High(p)), order' = InsertAt(order, p, e),
           first' = (IF p = 1 THEN e ELSE first),
           last' = (IF p = Len(order) + 1 THEN e ELSE last)
    PROVE  WellLinked' /\ HeapTypes' /\ used' = used \cup {e}
<1>1. WellLinked' /\ order' \in Seq(Elems)
  BY InsertLinks DEF Create
<1>2. Low(p) \in Ptr /\ High(p) \in Ptr
  <2>1. \A i \in 1 .. Len(order) : order[i] \in Elems
    BY DEF TypeOK
  <2>2. Len(order) \in Nat
    BY DEF TypeOK
  <2> QED
    BY <2>1, <2>2 DEF Low, High, Ptr
<1>3. next' \in [Elems -> Ptr] /\ prev' \in [Elems -> Ptr]
  BY <1>2 DEF Create, NextLinks, PrevLinks, TypeOK, Ptr
<1>4. data' \in [Elems -> Data \cup {NoData}]
  BY DEF Create, TypeOK
<1>5. nb_elements' \in Nat /\ used' = used \cup {e} /\ used' \subseteq Elems
  BY DEF Create, TypeOK
<1>6. first' \in Ptr /\ last' \in Ptr
  BY DEF TypeOK, Ptr
<1> QED
  BY <1>1, <1>3, <1>4, <1>5, <1>6 DEF HeapTypes

\* list_add_first puts an element before the others, in an empty list too.
LEMMA AddFirstFact ==
    ASSUME TypeOK, WellLinked, call.data \in Data, AddFirst
    PROVE  WellLinked' /\ HeapTypes' /\ used \subseteq used'
<1>1. CASE NoMemory
  BY <1>1, SameLinks DEF NoMemory, desc, heap
<1>2. ASSUME NEW e \in Elems \ used, Create(e, Null, first), update_desc(e, last),
             order' = InsertAt(order, 1, e)
      PROVE  WellLinked' /\ HeapTypes' /\ used \subseteq used'
  <2>0. 1 \in 1 .. Len(order) + 1 /\ (1 > Len(order) <=> order = <<>>)
        /\ (1 = Len(order) + 1 <=> order = <<>>)
    BY EndFact
  <2>1. Low(1) = Null /\ High(1) = first
    BY <2>0, EndFact DEF Low, High
  <2>2. e # first /\ e # Null
    BY EndFact, ListAssumption
  <2>3. first' = e /\ last' = IF last = Null THEN e ELSE last
    BY <1>2, <2>2 DEF update_desc
  <2>4. last' = IF 1 = Len(order) + 1 THEN e ELSE last
    BY <2>0, <2>3, EndFact
  <2>5. WellLinked' /\ HeapTypes' /\ used' = used \cup {e}
    BY <1>2, <2>0, <2>1, <2>3, <2>4, CreateFact
  <2> QED
    BY <2>5
<1> QED
  BY <1>1, <1>2 DEF AddFirst

\* list_add_last puts an element after the others, in an empty list too.
LEMMA AddLastFact ==
    ASSUME TypeOK, WellLinked, call.data \in Data, AddLast
    PROVE  WellLinked' /\ HeapTypes' /\ used \subseteq used'
<1>1. CASE NoMemory
  BY <1>1, SameLinks DEF NoMemory, desc, heap
<1>2. ASSUME NEW e \in Elems \ used, Create(e, last, Null), update_desc(first, e),
             order' = InsertAt(order, Len(order) + 1, e)
      PROVE  WellLinked' /\ HeapTypes' /\ used \subseteq used'
  <2> DEFINE p == Len(order) + 1
  <2>0. p \in 1 .. Len(order) + 1 /\ p > Len(order) /\ (p = 1 <=> order = <<>>) /\ p - 1 = Len(order)
    BY EndFact
  <2>1. Low(p) = last /\ High(p) = Null
    BY <2>0, EndFact DEF Low, High
  <2>2. e # Null
    BY ListAssumption
  <2>3. last' = e /\ first' = IF first = Null THEN e ELSE first
    BY <1>2, <2>2 DEF update_desc
  <2>4. first' = IF p = 1 THEN e ELSE first
    BY <2>0, <2>3, EndFact
  <2> HIDE DEF p
  <2>5. WellLinked' /\ HeapTypes' /\ used' = used \cup {e}
    <3>1. Create(e, Low(p), High(p)) /\ order' = InsertAt(order, p, e)
      BY <1>2, <2>1 DEF p
    <3>2. last' = IF p = Len(order) + 1 THEN e ELSE last
      BY <2>3 DEF p
    <3> QED
      BY <2>0, <2>4, <3>1, <3>2, CreateFact
  <2> QED
    BY <2>5
<1> QED
  BY <1>1, <1>2 DEF AddLast

\* An element has no neighbour on the side of the end it is at, and is not its own neighbour.
LEMMA NeighbourFact ==
    ASSUME TypeOK, WellLinked, NEW e \in used
    PROVE  /\ prev[e] = Null <=> e = first
           /\ next[e] = Null <=> e = last
           /\ prev[e] # e /\ next[e] # e
           /\ e \in Elems /\ e # Null /\ first # Null /\ last # Null
           /\ e = first <=> Pos(e) = 1
           /\ e = last <=> Pos(e) = Len(order)
<1> DEFINE n == Len(order)
           p == Pos(e)
<1>1. n \in Nat /\ p \in 1 .. n /\ order[p] = e /\ DOMAIN order = 1 .. n
  BY PosFact, EndFact
<1>2. /\ prev[e] = (IF p = 1 THEN Null ELSE order[p - 1])
      /\ next[e] = (IF p = n THEN Null ELSE order[p + 1])
  BY <1>1 DEF WellLinked
<1>3. \A i, j \in 1 .. n : order[i] = order[j] => i = j
  BY <1>1 DEF WellLinked
<1>4. order # <<>> /\ first = order[1] /\ last = order[n]
  BY <1>1, EndFact
<1>5. \A i \in 1 .. n : order[i] \in Elems
  BY DEF TypeOK
<1>6. Null \notin Elems
  BY ListAssumption
<1> HIDE DEF n, p
<1>7. 1 \in 1 .. n /\ n \in 1 .. n /\ (p # 1 => p - 1 \in 1 .. n) /\ (p # n => p + 1 \in 1 .. n)
      /\ p - 1 # p /\ p + 1 # p
  BY <1>1
<1>8. (e = first <=> p = 1) /\ (e = last <=> p = n)
  BY <1>1, <1>3, <1>4, <1>7
<1>9. (prev[e] = Null <=> p = 1) /\ (next[e] = Null <=> p = n)
  BY <1>2, <1>5, <1>6, <1>7
<1>10. prev[e] # e /\ next[e] # e
  BY <1>1, <1>2, <1>3, <1>5, <1>6, <1>7
<1>11. e \in Elems /\ e # Null /\ first # Null /\ last # Null
  BY <1>1, <1>4, <1>5, <1>6, <1>7
<1> QED
  BY <1>8, <1>9, <1>10, <1>11 DEF n, p

\* An element leaves, and an end that it was at moves to its neighbour.
LEMMA UnlinkFact ==
    ASSUME TypeOK, WellLinked, NEW e \in used, Unlink(e),
           first' = (IF e = first THEN next[e] ELSE first),
           last' = (IF e = last THEN prev[e] ELSE last)
    PROVE  WellLinked' /\ HeapTypes' /\ used' = used \ {e}
<1>0. e \in Elems /\ prev[e] \in Ptr /\ next[e] \in Ptr /\ Null \in Ptr
  BY DEF TypeOK, Ptr
<1>1. Pos(e) \in 1 .. Len(order) /\ e = order[Pos(e)]
  BY PosFact
<1>2. /\ first' = (IF Pos(e) = 1 THEN next[e] ELSE first)
      /\ last' = (IF Pos(e) = Len(order) THEN prev[e] ELSE last)
  BY NeighbourFact
<1>3. WellLinked' /\ order' \in Seq(Elems)
  <2>1. /\ order' = RemoveAt(order, Pos(e)) /\ used' = used \ {e} /\ nb_elements' = nb_elements - 1
        /\ next' = [NextLinks(prev[e], Null, next[e]) EXCEPT ![e] = Null]
        /\ prev' = [PrevLinks(prev[e], Null, next[e]) EXCEPT ![e] = Null]
    BY DEF Unlink
  <2> QED
    BY <1>1, <1>2, <2>1, RemoveLinks
<1>4. next' \in [Elems -> Ptr] /\ prev' \in [Elems -> Ptr]
  BY <1>0 DEF Unlink, NextLinks, PrevLinks, TypeOK
<1>5. data' \in [Elems -> Data \cup {NoData}]
  BY DEF Unlink, TypeOK
<1>6. nb_elements' \in Nat
  BY <1>3 DEF WellLinked
<1>7. first' \in Ptr /\ last' \in Ptr
  BY <1>0 DEF TypeOK
<1> QED
  BY <1>3, <1>4, <1>5, <1>6, <1>7 DEF HeapTypes, Unlink, TypeOK

\* update_desc after the first element leaves moves both ends when it was the only one.
LEMMA UnlinkFirstFact ==
    ASSUME TypeOK, WellLinked, first \in used, Unlink(first), update_desc(next[first], last)
    PROVE  WellLinked' /\ HeapTypes' /\ used' = used \ {first}
<1>1. /\ prev[first] = Null /\ next[first] # first /\ (next[first] = Null <=> first = last)
      /\ last # Null
  BY NeighbourFact
<1>2. first' = next[first] /\ last' = IF first = last THEN prev[first] ELSE last
  BY <1>1 DEF update_desc
<1> QED
  BY <1>2, UnlinkFact

LEMMA UnlinkLastFact ==
    ASSUME TypeOK, WellLinked, last \in used, Unlink(last), update_desc(first, prev[last])
    PROVE  WellLinked' /\ HeapTypes' /\ used' = used \ {last}
<1>1. /\ next[last] = Null /\ (prev[last] = Null <=> last = first)
      /\ first # Null
  BY NeighbourFact
<1>2. last' = prev[last] /\ first' = IF last = first THEN next[last] ELSE first
  BY <1>1 DEF update_desc
<1> QED
  BY <1>2, UnlinkFact

\* iterator_insert beside an element that is not at that end.
LEMMA InsertBesideFact ==
    ASSUME TypeOK, WellLinked, call.data \in Data, NEW x \in used, NEW after \in BOOLEAN,
           x # (IF after THEN last ELSE first), NEW e \in Elems \ used,
           IF after THEN Create(e, x, next[x]) ELSE Create(e, prev[x], x),
           order' = InsertAt(order, Pos(x) + (IF after THEN 1 ELSE 0), e),
           UNCHANGED <<first, last>>
    PROVE  WellLinked' /\ HeapTypes' /\ used \subseteq used'
<1> DEFINE n == Len(order)
           p == Pos(x) + (IF after THEN 1 ELSE 0)
<1>1. n \in Nat /\ Pos(x) \in 1 .. n /\ order[Pos(x)] = x /\ DOMAIN order = 1 .. n
  BY PosFact, EndFact
<1>2. (after => Pos(x) # n) /\ (~after => Pos(x) # 1)
  BY NeighbourFact
<1>3. /\ prev[x] = (IF Pos(x) = 1 THEN Null ELSE order[Pos(x) - 1])
      /\ next[x] = (IF Pos(x) = n THEN Null ELSE order[Pos(x) + 1])
  BY <1>1 DEF WellLinked
<1>4. p \in 1 .. n + 1 /\ p # 1 /\ p # n + 1 /\ ~(p > n)
  BY <1>1, <1>2
<1>5. CASE after
  <2>1. p - 1 = Pos(x) /\ p = Pos(x) + 1
    BY <1>1, <1>5
  <2>2. Low(p) = x /\ High(p) = next[x]
    BY <1>1, <1>2, <1>3, <1>4, <1>5, <2>1 DEF Low, High
  <2>3. Create(e, Low(p), High(p)) /\ order' = InsertAt(order, p, e)
    BY <1>5, <2>2
  <2> HIDE DEF p
  <2>4. /\ p \in 1 .. Len(order) + 1 /\ first' = (IF p = 1 THEN e ELSE first)
        /\ last' = (IF p = Len(order) + 1 THEN e ELSE last)
    BY <1>4
  <2>5. WellLinked' /\ HeapTypes' /\ used' = used \cup {e}
    BY <2>3, <2>4, CreateFact
  <2> QED
    BY <2>5
<1>6. CASE ~after
  <2>1. p = Pos(x)
    BY <1>1, <1>6
  <2>2. Low(p) = prev[x] /\ High(p) = x
    BY <1>1, <1>2, <1>3, <1>4, <1>6, <2>1 DEF Low, High
  <2>3. Create(e, Low(p), High(p)) /\ order' = InsertAt(order, p, e)
    BY <1>6, <2>2
  <2> HIDE DEF p
  <2>4. /\ p \in 1 .. Len(order) + 1 /\ first' = (IF p = 1 THEN e ELSE first)
        /\ last' = (IF p = Len(order) + 1 THEN e ELSE last)
    BY <1>4
  <2>5. WellLinked' /\ HeapTypes' /\ used' = used \cup {e}
    BY <2>3, <2>4, CreateFact
  <2> QED
    BY <2>5
<1> QED
  BY <1>5, <1>6
-----------------------------------------------------------------------------
(* The inductive invariant, for each way in which a step can end.          *)

ItTypes == it \in [AllIters -> Ptr \cup {Freed, Absent}]
ItPlaces == \A i \in AllIters : it[i] \in used \cup {Null, Freed, Absent}
SameAbsent == \A i \in Iters : it'[i] = Absent <=> it[i] = Absent
Returned == pc' = "idle" /\ elem' = Null /\ left' = 0

\* The marks of an iterator that is on no element are no addresses.
LEMMA MarkFact ==
    ASSUME TypeOK
    PROVE  /\ Freed \notin Ptr /\ Absent \notin Ptr /\ Freed # Absent
           /\ Null \in Ptr /\ used \subseteq Ptr /\ "l_it" \in AllIters /\ Iters \subseteq AllIters
           /\ "l_it" \notin Iters
BY ListAssumption DEF TypeOK, Ptr, Freed, Absent, AllIters

\* The iterator of a call is an iterator.
LEMMA CallFact ==
    ASSUME TypeOK, call.where \in {"it", "idx", "find"}
    PROVE  call.it \in AllIters /\ (call.it \in Iters <=> call.where = "it")
BY ListAssumption DEF TypeOK, WellFormed, AllIters

\* The number of iterators changes only when one is made or dropped.
LEMMA SameCount ==
    ASSUME IteratorsCounted, SameAbsent, nb_iterators' = nb_iterators
    PROVE  nb_iterators' = Cardinality({i \in Iters : it'[i] # Absent})
<1>1. {i \in Iters : it'[i] # Absent} = {i \in Iters : it[i] # Absent}
  BY DEF SameAbsent
<1> QED
  BY <1>1 DEF IteratorsCounted

\* A call returns.
LEMMA ReturnFact ==
    ASSUME ListInv, Returned, live, live' = live, nb_iterators' = nb_iterators, call' = call,
           WellLinked', HeapTypes', ItTypes', ItPlaces', SameAbsent
    PROVE  ListInv'
<1>1. TypeOK'
  BY DEF ListInv, TypeOK, Returned, HeapTypes, ItTypes, Ptr, WellFormed
<1>2. IteratorsValid'
  BY DEF Returned, ItPlaces, IteratorsValid
<1>3. IteratorsCounted'
  <2>1. nb_iterators' = Cardinality({i \in Iters : it'[i] # Absent})
    BY SameCount DEF ListInv
  <2> QED
    BY <2>1 DEF Returned, IteratorsCounted
<1> QED
  BY <1>1, <1>2, <1>3 DEF ListInv

\* A call goes on with a loop, or a step of it.
LEMMA WalkFact ==
    ASSUME ListInv, UNCHANGED walked, live, call.where \in {"it", "idx", "find"},
           pc' \in {"move", "find", "search"}, elem' \in used \cup {Null}, left' \in Nat,
           pc' = "search" => call.where = "find",
           pc' \in {"move", "find"} /\ call.where = "it" => it[call.it] # Absent,
           ItTypes', \A i \in AllIters : it'[i] \in used \cup {Null, Freed, Absent}, SameAbsent
    PROVE  ListInv'
<1>0. /\ live' = live /\ call' = call /\ nb_iterators' = nb_iterators /\ used' = used
      /\ UNCHANGED <<first, last, nb_elements, data, prev, next, used, order>>
  BY DEF walked, desc, heap
<1>h. WellLinked' /\ HeapTypes'
  BY <1>0, SameLinks DEF ListInv
<1>1. TypeOK'
  <2>1. elem' \in Ptr
    BY MarkFact DEF ListInv
  <2> QED
    BY <1>0, <1>h, <2>1 DEF ListInv, TypeOK, HeapTypes, ItTypes, WellFormed
<1>2. IteratorsValid'
  BY <1>0 DEF IteratorsValid
<1>3. IteratorsCounted'
  <2>1. nb_iterators' = Cardinality({i \in Iters : it'[i] # Absent})
    BY <1>0, SameCount DEF ListInv
  <2>2. pc' \in {"move", "find"} /\ call.where = "it" => it'[call.it] # Absent
    BY CallFact DEF ListInv, SameAbsent
  <2> QED
    BY <1>0, <2>1, <2>2 DEF IteratorsCounted
<1> QED
  BY <1>h, <1>1, <1>2, <1>3 DEF ListInv

\* A loop has found the element that the call works on.
LEMMA ArriveFact ==
    ASSUME ListInv, UNCHANGED walked, pc \in {"move", "find", "search"}, live,
           NEW e \in used, NEW what \in {"at", "before"}, Arrive(e, what),
           call.where \in {"it", "idx", "find"},
           call.where = "it" => it[call.it] # Absent
    PROVE  ListInv'
<1>0. /\ live' = live /\ call' = call /\ nb_iterators' = nb_iterators /\ used' = used
      /\ UNCHANGED <<first, last, nb_elements, data, prev, next, used, order>>
  BY DEF walked, desc, heap
<1>h. WellLinked' /\ HeapTypes'
  BY <1>0, SameLinks DEF ListInv
<1>c. call.it \in AllIters /\ (call.it \in Iters <=> call.where = "it")
  BY CallFact DEF ListInv
<1>e. e \in Ptr /\ e # Absent /\ e # Null
  BY MarkFact, ListAssumption DEF ListInv, TypeOK
<1>i. it' = [it EXCEPT ![call.it] = e] /\ it \in [AllIters -> Ptr \cup {Freed, Absent}]
  BY DEF Arrive, ListInv, TypeOK
<1>1. ItTypes' /\ ItPlaces' /\ SameAbsent /\ it'[call.it] = e
  <2>1. ItTypes' /\ it'[call.it] = e
    BY <1>c, <1>e, <1>i DEF ItTypes, Ptr
  <2>2. \A i \in AllIters : it'[i] = IF i = call.it THEN e ELSE it[i]
    BY <1>i
  <2>3. ItPlaces'
    BY <1>0, <2>2 DEF ItPlaces, ListInv, IteratorsValid
  <2>4. SameAbsent
    BY <1>c, <1>e, <2>2 DEF SameAbsent, AllIters
  <2> QED
    BY <2>1, <2>3, <2>4
<1>2. CASE call.where = "it"
  <2>1. Returned
    BY <1>2 DEF Arrive, Return, Returned
  <2> QED
    BY <1>0, <1>h, <1>1, <2>1, ReturnFact
<1>3. CASE call.where # "it"
  <2>0. pc' = what /\ elem' = Null /\ left' = 0
    BY <1>3 DEF Arrive
  <2>1. TypeOK'
    BY <1>0, <1>h, <1>1, <2>0 DEF ListInv, TypeOK, HeapTypes, ItTypes, WellFormed, Ptr
  <2>2. IteratorsValid'
    BY <1>0, <1>1, <2>0 DEF IteratorsValid, ItPlaces
  <2>3. nb_iterators' = Cardinality({i \in Iters : it'[i] # Absent})
    BY <1>0, <1>1, SameCount DEF ListInv
  <2>4. IteratorsCounted'
    BY <1>0, <2>0, <2>3 DEF IteratorsCounted
  <2> QED
    BY <1>h, <2>1, <2>2, <2>4 DEF ListInv
<1> QED
  BY <1>2, <1>3

\* A call returns, and the iterators stay where they are.
LEMMA ReturnSame ==
    ASSUME ListInv, Returned, live, live' = live, nb_iterators' = nb_iterators, call' = call,
           WellLinked', HeapTypes', used \subseteq used', it' = it
    PROVE  ListInv'
<1>1. ItTypes' /\ ItPlaces' /\ SameAbsent
  BY DEF ItTypes, ItPlaces, SameAbsent, ListInv, TypeOK, IteratorsValid
<1> QED
  BY <1>1, ReturnFact

\* A call returns and changes nothing but data.
LEMMA ReturnIdle ==
    ASSUME ListInv, Returned, live, call' = call, data' \in [Elems -> Data \cup {NoData}],
           UNCHANGED <<live, first, last, nb_elements, nb_iterators, prev, next, used, it, order>>
    PROVE  ListInv'
<1>1. WellLinked' /\ HeapTypes' /\ used \subseteq used'
  BY DEF ListInv, TypeOK, WellLinked, HeapTypes
<1> QED
  BY <1>1, ReturnSame

\* The iterators on an element that leaves are marked, and the others stay.
LEMMA OrphanFact ==
    ASSUME ListInv, NEW e \in used, used' = used \ {e}, it' = Orphaned(e)
    PROVE  ItTypes' /\ ItPlaces' /\ SameAbsent
<1>0. e \in Ptr /\ Freed \notin Ptr /\ Absent \notin Ptr /\ Freed # Absent /\ Iters \subseteq AllIters
  BY MarkFact DEF ListInv
<1>1. \A i \in AllIters : it'[i] = IF it[i] = e THEN Freed ELSE it[i]
  BY DEF Orphaned
<1>2. ItTypes'
  BY DEF Orphaned, ItTypes, ListInv, TypeOK
<1>3. ItPlaces'
  BY <1>1 DEF ItPlaces, ListInv, IteratorsValid
<1>4. SameAbsent
  BY <1>0, <1>1 DEF SameAbsent
<1> QED
  BY <1>2, <1>3, <1>4

\* A call starts a loop at the first element, from which l_it goes along.
LEMMA WalkIdxFact ==
    ASSUME ListInv, live, call.where = "idx", WalkIdx
    PROVE  ListInv'
<1>1. first \in used \cup {Null} /\ first \in Ptr
  BY EndFact DEF ListInv, TypeOK
<1>2. call.arg \in Nat /\ it \in [AllIters -> Ptr \cup {Freed, Absent}] /\ it' = [it EXCEPT !["l_it"] = first]
  BY DEF ListInv, TypeOK, WellFormed, WalkIdx
<1>3. \A i \in AllIters : it'[i] = IF i = "l_it" THEN first ELSE it[i]
  BY <1>2
<1>4. ItTypes'
  BY <1>1, <1>2 DEF ItTypes
<1>5. \A i \in AllIters : it'[i] \in used \cup {Null, Freed, Absent}
  BY <1>1, <1>3 DEF ListInv, IteratorsValid
<1>6. SameAbsent
  BY <1>3, MarkFact DEF SameAbsent, ListInv
<1> QED
  BY <1>1, <1>2, <1>4, <1>5, <1>6, WalkFact DEF WalkIdx

LEMMA WalkFindFact ==
    ASSUME ListInv, live, call.where \in {"it", "find"}, WalkFind,
           call.where = "it" => it[call.it] # Absent,
           it' = it \/ it' = [it EXCEPT !["l_it"] = first]
    PROVE  ListInv'
<1>1. first \in used \cup {Null} /\ first \in Ptr
  BY EndFact DEF ListInv, TypeOK
<1>2. it \in [AllIters -> Ptr \cup {Freed, Absent}]
  BY DEF ListInv, TypeOK
<1>3. \A i \in AllIters : it'[i] = it[i] \/ (i = "l_it" /\ it'[i] = first)
  BY <1>2
<1>4. ItTypes'
  BY <1>1, <1>2 DEF ItTypes
<1>5. \A i \in AllIters : it'[i] \in used \cup {Null, Freed, Absent}
  BY <1>1, <1>3 DEF ListInv, IteratorsValid
<1>6. SameAbsent
  BY <1>3, MarkFact DEF SameAbsent, ListInv
<1>7. left' \in Nat
  BY DEF WalkFind, ListInv, TypeOK
<1> QED
  BY <1>1, <1>4, <1>5, <1>6, <1>7, WalkFact DEF WalkFind

\* A step along a loop.
LEMMA StepFact ==
    ASSUME ListInv, UNCHANGED walked, pc \in {"move", "find", "search"}, pc' = pc, it' = it,
           elem # Null, elem' \in {prev[elem], next[elem]}, left' \in Nat
    PROVE  ListInv'
<1>1. elem \in used /\ live /\ call.where \in {"it", "idx", "find"}
  BY DEF ListInv, IteratorsValid, IteratorsCounted
<1>2. elem' \in used \cup {Null}
  BY <1>1, EndFact DEF ListInv
<1>3. ItTypes' /\ SameAbsent /\ \A i \in AllIters : it'[i] \in used \cup {Null, Freed, Absent}
  BY DEF ItTypes, SameAbsent, ListInv, TypeOK, IteratorsValid
<1>4. /\ pc' = "search" => call.where = "find"
      /\ pc' \in {"move", "find"} /\ call.where = "it" => it[call.it] # Absent
  BY DEF ListInv, IteratorsValid, IteratorsCounted
<1> QED
  BY <1>1, <1>2, <1>3, <1>4, WalkFact

\* A call by the application has the parameters its function takes.
LEMMA CallsFact ==
    ASSUME NEW c \in Calls
    PROVE  WellFormed(c)
<1>1. CASE c = C("init", "list", "none", 0, NoData)
  BY <1>1 DEF C, WellFormed
<1>2. CASE c \in ListCalls
  <2>1. CASE \E k \in {"add", "edit"}, w \in {"first", "last"}, d \in Data : c = C(k, w, "none", 0, d)
    BY <2>1 DEF C, WellFormed
  <2>2. CASE \E k \in {"read", "get"}, w \in {"first", "last"} : c = C(k, w, "none", 0, NoData)
    BY <2>2 DEF C, WellFormed
  <2>3. CASE \E k \in {"add", "edit"}, n \in 0 .. MaxIdx, d \in Data : c = C(k, "idx", "l_it", n, d)
    BY <2>3, ListAssumption DEF C, WellFormed
  <2>4. CASE \E k \in {"read", "get"}, n \in 0 .. MaxIdx : c = C(k, "idx", "l_it", n, NoData)
    BY <2>4, ListAssumption DEF C, WellFormed
  <2>5. CASE \E d \in Data : c = C("add", "find", "l_it", 0, d)
    BY <2>5 DEF C, WellFormed
  <2>6. CASE \E a \in Data, d \in Data : c = C("edit", "find", "l_it", a, d)
    BY <2>6 DEF C, WellFormed
  <2>7. CASE \E k \in {"read", "get"}, a \in Data : c = C(k, "find", "l_it", a, NoData)
    BY <2>7 DEF C, WellFormed
  <2>8. CASE \E k \in {"size", "remove"} : c = C(k, "list", "none", 0, NoData)
    BY <2>8 DEF C, WellFormed
  <2> QED
    BY <1>2, <2>1, <2>2, <2>3, <2>4, <2>5, <2>6, <2>7, <2>8 DEF ListCalls
<1>3. CASE c \in IterCalls
  <2>0. PICK i \in Iters :
          c \in {C("add", "it", i, after, d) : after \in {0, 1}, d \in Data}
                \cup {C("edit", "it", i, 0, d) : d \in Data}
                \cup {C(k, "it", i, 0, NoData) : k \in {"read", "get", "drop"}}
                \cup {C("move", "it", i, n, NoData) : n \in -MaxIdx .. MaxIdx}
                \cup {C("find", "it", i, a, NoData) : a \in Data}
                \cup {C("iterator", "it", i, start, NoData) : start \in {0, 1}}
    BY <1>3 DEF IterCalls
  <2>1. CASE \E a \in {0, 1}, d \in Data : c = C("add", "it", i, a, d)
    BY <2>1 DEF C, WellFormed
  <2>2. CASE \E d \in Data : c = C("edit", "it", i, 0, d)
    BY <2>2 DEF C, WellFormed
  <2>3. CASE \E k \in {"read", "get", "drop"} : c = C(k, "it", i, 0, NoData)
    BY <2>3 DEF C, WellFormed
  <2>4. CASE \E n \in -MaxIdx .. MaxIdx : c = C("move", "it", i, n, NoData)
    BY <2>4, ListAssumption DEF C, WellFormed
  <2>5. CASE \E a \in Data : c = C("find", "it", i, a, NoData)
    BY <2>5 DEF C, WellFormed
  <2>6. CASE \E a \in {0, 1} : c = C("iterator", "it", i, a, NoData)
    BY <2>6 DEF C, WellFormed
  <2> QED
    BY <2>0, <2>1, <2>2, <2>3, <2>4, <2>5, <2>6
<1> QED
  BY <1>1, <1>2, <1>3 DEF Calls

-----------------------------------------------------------------------------
(* The actions.                                                            *)

LEMMA InitFact ==
    Init => ListInv
<1> SUFFICES ASSUME Init PROVE ListInv
  OBVIOUS
<1>1. TypeOK
  <2>1. it \in [AllIters -> Ptr \cup {Freed, Absent}]
    BY DEF Init, Ptr
  <2>2. WellFormed(call)
    BY DEF Init, WellFormed
  <2>3. order \in Seq(Elems)
    BY DEF Init
  <2> QED
    BY <2>1, <2>2, <2>3 DEF Init, TypeOK, Ptr
<1>2. WellLinked
  BY DEF Init, WellLinked
<1>3. IteratorsValid
  BY DEF Init, IteratorsValid, AllIters
<1>4. IteratorsCounted
  <2>1. {i \in Iters : it[i] # Absent} = {}
    BY ListAssumption DEF Init, AllIters
  <2>2. Cardinality({}) = 0
    BY FS_EmptySet
  <2> QED
    BY <2>1, <2>2 DEF Init, IteratorsCounted
<1> QED
  BY <1>1, <1>2, <1>3, <1>4 DEF ListInv

LEMMA BeginFact ==
    ASSUME ListInv, NEW c \in Calls, Begin(c)
    PROVE  ListInv'
<1>0. /\ pc' = "entry" /\ call' = c /\ elem' = elem /\ left' = left /\ elem = Null
      /\ UNCHANGED <<live, first, last, nb_elements, nb_iterators, data, prev, next, used, it, order>>
  BY DEF Begin, desc, heap, loop, ListInv, IteratorsValid
<1>1. WellLinked' /\ HeapTypes' /\ WellFormed(c)
  BY <1>0, SameLinks, CallsFact DEF ListInv
<1>2. WellFormed(call)'
  BY <1>0, <1>1 DEF WellFormed
<1>3. TypeOK'
  BY <1>0, <1>1, <1>2 DEF ListInv, TypeOK, HeapTypes
<1>4. Allowed(c) /\ (c.where = "it" => it[c.it] \in used \cup {Null, Freed, Absent})
  BY <1>1 DEF Begin, WellFormed, AllIters, ListInv, IteratorsValid
<1>5. c.where = "it" =>
         /\ c.kind \in {"add", "edit", "read", "get", "move"} => it[c.it] \in used \cup {Null}
         /\ c.kind = "edit" => it[c.it] \in used
         /\ c.kind = "add" => it[c.it] \in used \/ first = Null
  BY <1>4 DEF Allowed
<1>6. IteratorsValid'
  BY <1>0, <1>4, <1>5 DEF IteratorsValid, ListInv, Allowed
<1>7. nb_iterators' = Cardinality({i \in Iters : it'[i] # Absent})
  BY <1>0 DEF ListInv, IteratorsCounted
<1>8. IteratorsCounted'
  BY <1>0, <1>4, <1>7 DEF IteratorsCounted, ListInv, Allowed
<1> QED
  BY <1>1, <1>3, <1>6, <1>8 DEF ListInv

\* In a call the list exists, unless the call is list_init.
LEMMA LiveFact ==
    ASSUME ListInv, pc # "idle", call.kind # "init"
    PROVE  live
BY DEF ListInv, IteratorsCounted, TypeOK

LEMMA AddsReturn ==
    ASSUME AddFirst \/ AddLast \/ NoMemory
    PROVE  Returned
BY DEF AddFirst, AddLast, NoMemory, Create, Return, Returned

LEMMA AddEndFact ==
    ASSUME ListInv, AddFirst \/ AddLast, call.kind = "add", pc # "idle",
           UNCHANGED <<live, nb_iterators, it, call>>
    PROVE  ListInv'
<1>1. call.data \in Data /\ live
  BY LiveFact DEF ListInv, TypeOK, WellFormed
<1>2. WellLinked' /\ HeapTypes' /\ used \subseteq used'
  BY <1>1, AddFirstFact, AddLastFact DEF ListInv
<1>3. Returned
  BY AddsReturn
<1> QED
  BY <1>1, <1>2, <1>3, ReturnSame

LEMMA GetFirstFact ==
    ASSUME ListInv, nb_elements # 0, GetFirst
    PROVE  WellLinked' /\ HeapTypes' /\ used' = used \ {first} /\ ItTypes' /\ ItPlaces' /\ SameAbsent
<1>1. first \in used
  BY EndFact DEF ListInv
<1>2. WellLinked' /\ HeapTypes' /\ used' = used \ {first}
  BY <1>1, UnlinkFirstFact DEF ListInv, GetFirst
<1> QED
  BY <1>1, <1>2, OrphanFact DEF GetFirst

LEMMA GetLastFact ==
    ASSUME ListInv, nb_elements # 0, GetLast
    PROVE  WellLinked' /\ HeapTypes' /\ used' = used \ {last} /\ ItTypes' /\ ItPlaces' /\ SameAbsent
<1>1. last \in used
  BY EndFact DEF ListInv
<1>2. WellLinked' /\ HeapTypes' /\ used' = used \ {last}
  BY <1>1, UnlinkLastFact DEF ListInv, GetLast
<1> QED
  BY <1>1, <1>2, OrphanFact DEF GetLast

LEMMA GetEndFact ==
    ASSUME ListInv, GetEnd
    PROVE  ListInv'
<1>0. live /\ UNCHANGED <<live, nb_iterators, call>>
  BY LiveFact DEF GetEnd, At
<1>1. CASE nb_elements = 0
  <2>1. Returned /\ UNCHANGED <<first, last, nb_elements, data, prev, next, used, it, order>>
    BY <1>1 DEF GetEnd, Return, Returned, desc, heap
  <2> QED
    BY <1>0, <2>1, ReturnIdle DEF ListInv, TypeOK
<1>2. CASE nb_elements # 0
  <2>1. Returned /\ (GetFirst \/ GetLast)
    BY <1>2 DEF GetEnd, Return, Returned
  <2>2. WellLinked' /\ HeapTypes' /\ ItTypes' /\ ItPlaces' /\ SameAbsent
    BY <1>2, <2>1, GetFirstFact, GetLastFact
  <2> QED
    BY <1>0, <2>1, <2>2, ReturnFact
<1> QED
  BY <1>1, <1>2

\* iterator_move and iterator_find reach their element, or the end of the list.
LEMMA MoveEndFact ==
    ASSUME ListInv, MoveEnd \/ FindEnd
    PROVE  ListInv'
<1>0. /\ pc \in {"move", "find"} /\ live /\ UNCHANGED walked /\ call.where \in {"it", "idx", "find"}
      /\ call.where = "it" => it[call.it] # Absent
      /\ elem \in used \cup {Null} /\ Null \notin used
  BY EndFact DEF ListInv, MoveEnd, FindEnd, IteratorsValid, IteratorsCounted
<1>1. CASE elem = Null
  <2>1. Returned /\ it' = it
    BY <1>1 DEF MoveEnd, FindEnd, Return, Returned
  <2>2. /\ call' = call
        /\ UNCHANGED <<live, first, last, nb_elements, nb_iterators, data, prev, next, used, order>>
    BY <1>0 DEF walked, desc, heap
  <2> QED
    BY <1>0, <2>1, <2>2, ReturnIdle DEF ListInv, TypeOK
<1>2. CASE elem # Null
  <2>1. PICK what \in {"at", "before"} : Arrive(elem, what)
    BY <1>2 DEF MoveEnd, FindEnd
  <2> QED
    BY <1>0, <1>2, <2>1, ArriveFact
<1> QED
  BY <1>1, <1>2

\* The search of list_add_find stops before a greater element, or after the last one.
LEMMA SearchEndFact ==
    ASSUME ListInv, SearchEnd
    PROVE  ListInv'
<1>0. /\ pc = "search" /\ live /\ UNCHANGED walked /\ call.where = "find" /\ call.it = "l_it"
      /\ elem \in used \cup {Null}
  BY DEF ListInv, TypeOK, WellFormed, SearchEnd, IteratorsValid, IteratorsCounted
<1>1. CASE elem # Null
  <2>1. Arrive(elem, "before")
    BY <1>1 DEF SearchEnd
  <2> QED
    BY <1>0, <1>1, <2>1, ArriveFact
<1>2. CASE elem = Null
  <2>1. /\ pc' = "after" /\ elem' = Null /\ left' = 0 /\ it' = [it EXCEPT !["l_it"] = last]
    BY <1>0, <1>2 DEF SearchEnd, Arrive
  <2>2. /\ live' = live /\ call' = call /\ nb_iterators' = nb_iterators /\ used' = used /\ last' = last
        /\ UNCHANGED <<first, last, nb_elements, data, prev, next, used, order>>
    BY <1>0 DEF walked, desc, heap
  <2>3. WellLinked' /\ HeapTypes'
    BY <2>2, SameLinks DEF ListInv
  <2>4. last \in used \cup {Null} /\ last \in Ptr /\ it \in [AllIters -> Ptr \cup {Freed, Absent}]
    BY EndFact DEF ListInv, TypeOK
  <2>5. ItTypes' /\ \A i \in AllIters : it'[i] = IF i = "l_it" THEN last ELSE it[i]
    BY <2>1, <2>4 DEF ItTypes
  <2>6. it'["l_it"] = last /\ SameAbsent
    BY <2>5, MarkFact DEF SameAbsent, ListInv
  <2>7. TypeOK'
    BY <2>1, <2>2, <2>3, <2>5 DEF ListInv, TypeOK, HeapTypes, ItTypes, WellFormed, Ptr
  <2>8. IteratorsValid'
    BY <1>0, <2>1, <2>2, <2>4, <2>5, <2>6 DEF IteratorsValid, ListInv
  <2>9. nb_iterators' = Cardinality({i \in Iters : it'[i] # Absent})
    BY <2>2, <2>6, SameCount DEF ListInv
  <2>10. IteratorsCounted'
    BY <1>0, <2>1, <2>2, <2>9 DEF IteratorsCounted
  <2> QED
    BY <2>3, <2>7, <2>8, <2>10 DEF ListInv
<1> QED
  BY <1>1, <1>2

LEMMA ItInsertFact ==
    ASSUME ListInv, ItInsert
    PROVE  ListInv'
<1> DEFINE after == pc = "after" \/ (pc = "entry" /\ call.arg = 1)
           x == it[call.it]
<1>0. /\ call.kind = "add" /\ pc # "idle" /\ call.data \in Data /\ live
      /\ UNCHANGED <<live, nb_iterators, it, call>>
  BY LiveFact DEF ItInsert, ListInv, TypeOK, WellFormed
<1>1. CASE AddFirst \/ AddLast
  BY <1>0, <1>1, AddEndFact
<1>2. CASE NoMemory
  <2>1. Returned /\ UNCHANGED <<first, last, nb_elements, data, prev, next, used, order>>
    BY <1>2, AddsReturn DEF NoMemory, desc, heap
  <2> QED
    BY <1>0, <2>1, ReturnIdle DEF ListInv, TypeOK
<1>3. ASSUME x # (IF after THEN last ELSE first), NEW e \in Elems \ used,
             IF after THEN Create(e, x, next[x]) ELSE Create(e, prev[x], x),
             order' = InsertAt(order, Pos(x) + (IF after THEN 1 ELSE 0), e),
             UNCHANGED <<first, last>>
      PROVE  ListInv'
  <2>1. x \in used
    <3>1. pc \in {"before", "after"} \/ (pc = "entry" /\ call.where = "it")
      BY DEF ItInsert
    <3>2. CASE pc = "before"
      BY <3>2 DEF ListInv, IteratorsValid
    <3>3. CASE pc = "after"
      BY <1>3, <3>3 DEF ListInv, IteratorsValid
    <3>4. CASE pc = "entry" /\ call.where = "it"
      <4>1. x \in used \cup {Null} /\ (x \in used \/ first = Null)
        BY <1>0, <3>4 DEF ListInv, IteratorsValid
      <4>2. first = Null <=> last = Null
        BY EndFact DEF ListInv
      <4> QED
        BY <1>3, <4>1, <4>2
    <3> QED
      BY <3>1, <3>2, <3>3, <3>4
  <2>2. Returned
    BY <1>3 DEF Create, Return, Returned
  <2>3. after \in BOOLEAN
    OBVIOUS
  <2> HIDE DEF after, x
  <2>4. WellLinked' /\ HeapTypes' /\ used \subseteq used'
    BY <1>0, <1>3, <2>1, <2>3, InsertBesideFact DEF ListInv
  <2> QED
    BY <1>0, <2>2, <2>4, ReturnSame
<1> QED
  BY <1>1, <1>2, <1>3 DEF ItInsert

\* iterator_get: the iterator goes to a neighbour of the element that leaves.
LEMMA ItGetFact ==
    ASSUME ListInv, ItGet
    PROVE  ListInv'
<1> DEFINE e == it[call.it]
<1>0. /\ Here("get") /\ live /\ UNCHANGED <<live, nb_iterators, call>>
      /\ call.where \in {"it", "idx", "find"} /\ e \in used \cup {Null}
  BY LiveFact DEF ItGet, Here, ListInv, IteratorsValid
<1>1. CASE e = Null
  <2>1. Returned /\ UNCHANGED <<first, last, nb_elements, data, prev, next, used, it, order>>
    BY <1>1 DEF ItGet, Return, Returned, desc, heap
  <2> QED
    BY <1>0, <2>1, ReturnIdle DEF ListInv, TypeOK
<1>2. CASE e # Null
  <2>0. e \in used
    BY <1>0, <1>2
  <2> DEFINE go == IF e = last' THEN prev[e] ELSE next[e]
  <2>1. /\ Unlink(e) /\ Returned
        /\ it' = [Orphaned(e) EXCEPT ![call.it] = go]
        /\ CASE e = first -> update_desc(next[e], last)
             [] e # first /\ e = last -> update_desc(first, prev[e])
             [] OTHER -> UNCHANGED <<first, last>>
    BY <1>2 DEF ItGet, Return, Returned
  <2>c. call.it \in AllIters /\ (call.it \in Iters => e # Absent)
    BY <1>0, <2>0, CallFact, MarkFact DEF ListInv
  <2>n. prev[e] \in (used \ {e}) \cup {Null} /\ next[e] \in (used \ {e}) \cup {Null}
    BY <2>0, EndFact, NeighbourFact DEF ListInv
  <2>2. WellLinked' /\ HeapTypes' /\ used' = used \ {e}
    <3>1. CASE e = first
      <4>1. update_desc(next[e], last)
        BY <2>1, <3>1
      <4> QED
        BY <2>0, <2>1, <3>1, <4>1, UnlinkFirstFact DEF ListInv
    <3>2. CASE e # first /\ e = last
      <4>1. update_desc(first, prev[e])
        BY <2>1, <3>2
      <4> QED
        BY <2>0, <2>1, <3>2, <4>1, UnlinkLastFact DEF ListInv
    <3>3. CASE e # first /\ e # last
      <4>1. UNCHANGED <<first, last>>
        BY <2>1, <3>3
      <4> HIDE DEF e
      <4> QED
        BY <2>0, <2>1, <3>3, <4>1, UnlinkFact DEF ListInv
    <3> QED
      BY <3>1, <3>2, <3>3
  <2>3. go \in used' \cup {Null} /\ go \in Ptr /\ go # Absent
    BY <2>n, <2>2, MarkFact DEF ListInv
  <2> HIDE DEF go
  <2>4. \A i \in AllIters : it'[i] = IF i = call.it THEN go ELSE IF it[i] = e THEN Freed ELSE it[i]
    BY <2>1 DEF Orphaned
  <2>5. ItTypes'
    BY <2>1, <2>3 DEF ItTypes, Orphaned, ListInv, TypeOK
  <2>6. ItPlaces'
    BY <2>2, <2>3, <2>4 DEF ItPlaces, ListInv, IteratorsValid
  <2>7. SameAbsent
    BY <2>0, <2>c, <2>3, <2>4, MarkFact DEF SameAbsent, ListInv
  <2> QED
    BY <1>0, <2>1, <2>2, <2>5, <2>6, <2>7, ReturnFact
<1> QED
  BY <1>1, <1>2

\* iterator_init and iterator_remove keep the count.
LEMMA ItInitFact ==
    ASSUME ListInv, ItInit \/ ItRemove
    PROVE  ListInv'
<1> DEFINE i == call.it
           S == {j \in Iters : it[j] # Absent}
           e == IF call.arg = 1 THEN first ELSE last
<1>0. /\ live /\ Returned /\ call' = call /\ live' = live /\ call.where = "it" /\ pc = "entry"
      /\ UNCHANGED <<first, last, nb_elements, data, prev, next, used, order>> /\ used' = used
  BY LiveFact DEF ItInit, ItRemove, At, Return, Returned, desc, heap
<1>1. WellLinked' /\ HeapTypes'
  BY <1>0, SameLinks DEF ListInv
<1>2. i \in Iters /\ i \in AllIters /\ it \in [AllIters -> Ptr \cup {Freed, Absent}]
  BY <1>0 DEF ListInv, TypeOK, WellFormed, AllIters
<1>3. IsFiniteSet(S) /\ nb_iterators = Cardinality(S) /\ Cardinality(S) \in Nat
  <2>1. IsFiniteSet(S)
    BY ListAssumption, FS_Subset
  <2> QED
    BY <2>1, FS_CardinalityType DEF ListInv, IteratorsCounted
<1>4. e \in used \cup {Null} /\ e \in Ptr /\ e # Absent
  BY EndFact, MarkFact DEF ListInv, TypeOK
<1> HIDE DEF e
<1>5. CASE ItInit
  <2>1. it' = [it EXCEPT ![i] = e] /\ nb_iterators' = nb_iterators + 1 /\ call.kind = "iterator"
    BY <1>5 DEF ItInit, At, e
  <2>2. it[i] = Absent
    BY <1>0, <2>1 DEF ListInv, IteratorsCounted
  <2>3. {j \in Iters : it'[j] # Absent} = S \cup {i} /\ i \notin S
    BY <1>2, <1>4, <2>1, <2>2 DEF AllIters
  <2>4. Cardinality(S \cup {i}) = Cardinality(S) + 1
    BY <1>3, <2>3, FS_AddElement
  <2>5. ItTypes' /\ ItPlaces'
    <3>1. ItTypes' /\ \A j \in AllIters : it'[j] = IF j = i THEN e ELSE it[j]
      BY <1>2, <1>4, <2>1 DEF ItTypes
    <3> QED
      BY <1>0, <1>4, <3>1 DEF ItPlaces, ListInv, IteratorsValid
  <2>6. TypeOK'
    BY <1>0, <1>1, <2>1, <2>5 DEF ListInv, TypeOK, HeapTypes, ItTypes, Returned, WellFormed, Ptr
  <2>7. IteratorsValid'
    BY <1>0, <2>5 DEF IteratorsValid, ItPlaces, Returned
  <2>8. IteratorsCounted'
    BY <1>0, <1>3, <2>1, <2>3, <2>4 DEF IteratorsCounted, Returned
  <2> QED
    BY <1>1, <2>6, <2>7, <2>8 DEF ListInv
<1>6. CASE ItRemove
  <2>1. it' = [it EXCEPT ![i] = Absent] /\ nb_iterators' = nb_iterators - 1 /\ call.kind = "drop"
    BY <1>6 DEF ItRemove, At
  <2>2. it[i] # Absent
    BY <1>0, <2>1 DEF ListInv, IteratorsCounted
  <2>3. {j \in Iters : it'[j] # Absent} = S \ {i} /\ i \in S
    BY <1>2, <2>1, <2>2 DEF AllIters
  <2>4. Cardinality(S \ {i}) = Cardinality(S) - 1 /\ Cardinality(S \ {i}) \in Nat
    BY <1>3, <2>3, FS_RemoveElement, FS_CardinalityType
  <2>5. ItTypes' /\ ItPlaces'
    <3>1. ItTypes' /\ \A j \in AllIters : it'[j] = IF j = i THEN Absent ELSE it[j]
      BY <1>2, <2>1 DEF ItTypes
    <3> QED
      BY <1>0, <3>1 DEF ItPlaces, ListInv, IteratorsValid
  <2>6. nb_iterators' \in Nat
    BY <1>3, <2>1, <2>4
  <2>7. TypeOK'
    BY <1>0, <1>1, <2>5, <2>6 DEF ListInv, TypeOK, HeapTypes, ItTypes, Returned, WellFormed, Ptr
  <2>8. IteratorsValid'
    BY <1>0, <2>5 DEF IteratorsValid, ItPlaces, Returned
  <2>9. IteratorsCounted'
    BY <1>0, <1>3, <2>1, <2>3, <2>4 DEF IteratorsCounted, Returned
  <2> QED
    BY <1>1, <2>7, <2>8, <2>9 DEF ListInv
<1> QED
  BY <1>5, <1>6

\* list_init makes an empty list.
LEMMA ListInitFact ==
    ASSUME ListInv, ListInit
    PROVE  ListInv'
<1>0. /\ call.kind = "init" /\ pc = "entry" /\ Returned /\ call' = call
      /\ live' = TRUE /\ first' = Null /\ last' = Null /\ nb_elements' = 0 /\ nb_iterators' = 0
      /\ it' = [it EXCEPT !["l_it"] = Null]
      /\ UNCHANGED <<data, prev, next, used, order>>
  BY DEF ListInit, At, Return, Returned, heap
<1>1. used = {} /\ nb_iterators = 0
  BY <1>0 DEF ListInv, IteratorsCounted
<1>2. order = <<>>
  <2>1. DOMAIN order = 1 .. Len(order) /\ Len(order) \in Nat /\ \A p \in DOMAIN order : order[p] \in used
    BY EndFact DEF ListInv, WellLinked
  <2>2. Len(order) = 0
    BY <1>1, <2>1
  <2> QED
    BY <2>2, EndFact DEF ListInv
<1>3. WellLinked'
  BY <1>0, <1>1, <1>2 DEF WellLinked
<1>4. it \in [AllIters -> Ptr \cup {Freed, Absent}] /\ Null \in Ptr /\ "l_it" \notin Iters
  BY MarkFact DEF ListInv, TypeOK
<1>5. \A i \in AllIters : it'[i] = IF i = "l_it" THEN Null ELSE it[i]
  BY <1>0, <1>4
<1>6. SameAbsent
  BY <1>4, <1>5 DEF SameAbsent, AllIters
<1>7. TypeOK'
  BY <1>0, <1>4 DEF ListInv, TypeOK, Returned, WellFormed
<1>8. IteratorsValid'
  BY <1>0, <1>5 DEF IteratorsValid, Returned, ListInv
<1>9. nb_iterators' = Cardinality({i \in Iters : it'[i] # Absent})
  BY <1>0, <1>1, <1>6, SameCount DEF ListInv
<1>10. IteratorsCounted'
  BY <1>0, <1>9 DEF IteratorsCounted, Returned
<1> QED
  BY <1>3, <1>7, <1>8, <1>10 DEF ListInv

\* list_remove empties the list, one element at a time, and frees it only then.
LEMMA ListRemoveFact ==
    ASSUME ListInv, ListRemove
    PROVE  ListInv'
<1>0. /\ call.kind = "remove" /\ call.where = "list" /\ pc = "entry" /\ live /\ elem = Null
      /\ nb_iterators' = nb_iterators /\ call' = call
  BY LiveFact DEF ListRemove, At, ListInv, IteratorsValid
<1>1. CASE nb_iterators # 0
  <2>1. Returned /\ UNCHANGED <<live, first, last, nb_elements, data, prev, next, used, it, order>>
    BY <1>1 DEF ListRemove, Return, Returned, desc, heap
  <2> QED
    BY <1>0, <2>1, ReturnIdle DEF ListInv, TypeOK
<1>2. CASE nb_iterators = 0 /\ nb_elements # 0
  <2>1. GetFirst /\ UNCHANGED <<live, pc, elem, left>>
    BY <1>2 DEF ListRemove, loop
  <2>2. WellLinked' /\ HeapTypes' /\ ItTypes' /\ ItPlaces' /\ SameAbsent
    BY <1>2, <2>1, GetFirstFact
  <2>3. TypeOK'
    BY <1>0, <2>1, <2>2 DEF ListInv, TypeOK, HeapTypes, ItTypes, WellFormed
  <2>4. IteratorsValid'
    BY <1>0, <2>1, <2>2 DEF IteratorsValid, ItPlaces
  <2>5. nb_iterators' = Cardinality({i \in Iters : it'[i] # Absent})
    BY <1>0, <2>2, SameCount DEF ListInv
  <2>6. IteratorsCounted'
    BY <1>0, <2>1, <2>5 DEF IteratorsCounted
  <2> QED
    BY <2>2, <2>3, <2>4, <2>6 DEF ListInv
<1>3. CASE nb_iterators = 0 /\ nb_elements = 0
  <2>1. /\ Returned /\ live' = FALSE /\ it' = it
        /\ UNCHANGED <<first, last, nb_elements, data, prev, next, used, order>> /\ used' = used
    BY <1>3 DEF ListRemove, Return, Returned, desc, heap
  <2>2. WellLinked' /\ HeapTypes'
    BY <2>1, SameLinks DEF ListInv
  <2>3. used = {}
    <3>1. order = <<>>
      BY <1>3, EndFact DEF ListInv
    <3> QED
      BY <3>1 DEF ListInv, WellLinked
  <2>4. TypeOK'
    BY <1>0, <2>1, <2>2 DEF ListInv, TypeOK, HeapTypes, WellFormed, Returned, Ptr
  <2>5. IteratorsValid'
    BY <2>1 DEF IteratorsValid, ListInv, Returned
  <2>6. nb_iterators' = Cardinality({i \in Iters : it'[i] # Absent})
    BY <1>0, <2>1 DEF ListInv, IteratorsCounted
  <2>7. IteratorsCounted'
    BY <1>0, <1>3, <2>1, <2>3, <2>6 DEF IteratorsCounted, Returned
  <2> QED
    BY <2>2, <2>4, <2>5, <2>7 DEF ListInv
<1> QED
  BY <1>1, <1>2, <1>3

\* Every step of every call keeps the invariant.
LEMMA NextFact ==
    ListInv /\ [Next]_vars => ListInv'
<1> SUFFICES ASSUME ListInv, [Next]_vars PROVE ListInv'
  OBVIOUS
<1>1. ASSUME NEW c \in Calls, Begin(c) PROVE ListInv'
  BY <1>1, BeginFact
<1>2. CASE AddEnd
  BY <1>2, AddEndFact DEF AddEnd, At
<1>3. CASE EditEnd \/ ItEdit
  <2>0. /\ call.kind = "edit" /\ pc # "idle" /\ Returned /\ call.data \in Data
        /\ UNCHANGED <<live, first, last, nb_elements, nb_iterators, prev, next, used, it, call, order>>
    BY <1>3 DEF EditEnd, ItEdit, At, Here, Return, Returned, ListInv, TypeOK, WellFormed, desc
  <2>1. live
    BY <2>0, LiveFact
  <2>2. data' \in [Elems -> Data \cup {NoData}]
    BY <1>3, <2>0 DEF EditEnd, ItEdit, ListInv, TypeOK
  <2> QED
    BY <2>0, <2>1, <2>2, ReturnIdle
<1>4. CASE ReadEnd \/ ItRead \/ GetSize
  <2>0. /\ call.kind # "init" /\ pc # "idle" /\ Returned
        /\ UNCHANGED <<live, first, last, nb_elements, nb_iterators, data, prev, next, used, it, call, order>>
    BY <1>4 DEF ReadEnd, ItRead, GetSize, At, Here, Return, Returned, desc, heap
  <2>1. live /\ data \in [Elems -> Data \cup {NoData}]
    BY <2>0, LiveFact DEF ListInv, TypeOK
  <2> QED
    BY <2>0, <2>1, ReturnIdle
<1>5. CASE GetEnd
  BY <1>5, GetEndFact
<1>6. CASE AddIdx
  <2>0. At("add", "idx") /\ live
    BY <1>6, LiveFact DEF AddIdx, At
  <2>1. CASE WalkIdx
    BY <2>0, <2>1, WalkIdxFact DEF At
  <2>2. CASE (AddFirst \/ AddLast) /\ UNCHANGED <<live, nb_iterators, it, call>>
    BY <2>0, <2>2, AddEndFact DEF At
  <2> QED
    BY <1>6, <2>1, <2>2 DEF AddIdx
<1>7. CASE EditIdx \/ GetIdx
  BY <1>7, LiveFact, WalkIdxFact DEF EditIdx, GetIdx, At
<1>8. CASE ReadIdx
  <2>0. At("read", "idx") /\ live
    BY <1>8, LiveFact DEF ReadIdx, At
  <2>1. CASE WalkIdx
    BY <2>0, <2>1, WalkIdxFact DEF At
  <2>2. CASE Return(FALSE, NoData) /\ UNCHANGED <<walked, it>>
    <3>1. Returned /\ call' = call
          /\ UNCHANGED <<live, first, last, nb_elements, nb_iterators, data, prev, next, used, it, order>>
      BY <2>2 DEF Return, Returned, walked, desc, heap
    <3> QED
      BY <2>0, <3>1, ReturnIdle DEF ListInv, TypeOK
  <2> QED
    BY <1>8, <2>1, <2>2 DEF ReadIdx
<1>9. CASE ItMove
  <2>0. /\ At("move", "it") /\ live /\ UNCHANGED walked /\ it' = it /\ elem' = it[call.it] /\ pc' = "move"
    BY <1>9, LiveFact DEF ItMove, At
  <2>1. elem' \in used \cup {Null} /\ it[call.it] # Absent
    BY <2>0 DEF At, ListInv, IteratorsValid, IteratorsCounted
  <2>2. left' \in Nat
    <3>1. call.arg \in Int
      BY <2>0 DEF At, ListInv, TypeOK, WellFormed
    <3> QED
      BY <1>9, <3>1 DEF ItMove
  <2>3. ItTypes' /\ SameAbsent /\ \A i \in AllIters : it'[i] \in used \cup {Null, Freed, Absent}
    BY <2>0 DEF ItTypes, SameAbsent, ListInv, TypeOK, IteratorsValid
  <2> QED
    BY <2>0, <2>1, <2>2, <2>3, WalkFact DEF At
<1>10. CASE MoveStep \/ FindStep \/ SearchStep
  <2>1. left' \in Nat
    BY <1>10 DEF MoveStep, FindStep, SearchStep, ListInv, TypeOK
  <2> QED
    BY <1>10, <2>1, StepFact DEF MoveStep, FindStep, SearchStep
<1>11. CASE MoveEnd \/ FindEnd
  BY <1>11, MoveEndFact
<1>12. CASE EditFind \/ ReadFind \/ GetFind \/ ItFind
  <2>1. live /\ call.where \in {"it", "find"} /\ WalkFind
    BY <1>12, LiveFact DEF EditFind, ReadFind, GetFind, ItFind, At
  <2>2. it' = it \/ it' = [it EXCEPT !["l_it"] = first]
    BY <1>12 DEF EditFind, ReadFind, GetFind, ItFind
  <2>3. call.where = "it" => it[call.it] # Absent
    BY <1>12 DEF EditFind, ReadFind, GetFind, ItFind, At, ListInv, IteratorsCounted
  <2> QED
    BY <2>1, <2>2, <2>3, WalkFindFact
<1>13. CASE AddFind
  <2>0. /\ At("add", "find") /\ live /\ UNCHANGED walked /\ it' = it /\ elem' = first /\ pc' = "search"
        /\ left' = left
    BY <1>13, LiveFact DEF AddFind, At
  <2>1. elem' \in used \cup {Null} /\ left' \in Nat
    BY <2>0, EndFact DEF ListInv, TypeOK
  <2>2. ItTypes' /\ SameAbsent /\ \A i \in AllIters : it'[i] \in used \cup {Null, Freed, Absent}
    BY <2>0 DEF ItTypes, SameAbsent, ListInv, TypeOK, IteratorsValid
  <2> QED
    BY <2>0, <2>1, <2>2, WalkFact DEF At
<1>14. CASE SearchEnd
  BY <1>14, SearchEndFact
<1>15. CASE ItInsert
  BY <1>15, ItInsertFact
<1>16. CASE ItGet
  BY <1>16, ItGetFact
<1>17. CASE ItInit \/ ItRemove
  BY <1>17, ItInitFact
<1>18. CASE ListInit
  BY <1>18, ListInitFact
<1>19. CASE ListRemove
  BY <1>19, ListRemoveFact
<1>20. CASE UNCHANGED vars
  <2>0. /\ UNCHANGED <<live, nb_iterators, it, pc, call, elem, left>> /\ used' = used
        /\ UNCHANGED <<first, last, nb_elements, data, prev, next, used, order>>
    BY <1>20 DEF vars, desc, heap, loop
  <2>1. WellLinked' /\ TypeOK'
    BY <2>0, SameLinks DEF ListInv, TypeOK, WellFormed
  <2>2. IteratorsValid' /\ IteratorsCounted'
    BY <2>0 DEF ListInv, IteratorsValid, IteratorsCounted
  <2> QED
    BY <2>1, <2>2 DEF ListInv
<1> QED
  BY <1>1, <1>2, <1>3, <1>4, <1>5, <1>6, <1>7, <1>8, <1>9, <1>10, <1>11, <1>12, <1>13, <1>14,
     <1>15, <1>16, <1>17, <1>18, <1>19, <1>20 DEF Next

-----------------------------------------------------------------------------
(* The theorems.                                                           *)

\* The invariant of the list holds in every state, for any number of elements and iterators.
THEOREM ListInvariance == Spec => []ListInv
BY InitFact, NextFact, PTL DEF Spec

\* The links always describe one sequence, the same from either end, of exactly the elements
\* in use: no function of list.c, at any index and through any iterator, loses, repeats or
\* leaks an element.
THEOREM ListWellLinked == Spec => []WellLinked
<1>1. ListInv => WellLinked
  BY DEF ListInv
<1> QED
  BY <1>1, ListInvariance, PTL

\* The code follows no iterator and no loop variable to an element that was removed.
THEOREM ListIteratorsValid == Spec => []IteratorsValid
<1>1. ListInv => IteratorsValid
  BY DEF ListInv
<1> QED
  BY <1>1, ListInvariance, PTL

\* nb_iterators is the number of iterators, so list_remove frees no list that one of them uses.
THEOREM ListIteratorsCounted == Spec => []IteratorsCounted
<1>1. ListInv => IteratorsCounted
  BY DEF ListInv
<1> QED
  BY <1>1, ListInvariance, PTL

-----------------------------------------------------------------------------
(* Where a call is on its way: what its loop has passed, and what it found. *)

\* Every element in use holds data.
Filled == \A e \in used : data[e] \in Data

\* The places that a loop at e has passed.
Passed(e) == IF e = Null THEN DOMAIN order ELSE 1 .. Pos(e) - 1

NoMatch(e) == \A p \in Passed(e) : Rank[data[order[p]]] # Rank[call.arg]
NoGreater(e) == \A p \in Passed(e) : Rank[data[order[p]]] <= Rank[call.data]

\* The place that iterator_move goes to.
Goal == IF call.where = "idx" THEN call.arg + 1 ELSE Pos(it[call.it]) + call.arg

\* What a call does is still to be done.
Underway ==
    /\ ret.done <=> pc = "idle"
    /\ (call.where = "find" /\ call.kind # "add") \/ call.kind = "find" => call.arg \in Data
    /\ call.where = "it" /\ call.kind = "add" => call.arg \in {0, 1}
    /\ call.it \in Iters => call.where = "it"

\* iterator_move: the distance left is the distance to the goal, and the loop leaves the
\* list only if the goal is outside of it.
Moving ==
    /\ \/ call.kind = "move" /\ call.where = "it" /\ it[call.it] \in used \cup {Null}
       \/ call.kind \in {"add", "edit", "read", "get"} /\ call.where = "idx"
    /\ call.where = "it" /\ it[call.it] = Null => elem = Null
    /\ elem # Null =>
          IF call.kind = "move" /\ call.arg < 0
          THEN Pos(elem) = Goal + left ELSE Goal = Pos(elem) + left
    /\ elem = Null => (call.where = "it" /\ it[call.it] = Null) \/ Goal \notin DOMAIN order

\* list_add_idx walks only to a place inside the list.
Inside == call.kind = "add" => order # <<>> /\ call.arg # 0 /\ call.arg # Len(order)

Finding ==
    /\ \/ call.kind = "find" /\ call.where = "it"
       \/ call.kind \in {"edit", "read", "get"} /\ call.where = "find"
    /\ NoMatch(elem)

Searching == call.kind = "add" /\ call.where = "find" /\ NoGreater(elem)

\* l_it is on the element that the call names.
Reached ==
    /\ call.kind \in {"edit", "read", "get"} /\ call.where \in {"idx", "find"}
    /\ call.where = "idx" => Pos(it["l_it"]) = call.arg + 1
    /\ call.where = "find" => /\ Rank[data[it["l_it"]]] = Rank[call.arg]
                              /\ NoMatch(it["l_it"])

\* The new element comes before that of l_it.
ReachedBefore ==
    /\ call.kind = "add" /\ call.where \in {"idx", "find"}
    /\ call.where = "idx" => Pos(it["l_it"]) = call.arg + 1
    /\ call.where = "find" => /\ Rank[data[it["l_it"]]] > Rank[call.data]
                              /\ NoGreater(it["l_it"])

\* The new element comes after all the others.
ReachedEnd == call.kind = "add" /\ call.where = "find" /\ NoGreater(Null)

Course ==
    /\ Underway
    /\ pc = "move" => Moving /\ Inside
    /\ pc = "find" => Finding
    /\ pc = "search" => Searching
    /\ pc = "at" => Reached
    /\ pc = "before" => ReachedBefore /\ (call.where = "idx" => Inside)
    /\ pc = "after" => ReachedEnd

\* The inductive invariant of the order of the elements.
CourseInv == ListInv /\ Filled /\ Course /\ PriorityOrder

\* The elements at the places of the list, and their neighbours.
LEMMA PlaceFact ==
    ASSUME TypeOK, WellLinked, NEW p \in 1 .. Len(order)
    PROVE  order[p] \in used /\ order[p] # Null /\ Pos(order[p]) = p
<1>1. DOMAIN order = 1 .. Len(order) /\ order[p] \in used /\ Null \notin used
  BY EndFact DEF WellLinked
<1>2. Pos(order[p]) \in 1 .. Len(order) /\ order[Pos(order[p])] = order[p]
  BY <1>1, PosFact
<1> QED
  BY <1>1, <1>2 DEF WellLinked

LEMMA NextPlace ==
    ASSUME TypeOK, WellLinked, NEW e \in used
    PROVE  /\ next[e] = Null => Pos(e) = Len(order)
           /\ next[e] # Null => next[e] \in used /\ Pos(next[e]) = Pos(e) + 1
           /\ prev[e] = Null => Pos(e) = 1
           /\ prev[e] # Null => prev[e] \in used /\ Pos(prev[e]) = Pos(e) - 1
<1>1. PICK n \in Nat : n = Len(order)
  BY EndFact
<1>2. PICK p \in 1 .. n : p = Pos(e) /\ order[p] = e
  BY <1>1, PosFact
<1>3. /\ prev[e] = (IF p = 1 THEN Null ELSE order[p - 1])
      /\ next[e] = (IF p = n THEN Null ELSE order[p + 1])
  BY <1>1, <1>2, EndFact DEF WellLinked
<1>4. \A q \in 1 .. n : order[q] \in used /\ order[q] # Null /\ Pos(order[q]) = q
  BY <1>1, PlaceFact
<1>5. (p # 1 => p - 1 \in 1 .. n) /\ (p # n => p + 1 \in 1 .. n)
  OBVIOUS
<1> QED
  BY <1>1, <1>2, <1>3, <1>4, <1>5

\* A loop that starts has passed nothing, and one that goes on has passed one element more.
LEMMA PassedFact ==
    ASSUME TypeOK, WellLinked
    PROVE  /\ Passed(first) = {}
           /\ \A e \in used : Passed(next[e]) = Passed(e) \cup {Pos(e)}
           /\ Passed(Null) = 1 .. Len(order)
           /\ \A e \in used : Passed(e) = 1 .. Pos(e) - 1
<1>1. PICK n \in Nat : n = Len(order) /\ DOMAIN order = 1 .. n
  BY EndFact
<1>2. Passed(first) = {}
  <2>1. CASE first = Null
    BY <1>1, <2>1, EndFact DEF Passed
  <2>2. CASE first # Null
    BY <2>2, EndFact, NeighbourFact DEF Passed
  <2> QED
    BY <2>1, <2>2
<1>3. Passed(Null) = 1 .. n
  BY <1>1 DEF Passed
<1>4. ASSUME NEW e \in used
      PROVE  Passed(next[e]) = Passed(e) \cup {Pos(e)} /\ Passed(e) = 1 .. Pos(e) - 1
  <2>1. PICK p \in 1 .. n : p = Pos(e)
    BY <1>1, PosFact
  <2>2. Passed(e) = 1 .. p - 1
    BY <2>1, EndFact DEF Passed
  <2>3. CASE next[e] = Null
    BY <1>1, <1>3, <2>1, <2>2, <2>3, NextPlace
  <2>4. CASE next[e] # Null
    <3>1. Passed(next[e]) = 1 .. p
      BY <2>1, <2>4, NextPlace DEF Passed
    <3> QED
      BY <2>1, <2>2, <3>1
  <2> QED
    BY <2>1, <2>2, <2>3, <2>4
<1> QED
  BY <1>1, <1>2, <1>3, <1>4

\* What the elements hold is in the order of the comparator.
LEMMA RankFact ==
    ASSUME TypeOK, WellLinked, Filled
    PROVE  /\ \A d \in Data : Rank[d] \in Int
           /\ \A p \in 1 .. Len(order) : data[order[p]] \in Data /\ Rank[data[order[p]]] \in Int
BY PlaceFact, ListAssumption DEF Filled

-----------------------------------------------------------------------------
(* The order of the elements, for each way in which a step changes them.   *)

\* A new element fits at place p: nothing greater before it, and a greater one next.
Fits(p) ==
    /\ \A q \in 1 .. p - 1 : Rank[data[order[q]]] <= Rank[call.data]
    /\ p <= Len(order) => Rank[data[order[p]]] > Rank[call.data]

\* A new element has come to place p, and the call is done.
InsertedAt(p) ==
    /\ \E e \in Elems \ used :
          /\ used' = used \cup {e} /\ data' = [data EXCEPT ![e] = call.data]
          /\ order' = InsertAt(order, p, e)
    /\ ordered' = (ordered /\ call.where = "find")
    /\ Return(TRUE, NoData)

LEMMA CourseIdle ==
    ASSUME Course, call' = call, pc' = "idle", ret'.done
    PROVE  Course'
BY DEF Course, Underway

LEMMA SameKeeps ==
    ASSUME Filled, PriorityOrder, UNCHANGED <<used, data, order>>, live' => live, ordered' => ordered
    PROVE  Filled' /\ PriorityOrder'
BY DEF Filled, PriorityOrder

\* An insertion where the element fits keeps the order.
LEMMA InsertKeeps ==
    ASSUME ListInv, Filled, PriorityOrder, call.data \in Data, live' = live,
           NEW p \in 1 .. Len(order) + 1, InsertedAt(p),
           call.where = "find" => Fits(p)
    PROVE  Filled' /\ PriorityOrder'
<1>1. PICK n \in Nat : n = Len(order)
  BY EndFact DEF ListInv
<1>2. PICK e \in Elems \ used :
          /\ used' = used \cup {e} /\ data' = [data EXCEPT ![e] = call.data]
          /\ order' = InsertAt(order, p, e)
  BY DEF InsertedAt
<1>d. used \subseteq Elems /\ data \in [Elems -> Data \cup {NoData}] /\ order \in Seq(Elems)
  BY DEF ListInv, TypeOK
<1>3. \A x \in Elems : data'[x] = IF x = e THEN call.data ELSE data[x]
  BY <1>2, <1>d
<1>4. Filled'
  BY <1>2, <1>3, <1>d DEF Filled
<1>5. /\ order' \in Seq(Elems) /\ Len(order') = n + 1 /\ order'[p] = e
      /\ \A i \in 1 .. p - 1 : order'[i] = order[i]
      /\ \A i \in p + 1 .. n + 1 : order'[i] = order[i - 1]
  <2>1. /\ InsertAt(order, p, e) \in Seq(Elems)
        /\ Len(InsertAt(order, p, e)) = Len(order) + 1
        /\ InsertAt(order, p, e)[p] = e
        /\ \A i \in 1 .. p - 1 : InsertAt(order, p, e)[i] = order[i]
        /\ \A i \in p + 1 .. Len(order) + 1 : InsertAt(order, p, e)[i] = order[i - 1]
    BY ONLY <1>d, e \in Elems \ used, p \in 1 .. Len(order) + 1, InsertFact
  <2> QED
    BY <1>1, <1>2, <2>1
<1>6. DOMAIN order' = 1 .. n + 1
  BY <1>5
<1>7. \A q \in 1 .. n : order[q] \in Elems /\ order[q] # e /\ Rank[data[order[q]]] \in Int
  BY <1>1, <1>d, PlaceFact, RankFact DEF ListInv
<1>8. PICK r \in Int : r = Rank[call.data]
  BY RankFact DEF ListInv
<1> DEFINE o(q) == Rank[data[order[q]]]
           m(q) == Rank[data'[order'[q]]]
<1>9. /\ m(p) = r
      /\ \A q \in 1 .. p - 1 : m(q) = o(q)
      /\ \A q \in p + 1 .. n + 1 : m(q) = o(q - 1)
  <2>1. m(p) = r
    BY <1>3, <1>5, <1>8
  <2>2. ASSUME NEW q \in 1 .. p - 1 PROVE m(q) = o(q)
    BY <1>1, <1>3, <1>5, <1>7
  <2>3. ASSUME NEW q \in p + 1 .. n + 1 PROVE m(q) = o(q - 1)
    <3>1. q - 1 \in 1 .. n
      BY <1>1
    <3> QED
      BY <1>3, <1>5, <1>7, <3>1
  <2> QED
    BY <2>1, <2>2, <2>3
<1>10. ASSUME live', ordered' PROVE \A i, j \in 1 .. n + 1 : i < j => m(i) <= m(j)
  <2>1. Fits(p) /\ \A i, j \in 1 .. n : i < j => o(i) <= o(j)
    BY <1>1, <1>10, EndFact DEF InsertedAt, PriorityOrder, ListInv
  <2>2. /\ \A q \in 1 .. p - 1 : o(q) <= r
        /\ p <= n => o(p) > r
    BY <1>1, <1>8, <2>1 DEF Fits
  <2>3. \A q \in 1 .. n : o(q) \in Int
    BY <1>7
  <2> HIDE DEF m, o
  <2> SUFFICES ASSUME NEW i \in 1 .. n + 1, NEW j \in 1 .. n + 1, i < j PROVE m(i) <= m(j)
    OBVIOUS
  <2>4. CASE i < p /\ j < p
    BY <1>1, <1>9, <2>1, <2>4
  <2>5. CASE i < p /\ j = p
    BY <1>1, <1>9, <2>2, <2>5
  <2>6. CASE i < p /\ j > p
    BY <1>1, <1>9, <2>1, <2>6
  <2>7. CASE i = p /\ j > p
    <3>1. m(j) = o(j - 1) /\ j - 1 \in p .. n /\ p \in 1 .. n /\ j - 1 \in 1 .. n
      BY <1>1, <1>9, <2>7
    <3>2. o(p) > r /\ o(p) <= o(j - 1) /\ o(p) \in Int /\ o(j - 1) \in Int
      BY <2>1, <2>2, <2>3, <3>1
    <3> QED
      BY <1>9, <2>7, <3>1, <3>2
  <2>8. CASE i > p
    BY <1>1, <1>9, <2>1, <2>8
  <2> QED
    BY <1>1, <2>4, <2>5, <2>6, <2>7, <2>8
<1> QED
  BY <1>4, <1>6, <1>10 DEF PriorityOrder

\* A removal keeps the order.
LEMMA RemoveKeeps ==
    ASSUME ListInv, Filled, PriorityOrder, NEW e \in used, Unlink(e), live' = live, ordered' = ordered
    PROVE  Filled' /\ PriorityOrder'
<1>1. PICK n \in Nat : n = Len(order)
  BY EndFact DEF ListInv
<1>2. PICK p \in 1 .. n : p = Pos(e) /\ order[p] = e
  BY <1>1, PosFact DEF ListInv
<1>d. used \subseteq Elems /\ data \in [Elems -> Data \cup {NoData}] /\ order \in Seq(Elems)
  BY DEF ListInv, TypeOK
<1>3. used' = used \ {e} /\ \A x \in Elems \ {e} : data'[x] = data[x]
  BY <1>d DEF Unlink
<1>4. Filled'
  BY <1>3, <1>d DEF Filled
<1>5. /\ order' \in Seq(Elems) /\ Len(order') = n - 1
      /\ \A i \in 1 .. p - 1 : order'[i] = order[i]
      /\ \A i \in p .. n - 1 : order'[i] = order[i + 1]
  BY <1>1, <1>2, <1>d, RemoveFact DEF Unlink
<1>6. DOMAIN order' = 1 .. n - 1
  BY <1>5
<1>7. \A q \in 1 .. n : order[q] \in Elems /\ (q # p => order[q] # e)
  BY <1>1, <1>2, <1>d, PlaceFact DEF ListInv
<1> DEFINE o(q) == Rank[data[order[q]]]
           m(q) == Rank[data'[order'[q]]]
           was(q) == IF q < p THEN q ELSE q + 1
<1>8. \A q \in 1 .. n - 1 : m(q) = o(was(q)) /\ was(q) \in 1 .. n
  <2> SUFFICES ASSUME NEW q \in 1 .. n - 1 PROVE m(q) = o(was(q)) /\ was(q) \in 1 .. n
    OBVIOUS
  <2>1. was(q) \in 1 .. n /\ was(q) # p /\ order'[q] = order[was(q)]
    BY <1>5
  <2> HIDE DEF was
  <2> QED
    BY <1>3, <1>7, <2>1
<1>9. ASSUME live', ordered' PROVE \A i, j \in 1 .. n - 1 : i < j => m(i) <= m(j)
  <2>1. \A i, j \in 1 .. n : i < j => o(i) <= o(j)
    BY <1>1, <1>9, EndFact DEF PriorityOrder, ListInv
  <2>2. \A i, j \in 1 .. n - 1 : i < j => was(i) < was(j)
    OBVIOUS
  <2> HIDE DEF m, o, was
  <2> QED
    BY <1>8, <2>1, <2>2
<1> QED
  BY <1>4, <1>6, <1>9 DEF PriorityOrder

-----------------------------------------------------------------------------
(* Where the functions add.                                                *)

\* The place that a call names for its new element.
Named(p) ==
    /\ call.where = "first" => p = 1
    /\ call.where = "last" => p = Len(order) + 1
    /\ call.where = "idx" => p = IF order = <<>> THEN 1 ELSE call.arg + 1
    /\ call.where = "find" => Fits(p)
    /\ call.where = "it" => p = IF order = <<>> THEN 1 ELSE Pos(it[call.it]) + call.arg

Adds == NoMemory \/ \E p \in 1 .. Len(order) + 1 : InsertedAt(p) /\ Named(p)

LEMMA AddFirstPlace ==
    ASSUME ListInv, AddFirst, Named(1)
    PROVE  Adds
<1>1. 1 \in 1 .. Len(order) + 1
  BY EndFact DEF ListInv
<1>2. NoMemory \/ InsertedAt(1)
  BY DEF AddFirst, InsertedAt, Create
<1> QED
  BY <1>1, <1>2 DEF Adds

LEMMA AddLastPlace ==
    ASSUME ListInv, AddLast, Named(Len(order) + 1)
    PROVE  Adds
<1>1. Len(order) + 1 \in 1 .. Len(order) + 1
  BY EndFact DEF ListInv
<1>2. NoMemory \/ InsertedAt(Len(order) + 1)
  BY DEF AddLast, InsertedAt, Create
<1> QED
  BY <1>1, <1>2 DEF Adds

LEMMA AddEndPlace ==
    ASSUME ListInv, AddEnd
    PROVE  Adds
<1>1. CASE At("add", "first") /\ AddFirst
  <2>1. Named(1)
    BY <1>1 DEF Named, At
  <2> QED
    BY <1>1, <2>1, AddFirstPlace
<1>2. CASE At("add", "last") /\ AddLast
  <2>1. Named(Len(order) + 1)
    BY <1>2 DEF Named, At
  <2> QED
    BY <1>2, <2>1, AddLastPlace
<1> QED
  BY <1>1, <1>2 DEF AddEnd

\* list_add_idx adds at the ends itself, and walks to the places between them.
LEMMA AddIdxPlace ==
    ASSUME ListInv, AddIdx
    PROVE  \/ WalkIdx /\ order # <<>> /\ call.arg # 0 /\ call.arg # Len(order)
           \/ Adds /\ UNCHANGED <<live, nb_iterators, it, call>>
<1>0. /\ call.where = "idx" /\ call.arg \in Nat /\ nb_elements = Len(order) /\ Len(order) \in Nat
      /\ order = <<>> <=> Len(order) = 0
  BY EndFact DEF AddIdx, At, ListInv, TypeOK, WellFormed
<1>1. CASE (nb_elements = 0 \/ call.arg = 0) /\ AddFirst
  <2>1. Named(1)
    BY <1>0, <1>1 DEF Named
  <2> QED
    BY <1>1, <2>1, AddFirstPlace DEF AddIdx, WalkIdx, AddFirst, NoMemory, Create, Return
<1>2. CASE nb_elements # 0 /\ nb_elements = call.arg /\ AddLast
  <2>1. Named(Len(order) + 1)
    BY <1>0, <1>2 DEF Named
  <2> QED
    BY <1>2, <2>1, AddLastPlace DEF AddIdx, WalkIdx, AddLast, NoMemory, Create, Return
<1>3. CASE nb_elements # 0 /\ call.arg # 0 /\ nb_elements # call.arg /\ WalkIdx
  BY <1>0, <1>3
<1> QED
  BY <1>1, <1>2, <1>3 DEF AddIdx

\* iterator_insert adds beside its iterator, where the loop of the call has put it.
LEMMA ItInsertPlace ==
    ASSUME ListInv, Course, ItInsert
    PROVE  Adds
<1> DEFINE after == pc = "after" \/ (pc = "entry" /\ call.arg = 1)
           x == it[call.it]
           beside == Pos(x) + (IF after THEN 1 ELSE 0)
<1>0. PICK n \in Nat : n = Len(order) /\ (order = <<>> <=> n = 0)
  BY EndFact DEF ListInv
<1>e. x \in used => /\ Pos(x) \in 1 .. n /\ order[Pos(x)] = x /\ x # Null /\ order # <<>>
                    /\ x = first <=> Pos(x) = 1
                    /\ x = last <=> Pos(x) = n
  BY <1>0, PosFact, NeighbourFact DEF ListInv
<1>n. (first = Null <=> order = <<>>) /\ (last = Null <=> order = <<>>) /\ Null \notin used
  BY EndFact DEF ListInv
<1>1. CASE after /\ x = last /\ AddLast
  <2>1. Named(Len(order) + 1)
    <3>1. CASE pc = "after"
      <4>1. call.where = "find" /\ NoGreater(Null)
        BY <3>1 DEF Course, ReachedEnd
      <4>2. Passed(Null) = 1 .. n
        BY <1>0, PassedFact DEF ListInv
      <4>3. Fits(Len(order) + 1)
        BY <1>0, <4>1, <4>2 DEF NoGreater, Fits
      <4> QED
        BY <4>1, <4>3 DEF Named
    <3>2. CASE pc = "entry" /\ call.arg = 1
      <4>1. call.where = "it" /\ (x \in used \/ first = Null)
        BY <3>2 DEF ItInsert, ListInv, IteratorsValid
      <4>2. Len(order) + 1 = IF order = <<>> THEN 1 ELSE Pos(x) + call.arg
        BY <1>0, <1>1, <1>e, <1>n, <3>2, <4>1
      <4> QED
        BY <4>1, <4>2 DEF Named
    <3> QED
      BY <1>1, <3>1, <3>2
  <2> QED
    BY <1>1, <2>1, AddLastPlace
<1>b. ASSUME pc = "before"
      PROVE  x \in used /\ Named(Pos(x))
  <2>1. /\ x \in used /\ call.where \in {"idx", "find"} /\ call.it = "l_it"
        /\ call.where = "idx" => Pos(x) = call.arg + 1
        /\ call.where = "find" => Rank[data[x]] > Rank[call.data] /\ NoGreater(x)
    BY <1>b DEF ListInv, TypeOK, WellFormed, IteratorsValid, Course, ReachedBefore
  <2>2. Passed(x) = 1 .. Pos(x) - 1
    BY <2>1, PassedFact DEF ListInv
  <2> HIDE DEF x
  <2>3. call.where = "find" => Fits(Pos(x))
    BY <1>e, <2>1, <2>2 DEF NoGreater, Fits
  <2> QED
    BY <1>e, <2>1, <2>3 DEF Named
<1>i. ASSUME pc = "entry"
      PROVE  /\ call.where = "it" /\ call.arg \in {0, 1} /\ (x \in used \/ first = Null)
             /\ x \in used \cup {Null}
             /\ x \in used => Named(beside)
             /\ x = Null => order = <<>> /\ Named(1)
  <2>1. /\ call.where = "it" /\ call.arg \in {0, 1} /\ (x \in used \/ first = Null)
        /\ x \in used \cup {Null}
    BY <1>i DEF ItInsert, ListInv, IteratorsValid, Course, Underway
  <2>2. x \in used => Named(beside)
    <3>1. x \in used => beside = Pos(x) + call.arg
      BY <1>e, <1>i, <2>1
    <3> QED
      BY <1>e, <2>1, <3>1 DEF Named
  <2>3. x = Null => order = <<>>
    BY <1>n, <2>1
  <2>4. x = Null => Named(1)
    BY <2>1, <2>3 DEF Named
  <2> QED
    BY <2>1, <2>2, <2>3, <2>4
<1>2. CASE ~after /\ x = first /\ AddFirst
  <2>1. pc = "before" \/ pc = "entry"
    BY <1>2 DEF ItInsert
  <2>2. Named(1)
    <3>1. CASE pc = "before"
      BY <1>2, <1>b, <1>e, <3>1
    <3>2. CASE pc = "entry" /\ x = Null
      BY <1>i, <3>2
    <3>3. CASE pc = "entry" /\ x # Null
      <4>1. x \in used /\ Named(beside) /\ Pos(x) = 1
        BY <1>2, <1>e, <1>i, <3>3
      <4> QED
        BY <1>2, <4>1
    <3> QED
      BY <2>1, <3>1, <3>2, <3>3
  <2> QED
    BY <1>2, <2>2, AddFirstPlace
<1>3. CASE NoMemory
  BY <1>3 DEF Adds
<1>4. ASSUME x # (IF after THEN last ELSE first), NEW e \in Elems \ used,
             IF after THEN Create(e, x, next[x]) ELSE Create(e, prev[x], x),
             order' = InsertAt(order, beside, e)
      PROVE  Adds
  <2>1. pc # "after"
    BY <1>4 DEF ListInv, IteratorsValid
  <2>2. pc = "before" \/ pc = "entry"
    BY <2>1 DEF ItInsert
  <2>3. x \in used /\ Named(beside)
    <3>1. CASE pc = "before"
      <4>1. beside = Pos(x)
        BY <1>b, <1>e, <3>1
      <4> QED
        BY <1>b, <3>1, <4>1
    <3>2. CASE pc = "entry"
      <4>1. x # Null
        BY <1>4, <1>i, <1>n, <3>2
      <4> QED
        BY <1>i, <3>2, <4>1
    <3> QED
      BY <2>2, <3>1, <3>2
  <2>4. beside \in 1 .. Len(order) + 1
    BY <1>0, <1>e, <2>3
  <2>5. InsertedAt(beside)
    <3> HIDE DEF beside, after, x
    <3> QED
      BY <1>4 DEF InsertedAt, Create
  <2> HIDE DEF beside
  <2> QED
    BY <2>3, <2>4, <2>5 DEF Adds
<1> QED
  BY <1>1, <1>2, <1>3, <1>4 DEF ItInsert

-----------------------------------------------------------------------------
(* The way of a call, step by step.                                        *)

\* What a search for an element of the list is given.
LEMMA ArgsFact ==
    ASSUME NEW c \in Calls
    PROVE  /\ (c.where = "find" /\ c.kind # "add") \/ c.kind = "find" => c.arg \in Data
           /\ c.where = "it" /\ c.kind = "add" => c.arg \in {0, 1}
           /\ c.it \in Iters => c.where = "it"
<1>1. CASE c = C("init", "list", "none", 0, NoData)
  BY <1>1, ListAssumption DEF C
<1>2. CASE c \in ListCalls
  <2>1. CASE \E k \in {"add", "edit"}, w \in {"first", "last"}, d \in Data : c = C(k, w, "none", 0, d)
    BY <2>1, ListAssumption DEF C
  <2>2. CASE \E k \in {"read", "get"}, w \in {"first", "last"} : c = C(k, w, "none", 0, NoData)
    BY <2>2, ListAssumption DEF C
  <2>3. CASE \E k \in {"add", "edit"}, n \in 0 .. MaxIdx, d \in Data : c = C(k, "idx", "l_it", n, d)
    BY <2>3, ListAssumption DEF C
  <2>4. CASE \E k \in {"read", "get"}, n \in 0 .. MaxIdx : c = C(k, "idx", "l_it", n, NoData)
    BY <2>4, ListAssumption DEF C
  <2>5. CASE \E d \in Data : c = C("add", "find", "l_it", 0, d)
    BY <2>5, ListAssumption DEF C
  <2>6. CASE \E a \in Data, d \in Data : c = C("edit", "find", "l_it", a, d)
    BY <2>6, ListAssumption DEF C
  <2>7. CASE \E k \in {"read", "get"}, a \in Data : c = C(k, "find", "l_it", a, NoData)
    BY <2>7, ListAssumption DEF C
  <2>8. CASE \E k \in {"size", "remove"} : c = C(k, "list", "none", 0, NoData)
    BY <2>8, ListAssumption DEF C
  <2> QED
    BY <1>2, <2>1, <2>2, <2>3, <2>4, <2>5, <2>6, <2>7, <2>8 DEF ListCalls
<1>3. CASE c \in IterCalls
  <2>0. PICK i \in Iters :
          c \in {C("add", "it", i, after, d) : after \in {0, 1}, d \in Data}
                \cup {C("edit", "it", i, 0, d) : d \in Data}
                \cup {C(k, "it", i, 0, NoData) : k \in {"read", "get", "drop"}}
                \cup {C("move", "it", i, n, NoData) : n \in -MaxIdx .. MaxIdx}
                \cup {C("find", "it", i, a, NoData) : a \in Data}
                \cup {C("iterator", "it", i, start, NoData) : start \in {0, 1}}
    BY <1>3 DEF IterCalls
  <2>1. CASE \E a \in {0, 1}, d \in Data : c = C("add", "it", i, a, d)
    BY <2>1, ListAssumption DEF C
  <2>2. CASE \E d \in Data : c = C("edit", "it", i, 0, d)
    BY <2>2, ListAssumption DEF C
  <2>3. CASE \E k \in {"read", "get", "drop"} : c = C(k, "it", i, 0, NoData)
    BY <2>3, ListAssumption DEF C
  <2>4. CASE \E n \in -MaxIdx .. MaxIdx : c = C("move", "it", i, n, NoData)
    BY <2>4, ListAssumption DEF C
  <2>5. CASE \E a \in Data : c = C("find", "it", i, a, NoData)
    BY <2>5, ListAssumption DEF C
  <2>6. CASE \E a \in {0, 1} : c = C("iterator", "it", i, a, NoData)
    BY <2>6, ListAssumption DEF C
  <2> QED
    BY <2>0, <2>1, <2>2, <2>3, <2>4, <2>5, <2>6
<1> QED
  BY <1>1, <1>2, <1>3 DEF Calls

LEMMA BeginCourse ==
    ASSUME Course, NEW c \in Calls, Begin(c)
    PROVE  Course'
<1>1. pc' = "entry" /\ call' = c /\ ~ret'.done
  BY DEF Begin, Pending
<1>2. Underway'
  BY <1>1, ArgsFact DEF Underway
<1> QED
  BY <1>1, <1>2 DEF Course

\* The loop of iterator_move starts, at the first element for a place in the list.
LEMMA MoveCourse ==
    ASSUME ListInv, Course, pc = "entry", UNCHANGED <<order, call, ret>>, pc' = "move",
           \/ /\ call.where = "idx" /\ call.kind \in {"add", "edit", "read", "get"} /\ Inside
              /\ elem' = first /\ left' = call.arg
           \/ /\ call.where = "it" /\ call.kind = "move" /\ it' = it /\ used' = used
              /\ elem' = it[call.it] /\ left' = IF call.arg < 0 THEN -call.arg ELSE call.arg
    PROVE  Course'
<1>0. PICK n \in Nat : n = Len(order) /\ DOMAIN order = 1 .. n /\ (order = <<>> <=> n = 0)
  BY EndFact DEF ListInv
<1>1. Underway' /\ Inside'
  BY DEF Course, Underway, Inside
<1>2. Pos(elem)' = Pos(elem')
  BY DEF Pos
<1>3. Moving'
  <2>1. CASE call.where = "idx"
    <3>0. /\ call.kind \in {"add", "edit", "read", "get"} /\ elem' = first /\ left' = call.arg
          /\ call.arg \in Nat
      BY <2>1 DEF ListInv, TypeOK, WellFormed
    <3>1. first # Null => Pos(first) = 1
      BY EndFact, NeighbourFact DEF ListInv
    <3>2. Goal' = call.arg + 1
      BY <2>1 DEF Goal
    <3>3. first = Null => Goal' \notin DOMAIN order'
      BY <1>0, <3>0, <3>2, EndFact DEF ListInv
    <3>4. elem' # Null => Goal' = Pos(elem)' + left'
      BY <1>2, <3>0, <3>1, <3>2
    <3> QED
      BY <2>1, <3>0, <3>3, <3>4 DEF Moving
  <2>2. CASE call.where = "it"
    <3>0. /\ call.kind = "move" /\ it' = it /\ elem' = it[call.it] /\ used' = used
          /\ left' = (IF call.arg < 0 THEN -call.arg ELSE call.arg) /\ call.arg \in Int
      BY <2>2 DEF ListInv, TypeOK, WellFormed
    <3>1. it[call.it] \in used \cup {Null}
      BY <2>2, <3>0 DEF ListInv, IteratorsValid
    <3>2. Goal' = Pos(elem') + call.arg
      BY <2>2, <3>0 DEF Goal, Pos
    <3>3. elem' # Null => Pos(elem') \in Int
      BY <1>0, <3>0, <3>1, PosFact DEF ListInv
    <3>4. elem' # Null => IF call.arg < 0 THEN Pos(elem)' = Goal' + left' ELSE Goal' = Pos(elem)' + left'
      BY <1>2, <3>0, <3>2, <3>3
    <3> QED
      BY <2>2, <3>0, <3>1, <3>4 DEF Moving
  <2> QED
    BY <2>1, <2>2
<1> QED
  BY <1>1, <1>3 DEF Course

LEMMA MoveStepCourse ==
    ASSUME ListInv, Course, MoveStep
    PROVE  Course'
<1>0. PICK n \in Nat : n = Len(order) /\ DOMAIN order = 1 .. n
  BY EndFact DEF ListInv
<1>1. /\ pc = "move" /\ pc' = "move" /\ left > 0 /\ left' = left - 1 /\ elem # Null /\ left \in Nat
      /\ UNCHANGED <<order, call, ret, it, used>>
      /\ elem' = IF call.kind = "move" /\ call.arg < 0 THEN prev[elem] ELSE next[elem]
  BY DEF MoveStep, walked, heap, ListInv, TypeOK
<1>2. elem \in used /\ Moving /\ Inside /\ Underway
  BY <1>1 DEF ListInv, IteratorsValid, Course
<1>3. Underway' /\ Inside'
  BY <1>1, <1>2 DEF Underway, Inside
<1>4. Pos(elem)' = Pos(elem') /\ Goal' = Goal
  BY <1>1 DEF Pos, Goal
<1>5. PICK p \in 1 .. n : p = Pos(elem)
  BY <1>0, <1>2, PosFact DEF ListInv
<1>6. /\ next[elem] = Null => p = n
      /\ next[elem] # Null => Pos(next[elem]) = p + 1
      /\ prev[elem] = Null => p = 1
      /\ prev[elem] # Null => Pos(prev[elem]) = p - 1
  BY <1>0, <1>2, <1>5, NextPlace DEF ListInv
<1>7. /\ call.kind \in {"add", "edit", "read", "get"} => call.where = "idx"
      /\ call.where = "it" => it[call.it] \in used
  BY <1>1, <1>2 DEF Moving
<1>g. Goal \in Int
  <2>1. CASE call.where = "idx"
    BY <2>1 DEF Goal, ListInv, TypeOK, WellFormed
  <2>2. CASE call.where = "it"
    <3>1. Pos(it[call.it]) \in Int /\ call.kind = "move"
      BY <1>0, <1>2, <1>7, <2>2, PosFact DEF ListInv, Moving
    <3> QED
      BY <2>2, <3>1 DEF Goal, ListInv, TypeOK, WellFormed
  <2> QED
    BY <1>2, <2>1, <2>2 DEF Moving
<1>8. PICK g \in Int : g = Goal
  BY <1>g
<1>9. CASE call.kind = "move" /\ call.arg < 0
  <2>1. p = g + left /\ elem' = prev[elem]
    BY <1>1, <1>2, <1>5, <1>8, <1>9 DEF Moving
  <2>2. elem' # Null => Pos(elem') = g + left'
    BY <1>1, <1>6, <2>1
  <2>3. elem' = Null => g \notin DOMAIN order
    BY <1>0, <1>1, <1>6, <2>1
  <2> QED
    BY <1>1, <1>2, <1>3, <1>4, <1>8, <1>9, <2>2, <2>3 DEF Course, Moving
<1>10. CASE ~(call.kind = "move" /\ call.arg < 0)
  <2>1. g = p + left /\ elem' = next[elem]
    BY <1>1, <1>2, <1>5, <1>8, <1>10 DEF Moving
  <2>2. elem' # Null => g = Pos(elem') + left'
    BY <1>1, <1>6, <2>1
  <2>3. elem' = Null => g \notin DOMAIN order
    BY <1>0, <1>1, <1>6, <2>1
  <2> QED
    BY <1>1, <1>2, <1>3, <1>4, <1>8, <1>10, <2>2, <2>3 DEF Course, Moving
<1> QED
  BY <1>9, <1>10

\* A loop that arrives has put its iterator on the element, or the call is done.
LEMMA ArriveAt ==
    ASSUME ListInv, NEW e \in Ptr, NEW what, Arrive(e, what), call.where \in {"it", "idx", "find"}
    PROVE  /\ call.where = "it" => pc' = "idle" /\ ret'.done
           /\ call.where # "it" => pc' = what /\ ret' = ret /\ it'["l_it"] = e
<1>1. it' = [it EXCEPT ![call.it] = e] /\ it \in [AllIters -> Ptr \cup {Freed, Absent}]
  BY DEF Arrive, ListInv, TypeOK
<1>2. call.where # "it" => call.it = "l_it" /\ "l_it" \in AllIters
  BY DEF ListInv, TypeOK, WellFormed, AllIters
<1>3. call.where # "it" => it'["l_it"] = e
  BY <1>1, <1>2
<1>4. call.where = "it" => pc' = "idle" /\ ret'.done
  BY DEF Arrive, Return, Result
<1>5. call.where # "it" => pc' = what /\ ret' = ret
  BY DEF Arrive
<1> QED
  BY <1>3, <1>4, <1>5

LEMMA MoveEndCourse ==
    ASSUME ListInv, Course, MoveEnd
    PROVE  Course'
<1>0. pc = "move" /\ UNCHANGED <<order, call>> /\ Moving /\ Inside /\ Underway
  BY DEF MoveEnd, walked, Course
<1>1. CASE elem = Null
  <2>1. pc' = "idle" /\ ret'.done
    BY <1>1 DEF MoveEnd, Return, Result
  <2> QED
    BY <1>0, <2>1, CourseIdle
<1>2. CASE elem # Null
  <2>1. elem \in Ptr /\ elem \in used /\ call.where \in {"it", "idx"}
    BY <1>0, <1>2, MarkFact DEF ListInv, IteratorsValid, Moving
  <2>2. Arrive(elem, IF call.kind = "add" THEN "before" ELSE "at") /\ left = 0
    BY <1>2 DEF MoveEnd
  <2> DEFINE what == IF call.kind = "add" THEN "before" ELSE "at"
  <2>3. /\ call.where = "it" => pc' = "idle" /\ ret'.done
        /\ call.where # "it" => pc' = what /\ ret' = ret /\ it'["l_it"] = elem
    <3> HIDE DEF what
    <3> QED
      BY <2>1, <2>2, ArriveAt DEF what
  <2>4. CASE call.where = "it"
    BY <1>0, <2>3, <2>4, CourseIdle
  <2>5. CASE call.where = "idx"
    <3>1. pc' = what /\ ret' = ret /\ it'["l_it"] = elem
      BY <2>3, <2>5
    <3>2. Pos(it["l_it"])' = Pos(elem)
      BY <1>0, <3>1 DEF Pos
    <3>3. call.kind \in {"add", "edit", "read", "get"} /\ Goal = Pos(elem) + 0
      BY <1>0, <1>2, <2>2, <2>5 DEF Moving
    <3>4. Pos(elem) = call.arg + 1
      <4>1. Pos(elem) \in Int
        BY <2>1, PosFact DEF ListInv
      <4> QED
        BY <2>5, <3>3, <4>1 DEF Goal
    <3>5. Underway' /\ Inside'
      BY <1>0, <3>1 DEF Underway, Inside
    <3>6. CASE call.kind = "add"
      <4>1. ReachedBefore'
        BY <1>0, <2>5, <3>2, <3>4, <3>6 DEF ReachedBefore
      <4> QED
        BY <3>1, <3>5, <3>6, <4>1 DEF Course
    <3>7. CASE call.kind # "add"
      <4>1. Reached'
        BY <1>0, <2>5, <3>2, <3>3, <3>4, <3>7 DEF Reached
      <4> QED
        BY <3>1, <3>5, <3>7, <4>1 DEF Course
    <3> QED
      BY <3>6, <3>7
  <2> QED
    BY <2>1, <2>4, <2>5
<1> QED
  BY <1>1, <1>2

\* The loop of iterator_find, from the first element to the first that matches.
LEMMA FindCourse ==
    ASSUME ListInv, Course, EditFind \/ ReadFind \/ GetFind \/ ItFind
    PROVE  Course'
<1>1. /\ UNCHANGED <<order, data, call, ret>> /\ pc' = "find" /\ elem' = first /\ pc = "entry"
      /\ \/ call.kind = "find" /\ call.where = "it"
         \/ call.kind \in {"edit", "read", "get"} /\ call.where = "find"
  BY DEF EditFind, ReadFind, GetFind, ItFind, WalkFind, walked, heap, At
<1>2. Passed(elem)' = {}
  <2>1. Passed(first) = {}
    BY PassedFact DEF ListInv
  <2> QED
    BY <1>1, <2>1 DEF Passed, Pos
<1>3. Finding'
  BY <1>1, <1>2 DEF Finding, NoMatch
<1>4. Underway'
  BY <1>1 DEF Course, Underway
<1> QED
  BY <1>1, <1>3, <1>4 DEF Course

LEMMA FindStepCourse ==
    ASSUME ListInv, Course, FindStep
    PROVE  Course'
<1>1. /\ UNCHANGED <<order, data, call, ret>> /\ pc' = "find" /\ elem' = next[elem] /\ pc = "find"
      /\ elem \in used /\ Rank[data[elem]] # Rank[call.arg]
  BY DEF FindStep, walked, heap, ListInv, IteratorsValid
<1>2. Passed(elem)' = Passed(elem) \cup {Pos(elem)} /\ order[Pos(elem)] = elem
  <2>1. Passed(next[elem]) = Passed(elem) \cup {Pos(elem)} /\ order[Pos(elem)] = elem
    BY <1>1, PassedFact, PosFact DEF ListInv
  <2>2. Passed(elem)' = Passed(next[elem])
    BY <1>1 DEF Passed, Pos
  <2> QED
    BY <2>1, <2>2
<1>3. Finding'
  <2>1. Finding /\ NoMatch(elem)
    BY <1>1 DEF Course, Finding
  <2>2. NoMatch(elem)'
    BY <1>1, <1>2, <2>1 DEF NoMatch
  <2> QED
    BY <1>1, <2>1, <2>2 DEF Finding
<1>4. Underway'
  BY <1>1 DEF Course, Underway
<1> QED
  BY <1>1, <1>3, <1>4 DEF Course

LEMMA FindEndCourse ==
    ASSUME ListInv, Course, FindEnd
    PROVE  Course'
<1>0. pc = "find" /\ UNCHANGED <<order, data, call>> /\ Finding /\ Underway
  BY DEF FindEnd, walked, heap, Course
<1>1. CASE elem = Null
  <2>1. pc' = "idle" /\ ret'.done
    BY <1>1 DEF FindEnd, Return, Result
  <2> QED
    BY <1>0, <2>1, CourseIdle
<1>2. CASE elem # Null
  <2>1. elem \in Ptr /\ call.where \in {"it", "find"}
    BY <1>0, <1>2, MarkFact DEF ListInv, IteratorsValid, Finding
  <2>2. Arrive(elem, "at") /\ Rank[data[elem]] = Rank[call.arg]
    BY <1>2 DEF FindEnd
  <2>3. /\ call.where = "it" => pc' = "idle" /\ ret'.done
        /\ call.where # "it" => pc' = "at" /\ ret' = ret /\ it'["l_it"] = elem
    BY <2>1, <2>2, ArriveAt
  <2>4. CASE call.where = "it"
    BY <1>0, <2>3, <2>4, CourseIdle
  <2>5. CASE call.where = "find"
    <3>1. pc' = "at" /\ ret' = ret /\ it'["l_it"] = elem
      BY <2>3, <2>5
    <3>2. NoMatch(it["l_it"])' /\ Rank[data[it["l_it"]]]' = Rank[call.arg]
      <4>1. Passed(it["l_it"])' = Passed(elem)
        BY <1>0, <3>1 DEF Passed, Pos
      <4> QED
        BY <1>0, <2>2, <3>1, <4>1 DEF Finding, NoMatch
    <3>3. Underway'
      BY <1>0, <3>1 DEF Underway
    <3>4. Reached'
      BY <1>0, <2>5, <3>2 DEF Reached, Finding
    <3> QED
      BY <3>1, <3>3, <3>4 DEF Course
  <2> QED
    BY <2>1, <2>4, <2>5
<1> QED
  BY <1>1, <1>2

\* The search of list_add_find, from the first element to the first that is greater.
LEMMA SearchCourse ==
    ASSUME ListInv, Course, AddFind
    PROVE  Course'
<1>1. /\ UNCHANGED <<order, data, call, ret>> /\ pc' = "search" /\ elem' = first /\ pc = "entry"
      /\ call.kind = "add" /\ call.where = "find"
  BY DEF AddFind, walked, heap, At
<1>2. Passed(elem)' = {}
  <2>1. Passed(first) = {}
    BY PassedFact DEF ListInv
  <2> QED
    BY <1>1, <2>1 DEF Passed, Pos
<1>3. Searching'
  BY <1>1, <1>2 DEF Searching, NoGreater
<1>4. Underway'
  BY <1>1 DEF Course, Underway
<1> QED
  BY <1>1, <1>3, <1>4 DEF Course

LEMMA SearchStepCourse ==
    ASSUME ListInv, Filled, Course, SearchStep
    PROVE  Course'
<1>1. /\ UNCHANGED <<order, data, call, ret>> /\ pc' = "search" /\ elem' = next[elem] /\ pc = "search"
      /\ elem \in used /\ ~(Rank[data[elem]] > Rank[call.data])
  BY DEF SearchStep, Stops, walked, heap, ListInv, IteratorsValid
<1>s. call.kind = "add" /\ call.where = "find" /\ NoGreater(elem) /\ call.data \in Data
  BY <1>1 DEF Course, Searching, ListInv, TypeOK, WellFormed
<1>2. Passed(elem)' = Passed(elem) \cup {Pos(elem)} /\ order[Pos(elem)] = elem
  <2>1. Passed(next[elem]) = Passed(elem) \cup {Pos(elem)} /\ order[Pos(elem)] = elem
    BY <1>1, PassedFact, PosFact DEF ListInv
  <2>2. Passed(elem)' = Passed(next[elem])
    BY <1>1 DEF Passed, Pos
  <2> QED
    BY <2>1, <2>2
<1>3. Rank[data[elem]] <= Rank[call.data]
  <2>1. Rank[data[elem]] \in Int /\ Rank[call.data] \in Int
    BY <1>1, <1>s, ListAssumption DEF Filled
  <2> QED
    BY <1>1, <2>1
<1>4. NoGreater(elem)'
  BY <1>1, <1>s, <1>2, <1>3 DEF NoGreater
<1>5. Underway' /\ Searching'
  BY <1>1, <1>s, <1>4 DEF Course, Underway, Searching
<1> QED
  BY <1>1, <1>5 DEF Course

LEMMA SearchEndCourse ==
    ASSUME ListInv, Course, SearchEnd
    PROVE  Course'
<1>0. /\ pc = "search" /\ UNCHANGED <<order, data, call>> /\ Underway
      /\ call.kind = "add" /\ call.where = "find" /\ NoGreater(elem)
      /\ elem \in Ptr /\ last \in Ptr
  BY DEF SearchEnd, walked, heap, Course, Searching, ListInv, TypeOK
<1>1. CASE elem = Null
  <2>1. Arrive(last, "after")
    BY <1>1 DEF SearchEnd
  <2>2. pc' = "after" /\ ret' = ret
    BY <1>0, <2>1, ArriveAt
  <2>3. ReachedEnd'
    BY <1>0, <1>1 DEF ReachedEnd, NoGreater, Passed
  <2>4. Underway'
    BY <1>0, <2>2 DEF Underway
  <2> QED
    BY <2>2, <2>3, <2>4 DEF Course
<1>2. CASE elem # Null
  <2>1. Arrive(elem, "before") /\ Rank[data[elem]] > Rank[call.data]
    BY <1>2 DEF SearchEnd, Stops
  <2>2. pc' = "before" /\ ret' = ret /\ it'["l_it"] = elem
    BY <1>0, <2>1, ArriveAt
  <2>3. NoGreater(it["l_it"])' /\ (Rank[data[it["l_it"]]] > Rank[call.data])'
    <3>1. Passed(it["l_it"])' = Passed(elem)
      BY <1>0, <2>2 DEF Passed, Pos
    <3> QED
      BY <1>0, <2>1, <2>2, <3>1 DEF NoGreater
  <2>4. Underway'
    BY <1>0, <2>2 DEF Underway
  <2>5. ReachedBefore' /\ call'.where = "find"
    BY <1>0, <2>3 DEF ReachedBefore
  <2> QED
    BY <2>2, <2>4, <2>5 DEF Course
<1> QED
  BY <1>1, <1>2

\* A call that adds is done, and keeps the order.
LEMMA AddsKeep ==
    ASSUME CourseInv, Adds, live' = live, call' = call, call.kind = "add"
    PROVE  Course' /\ Filled' /\ PriorityOrder'
<1>0. ListInv /\ Filled /\ Course /\ PriorityOrder /\ call.data \in Data
  BY DEF CourseInv, ListInv, TypeOK, WellFormed
<1>1. CASE NoMemory
  <2>1. UNCHANGED <<used, data, order, ordered>> /\ pc' = "idle" /\ ret'.done
    BY <1>1 DEF NoMemory, heap, Return, Result
  <2> QED
    BY <1>0, <2>1, SameKeeps, CourseIdle
<1>2. ASSUME NEW p \in 1 .. Len(order) + 1, InsertedAt(p), Named(p)
      PROVE  Course' /\ Filled' /\ PriorityOrder'
  <2>1. pc' = "idle" /\ ret'.done
    BY <1>2 DEF InsertedAt, Return, Result
  <2>2. call.where = "find" => Fits(p)
    BY <1>2 DEF Named
  <2> QED
    BY <1>0, <1>2, <2>1, <2>2, InsertKeeps, CourseIdle
<1> QED
  BY <1>1, <1>2 DEF Adds

\* A step of a loop changes no element.
LEMMA WalkKeeps ==
    ASSUME CourseInv, UNCHANGED walked
    PROVE  Filled' /\ PriorityOrder'
BY SameKeeps DEF CourseInv, walked, heap

LEMMA GetKeeps ==
    ASSUME CourseInv, GetEnd \/ ItGet \/ ListRemove
    PROVE  Course' /\ Filled' /\ PriorityOrder'
<1>0. /\ ListInv /\ Filled /\ Course /\ PriorityOrder /\ call' = call /\ ordered' = ordered
      /\ nb_elements # 0 => first \in used /\ last \in used
  BY EndFact DEF CourseInv, ListInv, GetEnd, ItGet, ListRemove
<1>1. CASE GetEnd
  <2>1. pc' = "idle" /\ ret'.done /\ live' = live
    BY <1>1 DEF GetEnd, Return, Result
  <2>2. CASE nb_elements = 0
    BY <1>0, <1>1, <2>1, <2>2, SameKeeps, CourseIdle DEF GetEnd, heap
  <2>3. CASE nb_elements # 0
    <3>1. PICK e \in used : Unlink(e)
      BY <1>0, <1>1, <2>3 DEF GetEnd, GetFirst, GetLast
    <3> QED
      BY <1>0, <2>1, <3>1, RemoveKeeps, CourseIdle
  <2> QED
    BY <2>2, <2>3
<1>2. CASE ItGet
  <2>1. pc' = "idle" /\ ret'.done /\ live' = live
    BY <1>2 DEF ItGet, Return, Result
  <2>2. it[call.it] \in used \cup {Null}
    BY <1>0, <1>2 DEF ItGet, Here, ListInv, IteratorsValid
  <2>3. CASE it[call.it] = Null
    BY <1>0, <1>2, <2>1, <2>3, SameKeeps, CourseIdle DEF ItGet, heap
  <2>4. CASE it[call.it] # Null
    <3>1. PICK e \in used : Unlink(e)
      BY <1>2, <2>2, <2>4 DEF ItGet
    <3> QED
      BY <1>0, <2>1, <3>1, RemoveKeeps, CourseIdle
  <2> QED
    BY <2>3, <2>4
<1>3. CASE ListRemove
  <2>1. CASE nb_iterators # 0
    <3>1. pc' = "idle" /\ ret'.done /\ live' = live /\ UNCHANGED <<used, data, order>>
      BY <1>3, <2>1 DEF ListRemove, Return, Result, heap
    <3> QED
      BY <1>0, <3>1, SameKeeps, CourseIdle
  <2>2. CASE nb_iterators = 0 /\ nb_elements # 0
    <3>1. Unlink(first) /\ live' = live /\ pc' = pc /\ ret' = ret /\ pc = "entry"
      BY <1>3, <2>2 DEF ListRemove, GetFirst, At
    <3>2. Course'
      BY <1>0, <3>1 DEF Course, Underway
    <3> QED
      BY <1>0, <2>2, <3>1, <3>2, RemoveKeeps
  <2>3. CASE nb_iterators = 0 /\ nb_elements = 0
    <3>1. pc' = "idle" /\ ret'.done /\ live' = FALSE /\ UNCHANGED <<used, data, order>>
      BY <1>3, <2>3 DEF ListRemove, Return, Result, heap
    <3> QED
      BY <1>0, <3>1, SameKeeps, CourseIdle
  <2> QED
    BY <2>1, <2>2, <2>3
<1> QED
  BY <1>1, <1>2, <1>3

\* A call that edits is done, and the list no longer counts as ordered.
LEMMA EditKeeps ==
    ASSUME CourseInv, EditEnd \/ ItEdit
    PROVE  Course' /\ Filled' /\ PriorityOrder'
<1>0. /\ Filled /\ Course /\ pc' = "idle" /\ ret'.done /\ call' = call /\ ordered' = FALSE /\ used' = used
      /\ \E x : data' = [data EXCEPT ![x] = call.data]
  BY DEF CourseInv, EditEnd, ItEdit, Return, Result
<1>1. call.data \in Data /\ data \in [Elems -> Data \cup {NoData}] /\ used \subseteq Elems
  BY DEF CourseInv, ListInv, TypeOK, WellFormed, EditEnd, ItEdit, At, Here
<1>2. Filled'
  BY <1>0, <1>1 DEF Filled
<1> QED
  BY <1>0, <1>2, CourseIdle DEF PriorityOrder

LEMMA CourseInit ==
    Init => CourseInv
<1> SUFFICES ASSUME Init PROVE CourseInv
  OBVIOUS
<1>1. Course
  BY ListAssumption DEF Init, Course, Underway, Result
<1>2. Filled /\ PriorityOrder
  BY DEF Init, Filled, PriorityOrder
<1> QED
  BY <1>1, <1>2, InitFact DEF CourseInv

\* Every step keeps each call on its way and the elements in order.
LEMMA CourseNext ==
    CourseInv /\ [Next]_vars => CourseInv'
<1> SUFFICES ASSUME CourseInv, [Next]_vars PROVE Course' /\ Filled' /\ PriorityOrder'
  BY NextFact DEF CourseInv
<1>0. ListInv /\ Course /\ Filled /\ PriorityOrder
  BY DEF CourseInv
<1>1. ASSUME NEW c \in Calls, Begin(c) PROVE Course' /\ Filled' /\ PriorityOrder'
  <2>1. UNCHANGED <<used, data, order, live, ordered>>
    BY <1>1 DEF Begin, heap
  <2> QED
    BY <1>0, <1>1, <2>1, BeginCourse, SameKeeps
<1>2. CASE AddEnd
  BY <1>0, <1>2, AddEndPlace, AddsKeep DEF AddEnd, At
<1>3. CASE EditEnd \/ ItEdit
  BY <1>3, EditKeeps
<1>4. CASE ReadEnd \/ ItRead \/ GetSize
  <2>1. UNCHANGED <<used, data, order, live, ordered, call>> /\ pc' = "idle" /\ ret'.done
    BY <1>4 DEF ReadEnd, ItRead, GetSize, Return, Result, heap
  <2> QED
    BY <1>0, <2>1, SameKeeps, CourseIdle
<1>5. CASE GetEnd \/ ItGet \/ ListRemove
  BY <1>5, GetKeeps
<1>6. CASE AddIdx
  <2>1. CASE WalkIdx /\ order # <<>> /\ call.arg # 0 /\ call.arg # Len(order)
    <3>1. At("add", "idx") /\ Inside
      BY <1>6, <2>1 DEF AddIdx, Inside
    <3>2. UNCHANGED walked /\ UNCHANGED <<order, call, ret>>
      BY <2>1 DEF WalkIdx, walked
    <3> QED
      BY <1>0, <2>1, <3>1, <3>2, MoveCourse, WalkKeeps DEF WalkIdx, At
  <2>2. CASE Adds /\ UNCHANGED <<live, nb_iterators, it, call>>
    BY <1>6, <2>2, AddsKeep DEF AddIdx, At
  <2> QED
    BY <1>0, <1>6, <2>1, <2>2, AddIdxPlace
<1>7. CASE (EditIdx \/ ReadIdx \/ GetIdx) /\ WalkIdx
  <2>1. pc = "entry" /\ call.kind \in {"edit", "read", "get"} /\ call.where = "idx"
    BY <1>7 DEF EditIdx, ReadIdx, GetIdx, At
  <2>2. UNCHANGED walked /\ UNCHANGED <<order, call, ret>> /\ Inside
    BY <1>7, <2>1 DEF WalkIdx, walked, Inside
  <2> QED
    BY <1>0, <1>7, <2>1, <2>2, MoveCourse, WalkKeeps DEF WalkIdx
<1>8. CASE ReadIdx /\ Return(FALSE, NoData) /\ UNCHANGED <<walked, it>>
  <2>1. UNCHANGED walked /\ call' = call /\ pc' = "idle" /\ ret'.done
    BY <1>8 DEF walked, Return, Result
  <2> QED
    BY <1>0, <2>1, WalkKeeps, CourseIdle
<1>9. CASE ItMove
  <2>1. UNCHANGED walked /\ UNCHANGED <<order, call, ret, used>>
    BY <1>9 DEF ItMove, walked, heap
  <2> QED
    BY <1>0, <1>9, <2>1, MoveCourse, WalkKeeps DEF ItMove, At
<1>10. CASE MoveStep
  BY <1>0, <1>10, MoveStepCourse, WalkKeeps DEF MoveStep
<1>11. CASE MoveEnd
  BY <1>0, <1>11, MoveEndCourse, WalkKeeps DEF MoveEnd
<1>12. CASE EditFind \/ ReadFind \/ GetFind \/ ItFind
  BY <1>0, <1>12, FindCourse, WalkKeeps DEF EditFind, ReadFind, GetFind, ItFind, WalkFind
<1>13. CASE FindStep
  BY <1>0, <1>13, FindStepCourse, WalkKeeps DEF FindStep
<1>14. CASE FindEnd
  BY <1>0, <1>14, FindEndCourse, WalkKeeps DEF FindEnd
<1>15. CASE AddFind
  BY <1>0, <1>15, SearchCourse, WalkKeeps DEF AddFind
<1>16. CASE SearchStep
  BY <1>0, <1>16, SearchStepCourse, WalkKeeps DEF SearchStep
<1>17. CASE SearchEnd
  BY <1>0, <1>17, SearchEndCourse, WalkKeeps DEF SearchEnd
<1>18. CASE ItInsert
  BY <1>0, <1>18, ItInsertPlace, AddsKeep DEF ItInsert
<1>19. CASE ItInit \/ ItRemove
  <2>1. UNCHANGED <<used, data, order, live, ordered, call>> /\ pc' = "idle" /\ ret'.done
    BY <1>19 DEF ItInit, ItRemove, Return, Result, heap
  <2> QED
    BY <1>0, <2>1, SameKeeps, CourseIdle
<1>20. CASE ListInit
  <2>1. UNCHANGED <<used, data, order, call>> /\ pc' = "idle" /\ ret'.done
    BY <1>20 DEF ListInit, Return, Result, heap
  <2>2. used = {}
    BY <1>20 DEF ListInit, At, CourseInv, ListInv, IteratorsCounted
  <2>3. DOMAIN order' = {}
    <3>1. \A p \in DOMAIN order : order[p] \in used
      BY <1>0 DEF ListInv, WellLinked
    <3> QED
      BY <2>1, <2>2, <3>1
  <2> QED
    BY <1>0, <2>1, <2>3, CourseIdle DEF Filled, PriorityOrder
<1>21. CASE UNCHANGED vars
  <2>1. UNCHANGED <<used, data, order, live, ordered, call, pc, ret, it, elem, left>>
    BY <1>21 DEF vars, heap, loop
  <2>2. Course'
    <3>1. Underway' = Underway /\ Inside' = Inside
      BY <2>1 DEF Underway, Inside
    <3>2. Moving' = Moving
      BY <2>1 DEF Moving, Goal, Pos
    <3>3. Finding' = Finding /\ Searching' = Searching /\ ReachedEnd' = ReachedEnd
      BY <2>1 DEF Finding, Searching, ReachedEnd, NoMatch, NoGreater, Passed, Pos
    <3>4. Reached' = Reached
      BY <2>1 DEF Reached, NoMatch, Passed, Pos
    <3>5. ReachedBefore' = ReachedBefore
      BY <2>1 DEF ReachedBefore, NoGreater, Passed, Pos
    <3> QED
      BY <1>0, <2>1, <3>1, <3>2, <3>3, <3>4, <3>5 DEF Course
  <2> QED
    BY <1>0, <2>1, <2>2, SameKeeps
<1> QED
  BY <1>1, <1>2, <1>3, <1>4, <1>5, <1>6, <1>7, <1>8, <1>9, <1>10, <1>11, <1>12, <1>13, <1>14, <1>15,
     <1>16, <1>17, <1>18, <1>19, <1>20, <1>21 DEF Next, EditIdx, ReadIdx, GetIdx

\* A priority list is in order in every state: list_add_find stops at the first greater
\* element, and neither another call nor a removal can come between its search and its
\* insertion, whatever the length of the list.
THEOREM ListPriorityOrder == Spec => []PriorityOrder
<1>1. CourseInv => PriorityOrder
  BY DEF CourseInv
<1> QED
  BY <1>1, CourseInit, CourseNext, PTL DEF Spec

-----------------------------------------------------------------------------
(* The list as the sequence of include/list.h.                             *)

\* What the elements of a sequence hold.
LEMMA ImageFact ==
    ASSUME NEW S, NEW T, NEW o \in Seq(S), NEW d, \A p \in 1 .. Len(o) : d[o[p]] \in T,
           NEW s, s = [p \in DOMAIN o |-> d[o[p]]]
    PROVE  /\ s \in Seq(T) /\ Len(s) = Len(o) /\ DOMAIN s = 1 .. Len(o)
           /\ \A p \in 1 .. Len(o) : s[p] = d[o[p]]
           /\ s = <<>> <=> Len(o) = 0
<1>1. PICK n \in Nat : n = Len(o) /\ DOMAIN o = 1 .. n
  OBVIOUS
<1>2. s = [p \in 1 .. n |-> d[o[p]]]
  BY <1>1
<1>3. s \in [1 .. n -> T]
  BY <1>1, <1>2
<1>4. s \in Seq(T) /\ Len(s) = n
  BY <1>3
<1> QED
  BY <1>1, <1>2, <1>4

ItemsOK ==
    /\ Items \in Seq(Data) /\ Len(Items) = Len(order) /\ DOMAIN Items = 1 .. Len(order)
    /\ \A p \in 1 .. Len(order) : Items[p] = data[order[p]]
    /\ Items = <<>> <=> order = <<>>

PlacesOK ==
    /\ Places = [i \in Iters |-> Places[i]]
    /\ \A i \in Iters :
          /\ it[i] \in used \cup {Null, Freed, Absent}
          /\ it[i] \in used => Places[i] = Pos(it[i]) /\ Places[i] \in 1 .. Len(order)
                               /\ order[Places[i]] = it[i]
          /\ it[i] = Null => Places[i] = 0
          /\ it[i] = Freed => Places[i] = -1
          /\ it[i] = Absent => Places[i] = -2
    /\ {Null, Freed, Absent} \cap used = {} /\ Null # Freed /\ Null # Absent /\ Freed # Absent

LEMMA ItemsFact ==
    ListInv /\ Filled => ItemsOK
<1> SUFFICES ASSUME ListInv, Filled PROVE ItemsOK
  OBVIOUS
<1>1. order \in Seq(Elems) /\ (order = <<>> <=> Len(order) = 0)
  BY EndFact DEF ListInv, TypeOK
<1>2. \A p \in 1 .. Len(order) : data[order[p]] \in Data
  BY RankFact DEF ListInv
<1>3. Items = [p \in DOMAIN order |-> data[order[p]]]
  BY DEF Items
<1>4. /\ Items \in Seq(Data) /\ Len(Items) = Len(order) /\ DOMAIN Items = 1 .. Len(order)
      /\ \A p \in 1 .. Len(order) : Items[p] = data[order[p]]
      /\ Items = <<>> <=> Len(order) = 0
  BY ONLY <1>1, <1>2, <1>3, ImageFact
<1> QED
  BY <1>1, <1>4 DEF ItemsOK

LEMMA PlacesFact ==
    ListInv => PlacesOK
<1> SUFFICES ASSUME ListInv PROVE PlacesOK
  OBVIOUS
<1>1. \A i \in Iters : it[i] \in used \cup {Null, Freed, Absent}
  BY DEF ListInv, IteratorsValid, AllIters
<1>2. {Null, Freed, Absent} \cap used = {} /\ Null # Freed /\ Null # Absent /\ Freed # Absent
  BY MarkFact, EndFact DEF ListInv
<1>3. \A e \in used : Pos(e) \in 1 .. Len(order) /\ order[Pos(e)] = e
  BY PosFact DEF ListInv
<1>4. ASSUME NEW i \in Iters
      PROVE  Places[i] = CASE it[i] = Null -> 0 [] it[i] = Freed -> -1 [] it[i] = Absent -> -2
                           [] OTHER -> Pos(it[i])
  BY DEF Places
<1>5. Places = [i \in Iters |-> Places[i]]
  BY DEF Places
<1>6. ASSUME NEW i \in Iters
      PROVE  /\ it[i] \in used => Places[i] = Pos(it[i])
             /\ it[i] = Null => Places[i] = 0
             /\ it[i] = Freed => Places[i] = -1
             /\ it[i] = Absent => Places[i] = -2
  BY <1>2, <1>4
<1> QED
  BY <1>1, <1>2, <1>3, <1>5, <1>6 DEF PlacesOK

\* The views of the list before and after a step.
LEMMA ViewFact ==
    ASSUME CourseInv, CourseInv'
    PROVE  ItemsOK /\ ItemsOK' /\ PlacesOK /\ PlacesOK'
<1>1. ListInv /\ Filled /\ ListInv' /\ Filled'
  BY DEF CourseInv
<1>2. ItemsOK /\ PlacesOK
  BY <1>1, ItemsFact, PlacesFact
<1>3. (ListInv /\ Filled => ItemsOK)' /\ (ListInv => PlacesOK)'
  BY ItemsFact, PlacesFact, PTL
<1> QED
  BY <1>1, <1>2, <1>3

\* A step that changes no element and no iterator of the application is not seen.
LEMMA SameView ==
    ASSUME CourseInv, CourseInv', UNCHANGED <<order, data, used>>, \A i \in Iters : it'[i] = it[i]
    PROVE  Items' = Items /\ Places' = Places
<1>1. Items' = Items
  BY DEF Items
<1>2. Places' = Places
  <2>1. PlacesOK /\ PlacesOK'
    BY ViewFact
  <2>2. ASSUME NEW i \in Iters PROVE Places'[i] = Places[i]
    <3>1. Pos(it[i])' = Pos(it[i])
      BY DEF Pos
    <3> QED
      BY <2>1, <3>1 DEF PlacesOK
  <2> QED
    BY <2>1, <2>2 DEF PlacesOK
<1> QED
  BY <1>1, <1>2

\* Where an iterator is after a step: the place of its element in the new sequence.
LEMMA NewPlaceOf ==
    ASSUME CourseInv', PlacesOK', NEW i \in Iters, it'[i] \in used',
           NEW v \in 1 .. Len(order'), order'[v] = it'[i]
    PROVE  Places'[i] = v
<1>1. Places'[i] \in 1 .. Len(order') /\ order'[Places'[i]] = it'[i]
  BY DEF PlacesOK
<1>2. DOMAIN order' = 1 .. Len(order')
  BY DEF CourseInv, ListInv, TypeOK
<1>3. \A q, r \in DOMAIN order' : order'[q] = order'[r] => q = r
  BY DEF CourseInv, ListInv, WellLinked
<1> QED
  BY <1>1, <1>2, <1>3

LEMMA InsertData ==
    ASSUME NEW q \in Seq(Data), NEW d \in Data, NEW p \in 1 .. Len(q) + 1
    PROVE  /\ InsertAt(q, p, d) \in Seq(Data)
           /\ Len(InsertAt(q, p, d)) = Len(q) + 1
           /\ InsertAt(q, p, d)[p] = d
           /\ \A i \in 1 .. p - 1 : InsertAt(q, p, d)[i] = q[i]
           /\ \A i \in p + 1 .. Len(q) + 1 : InsertAt(q, p, d)[i] = q[i - 1]
BY ONLY q \in Seq(Data), d \in Data, p \in 1 .. Len(q) + 1, InsertFact, SMTT(60)

\* An element that comes to place p is seen there, and the iterators after it move on by one.
LEMMA InsertView ==
    ASSUME CourseInv, CourseInv', NEW p \in 1 .. Len(order) + 1, InsertedAt(p), it' = it,
           call.data \in Data
    PROVE  Items' = InsertAt(Items, p, call.data) /\ Places' = Abstract!Shifted(p)
<1>0. ItemsOK /\ ItemsOK' /\ PlacesOK /\ PlacesOK'
  BY ViewFact
<1>1. PICK n \in Nat : n = Len(order)
  BY EndFact DEF CourseInv, ListInv
<1>2. PICK e \in Elems \ used :
          /\ used' = used \cup {e} /\ data' = [data EXCEPT ![e] = call.data]
          /\ order' = InsertAt(order, p, e)
  BY DEF InsertedAt
<1>d. used \subseteq Elems /\ data \in [Elems -> Data \cup {NoData}] /\ order \in Seq(Elems)
  BY DEF CourseInv, ListInv, TypeOK
<1>3. \A x \in Elems : data'[x] = IF x = e THEN call.data ELSE data[x]
  BY <1>2, <1>d
<1>5. /\ Len(order') = n + 1 /\ order'[p] = e
      /\ \A i \in 1 .. p - 1 : order'[i] = order[i]
      /\ \A i \in p + 1 .. n + 1 : order'[i] = order[i - 1]
  <2>1. /\ Len(InsertAt(order, p, e)) = Len(order) + 1
        /\ InsertAt(order, p, e)[p] = e
        /\ \A i \in 1 .. p - 1 : InsertAt(order, p, e)[i] = order[i]
        /\ \A i \in p + 1 .. Len(order) + 1 : InsertAt(order, p, e)[i] = order[i - 1]
    BY ONLY <1>d, e \in Elems \ used, p \in 1 .. Len(order) + 1, InsertFact
  <2> QED
    BY <1>1, <1>2, <2>1
<1>7. \A q \in 1 .. n : order[q] \in Elems /\ order[q] # e
  BY <1>1, <1>d, PlaceFact DEF CourseInv, ListInv
<1> DEFINE s == InsertAt(Items, p, call.data)
<1>8. /\ s \in Seq(Data) /\ Len(s) = n + 1 /\ s[p] = call.data
      /\ \A i \in 1 .. p - 1 : s[i] = Items[i]
      /\ \A i \in p + 1 .. n + 1 : s[i] = Items[i - 1]
  <2>0. Items \in Seq(Data) /\ Len(Items) = n /\ p \in 1 .. Len(Items) + 1
    BY <1>0, <1>1 DEF ItemsOK
  <2>1. /\ s \in Seq(Data)
        /\ Len(s) = Len(Items) + 1
        /\ s[p] = call.data
        /\ \A i \in 1 .. p - 1 : s[i] = Items[i]
        /\ \A i \in p + 1 .. Len(Items) + 1 : s[i] = Items[i - 1]
    <3>1. PICK d \in Data : d = call.data
      OBVIOUS
    <3>2. PICK q \in Seq(Data) : q = Items
      BY ONLY <2>0
    <3>3. p \in 1 .. Len(q) + 1
      BY ONLY <2>0, <3>2
    <3>4. /\ InsertAt(q, p, d) \in Seq(Data)
          /\ Len(InsertAt(q, p, d)) = Len(q) + 1
          /\ InsertAt(q, p, d)[p] = d
          /\ \A i \in 1 .. p - 1 : InsertAt(q, p, d)[i] = q[i]
          /\ \A i \in p + 1 .. Len(q) + 1 : InsertAt(q, p, d)[i] = q[i - 1]
      BY <3>3, InsertData
    <3> QED
      BY <3>1, <3>2, <3>4
  <2> QED
    BY <2>0, <2>1
<1> HIDE DEF s
<1>9. Items' = s
  <2>0. Items' \in Seq(Data) /\ Len(Items') = n + 1
    BY <1>0, <1>5 DEF ItemsOK
  <2>i. /\ \A i \in 1 .. n + 1 : Items'[i] = data'[order'[i]]
        /\ \A i \in 1 .. n : Items[i] = data[order[i]]
    BY <1>0, <1>1, <1>5 DEF ItemsOK
  <2>1. ASSUME NEW i \in 1 .. n + 1 PROVE Items'[i] = s[i]
    <3>1. CASE i = p
      BY <1>2, <1>3, <1>5, <1>8, <2>i, <3>1
    <3>2. CASE i < p
      BY <1>1, <1>3, <1>5, <1>7, <1>8, <2>i, <3>2
    <3>3. CASE i > p
      <4>1. i - 1 \in 1 .. n /\ i \in p + 1 .. n + 1
        BY <1>1, <3>3
      <4>2. order'[i] = order[i - 1] /\ s[i] = Items[i - 1]
        BY <1>5, <1>8, <4>1
      <4> QED
        BY <1>3, <1>7, <2>i, <4>1, <4>2
    <3> QED
      BY <1>1, <3>1, <3>2, <3>3
  <2> QED
    BY ONLY <2>0, <2>1, <1>8, SeqEqual
<1>10. ASSUME NEW i \in Iters
       PROVE  Places'[i] = IF Places[i] >= p THEN Places[i] + 1 ELSE Places[i]
  <2>0. it[i] \in used \cup {Null, Freed, Absent} /\ it'[i] = it[i]
    BY <1>0 DEF PlacesOK
  <2>1. CASE it[i] \in used
    <3>1. PICK q \in 1 .. n : q = Places[i] /\ order[q] = it[i]
      BY <1>0, <1>1, <2>1 DEF PlacesOK
    <3>2. it'[i] \in used'
      BY <1>2, <2>0, <2>1
    <3>3. CASE q >= p
      <4>1. q + 1 \in 1 .. Len(order') /\ q + 1 \in p + 1 .. n + 1 /\ (q + 1) - 1 = q
        BY <1>5, <3>3
      <4>2. order'[q + 1] = it'[i]
        BY <1>5, <2>0, <3>1, <4>1
      <4>3. Places'[i] = q + 1
        BY <1>0, <3>2, <4>1, <4>2, NewPlaceOf
      <4> QED
        BY <3>1, <3>3, <4>3
    <3>4. CASE q < p
      <4>1. q \in 1 .. Len(order') /\ q \in 1 .. p - 1
        BY <1>1, <1>5, <3>4
      <4>2. order'[q] = it'[i]
        BY <1>5, <2>0, <3>1, <4>1
      <4>3. Places'[i] = q
        BY <1>0, <3>2, <4>1, <4>2, NewPlaceOf
      <4> QED
        BY <3>1, <3>4, <4>3
    <3> QED
      BY <1>1, <3>1, <3>3, <3>4
  <2>2. CASE it[i] \notin used
    <3>1. Places[i] \in {0, -1, -2} /\ Places'[i] = Places[i]
      BY <1>0, <2>0, <2>2 DEF PlacesOK
    <3> QED
      BY <1>1, <3>1
  <2> QED
    BY <2>1, <2>2
<1>11. Places' = Abstract!Shifted(p)
  <2>1. Places' = [i \in Iters |-> Places'[i]]
    BY <1>0 DEF PlacesOK
  <2>2. Abstract!Shifted(p) = [i \in Iters |-> IF Places[i] >= p THEN Places[i] + 1 ELSE Places[i]]
    BY DEF Abstract!Shifted
  <2> QED
    BY <1>10, <2>1, <2>2
<1> QED
  BY <1>9, <1>11 DEF s

\* An element that leaves is no longer seen, and the places after it move up by one.
LEMMA RemoveView ==
    ASSUME CourseInv, CourseInv', NEW e \in used, Unlink(e)
    PROVE  /\ Items' = RemoveAt(Items, Pos(e))
           /\ \A i \in Iters : it'[i] \in used \ {e} =>
                Places'[i] = IF Pos(it'[i]) > Pos(e) THEN Pos(it'[i]) - 1 ELSE Pos(it'[i])
<1>0. ItemsOK /\ ItemsOK' /\ PlacesOK /\ PlacesOK'
  BY ViewFact
<1>1. PICK n \in Nat : n = Len(order)
  BY EndFact DEF CourseInv, ListInv
<1>2. PICK p \in 1 .. n : p = Pos(e) /\ order[p] = e
  BY <1>1, PosFact DEF CourseInv, ListInv
<1>d. used \subseteq Elems /\ data \in [Elems -> Data \cup {NoData}] /\ order \in Seq(Elems)
  BY DEF CourseInv, ListInv, TypeOK
<1>3. used' = used \ {e} /\ \A x \in Elems \ {e} : data'[x] = data[x]
  BY <1>d DEF Unlink
<1>5. /\ Len(order') = n - 1
      /\ \A i \in 1 .. p - 1 : order'[i] = order[i]
      /\ \A i \in p .. n - 1 : order'[i] = order[i + 1]
  BY <1>1, <1>2, <1>d, RemoveFact DEF Unlink
<1>7. \A q \in 1 .. n : order[q] \in Elems /\ (q # p => order[q] # e)
  BY <1>1, <1>2, <1>d, PlaceFact DEF CourseInv, ListInv
<1> DEFINE s == RemoveAt(Items, p)
<1>8. /\ s \in Seq(Data) /\ Len(s) = n - 1
      /\ \A i \in 1 .. p - 1 : s[i] = Items[i]
      /\ \A i \in p .. n - 1 : s[i] = Items[i + 1]
  <2>0. Items \in Seq(Data) /\ Len(Items) = n /\ p \in 1 .. Len(Items)
    BY <1>0, <1>1 DEF ItemsOK
  <2>1. /\ s \in Seq(Data)
        /\ Len(s) = Len(Items) - 1
        /\ \A i \in 1 .. p - 1 : s[i] = Items[i]
        /\ \A i \in p .. Len(Items) - 1 : s[i] = Items[i + 1]
    BY ONLY <2>0, RemoveFact
  <2> QED
    BY <2>0, <2>1
<1> HIDE DEF s
<1>9. Items' = s
  <2>0. Items' \in Seq(Data) /\ Len(Items') = n - 1
    BY <1>0, <1>5 DEF ItemsOK
  <2>i. /\ \A i \in 1 .. n - 1 : Items'[i] = data'[order'[i]]
        /\ \A i \in 1 .. n : Items[i] = data[order[i]]
    BY <1>0, <1>1, <1>5 DEF ItemsOK
  <2>1. ASSUME NEW i \in 1 .. n - 1 PROVE Items'[i] = s[i]
    <3>1. CASE i < p
      <4>1. i \in 1 .. n /\ i # p /\ i \in 1 .. p - 1
        BY <3>1
      <4> QED
        BY <1>3, <1>5, <1>7, <1>8, <2>i, <4>1
    <3>2. CASE i >= p
      <4>1. i + 1 \in 1 .. n /\ i + 1 # p /\ i \in p .. n - 1
        BY <3>2
      <4>2. order'[i] = order[i + 1] /\ s[i] = Items[i + 1]
        BY <1>5, <1>8, <4>1
      <4> QED
        BY <1>3, <1>7, <2>i, <4>1, <4>2
    <3> QED
      BY <3>1, <3>2
  <2> QED
    BY ONLY <2>0, <2>1, <1>8, SeqEqual
<1>10. ASSUME NEW i \in Iters, it'[i] \in used \ {e}
       PROVE  Places'[i] = IF Pos(it'[i]) > Pos(e) THEN Pos(it'[i]) - 1 ELSE Pos(it'[i])
  <2>1. Pos(it'[i]) \in 1 .. n /\ order[Pos(it'[i])] = it'[i]
    BY <1>1, <1>10, PosFact DEF CourseInv, ListInv
  <2>2. PICK q \in 1 .. n : q = Pos(it'[i]) /\ order[q] = it'[i]
    BY <2>1
  <2>3. q # p /\ it'[i] \in used'
    BY <1>2, <1>3, <1>10, <2>2
  <2>4. CASE q > p
    <3>1. q - 1 \in 1 .. Len(order') /\ q - 1 \in p .. n - 1 /\ (q - 1) + 1 = q
      BY <1>5, <2>4
    <3>2. order'[q - 1] = it'[i]
      BY <1>5, <2>2, <3>1
    <3>3. Places'[i] = q - 1
      BY <1>0, <2>3, <3>1, <3>2, NewPlaceOf
    <3> QED
      BY <1>2, <2>2, <2>4, <3>3
  <2>5. CASE q < p
    <3>1. q \in 1 .. Len(order') /\ q \in 1 .. p - 1
      BY <1>5, <2>5
    <3>2. order'[q] = it'[i]
      BY <1>5, <2>2, <3>1
    <3>3. Places'[i] = q
      BY <1>0, <2>3, <3>1, <3>2, NewPlaceOf
    <3> QED
      BY <1>2, <2>2, <2>5, <3>3
  <2> QED
    BY <2>3, <2>4, <2>5
<1> QED
  BY <1>2, <1>9, <1>10 DEF s

-----------------------------------------------------------------------------
(* The places that the calls name.                                         *)

\* The first of some places of the list.
LEMMA FirstOfFact ==
    ASSUME NEW S, NEW n \in Nat, S \subseteq 1 .. n
    PROVE  /\ S = {} => Abstract!FirstOf(S) = 0
           /\ \A p \in S : (\A q \in 1 .. p - 1 : q \notin S) => Abstract!FirstOf(S) = p
<1>1. S = {} => Abstract!FirstOf(S) = 0
  BY DEF Abstract!FirstOf, Abstract!Nowhere
<1>2. ASSUME NEW p \in S, \A q \in 1 .. p - 1 : q \notin S
      PROVE  Abstract!FirstOf(S) = p
  <2>1. \A q \in S : p <= q /\ (q <= p => q = p)
    BY <1>2
  <2>2. Abstract!FirstOf(S) = CHOOSE r \in S : \A q \in S : r <= q
    BY <1>2 DEF Abstract!FirstOf
  <2> DEFINE r == CHOOSE r \in S : \A q \in S : r <= q
  <2>3. r \in S /\ \A q \in S : r <= q
    BY <2>1
  <2> HIDE DEF r
  <2>4. r = p
    BY <2>1, <2>3
  <2> QED
    BY <2>2, <2>4 DEF r
<1> QED
  BY <1>1, <1>2

\* A place where a new element fits is that before the first greater element.
LEMMA GreaterFact ==
    ASSUME CourseInv, call.data \in Data, NEW p \in 1 .. Len(order) + 1, Fits(p)
    PROVE  /\ p = Len(order) + 1 => Abstract!Greater(call.data) = 0
           /\ p # Len(order) + 1 => Abstract!Greater(call.data) = p
<1>0. ItemsOK
  BY ItemsFact DEF CourseInv
<1>1. PICK n \in Nat : n = Len(order)
  BY EndFact DEF CourseInv, ListInv
<1>2. \A q \in 1 .. n : Rank[Items[q]] \in Int /\ Items[q] = data[order[q]]
  BY <1>0, <1>1, RankFact DEF CourseInv, ListInv, ItemsOK
<1>3. PICK r \in Int : r = Rank[call.data]
  BY RankFact DEF CourseInv, ListInv
<1> DEFINE S == {q \in 1 .. n : Rank[Items[q]] > r}
<1>4. Abstract!Greater(call.data) = Abstract!FirstOf(S)
  BY <1>0, <1>1, <1>3 DEF Abstract!Greater, ItemsOK
<1>5. \A q \in 1 .. p - 1 : q \notin S
  BY <1>1, <1>2, <1>3 DEF Fits
<1>6. p # n + 1 => p \in S
  BY <1>1, <1>2, <1>3 DEF Fits
<1>7. p = n + 1 => S = {}
  BY <1>5
<1>8. S \subseteq 1 .. n
  OBVIOUS
<1> HIDE DEF S
<1> QED
  BY <1>1, <1>4, <1>5, <1>6, <1>7, <1>8, FirstOfFact

LEMMA NewPlaceFact ==
    ASSUME CourseInv, call.data \in Data, NEW p \in 1 .. Len(order) + 1, Named(p),
           call.where \in {"first", "last", "idx", "find", "it"},
           call.where = "it" => it[call.it] \in used \/ order = <<>>
    PROVE  Abstract!NewPlace = p
<1>0. ItemsOK /\ PlacesOK
  BY ItemsFact, PlacesFact DEF CourseInv
<1>1. PICK n \in Nat : n = Len(order) /\ (order = <<>> <=> n = 0)
  BY EndFact DEF CourseInv, ListInv
<1>2. Len(Items) = n /\ (Items = <<>> <=> n = 0)
  BY <1>0, <1>1 DEF ItemsOK
<1>3. CASE call.where = "first"
  <2>1. Abstract!NewPlace = 1
    BY <1>3 DEF Abstract!NewPlace
  <2> QED
    BY <1>3, <2>1 DEF Named
<1>4. CASE n = 0
  <2>1. Abstract!NewPlace = 1
    BY <1>2, <1>4 DEF Abstract!NewPlace
  <2>2. p = 1
    BY <1>1, <1>4
  <2> QED
    BY <2>1, <2>2
<1>5. CASE call.where = "last" /\ n # 0
  <2>1. Abstract!NewPlace = Len(Items) + 1
    BY <1>2, <1>5 DEF Abstract!NewPlace
  <2> QED
    BY <1>1, <1>2, <1>5, <2>1 DEF Named
<1>6. CASE call.where = "idx" /\ n # 0
  <2>1. Abstract!NewPlace = IF call.arg <= Len(Items) THEN call.arg + 1 ELSE Abstract!Nowhere
    BY <1>2, <1>6 DEF Abstract!NewPlace
  <2>2. p = call.arg + 1 /\ call.arg \in Nat
    BY <1>1, <1>6 DEF Named, CourseInv, ListInv, TypeOK, WellFormed
  <2> QED
    BY <1>1, <1>2, <2>1, <2>2
<1>7. CASE call.where = "find" /\ n # 0
  <2>1. Abstract!NewPlace = IF Abstract!Greater(call.data) = Abstract!Nowhere THEN Len(Items) + 1
                            ELSE Abstract!Greater(call.data)
    BY <1>2, <1>7 DEF Abstract!NewPlace
  <2>2. Fits(p)
    BY <1>7 DEF Named
  <2>3. /\ p = n + 1 => Abstract!Greater(call.data) = 0
        /\ p # n + 1 => Abstract!Greater(call.data) = p
    BY <1>1, <2>2, GreaterFact
  <2>4. p # 0
    OBVIOUS
  <2> QED
    BY <1>2, <2>1, <2>3, <2>4 DEF Abstract!Nowhere
<1>8. CASE call.where = "it" /\ n # 0
  <2>1. Abstract!NewPlace = Places[call.it] + call.arg
    BY <1>2, <1>8 DEF Abstract!NewPlace
  <2>2. call.it \in Iters /\ it[call.it] \in used
    BY <1>1, <1>8 DEF CourseInv, ListInv, TypeOK, WellFormed
  <2>3. Places[call.it] = Pos(it[call.it])
    BY <1>0, <2>2 DEF PlacesOK
  <2>4. p = Pos(it[call.it]) + call.arg
    BY <1>1, <1>8 DEF Named
  <2> QED
    BY <2>1, <2>3, <2>4
<1> QED
  BY <1>3, <1>4, <1>5, <1>6, <1>7, <1>8

\* x is the element that the call names, or Null if there is none.
Names(x) ==
    \/ call.where = "first" /\ x = first
    \/ call.where = "last" /\ x = last
    \/ call.where = "idx" /\ x \in used /\ Pos(x) = call.arg + 1
    \/ call.where = "idx" /\ x = Null /\ call.arg >= Len(order)
    \/ call.where = "find" /\ x \in used /\ Rank[data[x]] = Rank[call.arg] /\ NoMatch(x)
    \/ call.where = "find" /\ x = Null /\ NoMatch(Null)
    \/ call.where = "it" /\ x = it[call.it] /\ x \in used \cup {Null}

\* The first element that matches.
LEMMA MatchingFact ==
    ASSUME CourseInv, NEW x \in used \cup {Null}, NoMatch(x),
           x \in used => Rank[data[x]] = Rank[call.arg]
    PROVE  Abstract!Matching(call.arg) = IF x = Null THEN 0 ELSE Pos(x)
<1>0. ItemsOK
  BY ItemsFact DEF CourseInv
<1>1. PICK n \in Nat : n = Len(order)
  BY EndFact DEF CourseInv, ListInv
<1>2. \A q \in 1 .. n : Items[q] = data[order[q]]
  BY <1>0, <1>1 DEF ItemsOK
<1> DEFINE S == {q \in 1 .. n : Rank[Items[q]] = Rank[call.arg]}
<1>3. Abstract!Matching(call.arg) = Abstract!FirstOf(S)
  BY <1>0, <1>1 DEF Abstract!Matching, ItemsOK
<1>4. S \subseteq 1 .. n
  OBVIOUS
<1>n. Null \notin used
  BY EndFact DEF CourseInv, ListInv
<1>5. CASE x = Null
  <2>1. Passed(Null) = 1 .. n
    BY <1>1, PassedFact DEF CourseInv, ListInv
  <2>2. S = {}
    BY <1>2, <1>5, <2>1 DEF NoMatch
  <2> HIDE DEF S
  <2> QED
    BY <1>3, <1>4, <1>5, <2>2, FirstOfFact
<1>6. CASE x \in used
  <2>1. PICK p \in 1 .. n : p = Pos(x) /\ order[p] = x
    BY <1>1, <1>6, PosFact DEF CourseInv, ListInv
  <2>2. Passed(x) = 1 .. p - 1
    BY <1>6, <2>1, PassedFact DEF CourseInv, ListInv
  <2>3. p \in S
    BY <1>2, <1>6, <2>1
  <2>4. \A q \in 1 .. p - 1 : q \notin S
    BY <1>2, <2>1, <2>2 DEF NoMatch
  <2> HIDE DEF S
  <2> QED
    BY <1>3, <1>4, <1>6, <1>n, <2>1, <2>3, <2>4, FirstOfFact
<1> QED
  BY <1>5, <1>6

LEMMA NamesFact ==
    ASSUME CourseInv, NEW x \in Ptr, Names(x)
    PROVE  /\ Abstract!Place = IF x = Null THEN 0 ELSE Pos(x)
           /\ x \in used \cup {Null}
<1>0. ItemsOK /\ PlacesOK
  BY ItemsFact, PlacesFact DEF CourseInv
<1>1. PICK n \in Nat : n = Len(order) /\ (order = <<>> <=> n = 0)
  BY EndFact DEF CourseInv, ListInv
<1>2. Len(Items) = n /\ (Items = <<>> <=> n = 0) /\ Abstract!Nowhere = 0
  BY <1>0, <1>1 DEF ItemsOK, Abstract!Nowhere
<1>3. /\ n = 0 => first = Null /\ last = Null
      /\ n # 0 => first \in used /\ last \in used /\ Pos(first) = 1 /\ Pos(last) = n
      /\ Null \notin used
  BY <1>1, EndFact, NeighbourFact DEF CourseInv, ListInv
<1>4. CASE call.where = "first"
  <2>1. Abstract!Place = IF Items = <<>> THEN Abstract!Nowhere ELSE 1
    BY <1>4 DEF Abstract!Place
  <2> QED
    BY <1>2, <1>3, <1>4, <2>1 DEF Names
<1>5. CASE call.where = "last"
  <2>1. Abstract!Place = Len(Items)
    BY <1>5 DEF Abstract!Place
  <2> QED
    BY <1>2, <1>3, <1>5, <2>1 DEF Names
<1>6. CASE call.where = "idx"
  <2>1. Abstract!Place = IF call.arg < Len(Items) THEN call.arg + 1 ELSE Abstract!Nowhere
    BY <1>6 DEF Abstract!Place
  <2>2. call.arg \in Nat
    BY <1>6 DEF CourseInv, ListInv, TypeOK, WellFormed
  <2>3. CASE x \in used
    <3>1. Pos(x) \in 1 .. n /\ Pos(x) = call.arg + 1
      BY <1>1, <1>3, <1>6, <2>3, PosFact DEF CourseInv, ListInv, Names
    <3> QED
      BY <1>2, <1>3, <2>1, <2>2, <2>3, <3>1
  <2>4. CASE x \notin used
    <3>1. x = Null /\ call.arg >= n
      BY <1>1, <1>6, <2>4 DEF Names
    <3> QED
      BY <1>2, <2>1, <2>2, <3>1
  <2> QED
    BY <2>3, <2>4
<1>7. CASE call.where = "find"
  <2>1. Abstract!Place = Abstract!Matching(call.arg)
    BY <1>7 DEF Abstract!Place
  <2>2. x \in used \cup {Null} /\ NoMatch(x) /\ (x \in used => Rank[data[x]] = Rank[call.arg])
    BY <1>3, <1>7 DEF Names
  <2> QED
    BY <2>1, <2>2, MatchingFact
<1>8. CASE call.where = "it"
  <2>1. Abstract!Place = Places[call.it]
    BY <1>8 DEF Abstract!Place
  <2>2. call.it \in Iters /\ x = it[call.it] /\ x \in used \cup {Null}
    BY <1>8 DEF CourseInv, ListInv, TypeOK, WellFormed, Names
  <2> QED
    BY <1>0, <1>3, <2>1, <2>2 DEF PlacesOK
<1> QED
  BY <1>4, <1>5, <1>6, <1>7, <1>8 DEF Names

-----------------------------------------------------------------------------
(* Every step of the list is a step of the sequence, or is not seen.       *)

\* The operators of the sequence are those of the list.
LEMMA AbstractOps ==
    /\ Abstract!Pending = Pending /\ Abstract!Nowhere = 0 /\ Abstract!Lost = -1 /\ Abstract!Absent = -2
    /\ \A ok, d : Abstract!Result(ok, d) = Result(ok, d)
    /\ \A s, p, d : Abstract!InsertAt(s, p, d) = InsertAt(s, p, d)
    /\ \A s, p : Abstract!RemoveAt(s, p) = RemoveAt(s, p)
    /\ \A s, p, d : Abstract!ReplaceAt(s, p, d) = [s EXCEPT ![p] = d]
BY DEF Abstract!Pending, Pending, Abstract!Nowhere, Abstract!Lost, Abstract!Absent, Abstract!Result,
   Result, Abstract!InsertAt, InsertAt, Abstract!RemoveAt, RemoveAt, Abstract!ReplaceAt

LEMMA DoingFact ==
    ASSUME CourseInv, pc # "idle", call' = call, NEW k, call.kind = k
    PROVE  Abstract!Doing(k)
BY DEF CourseInv, Course, Underway, Abstract!Doing

\* A step along a loop is not seen.
LEMMA WalkView ==
    ASSUME CourseInv, CourseInv', UNCHANGED walked, ret' = ret, \A i \in Iters : it'[i] = it[i]
    PROVE  UNCHANGED Abstract!vars
<1>1. UNCHANGED <<live, call, order, data, used>>
  BY DEF walked, heap
<1>2. Items' = Items /\ Places' = Places
  BY <1>1, SameView
<1> QED
  BY <1>1, <1>2 DEF Abstract!vars

LEMMA BeginView ==
    ASSUME CourseInv, CourseInv', NEW c \in Calls, Begin(c)
    PROVE  Abstract!Start(c)
<1>1. /\ pc = "idle" /\ call' = c /\ ret' = Pending
      /\ UNCHANGED <<live, order, data, used, it>>
  BY DEF Begin, heap
<1>2. Items' = Items /\ Places' = Places
  BY <1>1, SameView
<1>3. ret.done
  BY <1>1 DEF CourseInv, Course, Underway
<1> QED
  BY <1>1, <1>2, <1>3, AbstractOps DEF Abstract!Start

\* A function that adds puts the element at the place its call names, or changes nothing.
LEMMA AddsView ==
    ASSUME CourseInv, CourseInv', Adds, pc # "idle", call.kind = "add",
           UNCHANGED <<live, it, call>>,
           call.where \in {"first", "last", "idx", "find", "it"},
           call.where = "it" => it[call.it] \in used \/ order = <<>>
    PROVE  Abstract!Add
<1>0. Abstract!Doing("add") /\ call.data \in Data
  BY DoingFact DEF CourseInv, ListInv, TypeOK, WellFormed
<1>1. CASE NoMemory
  <2>1. UNCHANGED <<order, data, used>> /\ ret' = Result(FALSE, NoData)
    BY <1>1 DEF NoMemory, heap, Return
  <2>2. Items' = Items /\ Places' = Places
    BY <2>1, SameView
  <2> QED
    BY <1>0, <2>1, <2>2, AbstractOps DEF Abstract!Add
<1>2. ASSUME NEW p \in 1 .. Len(order) + 1, InsertedAt(p), Named(p)
      PROVE  Abstract!Add
  <2>1. Items' = InsertAt(Items, p, call.data) /\ Places' = Abstract!Shifted(p)
    BY <1>0, <1>2, InsertView
  <2>2. Abstract!NewPlace = p /\ p # 0
    BY <1>0, <1>2, NewPlaceFact
  <2>3. ret' = Result(TRUE, NoData)
    BY <1>2 DEF InsertedAt, Return
  <2> QED
    BY <1>0, <2>1, <2>2, <2>3, AbstractOps DEF Abstract!Add
<1> QED
  BY <1>1, <1>2 DEF Adds

\* A call that finds no element changes nothing and says so.
LEMMA NoneView ==
    ASSUME CourseInv, CourseInv', pc # "idle", Names(Null) \/ call.kind = "add",
           call.kind \in {"add", "edit", "read", "get"}, Return(FALSE, NoData),
           UNCHANGED <<live, call, order, data, used, it>>
    PROVE  Abstract!Next
<1>1. Items' = Items /\ Places' = Places /\ ret' = Result(FALSE, NoData)
  BY SameView DEF Return
<1>2. call.kind # "add" => Abstract!Place = 0
  BY NamesFact, MarkFact DEF CourseInv, ListInv
<1>3. Abstract!Doing(call.kind)
  BY DoingFact
<1>4. CASE call.kind = "add"
  BY <1>1, <1>3, <1>4, AbstractOps DEF Abstract!Next, Abstract!Add
<1>5. CASE call.kind = "edit"
  BY <1>1, <1>2, <1>3, <1>5, AbstractOps DEF Abstract!Next, Abstract!Edit
<1>6. CASE call.kind = "read"
  BY <1>1, <1>2, <1>3, <1>6, AbstractOps DEF Abstract!Next, Abstract!Read
<1>7. CASE call.kind = "get"
  BY <1>1, <1>2, <1>3, <1>7, AbstractOps DEF Abstract!Next, Abstract!Get
<1> QED
  BY <1>4, <1>5, <1>6, <1>7

LEMMA EditView ==
    ASSUME CourseInv, CourseInv', pc # "idle", NEW x \in used, Names(x), call.kind = "edit",
           Return(TRUE, NoData), data' = [data EXCEPT ![x] = call.data],
           UNCHANGED <<live, call, order, used, it>>
    PROVE  Abstract!Edit
<1>0. ItemsOK /\ ItemsOK' /\ PlacesOK /\ PlacesOK'
  BY ViewFact
<1>1. PICK p \in 1 .. Len(order) : p = Pos(x) /\ order[p] = x
  BY PosFact DEF CourseInv, ListInv
<1>2. Abstract!Place = p /\ p # 0
  <2>1. x \in Ptr /\ x # Null
    BY MarkFact, EndFact DEF CourseInv, ListInv
  <2>2. Abstract!Place = IF x = Null THEN 0 ELSE Pos(x)
    BY <2>1, NamesFact
  <2> QED
    BY <1>1, <2>1, <2>2
<1>3. Places' = Places
  <2>1. ASSUME NEW i \in Iters PROVE Places'[i] = Places[i]
    <3>1. Pos(it[i])' = Pos(it[i])
      BY DEF Pos
    <3> QED
      BY <1>0, <3>1 DEF PlacesOK
  <2> QED
    BY <1>0, <2>1 DEF PlacesOK
<1>4. Items' = [Items EXCEPT ![p] = call.data]
  <2>1. \A e \in Elems : data'[e] = IF e = x THEN call.data ELSE data[e]
    BY DEF CourseInv, ListInv, TypeOK
  <2>2. \A q \in 1 .. Len(order) : order[q] \in Elems /\ (order[q] = x => q = p)
    BY <1>1, PlaceFact DEF CourseInv, ListInv, TypeOK
  <2>3. \A q \in 1 .. Len(order) : Items'[q] = IF q = p THEN call.data ELSE Items[q]
    BY <1>0, <1>1, <2>1, <2>2 DEF ItemsOK
  <2>4. Items' \in [1 .. Len(order) -> Data] /\ Items \in [1 .. Len(order) -> Data]
    BY <1>0, LenProperties DEF ItemsOK
  <2> QED
    BY <2>3, <2>4
<1>5. Abstract!Doing("edit") /\ ret' = Result(TRUE, NoData)
  BY DoingFact DEF Return
<1> QED
  BY <1>2, <1>3, <1>4, <1>5, AbstractOps DEF Abstract!Edit

LEMMA ReadView ==
    ASSUME CourseInv, CourseInv', pc # "idle", NEW x \in used, Names(x), call.kind = "read",
           Return(TRUE, data[x]), UNCHANGED <<live, call, order, data, used, it>>
    PROVE  Abstract!Read
<1>0. ItemsOK
  BY ItemsFact DEF CourseInv
<1>1. PICK p \in 1 .. Len(order) : p = Pos(x) /\ order[p] = x
  BY PosFact DEF CourseInv, ListInv
<1>2. Abstract!Place = p /\ p # 0
  <2>1. x \in Ptr /\ x # Null
    BY MarkFact, EndFact DEF CourseInv, ListInv
  <2>2. Abstract!Place = IF x = Null THEN 0 ELSE Pos(x)
    BY <2>1, NamesFact
  <2> QED
    BY <1>1, <2>1, <2>2
<1>3. Items[p] = data[x]
  BY <1>0, <1>1 DEF ItemsOK
<1>4. Items' = Items /\ Places' = Places /\ ret' = Result(TRUE, data[x]) /\ Abstract!Doing("read")
  BY SameView, DoingFact DEF Return
<1> QED
  BY <1>2, <1>3, <1>4, AbstractOps DEF Abstract!Read

\* A function that removes an element takes the one its call names; an iterator on it is
\* lost, except the one that removed it, and the others stay on their elements.
LEMMA GetView ==
    ASSUME CourseInv, CourseInv', pc # "idle", NEW x \in used, Names(x), call.kind = "get",
           Unlink(x), Return(TRUE, data[x]), UNCHANGED <<live, call>>,
           \A i \in Iters : it'[i] = IF i = call.it THEN next[x] ELSE IF it[i] = x THEN Freed ELSE it[i]
    PROVE  Abstract!Get
<1>0. ItemsOK /\ PlacesOK /\ PlacesOK'
  BY ViewFact
<1>n. PICK n \in Nat : n = Len(order) /\ n = Len(Items)
  BY <1>0, EndFact DEF CourseInv, ListInv, ItemsOK
<1>1. PICK p \in 1 .. n : p = Pos(x) /\ order[p] = x
  BY <1>n, PosFact DEF CourseInv, ListInv
<1>2. Abstract!Place = p /\ p # 0
  <2>1. x \in Ptr /\ x # Null
    BY MarkFact, EndFact DEF CourseInv, ListInv
  <2>2. Abstract!Place = IF x = Null THEN 0 ELSE Pos(x)
    BY <2>1, NamesFact
  <2> QED
    BY <1>1, <2>1, <2>2
<1>3. Items[p] = data[x] /\ Items' = RemoveAt(Items, p)
  BY <1>0, <1>n, <1>1, RemoveView DEF ItemsOK
<1>4. \A i \in Iters : it'[i] \in used \ {x} =>
                Places'[i] = IF Pos(it'[i]) > p THEN Pos(it'[i]) - 1 ELSE Pos(it'[i])
  BY <1>1, RemoveView
<1>5. /\ next[x] = Null => p = n
      /\ next[x] # Null => next[x] \in used \ {x} /\ Pos(next[x]) = p + 1 /\ p # n
  <2>1. next[x] # Null => next[x] \in used /\ Pos(next[x]) = p + 1
    BY <1>1, NextPlace DEF CourseInv, ListInv
  <2>2. next[x] = Null => p = n
    BY <1>n, <1>1, NextPlace DEF CourseInv, ListInv
  <2>3. next[x] # Null => Pos(next[x]) \in 1 .. n
    BY <1>n, <2>1, PosFact DEF CourseInv, ListInv
  <2>4. next[x] # Null => next[x] # x
    BY NeighbourFact DEF CourseInv, ListInv
  <2> QED
    BY <2>1, <2>2, <2>3, <2>4
<1>6. ASSUME NEW i \in Iters
      PROVE  Places'[i] = CASE i = call.it -> IF p = n THEN 0 ELSE p
                            [] i # call.it /\ Places[i] = p -> -1
                            [] i # call.it /\ Places[i] > p -> Places[i] - 1
                            [] OTHER -> Places[i]
  <2>1. CASE i = call.it
    <3>1. it'[i] = next[x]
      BY <2>1
    <3>2. CASE next[x] = Null
      BY <1>0, <1>5, <2>1, <3>1, <3>2 DEF PlacesOK
    <3>3. CASE next[x] # Null
      <4>1. Places'[i] = p
        BY <1>4, <1>5, <3>1, <3>3
      <4> QED
        BY <1>5, <2>1, <3>3, <4>1
    <3> QED
      BY <3>2, <3>3
  <2>2. CASE i # call.it /\ it[i] = x
    <3>1. it'[i] = Freed /\ Places[i] = p
      BY <1>0, <1>1, <2>2 DEF PlacesOK
    <3>2. Places'[i] = -1
      BY <1>0, <3>1 DEF PlacesOK
    <3> QED
      BY <2>2, <3>1, <3>2
  <2>3. CASE i # call.it /\ it[i] \in used \ {x}
    <3>1. it'[i] = it[i]
      BY <2>3
    <3>2. PICK q \in 1 .. n : q = Places[i] /\ q = Pos(it[i]) /\ order[q] = it[i]
      BY <1>0, <1>n, <2>3 DEF PlacesOK
    <3>3. q # p
      BY <1>1, <2>3, <3>2
    <3>4. Places'[i] = IF q > p THEN q - 1 ELSE q
      BY <1>4, <2>3, <3>1, <3>2
    <3> QED
      BY <2>3, <3>2, <3>3, <3>4
  <2>4. CASE i # call.it /\ it[i] \notin used
    <3>1. it'[i] = it[i] /\ it[i] \in {Null, Freed, Absent}
      BY <1>0, <2>4 DEF PlacesOK
    <3>2. Places'[i] = Places[i] /\ Places[i] \in {0, -1, -2}
      BY <1>0, <3>1 DEF PlacesOK
    <3> QED
      BY <2>4, <3>2
  <2> QED
    BY <2>1, <2>2, <2>3, <2>4
<1>7. Places' = Abstract!Closed(p, call.it)
  <2>1. Places' = [i \in Iters |-> Places'[i]]
    BY <1>0 DEF PlacesOK
  <2>2. Abstract!Closed(p, call.it) =
          [i \in Iters |-> CASE i = call.it -> IF p = n THEN 0 ELSE p
                             [] i # call.it /\ Places[i] = p -> -1
                             [] i # call.it /\ Places[i] > p -> Places[i] - 1
                             [] OTHER -> Places[i]]
    BY <1>n DEF Abstract!Closed, Abstract!Nowhere, Abstract!Lost
  <2> QED
    BY <1>6, <2>1, <2>2
<1>8. Abstract!Doing("get") /\ ret' = Result(TRUE, data[x])
  BY DoingFact DEF Return
<1> QED
  BY <1>2, <1>3, <1>7, <1>8, AbstractOps DEF Abstract!Get

\* The functions at the ends.
LEMMA EndView ==
    ASSUME CourseInv, CourseInv', EditEnd \/ ReadEnd \/ GetEnd
    PROVE  Abstract!Next
<1>0. /\ pc # "idle" /\ call.where \in {"first", "last"} /\ Names(End) /\ UNCHANGED <<live, call>>
      /\ call.kind \in {"edit", "read", "get"} /\ call.it \notin Iters
  BY DEF EditEnd, ReadEnd, GetEnd, At, Names, End, CourseInv, Course, Underway
<1>1. /\ first = Null <=> nb_elements = 0
      /\ last = Null <=> nb_elements = 0
      /\ first # Null => first \in used /\ last \in used
  BY EndFact DEF CourseInv, ListInv
<1>2. CASE EditEnd
  <2>1. End \in used
    BY <1>1, <1>2 DEF EditEnd, At, End, CourseInv, ListInv, IteratorsValid
  <2>2. Abstract!Edit
    BY <1>0, <1>2, <2>1, EditView DEF EditEnd, At
  <2> QED
    BY <2>2 DEF Abstract!Next
<1>3. CASE ReadEnd
  <2>0. UNCHANGED <<live, call, order, data, used, it>> /\ call.kind = "read"
    BY <1>3 DEF ReadEnd, heap, At
  <2>1. CASE End = Null
    <3>1. Return(FALSE, NoData)
      BY <1>3, <2>1 DEF ReadEnd
    <3> QED
      BY <1>0, <2>0, <2>1, <3>1, NoneView
  <2>2. CASE End # Null
    <3>1. Return(TRUE, data[End]) /\ End \in used
      BY <1>1, <1>3, <2>2 DEF ReadEnd, End
    <3>2. Abstract!Read
      BY <1>0, <2>0, <3>1, ReadView
    <3> QED
      BY <3>2 DEF Abstract!Next
  <2> QED
    BY <2>1, <2>2
<1>4. CASE GetEnd
  <2>0. call.kind = "get"
    BY <1>4 DEF GetEnd, At
  <2>1. CASE nb_elements = 0
    <3>1. Return(FALSE, NoData) /\ UNCHANGED <<order, data, used, it>> /\ End = Null
      BY <1>1, <1>4, <2>1 DEF GetEnd, heap, End
    <3> QED
      BY <1>0, <2>0, <3>1, NoneView
  <2>2. CASE nb_elements # 0
    <3>1. Return(TRUE, data[End]) /\ End \in used /\ Unlink(End) /\ it' = Orphaned(End)
      BY <1>1, <1>4, <2>2 DEF GetEnd, GetFirst, GetLast, End
    <3>2. \A i \in Iters : it'[i] = IF it[i] = End THEN Freed ELSE it[i]
      BY <3>1 DEF Orphaned, AllIters
    <3>3. \A i \in Iters : it'[i] = IF i = call.it THEN next[End] ELSE IF it[i] = End THEN Freed ELSE it[i]
      BY <1>0, <3>2
    <3>4. PICK x \in used : x = End
      BY <3>1
    <3>5. Abstract!Get
      BY <1>0, <2>0, <3>1, <3>3, <3>4, GetView
    <3> QED
      BY <3>5 DEF Abstract!Next
  <2> QED
    BY <2>1, <2>2
<1> QED
  BY <1>2, <1>3, <1>4

\* An iterator of the application goes to the place of e.
LEMMA GoToView ==
    ASSUME CourseInv, CourseInv', NEW e \in used, call.it \in Iters, Return(TRUE, NoData),
           it' = [it EXCEPT ![call.it] = e], UNCHANGED <<live, call, order, data, used>>
    PROVE  Abstract!GoTo(Pos(e))
<1>0. ItemsOK /\ PlacesOK /\ PlacesOK'
  BY ViewFact
<1>1. Pos(e) \in DOMAIN Items /\ Pos(e) \in 1 .. Len(order) /\ order[Pos(e)] = e
  BY <1>0, PosFact DEF CourseInv, ListInv, ItemsOK
<1>2. Items' = Items
  BY DEF Items
<1>3. \A i \in Iters : it'[i] = IF i = call.it THEN e ELSE it[i]
  BY DEF CourseInv, ListInv, TypeOK, AllIters
<1>4. ASSUME NEW i \in Iters PROVE Places'[i] = IF i = call.it THEN Pos(e) ELSE Places[i]
  <2>1. CASE i = call.it
    <3>1. it'[i] = e /\ order'[Pos(e)] = it'[i] /\ it'[i] \in used' /\ Pos(e) \in 1 .. Len(order')
      BY <1>1, <1>3, <2>1
    <3>2. Places'[i] = Pos(e)
      BY <1>0, <3>1, NewPlaceOf
    <3> QED
      BY <2>1, <3>2
  <2>2. CASE i # call.it
    <3>1. it'[i] = it[i]
      BY <1>3, <2>2
    <3>2. Pos(it[i])' = Pos(it[i])
      BY <3>1 DEF Pos
    <3> QED
      BY <1>0, <2>2, <3>1, <3>2 DEF PlacesOK
  <2> QED
    BY <2>1, <2>2
<1>5. Places' = [Places EXCEPT ![call.it] = Pos(e)]
  <2>1. Places' = [i \in Iters |-> Places'[i]] /\ Places = [i \in Iters |-> Places[i]]
    BY <1>0 DEF PlacesOK
  <2>2. [Places EXCEPT ![call.it] = Pos(e)] = [i \in Iters |-> IF i = call.it THEN Pos(e) ELSE Places[i]]
    BY <2>1
  <2> QED
    BY <1>4, <2>1, <2>2
<1>6. ret' = Result(TRUE, NoData)
  BY DEF Return
<1> QED
  BY <1>1, <1>2, <1>5, <1>6, AbstractOps DEF Abstract!GoTo

\* An iterator of the application stays, because the place it is to go to does not exist.
LEMMA StayView ==
    ASSUME CourseInv, CourseInv', NEW p, p \notin 1 .. Len(order), Return(FALSE, NoData),
           UNCHANGED <<live, call, order, data, used, it>>
    PROVE  Abstract!GoTo(p)
<1>1. p \notin DOMAIN Items
  BY ItemsFact DEF CourseInv, ItemsOK
<1>2. Items' = Items /\ Places' = Places /\ ret' = Result(FALSE, NoData)
  BY SameView DEF Return
<1>3. ret' = Abstract!Result(p \in DOMAIN Items, NoData)
  <2>1. (p \in DOMAIN Items) = FALSE
    BY <1>1
  <2>2. ret' = Abstract!Result(FALSE, NoData)
    BY <1>2, AbstractOps
  <2> QED
    BY <2>1, <2>2, Zenon
<1> QED
  BY <1>1, <1>2, <1>3 DEF Abstract!GoTo

LEMMA MoveView ==
    ASSUME CourseInv, CourseInv', MoveEnd
    PROVE  Abstract!Next \/ UNCHANGED Abstract!vars
<1>0. /\ pc = "move" /\ UNCHANGED walked /\ UNCHANGED <<live, call, order, data, used>> /\ Moving
  BY DEF MoveEnd, walked, heap, CourseInv, Course
<1>1. PICK n \in Nat : n = Len(order) /\ DOMAIN order = 1 .. n /\ Null \notin used
  BY EndFact DEF CourseInv, ListInv
<1>2. CASE call.where = "idx" /\ elem = Null
  <2>1. Return(FALSE, NoData) /\ it' = it
    BY <1>2 DEF MoveEnd
  <2>2. call.arg >= n
    <3>1. call.arg \in Nat /\ call.arg + 1 \notin 1 .. n
      BY <1>0, <1>1, <1>2 DEF Moving, Goal, CourseInv, ListInv, TypeOK, WellFormed
    <3> QED
      BY <3>1
  <2>3. Names(Null) /\ call.kind \in {"add", "edit", "read", "get"}
    BY <1>0, <1>1, <1>2, <2>2 DEF Names, Moving
  <2> QED
    BY <1>0, <2>1, <2>3, NoneView
<1>3. CASE call.where = "idx" /\ elem # Null
  <2>1. it' = [it EXCEPT ![call.it] = elem] /\ ret' = ret
    BY <1>3 DEF MoveEnd, Arrive
  <2>2. call.it \notin Iters
    BY <1>3 DEF CourseInv, Course, Underway
  <2>3. \A i \in Iters : it'[i] = it[i]
    BY <2>1, <2>2 DEF CourseInv, ListInv, TypeOK, AllIters
  <2> QED
    BY <1>0, <2>1, <2>3, WalkView
<1>4. CASE call.where = "it"
  <2>0. /\ call.kind = "move" /\ call.it \in Iters /\ it[call.it] \in used \cup {Null} /\ call.arg \in Int
    BY <1>0, <1>4 DEF Moving, CourseInv, ListInv, TypeOK, WellFormed
  <2>1. Names(it[call.it]) /\ it[call.it] \in Ptr
    BY <1>4, <2>0, MarkFact DEF Names, CourseInv, ListInv
  <2>2. Abstract!Place = IF it[call.it] = Null THEN 0 ELSE Pos(it[call.it])
    BY <2>1, NamesFact
  <2>3. it[call.it] # Null => Pos(it[call.it]) \in 1 .. n /\ Goal = Pos(it[call.it]) + call.arg
    BY <1>1, <1>4, <2>0, PosFact DEF CourseInv, ListInv, Goal
  <2> DEFINE g == IF Abstract!Place = Abstract!Nowhere THEN Abstract!Nowhere ELSE Abstract!Place + call.arg
  <2>4. g = IF it[call.it] = Null THEN 0 ELSE Goal
    BY <2>2, <2>3 DEF Abstract!Nowhere
  <2> HIDE DEF g
  <2>5. Abstract!Doing("move")
    BY <1>0, <2>0, DoingFact
  <2>6. CASE elem = Null
    <3>1. Return(FALSE, NoData) /\ it' = it
      BY <2>6 DEF MoveEnd
    <3>2. g \notin 1 .. Len(order)
      BY <1>0, <1>1, <2>4, <2>6 DEF Moving
    <3>3. Abstract!GoTo(g)
      BY <1>0, <3>1, <3>2, StayView
    <3> QED
      BY <2>5, <3>3 DEF Abstract!Next, Abstract!Move, g
  <2>7. CASE elem # Null
    <3>1. /\ Return(TRUE, NoData) /\ it' = [it EXCEPT ![call.it] = elem] /\ left = 0 /\ elem \in used
      BY <1>0, <1>4, <2>7 DEF MoveEnd, Arrive, CourseInv, ListInv, IteratorsValid
    <3>2. Pos(elem) \in 1 .. n /\ it[call.it] # Null
      BY <1>0, <1>1, <1>4, <2>7, <3>1, PosFact DEF CourseInv, ListInv, Moving
    <3>3. Pos(elem) = Goal + 0 \/ Goal = Pos(elem) + 0
      BY <1>0, <2>7, <3>1 DEF Moving
    <3>4. g = Pos(elem)
      BY <2>0, <2>3, <2>4, <3>2, <3>3
    <3>5. Abstract!GoTo(Pos(elem))
      BY <1>0, <2>0, <3>1, GoToView
    <3> QED
      BY <2>5, <3>4, <3>5 DEF Abstract!Next, Abstract!Move, g
  <2> QED
    BY <2>6, <2>7
<1> QED
  BY <1>0, <1>2, <1>3, <1>4 DEF Moving

LEMMA FindView ==
    ASSUME CourseInv, CourseInv', FindEnd
    PROVE  Abstract!Next \/ UNCHANGED Abstract!vars
<1>0. /\ pc = "find" /\ UNCHANGED walked /\ UNCHANGED <<live, call, order, data, used>> /\ Finding
      /\ elem \in used \cup {Null}
  BY DEF FindEnd, walked, heap, CourseInv, Course, ListInv, IteratorsValid
<1>1. Null \notin used
  BY EndFact DEF CourseInv, ListInv
<1>2. CASE call.where = "find" /\ elem = Null
  <2>1. Return(FALSE, NoData) /\ it' = it
    BY <1>2 DEF FindEnd
  <2>2. Names(Null) /\ call.kind \in {"edit", "read", "get"}
    BY <1>0, <1>2 DEF Names, Finding
  <2> QED
    BY <1>0, <2>1, <2>2, NoneView
<1>3. CASE call.where = "find" /\ elem # Null
  <2>1. it' = [it EXCEPT ![call.it] = elem] /\ ret' = ret
    BY <1>3 DEF FindEnd, Arrive
  <2>2. call.it \notin Iters
    BY <1>3 DEF CourseInv, Course, Underway
  <2>3. \A i \in Iters : it'[i] = it[i]
    BY <2>1, <2>2 DEF CourseInv, ListInv, TypeOK, AllIters
  <2> QED
    BY <1>0, <2>1, <2>3, WalkView
<1>4. CASE call.where = "it"
  <2>0. /\ call.kind = "find" /\ call.it \in Iters /\ NoMatch(elem)
        /\ elem \in used => Rank[data[elem]] = Rank[call.arg]
    BY <1>0, <1>1, <1>4 DEF FindEnd, Finding, CourseInv, ListInv, TypeOK, WellFormed
  <2>1. Abstract!Matching(call.arg) = IF elem = Null THEN 0 ELSE Pos(elem)
    BY <1>0, <2>0, MatchingFact
  <2>2. Abstract!Doing("find")
    BY <1>0, <2>0, DoingFact
  <2>3. CASE elem = Null
    <3>1. Return(FALSE, NoData) /\ it' = it
      BY <2>3 DEF FindEnd
    <3>2. 0 \notin 1 .. Len(order)
      BY EndFact DEF CourseInv, ListInv
    <3>3. Abstract!GoTo(0)
      BY <1>0, <3>1, <3>2, StayView
    <3> QED
      BY <2>1, <2>2, <2>3, <3>3 DEF Abstract!Next, Abstract!Find
  <2>4. CASE elem # Null
    <3>1. Return(TRUE, NoData) /\ it' = [it EXCEPT ![call.it] = elem]
      BY <1>4, <2>4 DEF FindEnd, Arrive
    <3>2. Abstract!GoTo(Pos(elem))
      BY <1>0, <2>0, <2>4, <3>1, GoToView
    <3> QED
      BY <2>1, <2>2, <2>4, <3>2 DEF Abstract!Next, Abstract!Find
  <2> QED
    BY <2>3, <2>4
<1> QED
  BY <1>0, <1>2, <1>3, <1>4 DEF Finding

\* The search of list_add_find ends: l_it is not seen.
LEMMA SearchView ==
    ASSUME CourseInv, CourseInv', SearchEnd
    PROVE  UNCHANGED Abstract!vars
<1>0. pc = "search" /\ call.where = "find" /\ call.it \notin Iters /\ UNCHANGED walked
  BY DEF SearchEnd, CourseInv, Course, Searching, Underway
<1>1. ret' = ret /\ \E e : it' = [it EXCEPT ![call.it] = e]
  BY <1>0 DEF SearchEnd, Arrive
<1>2. \A i \in Iters : it'[i] = it[i]
  BY <1>0, <1>1 DEF CourseInv, ListInv, TypeOK, AllIters
<1> QED
  BY <1>0, <1>1, <1>2, WalkView

\* The functions that work on the element of an iterator, where the loop has put it.
LEMMA HereView ==
    ASSUME CourseInv, CourseInv', ItEdit \/ ItRead \/ ItGet
    PROVE  Abstract!Next
<1> DEFINE x == it[call.it]
<1>0. /\ pc # "idle" /\ call.kind \in {"edit", "read", "get"} /\ Here(call.kind) /\ UNCHANGED <<live, call>>
  BY DEF ItEdit, ItRead, ItGet, Here
<1>1. x \in used \cup {Null} /\ (call.kind = "edit" => x \in used) /\ x \in Ptr
  <2>1. x \in used \cup {Null} /\ (call.kind = "edit" => x \in used)
    BY <1>0 DEF Here, CourseInv, ListInv, IteratorsValid
  <2> QED
    BY <2>1, MarkFact DEF CourseInv, ListInv
<1>2. Names(x)
  <2>1. CASE pc = "at"
    <3>1. Reached /\ call.where \in {"idx", "find"} /\ call.it = "l_it" /\ x \in used
      BY <2>1 DEF CourseInv, Course, Reached, ListInv, TypeOK, WellFormed, IteratorsValid
    <3> QED
      BY <3>1 DEF Reached, Names
  <2>2. CASE pc = "entry" /\ call.where = "it"
    BY <1>1, <2>2 DEF Names
  <2> QED
    BY <1>0, <2>1, <2>2 DEF Here
<1>n. Null \notin used
  BY EndFact DEF CourseInv, ListInv
<1>3. CASE ItEdit
  <2>1. /\ call.kind = "edit" /\ Return(TRUE, NoData) /\ data' = [data EXCEPT ![x] = call.data]
        /\ UNCHANGED <<live, call, order, used, it>>
    BY <1>3 DEF ItEdit, Here
  <2>2. PICK e \in used : e = x
    BY <1>1, <2>1
  <2>3. Abstract!Edit
    BY <1>0, <1>2, <2>1, <2>2, EditView
  <2> QED
    BY <2>3 DEF Abstract!Next
<1>4. CASE ItRead
  <2>0. UNCHANGED <<live, call, order, data, used, it>> /\ call.kind = "read"
    BY <1>4 DEF ItRead, heap, Here
  <2>1. CASE x = Null
    <3>1. Return(FALSE, NoData) /\ Names(Null)
      BY <1>2, <1>4, <2>1 DEF ItRead
    <3> QED
      BY <1>0, <2>0, <3>1, NoneView
  <2>2. CASE x # Null
    <3>1. PICK e \in used : e = x /\ Return(TRUE, data[x])
      BY <1>1, <1>4, <2>2 DEF ItRead
    <3>2. Abstract!Read
      BY <1>0, <1>2, <2>0, <3>1, ReadView
    <3> QED
      BY <3>2 DEF Abstract!Next
  <2> QED
    BY <2>1, <2>2
<1>5. CASE ItGet
  <2>0. call.kind = "get"
    BY <1>5 DEF ItGet, Here
  <2>1. CASE x = Null
    <3>1. Return(FALSE, NoData) /\ UNCHANGED <<order, data, used, it>> /\ Names(Null)
      BY <1>2, <1>5, <2>1 DEF ItGet, heap
    <3> QED
      BY <1>0, <2>0, <3>1, NoneView
  <2>2. CASE x # Null
    <3>1. PICK e \in used : e = x
      BY <1>1, <2>2
    <3>2. /\ Unlink(e) /\ Return(TRUE, data[e])
          /\ it' = [Orphaned(e) EXCEPT ![call.it] = IF e = last' THEN prev[e] ELSE next[e]]
      BY <1>5, <2>2, <3>1 DEF ItGet
    <3>3. e # last'
      <4>1. used' = used \ {e} /\ e # Null
        BY <1>n, <3>2 DEF Unlink
      <4>2. last' \in used' \cup {Null}
        <5>1. WellLinked' /\ DOMAIN order' = 1 .. Len(order') /\ Len(order') \in Nat
              /\ (order' # <<>> => Len(order') # 0)
          BY DEF CourseInv, ListInv, TypeOK
        <5> QED
          BY <5>1 DEF WellLinked
      <4> QED
        BY <4>1, <4>2
    <3>4. \A i \in Iters : it'[i] = IF i = call.it THEN next[e] ELSE IF it[i] = e THEN Freed ELSE it[i]
      <4>1. it' = [Orphaned(e) EXCEPT ![call.it] = next[e]]
        BY <3>2, <3>3
      <4> QED
        BY <4>1 DEF Orphaned, AllIters
    <3>5. Abstract!Get
      BY <1>0, <1>2, <2>0, <3>1, <3>2, <3>4, GetView
    <3> QED
      BY <3>5 DEF Abstract!Next
  <2> QED
    BY <2>1, <2>2
<1> QED
  BY <1>3, <1>4, <1>5

\* iterator_init and iterator_remove.
LEMMA IteratorView ==
    ASSUME CourseInv, CourseInv', ItInit \/ ItRemove
    PROVE  Abstract!NewIterator \/ Abstract!NoIterator
<1>0. /\ pc = "entry" /\ call.where = "it" /\ UNCHANGED <<live, call, order, data, used>>
      /\ ret' = Result(TRUE, NoData) /\ Items' = Items
  BY DEF ItInit, ItRemove, At, Return, heap, Items
<1>1. ItemsOK /\ PlacesOK /\ PlacesOK'
  BY ViewFact
<1>2. call.it \in Iters /\ it \in [AllIters -> Ptr \cup {Freed, Absent}] /\ Iters \subseteq AllIters
  BY <1>0 DEF CourseInv, ListInv, TypeOK, WellFormed, AllIters
<1>3. ASSUME NEW i \in Iters, i # call.it, it'[i] = it[i] PROVE Places'[i] = Places[i]
  <2>1. Pos(it[i])' = Pos(it[i])
    BY <1>0, <1>3 DEF Pos
  <2> QED
    BY <1>0, <1>1, <1>3, <2>1 DEF PlacesOK
<1>4. ASSUME NEW v, Places'[call.it] = v, \A i \in Iters : i # call.it => it'[i] = it[i]
      PROVE  Places' = [Places EXCEPT ![call.it] = v]
  <2>1. Places' = [i \in Iters |-> Places'[i]] /\ Places = [i \in Iters |-> Places[i]]
    BY <1>1 DEF PlacesOK
  <2>2. \A i \in Iters : Places'[i] = IF i = call.it THEN v ELSE Places[i]
    BY <1>3, <1>4
  <2>3. [Places EXCEPT ![call.it] = v] = [i \in Iters |-> IF i = call.it THEN v ELSE Places[i]]
    BY <2>1
  <2> QED
    BY <2>1, <2>2, <2>3
<1>5. CASE ItInit
  <2> DEFINE e == IF call.arg = 1 THEN first ELSE last
             v == IF Items = <<>> THEN 0 ELSE IF call.arg = 1 THEN 1 ELSE Len(Items)
  <2>1. it' = [it EXCEPT ![call.it] = e] /\ call.kind = "iterator"
    BY <1>5 DEF ItInit, At
  <2>2. it'[call.it] = e /\ \A i \in Iters : i # call.it => it'[i] = it[i]
    BY <1>2, <2>1
  <2>3. Places'[call.it] = v
    <3>0. /\ order = <<>> => first = Null /\ last = Null
          /\ order # <<>> => /\ first = order[1] /\ last = order[Len(order)] /\ first \in used /\ last \in used
                             /\ 1 \in 1 .. Len(order) /\ Len(order) \in 1 .. Len(order)
      BY EndFact DEF CourseInv, ListInv
    <3>1. CASE order = <<>>
      <4>1. it'[call.it] = Null /\ Items = <<>>
        BY <1>1, <2>2, <3>0, <3>1 DEF ItemsOK
      <4> QED
        BY <1>1, <1>2, <4>1 DEF PlacesOK
    <3>2. CASE order # <<>>
      <4>1. v \in 1 .. Len(order') /\ order'[v] = it'[call.it] /\ it'[call.it] \in used'
        BY <1>0, <1>1, <2>2, <3>0, <3>2 DEF ItemsOK
      <4> HIDE DEF v
      <4> QED
        BY <1>1, <1>2, <4>1, NewPlaceOf
    <3> QED
      BY <3>1, <3>2
  <2> HIDE DEF v, e
  <2>4. Places' = [Places EXCEPT ![call.it] = v]
    BY <1>4, <2>2, <2>3
  <2>5. Abstract!Doing("iterator")
    BY <1>0, <2>1, DoingFact
  <2> QED
    BY <1>0, <2>4, <2>5, AbstractOps DEF Abstract!NewIterator, v
<1>6. CASE ItRemove
  <2>1. it' = [it EXCEPT ![call.it] = Absent] /\ call.kind = "drop"
    BY <1>6 DEF ItRemove, At
  <2>2. it'[call.it] = Absent /\ \A i \in Iters : i # call.it => it'[i] = it[i]
    BY <1>2, <2>1
  <2>3. Places'[call.it] = -2
    BY <1>1, <1>2, <2>2 DEF PlacesOK
  <2>4. Places' = [Places EXCEPT ![call.it] = -2]
    BY <1>4, <2>2, <2>3
  <2>5. Abstract!Doing("drop")
    BY <1>0, <2>1, DoingFact
  <2> QED
    BY <1>0, <2>4, <2>5, AbstractOps DEF Abstract!NoIterator
<1> QED
  BY <1>5, <1>6

\* list_remove is refused while an iterator exists, and takes the elements from the front.
LEMMA RemoveListView ==
    ASSUME CourseInv, CourseInv', ListRemove
    PROVE  Abstract!NoList
<1>0. /\ pc = "entry" /\ call' = call /\ call.kind = "remove"
  BY DEF ListRemove, At
<1>1. ItemsOK /\ PlacesOK /\ PlacesOK'
  BY ViewFact
<1>d. Abstract!Doing("remove")
  BY <1>0, DoingFact
<1>2. (\E i \in Iters : Places[i] # -2) <=> nb_iterators # 0
  <2>1. nb_iterators = Cardinality({i \in Iters : it[i] # Absent})
    BY DEF CourseInv, ListInv, IteratorsCounted
  <2>2. IsFiniteSet({i \in Iters : it[i] # Absent})
    BY ListAssumption, FS_Subset
  <2>3. nb_iterators = 0 <=> {i \in Iters : it[i] # Absent} = {}
    BY <2>1, <2>2, FS_EmptySet
  <2>4. \A i \in Iters : it[i] # Absent <=> Places[i] # -2
    <3> SUFFICES ASSUME NEW i \in Iters PROVE it[i] # Absent <=> Places[i] # -2
      OBVIOUS
    <3>1. CASE it[i] \in used
      <4>1. Places[i] \in 1 .. Len(order) /\ it[i] # Absent
        BY <1>1, <3>1 DEF PlacesOK
      <4> QED
        BY <4>1
    <3>2. CASE it[i] \notin used
      BY <1>1, <3>2 DEF PlacesOK
    <3> QED
      BY <3>1, <3>2
  <2> QED
    BY <2>3, <2>4
<1>3. nb_elements = 0 <=> Items = <<>>
  BY <1>1, EndFact DEF CourseInv, ListInv, ItemsOK
<1>4. CASE nb_iterators # 0
  <2>1. UNCHANGED <<live, order, data, used, it>> /\ ret' = Result(FALSE, NoData)
    BY <1>4 DEF ListRemove, heap, Return
  <2>2. Items' = Items /\ Places' = Places
    BY <2>1, SameView
  <2> QED
    BY <1>2, <1>4, <1>d, <2>1, <2>2, AbstractOps DEF Abstract!NoList
<1>5. CASE nb_iterators = 0 /\ nb_elements = 0
  <2>1. UNCHANGED <<order, data, used, it>> /\ ret' = Result(TRUE, NoData) /\ live' = FALSE
    BY <1>5 DEF ListRemove, heap, Return
  <2>2. Items' = Items /\ Places' = Places
    BY <2>1, SameView
  <2> QED
    BY <1>2, <1>3, <1>5, <1>d, <2>1, <2>2, AbstractOps DEF Abstract!NoList
<1>6. CASE nb_iterators = 0 /\ nb_elements # 0
  <2>1. Unlink(first) /\ it' = Orphaned(first) /\ UNCHANGED <<live, ret>>
    BY <1>6 DEF ListRemove, GetFirst
  <2>2. first \in used /\ Pos(first) = 1
    BY <1>6, EndFact, NeighbourFact DEF CourseInv, ListInv
  <2>3. Items' = RemoveAt(Items, 1)
    BY <2>1, <2>2, RemoveView
  <2>4. RemoveAt(Items, 1) = Tail(Items)
    <3>1. PICK n \in Nat : n = Len(Items) /\ n # 0
      BY <1>1, <1>3, <1>6, EmptySeq DEF ItemsOK
    <3>2. Items \in Seq(Data) /\ 1 \in 1 .. Len(Items)
      BY <1>1, <3>1 DEF ItemsOK
    <3>3. /\ RemoveAt(Items, 1) \in Seq(Data)
          /\ Len(RemoveAt(Items, 1)) = Len(Items) - 1
          /\ \A i \in 1 .. Len(Items) - 1 : RemoveAt(Items, 1)[i] = Items[i + 1]
      BY ONLY <3>2, RemoveFact
    <3>4. /\ Tail(Items) \in Seq(Data) /\ Len(Tail(Items)) = n - 1
          /\ \A i \in 1 .. n - 1 : Tail(Items)[i] = Items[i + 1]
      BY <3>1, <3>2
    <3> QED
      BY <3>1, <3>3, <3>4, SeqEqual
  <2>5. Places' = Places
    <3>1. \A i \in Iters : it[i] = Absent
      <4>1. \A i \in Iters : Places[i] = -2
        BY <1>2, <1>6
      <4> SUFFICES ASSUME NEW i \in Iters PROVE it[i] = Absent
        OBVIOUS
      <4>2. it[i] \notin used
        <5>1. it[i] \in used => Places[i] \in 1 .. Len(order)
          BY <1>1 DEF PlacesOK
        <5> QED
          BY <4>1, <5>1
      <4> QED
        BY <1>1, <4>1, <4>2 DEF PlacesOK
    <3>2. Absent # first
      BY <1>1, <2>2 DEF PlacesOK
    <3>3. \A i \in Iters : it'[i] = Absent
      BY <2>1, <3>1, <3>2 DEF Orphaned, AllIters
    <3> QED
      BY <1>1, <3>1, <3>3 DEF PlacesOK
  <2> QED
    BY <1>2, <1>3, <1>6, <1>d, <2>1, <2>3, <2>4, <2>5, AbstractOps DEF Abstract!NoList
<1> QED
  BY <1>4, <1>5, <1>6

LEMMA InitView ==
    Init => Abstract!Init
<1> SUFFICES ASSUME Init PROVE Abstract!Init
  OBVIOUS
<1>1. order = <<>> /\ it = [i \in AllIters |-> IF i = "l_it" THEN Null ELSE Absent]
  BY DEF Init
<1>2. Items = <<>>
  BY <1>1 DEF Items
<1>3. Places = [i \in Iters |-> -2]
  <2>1. PlacesOK
    BY CourseInit, PlacesFact DEF CourseInv
  <2>2. \A i \in Iters : it[i] = Absent
    BY <1>1, ListAssumption DEF AllIters
  <2> QED
    BY <2>1, <2>2 DEF PlacesOK
<1> QED
  BY <1>2, <1>3, AbstractOps DEF Init, Abstract!Init

LEMMA StepView ==
    CourseInv /\ CourseInv' /\ [Next]_vars => [Abstract!Next]_(Abstract!vars)
<1> SUFFICES ASSUME CourseInv, CourseInv', [Next]_vars
             PROVE  Abstract!Next \/ UNCHANGED Abstract!vars
  OBVIOUS
<1>0. ListInv /\ Course
  BY DEF CourseInv
<1>1. ASSUME NEW c \in Calls, Begin(c) PROVE Abstract!Next
  BY <1>1, BeginView DEF Abstract!Next
<1>2. CASE AddEnd
  <2>1. Adds /\ pc # "idle" /\ call.kind = "add" /\ call.where \in {"first", "last"} /\ UNCHANGED <<live, it, call>>
    BY <1>0, <1>2, AddEndPlace DEF AddEnd, At
  <2> QED
    BY <2>1, AddsView DEF Abstract!Next
<1>3. CASE EditEnd \/ ReadEnd \/ GetEnd
  BY <1>3, EndView
<1>4. CASE GetSize
  <2>1. /\ UNCHANGED <<live, call, order, data, used, it>> /\ pc # "idle" /\ call.kind = "size"
        /\ ret' = Result(TRUE, nb_elements)
    BY <1>4 DEF GetSize, heap, At, Return
  <2>2. Items' = Items /\ Places' = Places /\ Abstract!Doing("size")
    BY <2>1, SameView, DoingFact
  <2>3. nb_elements = Len(Items)
    BY <1>0, ItemsFact, EndFact DEF CourseInv, ListInv, ItemsOK
  <2> QED
    BY <2>1, <2>2, <2>3, AbstractOps DEF Abstract!Next, Abstract!GetSize
<1>5. ASSUME WalkIdx, call.where = "idx" PROVE UNCHANGED Abstract!vars
  <2>1. \A i \in Iters : it'[i] = it[i]
    BY <1>5, ListAssumption DEF WalkIdx, CourseInv, ListInv, TypeOK, AllIters
  <2> QED
    BY <1>5, <2>1, WalkView DEF WalkIdx
<1>6. CASE AddIdx
  <2>1. pc # "idle" /\ call.kind = "add" /\ call.where = "idx"
    BY <1>6 DEF AddIdx, At
  <2>2. CASE Adds /\ UNCHANGED <<live, nb_iterators, it, call>>
    BY <2>1, <2>2, AddsView DEF Abstract!Next
  <2> QED
    BY <1>0, <1>5, <1>6, <2>1, <2>2, AddIdxPlace
<1>7. CASE EditIdx \/ GetIdx
  BY <1>5, <1>7 DEF EditIdx, GetIdx, At
<1>8. CASE ReadIdx
  <2>1. pc # "idle" /\ call.kind = "read" /\ call.where = "idx"
    BY <1>8 DEF ReadIdx, At
  <2>2. CASE call.arg >= nb_elements /\ Return(FALSE, NoData) /\ UNCHANGED <<walked, it>>
    <3>1. UNCHANGED <<live, call, order, data, used, it>>
      BY <2>2 DEF walked, heap
    <3>2. Names(Null)
      BY <1>0, <2>1, <2>2, EndFact DEF Names, ListInv
    <3> QED
      BY <2>1, <2>2, <3>1, <3>2, NoneView
  <2> QED
    BY <1>5, <1>8, <2>1, <2>2 DEF ReadIdx
<1>9. CASE ItMove \/ MoveStep \/ ItFind \/ FindStep \/ AddFind \/ SearchStep
  <2>1. UNCHANGED walked /\ ret' = ret /\ it' = it
    BY <1>9 DEF ItMove, MoveStep, ItFind, WalkFind, FindStep, AddFind, SearchStep
  <2> QED
    BY <2>1, WalkView
<1>10. CASE EditFind \/ ReadFind \/ GetFind
  <2>1. UNCHANGED walked /\ ret' = ret /\ it' = [it EXCEPT !["l_it"] = first]
    BY <1>10 DEF EditFind, ReadFind, GetFind, WalkFind
  <2>2. \A i \in Iters : it'[i] = it[i]
    BY <2>1, ListAssumption DEF CourseInv, ListInv, TypeOK, AllIters
  <2> QED
    BY <2>1, <2>2, WalkView
<1>11. CASE MoveEnd
  BY <1>11, MoveView
<1>12. CASE FindEnd
  BY <1>12, FindView
<1>13. CASE SearchEnd
  BY <1>13, SearchView
<1>14. CASE ItInsert
  <2>1. Adds /\ pc # "idle" /\ call.kind = "add" /\ UNCHANGED <<live, it, call>>
    BY <1>0, <1>14, ItInsertPlace DEF ItInsert
  <2>2. /\ call.where \in {"it", "idx", "find"}
        /\ call.where = "it" => it[call.it] \in used \/ order = <<>>
    <3>1. CASE pc = "entry"
      BY <1>0, <1>14, <3>1, EndFact DEF ItInsert, ListInv, IteratorsValid
    <3>2. CASE pc # "entry"
      BY <1>0, <1>14, <3>2 DEF ItInsert, Course, ReachedBefore, ReachedEnd
    <3> QED
      BY <3>1, <3>2
  <2> QED
    BY <2>1, <2>2, AddsView DEF Abstract!Next
<1>15. CASE ItEdit \/ ItRead \/ ItGet
  BY <1>15, HereView
<1>16. CASE ItInit \/ ItRemove
  BY <1>16, IteratorView DEF Abstract!Next
<1>17. CASE ListInit
  <2>1. /\ UNCHANGED <<call, order, data, used>> /\ pc = "entry" /\ call.kind = "init" /\ live' = TRUE
        /\ ret' = Result(TRUE, NoData) /\ it' = [it EXCEPT !["l_it"] = Null]
    BY <1>17 DEF ListInit, heap, At, Return
  <2>2. ~live
    BY <1>0, <2>1 DEF ListInv, IteratorsCounted
  <2>3. \A i \in Iters : it'[i] = it[i]
    BY <2>1, ListAssumption DEF CourseInv, ListInv, TypeOK, AllIters
  <2>4. Items' = Items /\ Places' = Places /\ Abstract!Doing("init")
    BY <2>1, <2>3, SameView, DoingFact
  <2> QED
    BY <2>1, <2>2, <2>4, AbstractOps DEF Abstract!Next, Abstract!NewList
<1>18. CASE ListRemove
  BY <1>18, RemoveListView DEF Abstract!Next
<1>19. CASE UNCHANGED vars
  <2>1. UNCHANGED walked /\ ret' = ret /\ it' = it
    BY <1>19 DEF vars, walked
  <2> QED
    BY <2>1, WalkView
<1> QED
  BY <1>1, <1>2, <1>3, <1>4, <1>6, <1>7, <1>8, <1>9, <1>10, <1>11, <1>12, <1>13, <1>14, <1>15, <1>16,
     <1>17, <1>18, <1>19 DEF Next

\* The list implements the sequence of include/list.h: every function, by index, by comparison,
\* at an end or through an iterator, takes effect in one step at the place that it names, for
\* lists of any length and any number of iterators.
THEOREM ListImplementsSequence == Spec => ImplementsSequence
<1>1. CourseInv /\ [Next]_vars => CourseInv'
  BY CourseNext
<1>2. Abstract!Spec <=> Abstract!Init /\ [][Abstract!Next]_(Abstract!vars)
  BY DEF Abstract!Spec
<1> QED
  BY <1>1, <1>2, CourseInit, InitView, StepView, PTL DEF Spec, ImplementsSequence

=============================================================================
