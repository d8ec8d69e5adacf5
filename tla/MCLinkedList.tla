---------------------------- MODULE MCLinkedList ----------------------------
(* Instances of LinkedList: two of the three values compare equal.         *)
EXTENDS LinkedList, TLC

MCRank == (1 :> 10) @@ (2 :> 20) @@ (3 :> 20)
Symmetry == Permutations(Elems)

=============================================================================
