SPECIFICATION Spec
CONSTANT Elems = {e1, e2, e3}
CONSTANT Null = Null
CONSTANT Data = {1, 2, 3}
CONSTANT NoData = 0
CONSTANT Rank <- MCRank
CONSTANT Iters = {i1}
CONSTANT MaxIdx = 3
SYMMETRY Symmetry
INVARIANT WellLinked
INVARIANT IteratorsValid
INVARIANT IteratorsCounted
INVARIANT PriorityOrder
PROPERTY ImplementsSequence
