\* Two colliding keys and one other, two data values with two sizes, three
\* node addresses; hash_update_fn makes no calls into the table.
CONSTANTS
    k1 = k1
    k2 = k2
    k3 = k3
    d1 = d1
    d2 = d2
    n1 = n1
    n2 = n2
    n3 = n3
    NULL = NULL
    Keys = {k1, k2, k3}
    HashOf <- HashOf3
    Vals = {NULL, d1}
    Sizes = {1, 2}
    Ids = {n1, n2, n3}
    Width = 8
    SizeHint = 0
    MaxNested = 0
SPECIFICATION Spec
INVARIANT TableWellFormed
INVARIANT IterVisitsEachOnce
INVARIANT LookupsAgree
INVARIANT SlotsRoundUp
PROPERTY HashMapSpec
\* Node addresses are interchangeable.
SYMMETRY Symm
\* After hash_destroy the table is gone and no call on it is legal: the
\* run may stop there.
CHECK_DEADLOCK FALSE
