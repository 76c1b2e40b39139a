\* A hash_update_fn that makes one call into the table while the update
\* it was called from holds the pointer it found before the call.
CONSTANTS
    k1 = k1
    k2 = k2
    k3 = k3
    d1 = d1
    d2 = d2
    n1 = n1
    n2 = n2
    n3 = n3
    NULL = NULL
    Keys = {k1, k2, k3}
    HashOf <- HashOf3
    Vals = {NULL, d1}
    Sizes = {1, 2}
    Ids = {n1, n2, n3}
    Width = 8
    SizeHint = 0
    MaxNested = 1
SPECIFICATION Spec
PROPERTY UpdateTouchesOnlyItsKey
\* After hash_destroy the table is gone and no call on it is legal: the
\* run may stop there.
CHECK_DEADLOCK FALSE
