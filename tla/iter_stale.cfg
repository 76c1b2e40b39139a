\* iter_next and iter_previous keep a cached neighbour that goes stale.
CONSTANTS
    r1 = r1
    r2 = r2
    r3 = r3
    r4 = r4
    Nil = Nil
    Garbage = Garbage
    Res = {r1, r2, r3, r4}
    Loop = {r1}
    e1 = e1
    SrcIds = {e1}
    Kinds = {"exit"}
SPECIFICATION Spec
CONSTRAINT Acyclic
PROPERTY IterYieldsChild
CHECK_DEADLOCK FALSE
