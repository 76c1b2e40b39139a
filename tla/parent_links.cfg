\* isolate leaves the moved children pointing at the isolated resource;
\* once it is destroyed, walks up from them read freed memory.
CONSTANTS
    r1 = r1
    r2 = r2
    r3 = r3
    r4 = r4
    Nil = Nil
    Garbage = Garbage
    Res = {r1, r2, r3, r4}
    Loop = {r1}
    e1 = e1
    SrcIds = {e1}
    Kinds = {"exit"}
SPECIFICATION Spec
CONSTRAINT Acyclic
INVARIANT ParentWalksStayLive
CHECK_DEADLOCK FALSE
