\* Four resources, r1 with an event loop (a root like the daemon's).
CONSTANTS
    r1 = r1
    r2 = r2
    r3 = r3
    r4 = r4
    Nil = Nil
    Garbage = Garbage
    Res = {r1, r2, r3, r4}
    Loop = {r1}
    e1 = e1
    SrcIds = {e1}
    Kinds = {"exit"}
SPECIFICATION Spec
\* Callers never make a resource the child of its own descendant;
\* add_child does not check it.
CONSTRAINT Acyclic
\* Iteration and event sources are independent: one at a time.
CONSTRAINT IterOrSources
INVARIANT ListsWellFormed
\* r2, r3 and r4 play the same part.
SYMMETRY Perms
CHECK_DEADLOCK FALSE
