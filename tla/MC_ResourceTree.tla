--------------------------- MODULE MC_ResourceTree ---------------------------
(***************************************************************************)
(* Instances of ResourceTree for TLC: resources, NULL and the garbage      *)
(* value are model values.                                                 *)
(***************************************************************************)
EXTENDS ResourceTree, TLC

CONSTANTS r1, r2, r3, r4, e1

\* Resources other than the one with an event loop are interchangeable.
Perms == Permutations({r2, r3, r4})

\* The iterator and the event sources are explored one at a time: the
\* iterator calls neither read nor write sources or loops, and the
\* event-loop calls neither read nor write the iterator.
IterOrSources == iter = NoIter \/ \A s \in SrcIds : sources[s] = NoSrc
==============================================================================
