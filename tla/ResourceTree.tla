---------------------------- MODULE ResourceTree ----------------------------
(***************************************************************************)
(* The resource tree of resource/resource.c: each sid_resource has a      *)
(* parent pointer and an insertion-ordered children list (struct list,    *)
(* list_add appending at the tail); one iterator over a resource's        *)
(* children caches (prev, current, next) list positions.                  *)
(*                                                                         *)
(* A list position is the list head of a resource, a resource's node, or  *)
(* a garbage pointer (a link read from freed or unlinked memory).  The    *)
(* list a node physically sits in is modelled apart from its parent      *)
(* pointer, because the code can make the two disagree.                   *)
(***************************************************************************)
EXTENDS Naturals, Sequences, SequencesExt, FiniteSets

CONSTANTS
    Res,      \* resources that may be created
    Loop,     \* resources whose registration has with_event_loop
    Nil,      \* NULL
    Garbage,  \* a value read through a dangling pointer
    SrcIds,   \* sd_event_source addresses
    Kinds     \* the create_*_event_source calls made: "io", "signal", "child",
              \* "time", "deferred", "post" or "exit"

ASSUME Loop \subseteq Res /\ Nil \notin Res /\ Garbage \notin Res

VARIABLES
    status,    \* "none" (not created yet), "live" or "freed"
    parent,    \* res->parent
    children,  \* res->children, in list order
    iter,      \* the sid_resource_iter in use, or NoIter
    got,       \* the resource the last iterator step returned
    crashed,   \* the process hung, overflowed its stack or hit undefined behaviour
    sources,   \* each event source: the resource its handler gets, its loop, its kind
    loopState  \* each event loop: "idle", "running" (in sd_event_loop) or "finished"

tree == <<status, parent, children, iter, got, crashed>>
evs == <<sources, loopState>>
vars == <<status, parent, children, iter, got, crashed, sources, loopState>>

NoSrc == [res |-> Nil]

Hd(p) == [k |-> "head", r |-> p]
Nd(x) == [k |-> "node", r |-> x]
GarbagePos == [k |-> "garbage", r |-> Nil]
Pos == {Hd(p) : p \in Res} \cup {Nd(x) : x \in Res} \cup {GarbagePos}
NoIter == [res |-> Nil, prev |-> GarbagePos, cur |-> GarbagePos, next |-> GarbagePos]

TypeOK ==
    /\ status \in [Res -> {"none", "live", "freed"}]
    /\ parent \in [Res -> Res \cup {Nil}]
    /\ children \in [Res -> Seq(Res)]
    /\ iter \in {NoIter} \cup [res : Res, prev : Pos, cur : Pos, next : Pos]
    /\ got \in Res \cup {Nil, Garbage}
    /\ crashed \in BOOLEAN
    /\ sources \in [SrcIds -> {NoSrc} \cup [res : Res, loop : Loop, kind : {"io", "signal", "child", "time", "defer"}, on : BOOLEAN]]
    /\ loopState \in [Loop -> {"idle", "running", "finished"}]

-----------------------------------------------------------------------------
(* Helpers                                                                 *)

Live(x) == status[x] = "live"
\* The resource whose children list holds x's node.
Listed(x) == \E h \in Res : x \in ToSet(children[h])
Holder(x) == CHOOSE h \in Res : x \in ToSet(children[h])
IndexOf(s, x) == CHOOSE i \in DOMAIN s : s[i] = x

\* Resources reached by following children lists from S (list_iterate_*).
RECURSIVE Reach(_, _)
Reach(S, seen) ==
    LET nxt == UNION {ToSet(children[x]) : x \in S} \ seen
    IN IF nxt = {} THEN seen ELSE Reach(nxt, seen \cup nxt)
Desc(r) == Reach({r}, {})

\* pos->n and pos->p.  A node's links are those of the list it sits in; a
\* node no longer in any list has stale or freed links.
Succ(pos) ==
    IF pos.k = "head"
      THEN IF children[pos.r] = <<>> THEN pos ELSE Nd(Head(children[pos.r]))
    ELSE IF pos.k = "node" /\ Live(pos.r) /\ Listed(pos.r)
      THEN LET h == Holder(pos.r)
               i == IndexOf(children[h], pos.r)
           IN IF i = Len(children[h]) THEN Hd(h) ELSE Nd(children[h][i + 1])
    ELSE GarbagePos
Pred(pos) ==
    IF pos.k = "head"
      THEN IF children[pos.r] = <<>> THEN pos ELSE Nd(Last(children[pos.r]))
    ELSE IF pos.k = "node" /\ Live(pos.r) /\ Listed(pos.r)
      THEN LET h == Holder(pos.r)
               i == IndexOf(children[h], pos.r)
           IN IF i = 1 THEN Hd(h) ELSE Nd(children[h][i - 1])
    ELSE GarbagePos
\* list_struct_base: the resource a position is taken to be.
Base(pos) == IF pos.k = "node" THEN pos.r ELSE Garbage

\* sid_resource_get_top_level: the resources whose parent field the walk to
\* the root reads.  A freed resource's parent field is garbage: the walk
\* reads it and goes nowhere that can be named.
RECURSIVE TopWalk(_, _)
TopWalk(x, n) ==
    IF x = Nil \/ n = 0 THEN {}
    ELSE {x} \cup (IF Live(x) THEN TopWalk(parent[x], n - 1) ELSE {})

\* _get_resource_with_event_loop, behind every create_*_event_source: the
\* nearest resource up the parent pointers with an event loop, Nil if none,
\* Garbage once the walk reads a freed resource.
RECURSIVE GetResourceWithEventLoop(_, _)
GetResourceWithEventLoop(x, n) ==
    IF x = Nil \/ n = 0 THEN Nil
    ELSE IF ~Live(x) THEN Garbage
    ELSE IF x \in Loop THEN x
    ELSE GetResourceWithEventLoop(parent[x], n - 1)

\* The iterator's contract: the resource iterated over stays alive, and of
\* its children only the current one may be removed.
MayRemove(r, gone) ==
    iter # NoIter =>
        /\ iter.res \notin gone
        /\ r \in ToSet(children[iter.res]) => iter.cur = Nd(r)

-----------------------------------------------------------------------------
Init ==
    /\ status = [x \in Res |-> "none"]
    /\ parent = [x \in Res |-> Nil]
    /\ children = [x \in Res |-> <<>>]
    /\ iter = NoIter
    /\ got = Nil
    /\ crashed = FALSE
    /\ sources = [s \in SrcIds |-> NoSrc]
    /\ loopState = [l \in Loop |-> "idle"]

\* sid_resource_create: the id is allocated, the resource zalloc'ed, the
\* event loop created, the node appended to the parent's list, then init
\* runs.  A failing init or sd_event_new unwinds (list_del, free).  A failing
\* malloc or snprintf of the id jumps to fail: with res uninitialized; the
\* read of it is undefined and may crash.
Create(r, p) ==
    /\ ~crashed
    /\ status[r] = "none"
    /\ p # Nil => Live(p)
    /\ \/ /\ status' = [status EXCEPT ![r] = "live"]
          /\ parent' = [parent EXCEPT ![r] = p]
          /\ children' = IF p = Nil THEN children
                         ELSE [children EXCEPT ![p] = Append(@, r)]
          /\ UNCHANGED crashed
       \/ /\ crashed' = TRUE
          /\ UNCHANGED <<status, parent, children>>
    /\ UNCHANGED <<iter, got>>

\* sid_resource_destroy: children destroyed last to first, recursively,
\* then list_del of the node if res->parent is set, then free.  A children
\* list that leads back into itself recurses until the stack overflows.
Destroy(r) ==
    /\ ~crashed
    /\ Live(r)
    /\ LET gone == {r} \cup Desc(r) IN
       /\ MayRemove(r, gone)
       /\ IF \E x \in gone : x \in Desc(x)
            THEN /\ crashed' = TRUE
                 /\ UNCHANGED <<status, parent, children>>
            ELSE /\ status' = [x \in Res |-> IF x \in gone THEN "freed" ELSE status[x]]
                 /\ parent' = [x \in Res |-> IF x \in gone THEN Nil ELSE parent[x]]
                 /\ children' = [x \in Res |->
                                   IF x \in gone THEN <<>>
                                   ELSE IF parent[r] # Nil /\ Listed(r) /\ x = Holder(r)
                                     THEN RemoveFirst(children[x], r)
                                     ELSE children[x]]
                 /\ UNCHANGED crashed
    /\ UNCHANGED <<iter, got>>

\* sid_resource_add_child: refused when res is NULL or the child already has
\* a parent; nothing checks that the child is not an ancestor of res.
AddChild(p, c) ==
    /\ ~crashed
    /\ Live(p) /\ Live(c)
    /\ parent[c] = Nil
    /\ parent' = [parent EXCEPT ![c] = p]
    /\ children' = [children EXCEPT ![p] = Append(@, c)]
    /\ UNCHANGED <<status, iter, got, crashed>>

\* sid_resource_isolate: refused for a resource with an event loop or no
\* parent.  Every child node is moved to the tail of res->parent's list (the
\* children's parent pointers are left as they are), then res's node is
\* unlinked and its parent cleared.  Appending into the list being walked
\* (res its own parent) never ends; writing into a freed parent is
\* undefined.
Isolate(r) ==
    /\ ~crashed
    /\ Live(r)
    /\ r \notin Loop
    /\ parent[r] # Nil
    /\ MayRemove(r, {r})
    /\ LET p == parent[r]
           h == Holder(r)
       IN IF p = r \/ ~Live(p)
            THEN /\ crashed' = TRUE
                 /\ UNCHANGED <<parent, children>>
            ELSE /\ children' = [[children EXCEPT ![h] = RemoveFirst(@, r)]
                                   EXCEPT ![p] = @ \o children[r], ![r] = <<>>]
                 /\ parent' = [parent EXCEPT ![r] = Nil]
                 /\ UNCHANGED crashed
    /\ UNCHANGED <<status, iter, got>>

\* A sid_resource_isolate_with_children that clears the parent but leaves
\* the node linked in the parent's list.
IsolateWithChildrenNoUnlink(r) ==
    /\ ~crashed
    /\ Live(r)
    /\ r \notin Loop
    /\ parent[r] # Nil
    /\ MayRemove(r, {r})
    /\ parent' = [parent EXCEPT ![r] = Nil]
    /\ UNCHANGED <<status, children, iter, got, crashed>>

\* sid_resource_isolate_with_children: same checks, unlink res's node and
\* clear its parent; its children stay with it.
IsolateWithChildren(r) ==
    /\ ~crashed
    /\ Live(r)
    /\ r \notin Loop
    /\ parent[r] # Nil
    /\ MayRemove(r, {r})
    /\ children' = [children EXCEPT ![Holder(r)] = RemoveFirst(@, r)]
    /\ parent' = [parent EXCEPT ![r] = Nil]
    /\ UNCHANGED <<status, iter, got, crashed>>

\* sid_resource_iter_create and sid_resource_iter_reset: current is the list
\* head, prev and next its neighbours.
IterStart(p) ==
    iter' = [res |-> p, cur |-> Hd(p), prev |-> Pred(Hd(p)), next |-> Succ(Hd(p))]

IterCreate(p) ==
    /\ ~crashed
    /\ iter = NoIter
    /\ Live(p)
    /\ IterStart(p)
    /\ UNCHANGED <<status, parent, children, got, crashed>>

IterReset ==
    /\ ~crashed
    /\ iter # NoIter
    /\ IterStart(iter.res)
    /\ UNCHANGED <<status, parent, children, got, crashed>>

\* sid_resource_iter_next: NULL once next is the head; else current becomes
\* the cached next and next is read from the new current.  prev is kept.
IterNext ==
    /\ ~crashed
    /\ iter # NoIter
    /\ IF iter.next = Hd(iter.res)
         THEN /\ got' = Nil
              /\ UNCHANGED iter
         ELSE /\ iter' = [iter EXCEPT !.cur = iter.next, !.next = Succ(iter.next)]
              /\ got' = Base(iter.next)
    /\ UNCHANGED <<status, parent, children, crashed>>

\* sid_resource_iter_previous: the mirror image; next is kept.
IterPrevious ==
    /\ ~crashed
    /\ iter # NoIter
    /\ IF iter.prev = Hd(iter.res)
         THEN /\ got' = Nil
              /\ UNCHANGED iter
         ELSE /\ iter' = [iter EXCEPT !.cur = iter.prev, !.prev = Pred(iter.prev)]
              /\ got' = Base(iter.prev)
    /\ UNCHANGED <<status, parent, children, crashed>>

IterDestroy ==
    /\ ~crashed
    /\ iter # NoIter
    /\ iter' = NoIter
    /\ UNCHANGED <<status, parent, children, got, crashed>>

-----------------------------------------------------------------------------
(* Event-loop binding: the create_*_event_source wrappers register a       *)
(* source in the loop of the nearest resource up the parent pointers that  *)
(* has one, with the caller's handler and data (here the resource the call *)
(* names).  The resource does not record the source; destroying it leaves  *)
(* the source registered.  A failing sd_event_add_* changes nothing.       *)

\* The sd-event source each call adds: post and exit sources are added with
\* sd_event_add_defer, like deferred ones.
SdKind(k) == IF k \in {"deferred", "post", "exit"} THEN "defer" ELSE k

\* sid_resource_create_*_event_source: -ENOMEDIUM (nothing registered) when
\* no resource up the parent pointers has a loop; a walk through a freed
\* parent is undefined.
CreateEventSource(r, k, s) ==
    /\ ~crashed
    /\ Live(r)
    /\ sources[s] = NoSrc
    /\ LET lp == GetResourceWithEventLoop(r, Cardinality(Res)) IN
       /\ lp # Nil
       /\ IF lp = Garbage
            THEN /\ crashed' = TRUE
                 /\ UNCHANGED sources
            ELSE /\ sources' = [sources EXCEPT ![s] = [res |-> r, loop |-> lp, kind |-> SdKind(k), on |-> TRUE]]
                 /\ UNCHANGED crashed
    /\ UNCHANGED <<status, parent, children, iter, got, loopState>>

\* sid_resource_destroy_event_source: sd_event_source_unref, the source is
\* unregistered and freed.
DestroyEventSource(s) ==
    /\ ~crashed
    /\ sources[s] # NoSrc
    /\ sources' = [sources EXCEPT ![s] = NoSrc]
    /\ UNCHANGED <<tree, loopState>>

\* sid_resource_run_event_loop: -ENOMEDIUM without a loop of its own; else
\* sd_event_loop runs until an exit is requested.
RunEventLoop(r) ==
    /\ ~crashed
    /\ Live(r)
    /\ r \in Loop
    /\ loopState[r] = "idle"
    /\ loopState' = [loopState EXCEPT ![r] = "running"]
    /\ UNCHANGED <<tree, sources>>

\* sid_resource_exit_event_loop: sd_event_exit; the running loop returns.
ExitEventLoop(r) ==
    /\ ~crashed
    /\ Live(r)
    /\ r \in Loop
    /\ loopState[r] = "running"
    /\ loopState' = [loopState EXCEPT ![r] = "finished"]
    /\ UNCHANGED <<tree, sources>>

\* The running loop calls the handler of an enabled source with its data.
\* A defer source is one-shot and is disabled; the handler of a source whose
\* resource was destroyed gets freed memory.
Dispatch(s) ==
    /\ ~crashed
    /\ sources[s] # NoSrc
    /\ sources[s].on
    /\ loopState[sources[s].loop] = "running"
    /\ \/ /\ ~Live(sources[s].res)
          /\ crashed' = TRUE
          /\ UNCHANGED sources
       \/ /\ Live(sources[s].res)
          /\ sources[s].kind = "defer"
          /\ sources' = [sources EXCEPT ![s].on = FALSE]
          /\ UNCHANGED crashed
    /\ UNCHANGED <<status, parent, children, iter, got, loopState>>

-----------------------------------------------------------------------------
TreeNext ==
    \/ \E r \in Res, p \in Res \cup {Nil} : Create(r, p)
    \/ \E r \in Res : Destroy(r) \/ Isolate(r) \/ IsolateWithChildren(r)
    \/ \E p, c \in Res : AddChild(p, c)
    \/ \E p \in Res : IterCreate(p)
    \/ IterReset \/ IterNext \/ IterPrevious \/ IterDestroy

Next ==
    \/ TreeNext /\ UNCHANGED evs
    \/ \E r \in Res, k \in Kinds, s \in SrcIds : CreateEventSource(r, k, s)
    \/ \E s \in SrcIds : DestroyEventSource(s) \/ Dispatch(s)
    \/ \E r \in Res : RunEventLoop(r) \/ ExitEventLoop(r)

Spec == Init /\ [][Next]_vars

-----------------------------------------------------------------------------
(* Properties                                                              *)

\* The children lists stay well formed under every sequence of create,
\* destroy, add_child and isolate calls: only live resources sit in the
\* lists of live resources, each at most once, and a resource sits in a list
\* exactly when its parent pointer is set (what destroy's list_del relies on).
ListsWellFormed ==
    \A x \in Res :
        /\ \A h \in Res : x \in ToSet(children[h]) => Live(x) /\ Live(h)
        /\ Cardinality(UNION {{<<h, i>> : i \in {j \in DOMAIN children[h] : children[h][j] = x}}
                              : h \in Res}) <= 1
        /\ Live(x) => (Listed(x) <=> parent[x] # Nil)

\* The walks up the parent pointers from a live resource read only live
\* resources: get_top_level reaches a live root, and the event-loop lookup
\* behind every create_*_event_source finds a live loop or none.
ParentWalksStayLive ==
    \A x \in Res : Live(x) =>
        /\ \A y \in TopWalk(x, Cardinality(Res)) : Live(y)
        /\ GetResourceWithEventLoop(x, Cardinality(Res)) # Garbage

\* No resource is its own descendant (what get_top_level and destroy need
\* to terminate).  add_child does not ensure it; the runs take it as the
\* callers' precondition, a CONSTRAINT.
Acyclic ==
    \A x \in Res : Live(x) => x \notin Desc(x)

\* isolate keeps the order of the children it reparents: they take the
\* isolated resource's place in its parent's list.
IsolateKeepsOrder ==
    [][\A r \in Res :
         Isolate(r) /\ ~crashed' =>
            LET s == children[parent[r]]
                i == IndexOf(s, r)
            IN children'[parent[r]] =
                 SubSeq(s, 1, i - 1) \o children[r] \o SubSeq(s, i + 1, Len(s))]_vars

\* Every resource an iterator step returns is a live child of the iterated
\* resource, as long as only the current child is removed while iterating.
IterYieldsChild ==
    [][(IterNext \/ IterPrevious) /\ got' # Nil =>
          got' \in ToSet(children[iter.res]) /\ Live(got')]_vars

==============================================================================
