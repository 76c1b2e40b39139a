-------------------------------- MODULE Hash --------------------------------
(***************************************************************************)
(* The hash table of src/internal/hash.c: an array of num_slots chains of *)
(* hash_node, a node count, and hash_update, which looks its key up,      *)
(* calls the caller's hash_update_fn, and then acts through the pointer   *)
(* it found before the call.  The callback may itself add or delete       *)
(* nodes (the code's comment in _do_hash_insert says so); those nested    *)
(* calls are steps taken while an update is in progress.                  *)
(*                                                                         *)
(* A key is a model value; _hash of its bytes is the constant HashOf.     *)
(* Data pointers are model values compared by content (memcmp).  A node   *)
(* is an element of Ids: the malloc'ed addresses; running out of them is  *)
(* a failing malloc.                                                       *)
(***************************************************************************)
EXTENDS Naturals, Sequences, SequencesExt, FiniteSets, Bitwise

CONSTANTS
    Keys,       \* keys
    HashOf,     \* _hash(key, key_size) for each key
    Vals,       \* data pointers a caller passes, NULL among them
    Sizes,      \* data sizes a caller passes
    NULL,
    Ids,        \* node addresses
    Width,      \* bits of an unsigned
    SizeHint,   \* the size_hint given to hash_create
    MaxNested   \* calls a hash_update_fn makes into the table

ASSUME NULL \in Vals /\ HashOf \in [Keys -> Nat]

(* hash_create: 16 slots, doubled (in Width-bit arithmetic) while below   *)
(* the hint.  A doubling that wraps to 0 never gets past the hint; the    *)
(* loop then never ends, returned here as 0 after Width rounds.           *)
RECURSIVE RoundUp(_, _, _)
RoundUp(n, hint, rounds) ==
    IF n >= hint THEN n
    ELSE IF rounds = 0 THEN 0
    ELSE RoundUp((n * 2) % (2 ^ Width), hint, rounds - 1)
\* A loop that doubles while new_size <= size_hint.
HashCreateSlotsLe(hint) == RoundUp(16, hint + 1, Width)
HashCreateSlots(hint) == RoundUp(16, hint, Width)

NumSlots == HashCreateSlots(SizeHint)
SlotIdx == 0 .. NumSlots - 1
Slot(k) == HashOf[k] & (NumSlots - 1)

NoNode == [key |-> NULL, data |-> NULL, size |-> 0]
NoUpd == [key |-> NULL]

VARIABLES
    slots,      \* t->slots: each chain as a sequence of node addresses
    node,       \* the key, data and data_size of each allocated node
    alloc,      \* allocated node addresses
    num_nodes,  \* t->num_nodes
    upd,        \* the hash_update waiting for its hash_update_fn, or NoUpd
    ub,         \* a write through a freed node happened
    destroyed   \* hash_destroy has freed the table

vars == <<slots, node, alloc, num_nodes, upd, ub, destroyed>>

(* A struct hash_node ** : the slot head or the next field of a node.     *)
SlotPtr(s) == [k |-> "slot", s |-> s]
NextPtr(n) == [k |-> "next", n |-> n]
Ptrs == {SlotPtr(s) : s \in SlotIdx} \cup {NextPtr(n) : n \in Ids}

TypeOK ==
    /\ slots \in [SlotIdx -> Seq(Ids)]
    /\ node \in [Ids -> [key : Keys \cup {NULL}, data : Vals, size : Sizes \cup {0}]]
    /\ alloc \subseteq Ids
    /\ num_nodes \in Nat
    /\ upd \in {NoUpd} \cup [key : Keys, c : Ptrs, nested : 0 .. MaxNested, stale : BOOLEAN]
    /\ ub \in BOOLEAN
    /\ destroyed \in BOOLEAN

-----------------------------------------------------------------------------
(* Chains and pointers                                                     *)

ChainOf(n) == CHOOSE s \in SlotIdx : n \in ToSet(slots[s])
PosIn(s, n) == SelectInSeq(slots[s], LAMBDA x : x = n)

\* *c: the node a pointer points at, or NULL.
Deref(c) ==
    LET s == IF c.k = "slot" THEN c.s ELSE ChainOf(c.n)
        i == IF c.k = "slot" THEN 1 ELSE PosIn(s, c.n) + 1
    IN IF i > Len(slots[s]) THEN NULL ELSE slots[s][i]

\* The pointer to the i-th link of chain s (i = Len + 1: the last next field).
PtrAt(s, i) == IF i = 1 THEN SlotPtr(s) ELSE NextPtr(slots[s][i - 1])

\* A _find that does not stop at the first match.
FindLast(k) ==
    LET s == Slot(k)
        i == SelectLastInSeq(slots[s], LAMBDA n : node[n].key = k)
    IN PtrAt(s, IF i = 0 THEN Len(slots[s]) + 1 ELSE i)

\* _find: the link holding the first node of key k, or the final NULL link.
Find(k) ==
    LET s == Slot(k)
        i == SelectInSeq(slots[s], LAMBDA n : node[n].key = k)
    IN PtrAt(s, IF i = 0 THEN Len(slots[s]) + 1 ELSE i)

\* _find_with_data: the link of the first node of key k with data set and
\* equal to d of size sz, or NULL.
FindWithData(k, d, sz) ==
    LET s == Slot(k)
        i == SelectInSeq(slots[s], LAMBDA n : /\ node[n].key = k /\ node[n].data # NULL
                                              /\ node[n].data = d /\ node[n].size = sz)
    IN IF i = 0 THEN NULL ELSE PtrAt(s, i)

\* A call into the table is allowed at top level or from a hash_update_fn
\* that has not used up its nested calls.
CanCall ==
    /\ ~destroyed
    /\ IF upd = NoUpd THEN TRUE ELSE upd.nested < MaxNested

\* Bookkeeping of the update in progress for a call that frees `freed`.
Nest(freed) ==
    upd' = IF upd = NoUpd THEN NoUpd
           ELSE [upd EXCEPT !.nested = @ + 1,
                            !.stale = @ \/ (upd.c.k = "next" /\ upd.c.n \in freed)]

\* _do_hash_insert of a new node n: walk from c to the last link, put n there.
DoHashInsert(c, n, k, d, sz) ==
    LET s == IF c.k = "slot" THEN c.s ELSE ChainOf(c.n) IN
    /\ slots' = [slots EXCEPT ![s] = Append(@, n)]
    /\ node' = [node EXCEPT ![n] = [key |-> k, data |-> d, size |-> sz]]
    /\ alloc' = alloc \cup {n}
    /\ num_nodes' = num_nodes + 1

\* _do_hash_del of the node *c: unlink it, free it, count it out.
DoHashDelNoCount(c) ==
    LET n == Deref(c) IN
    /\ slots' = [slots EXCEPT ![ChainOf(n)] = RemoveFirst(@, n)]
    /\ node' = [node EXCEPT ![n] = NoNode]
    /\ alloc' = alloc \ {n}
    /\ UNCHANGED num_nodes

DoHashDel(c) ==
    LET n == Deref(c) IN
    /\ slots' = [slots EXCEPT ![ChainOf(n)] = RemoveFirst(@, n)]
    /\ node' = [node EXCEPT ![n] = NoNode]
    /\ alloc' = alloc \ {n}
    /\ num_nodes' = num_nodes - 1

FreeIds == Ids \ alloc

-----------------------------------------------------------------------------
Init ==
    /\ NumSlots > 0
    /\ slots = [s \in SlotIdx |-> <<>>]
    /\ node = [n \in Ids |-> NoNode]
    /\ alloc = {}
    /\ num_nodes = 0
    /\ upd = NoUpd
    /\ ub = FALSE
    /\ destroyed = FALSE

\* hash_add: a key already present gets the new data (its data_size is
\* left as it was); otherwise a node is inserted, unless malloc fails.
HashAdd(k, d, sz) ==
    /\ CanCall
    /\ LET c == Find(k) IN
       IF Deref(c) # NULL
         THEN /\ node' = [node EXCEPT ![Deref(c)].data = d]
              /\ UNCHANGED <<slots, alloc, num_nodes>>
         ELSE \E n \in FreeIds : DoHashInsert(c, n, k, d, sz)
    /\ Nest({})
    /\ UNCHANGED <<ub, destroyed>>

\* hash_add_allow_multiple: a new node at the head of the key's chain.
HashAddAllowMultiple(k, d, sz) ==
    /\ CanCall
    /\ \E n \in FreeIds :
         /\ slots' = [slots EXCEPT ![Slot(k)] = <<n>> \o @]
         /\ node' = [node EXCEPT ![n] = [key |-> k, data |-> d, size |-> sz]]
         /\ alloc' = alloc \cup {n}
         /\ num_nodes' = num_nodes + 1
    /\ Nest({})
    /\ UNCHANGED <<ub, destroyed>>

\* hash_del: the first node of the key, if any.
HashDel(k) ==
    /\ CanCall
    /\ Deref(Find(k)) # NULL
    /\ DoHashDel(Find(k))
    /\ Nest({Deref(Find(k))})
    /\ UNCHANGED <<ub, destroyed>>

\* hash_del_with_data: the first node of the key holding equal data.
HashDelWithData(k, d, sz) ==
    /\ CanCall
    /\ FindWithData(k, d, sz) # NULL
    /\ DoHashDel(FindWithData(k, d, sz))
    /\ Nest({Deref(FindWithData(k, d, sz))})
    /\ UNCHANGED <<ub, destroyed>>

\* _free_nodes: every node of every chain is freed.
FreeNodes ==
    /\ node' = [n \in Ids |-> NoNode]
    /\ alloc' = {}

\* hash_wipe: _free_nodes, every slot cleared, the count zeroed.
HashWipe ==
    /\ CanCall
    /\ FreeNodes
    /\ slots' = [s \in SlotIdx |-> <<>>]
    /\ num_nodes' = 0
    /\ Nest(alloc)
    /\ UNCHANGED <<ub, destroyed>>

\* hash_destroy: _free_nodes, then the slot array and the table are freed.
\* An update waiting in a hash_update_fn now holds a pointer into freed
\* memory, whether it points at a slot or into a node.
HashDestroy ==
    /\ CanCall
    /\ FreeNodes
    /\ slots' = [s \in SlotIdx |-> <<>>]
    /\ destroyed' = TRUE
    /\ upd' = IF upd = NoUpd THEN NoUpd
              ELSE [upd EXCEPT !.nested = @ + 1, !.stale = TRUE]
    /\ UNCHANGED <<num_nodes, ub>>

\* The action hash_update takes on the node *c after deciding: WRITE sets
\* data and data_size or inserts a node, REMOVE deletes *c, SKIP nothing.
\* A malloc failing in the insert leaves the table as it was.
UpdateAct(act, c, k, d, sz) ==
    \/ /\ act = "WRITE" /\ Deref(c) # NULL
       /\ node' = [node EXCEPT ![Deref(c)].data = d, ![Deref(c)].size = sz]
       /\ UNCHANGED <<slots, alloc, num_nodes>>
    \/ /\ act = "WRITE" /\ Deref(c) = NULL
       /\ \E n \in FreeIds : DoHashInsert(c, n, k, d, sz)
    \/ /\ act = "REMOVE" /\ Deref(c) # NULL
       /\ DoHashDel(c)
    \/ /\ \/ act = "SKIP"
          \/ act = "REMOVE" /\ Deref(c) = NULL
          \/ act = "WRITE" /\ Deref(c) = NULL /\ FreeIds = {}
       /\ UNCHANGED <<slots, node, alloc, num_nodes>>

\* hash_update without a hash_update_fn: WRITE of *data when the data
\* pointer is given, REMOVE when it is NULL.
HashUpdatePlain(k, given, d, sz) ==
    /\ CanCall
    /\ UpdateAct(IF given THEN "WRITE" ELSE "REMOVE", Find(k), k, d, sz)
    /\ Nest(IF ~given /\ Deref(Find(k)) # NULL THEN {Deref(Find(k))} ELSE {})
    /\ UNCHANGED <<ub, destroyed>>

\* hash_update with a hash_update_fn: _find, then the call.
HashUpdateCall(k) ==
    /\ upd = NoUpd /\ ~destroyed
    /\ upd' = [key |-> k, c |-> Find(k), nested |-> 0, stale |-> FALSE]
    /\ UNCHANGED <<slots, node, alloc, num_nodes, ub, destroyed>>

\* The hash_update_fn returns act, having set *data and *data_size; the
\* update goes on through the c it found before the call.  A c in a node
\* the callback freed is a read of freed memory (SKIP does not read it).
HashUpdateReturn(act, d, sz) ==
    /\ upd # NoUpd
    /\ upd' = NoUpd
    /\ IF upd.stale /\ act # "SKIP"
         THEN /\ ub' = TRUE
              /\ UNCHANGED <<slots, node, alloc, num_nodes>>
         ELSE /\ UpdateAct(act, upd.c, upd.key, d, sz)
              /\ UNCHANGED <<ub, destroyed>>

Next ==
    \/ \E k \in Keys, d \in Vals, sz \in Sizes :
          \/ HashAdd(k, d, sz)
          \/ HashAddAllowMultiple(k, d, sz)
          \/ HashDelWithData(k, d, sz)
    \/ \E k \in Keys, given \in BOOLEAN, d \in Vals, sz \in Sizes :
          HashUpdatePlain(k, given, d, sz)
    \/ \E k \in Keys : HashDel(k) \/ HashUpdateCall(k)
    \/ HashWipe
    \/ HashDestroy
    \/ \E act \in {"WRITE", "REMOVE", "SKIP"}, d \in Vals, sz \in Sizes :
          HashUpdateReturn(act, d, sz)

Spec == Init /\ [][Next]_vars

-----------------------------------------------------------------------------
(* Iteration: hash_get_first and hash_get_next                             *)

\* _next_slot: the head of the first non-empty slot from s on, or NULL.
NextSlot(s) ==
    LET ne == {i \in s .. NumSlots - 1 : slots[i] # <<>>}
    IN IF ne = {} THEN NULL ELSE Head(slots[Min(ne)])

HashGetFirst == NextSlot(0)

\* hash_get_next: the node's successor, else the next slot after its key's.
HashGetNextSameSlot(n) ==
    LET s == ChainOf(n) i == PosIn(s, n)
    IN IF i < Len(slots[s]) THEN slots[s][i + 1] ELSE NextSlot(Slot(node[n].key))

HashGetNext(n) ==
    LET s == ChainOf(n) i == PosIn(s, n)
    IN IF i < Len(slots[s]) THEN slots[s][i + 1] ELSE NextSlot(Slot(node[n].key) + 1)

\* The nodes a caller's get_first/get_next loop visits, cut off after
\* more steps than there are addresses.
RECURSIVE Walk(_, _)
Walk(n, steps) ==
    IF n = NULL \/ steps = 0 THEN <<>> ELSE <<n>> \o Walk(HashGetNext(n), steps - 1)

-----------------------------------------------------------------------------
(* Lookups: hash_lookup, hash_lookup_with_data, hash_lookup_with_count,    *)
(* hash_get_entry_count, hash_get_size and hash_iter.  Keys are            *)
(* NUL-terminated, so the strlen(key) + 1 of lookup_with_count is their   *)
(* key_size.                                                              *)

\* hash_lookup: data and *data_size of the node _find returns, or NULL, 0.
HashLookup(k) ==
    LET n == Deref(Find(k))
    IN IF n = NULL THEN [data |-> NULL, size |-> 0]
       ELSE [data |-> node[n].data, size |-> node[n].size]

\* hash_lookup_with_data: the data of the node _find_with_data returns.
HashLookupWithData(k, d, sz) ==
    LET c == FindWithData(k, d, sz)
    IN IF c = NULL THEN NULL ELSE node[Deref(c)].data

\* A lookup_with_count that keeps the last match instead of the first.
HashLookupWithCountLast(k) ==
    LET m == SelectSeq(slots[Slot(k)], LAMBDA n : node[n].key = k)
    IN IF m = <<>> THEN [data |-> NULL, size |-> 0, count |-> 0]
       ELSE [data |-> node[Last(m)].data, size |-> node[Last(m)].size, count |-> Len(m)]

\* hash_lookup_with_count: every node of the key in the slot is counted,
\* and the first one (c1) gives data and *data_size.
HashLookupWithCount(k) ==
    LET m == SelectSeq(slots[Slot(k)], LAMBDA n : node[n].key = k)
    IN IF m = <<>> THEN [data |-> NULL, size |-> 0, count |-> 0]
       ELSE [data |-> node[m[1]].data, size |-> node[m[1]].size, count |-> Len(m)]

HashGetEntryCount == num_nodes

\* hash_get_key and hash_get_data: the key, and the data with its size,
\* of a node an iteration holds.
HashGetKey(n) == node[n].key
HashGetData(n) == [data |-> node[n].data, size |-> node[n].size]

\* The nodes in the order hash_iter (and hash_get_size) visits them: slot
\* by slot, each chain from its head.
HashIter == FlattenSeq([i \in 1 .. NumSlots |-> slots[i - 1]])

\* hash_get_size's *data_size: the data_size of every node summed.
HashGetDataSize == FoldLeft(LAMBDA a, n : a + node[n].size, 0, HashIter)

\* The entries of each key in chain order: what the lookups see.
AbsMap ==
    [k \in Keys |->
        LET sel == SelectSeq(slots[Slot(k)], LAMBDA n : node[n].key = k)
        IN [i \in 1 .. Len(sel) |-> [data |-> node[sel[i]].data, size |-> node[sel[i]].size]]]

Abstract == INSTANCE HashMap WITH map <- AbsMap

-----------------------------------------------------------------------------
(* Properties                                                              *)

\* The chains and the count agree through every sequence of adds, deletes,
\* updates and wipes: each allocated node is in exactly one chain, the one
\* its key hashes to, chains hold nothing else, and num_nodes (what
\* hash_get_entry_count returns) is their number while the table exists.
TableWellFormed ==
    /\ \A n \in alloc : \E s \in SlotIdx :
          /\ s = Slot(node[n].key)
          /\ Cardinality({i \in DOMAIN slots[s] : slots[s][i] = n}) = 1
    /\ \A s \in SlotIdx : ToSet(slots[s]) \subseteq alloc
    /\ ~destroyed =>
          num_nodes = Cardinality(UNION {{<<s, i>> : i \in DOMAIN slots[s]} : s \in SlotIdx})

\* A get_first/get_next loop visits every node exactly once, ends, and
\* visits them in the order hash_iter and hash_get_size do; what it reads
\* with hash_get_key and hash_get_data is, key by key, the multimap's
\* entries in the order the lookups see them.
IterVisitsEachOnce ==
    LET w == Walk(HashGetFirst, Cardinality(Ids) + 1)
    IN /\ Len(w) = Cardinality(alloc) /\ ToSet(w) = alloc /\ w = HashIter
       /\ \A k \in Keys :
             LET wk == SelectSeq(w, LAMBDA n : HashGetKey(n) = k)
             IN [i \in DOMAIN wk |-> HashGetData(wk[i])] = Abstract!MEntries(k)

\* Every lookup answers what the multimap holds: hash_lookup and
\* lookup_with_count give the key's first entry, lookup_with_count counts
\* its entries, lookup_with_data finds an equal entry wherever it is in
\* the chain, and the entry count and data size are the multimap's totals.
LookupsAgree ==
    /\ \A k \in Keys :
          /\ HashLookup(k) = Abstract!MLookup(k)
          /\ LET r == HashLookupWithCount(k) IN
               /\ [data |-> r.data, size |-> r.size] = Abstract!MLookup(k)
               /\ r.count = Abstract!MCount(k)
          /\ \A d \in Vals, sz \in Sizes :
               HashLookupWithData(k, d, sz) = Abstract!MLookupWithData(k, d, sz)
    /\ ~destroyed => HashGetEntryCount = Abstract!MEntryCount
    /\ HashGetDataSize = Abstract!MDataSize

\* The table implements the multimap of HashMap: every add, delete, wipe
\* and update, with a hash_update_fn that does not call into the table,
\* changes the entries of the keys as the multimap operation does.
HashMapSpec == Abstract!MSpec

\* An update, when its hash_update_fn returns, neither writes through
\* freed memory nor changes, adds or removes a node of another key.
UpdateTouchesOnlyItsKey ==
    [][\A act \in {"WRITE", "REMOVE", "SKIP"}, d \in Vals, sz \in Sizes :
         HashUpdateReturn(act, d, sz) =>
            /\ ~ub'
            /\ \A n \in Ids : upd.key \notin {node[n].key, node'[n].key} =>
                  /\ node'[n] = node[n]
                  /\ (n \in alloc <=> n \in alloc')]_vars
==============================================================================
