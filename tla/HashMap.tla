------------------------------ MODULE HashMap ------------------------------
(***************************************************************************)
(* What the hash table of src/internal/hash.c promises its callers: a     *)
(* multimap from keys to ordered sequences of (data, data_size) entries.  *)
(* The lookups read the first entry of a key; hash_add replaces the first *)
(* entry's data (its data_size stays) or adds one; add_allow_multiple     *)
(* puts a new entry first; the deletes remove the first entry that        *)
(* matches; hash_update writes or removes the entry of its key.           *)
(***************************************************************************)
EXTENDS Sequences, SequencesExt

CONSTANTS Keys, Vals, Sizes, NULL

VARIABLE map

Entry(d, sz) == [data |-> d, size |-> sz]

MInit == map = [k \in Keys |-> <<>>]

MAdd(k, d) ==
    map' = [map EXCEPT ![k] = IF @ = <<>> THEN @ ELSE [@ EXCEPT ![1].data = d]]

MInsert(k, d, sz) ==
    /\ map[k] = <<>>
    /\ map' = [map EXCEPT ![k] = <<Entry(d, sz)>>]

MAddMultiple(k, d, sz) ==
    map' = [map EXCEPT ![k] = <<Entry(d, sz)>> \o @]

MDel(k) ==
    map' = [map EXCEPT ![k] = IF @ = <<>> THEN @ ELSE Tail(@)]

\* The first entry whose data is set and equal to d, of size sz.
MDelWithData(k, d, sz) ==
    map' = [map EXCEPT ![k] = RemoveFirstMatch(@, LAMBDA e : e.data # NULL /\ e = Entry(d, sz))]

MWrite(k, d, sz) ==
    map' = [map EXCEPT ![k] = IF @ = <<>> THEN <<Entry(d, sz)>>
                              ELSE [@ EXCEPT ![1] = Entry(d, sz)]]

MWipe == map' = [k \in Keys |-> <<>>]

MNext ==
    \/ \E k \in Keys, d \in Vals, sz \in Sizes :
          MAdd(k, d) \/ MInsert(k, d, sz) \/ MAddMultiple(k, d, sz)
          \/ MDelWithData(k, d, sz) \/ MWrite(k, d, sz)
    \/ \E k \in Keys : MDel(k)
    \/ MWipe

MSpec == MInit /\ [][MNext]_map

(* What the lookups answer: the first entry of a key (NULL and size 0 for *)
(* none), the number of entries of a key, whether an entry with data set  *)
(* and equal to d of size sz is there, and the totals.                    *)
MLookup(k) == IF map[k] = <<>> THEN Entry(NULL, 0) ELSE Head(map[k])
MCount(k) == Len(map[k])
MEntries(k) == map[k]
MLookupWithData(k, d, sz) ==
    IF \E i \in DOMAIN map[k] : map[k][i].data # NULL /\ map[k][i] = Entry(d, sz)
      THEN d ELSE NULL
MEntryCount == SumFunction([k \in Keys |-> Len(map[k])])
MDataSize == SumFunction([k \in Keys |-> FoldLeft(LAMBDA a, e : a + e.size, 0, map[k])])
==============================================================================
