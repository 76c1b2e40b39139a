------------------------------- MODULE MC_Hash -------------------------------
(***************************************************************************)
(* Instances of Hash for TLC.  k1 and k2 hash into the same slot of the   *)
(* 16 that hash_create makes for a small hint; k3 into another.           *)
(***************************************************************************)
EXTENDS Hash, TLC

CONSTANTS k1, k2, k3, d1, d2, n1, n2, n3

HashOf3 == (k1 :> 3 @@ k2 :> 19 @@ k3 :> 12)
HashOf2 == (k1 :> 3 @@ k2 :> 19)

\* Node addresses are interchangeable.
Symm == Permutations({n1, n2, n3})

\* size_hint values up to the largest a Width-bit doubling reaches.
Hints == {0, 1, 15, 16, 17, 33, 64, 65, 127, 128}

\* hash_create rounds its hint up to a power of two of at least 16, for
\* the table checked here and for every hint up to 2^(Width-1).
IsPow2(n) == \E e \in 0 .. Width : n = 2 ^ e
SlotsRoundUp ==
    /\ DOMAIN slots = 0 .. HashCreateSlots(SizeHint) - 1
    /\ \A h \in Hints : LET n == HashCreateSlots(h) IN
        /\ IsPow2(n) /\ n >= 16 /\ n >= h
        /\ n > 16 => n \div 2 < h
==============================================================================
