----------------------------- MODULE MCKxHashTable -----------------------------
(***************************************************************************)
(* KxHashTable for TLC: three keys, two of which share a bucket, and three *)
(* value entries, so that one in the middle is deleted and used again.     *)
(***************************************************************************)
EXTENDS KxHashTable, TLC

CONSTANTS a, b, c, B1, B2

SharedHash == [k \in Keys |-> IF k = c THEN B2 ELSE B1]

EntrySymmetry == Permutations(Entries)
===============================================================================
