----------------------------- MODULE AbstractTable -----------------------------
(***************************************************************************)
(* What KxHashTable promises: a sequence of items, each with a value and   *)
(* perhaps a key, in which a key belongs to at most one item and finds it. *)
(* `returned' is what the last call that reads gave back.                  *)
(***************************************************************************)
EXTENDS Integers, Sequences

CONSTANTS Keys, Values,
          NoKey,   \* the key of an item without one
          Undef,   \* the answer to a missing key and to an index out of range
          Indices  \* the indices a table is called with

VARIABLES items, returned

vars == <<items, returned>>

Item(k, v) == [key |-> k, val |-> v]

\* The items once k is no more theirs.
Without(k) ==
  [i \in DOMAIN items |->
     IF k # NoKey /\ items[i].key = k THEN [items[i] EXCEPT !.key = NoKey] ELSE items[i]]

Dropped(i) == SubSeq(items, 1, i - 1) \o SubSeq(items, i + 1, Len(items))

Push(k, v) == items' = Append(Without(k), Item(k, v)) /\ returned' = Undef

Unshift(k, v) == items' = <<Item(k, v)>> \o Without(k) /\ returned' = Undef

Put(k, v) ==
  /\ IF \E i \in DOMAIN items : items[i].key = k
     THEN items' = [i \in DOMAIN items |-> IF items[i].key = k THEN Item(k, v) ELSE items[i]]
     ELSE items' = Append(items, Item(k, v))
  /\ returned' = Undef

Replace(i, k, v) == items' = [Without(k) EXCEPT ![i] = Item(k, v)] /\ returned' = Undef

Delete(i) == items' = Dropped(i) /\ returned' = Undef

\* Nothing is changed: an index out of range, a key that is missing, a copy.
Keep == items' = items /\ returned' = Undef

Empty == items' = <<>> /\ returned' = Undef

AtKey(k) ==
  /\ returned' = IF \E i \in DOMAIN items : items[i].key = k
                 THEN items[CHOOSE i \in DOMAIN items : items[i].key = k].val ELSE Undef
  /\ UNCHANGED items

\* Indices count from 0.
ValAt(i) ==
  /\ returned' = IF i \in 0 .. (Len(items) - 1) THEN items[i + 1].val ELSE Undef
  /\ UNCHANGED items

KeyAt(i) ==
  /\ returned' = IF i \in 0 .. (Len(items) - 1) THEN items[i + 1].key ELSE NoKey
  /\ UNCHANGED items

Init == items = <<>> /\ returned = Undef

Next ==
  \/ \E k \in Keys \cup {NoKey}, v \in Values : Push(k, v) \/ Unshift(k, v)
  \/ \E k \in Keys, v \in Values : Put(k, v)
  \/ \E i \in DOMAIN items, k \in Keys \cup {NoKey}, v \in Values :
       k \in Keys \cup {items[i].key} /\ Replace(i, k, v)
  \/ \E i \in DOMAIN items : Delete(i)
  \/ Keep
  \/ Empty
  \/ \E k \in Keys : AtKey(k)
  \/ \E i \in Indices : ValAt(i) \/ KeyAt(i)

Spec == Init /\ [][Next]_vars
===============================================================================
