--------------------------- MODULE AbstractSequence ---------------------------
(***************************************************************************)
(* What KxVector and KxList promise their callers: a sequence that items   *)
(* are put into and taken out of at both ends, read and replaced by index. *)
(* `returned' is what the last call that reads an item gave back.          *)
(***************************************************************************)
EXTENDS Integers, Sequences

CONSTANTS Values,   \* what may be stored
          Initial,  \* the sequences a container may start with
          Indices,  \* the indices it is called with
          Undef     \* what a read outside the sequence gives

VARIABLES items, returned

vars == <<items, returned>>

PushBack(v) ==
  /\ items' = Append(items, v)
  /\ UNCHANGED returned

PushFront(v) ==
  /\ items' = <<v>> \o items
  /\ UNCHANGED returned

PopBack ==
  /\ items # <<>>
  /\ returned' = items[Len(items)]
  /\ items' = SubSeq(items, 1, Len(items) - 1)

PopFront ==
  /\ items # <<>>
  /\ returned' = Head(items)
  /\ items' = Tail(items)

\* Indices count from 0; a write outside the sequence is ignored.
Replace(i, v) ==
  /\ items' = [k \in 1 .. Len(items) |-> IF k = i + 1 THEN v ELSE items[k]]
  /\ UNCHANGED returned

ReadAt(i) ==
  /\ returned' = IF i \in 0 .. (Len(items) - 1) THEN items[i + 1] ELSE Undef
  /\ UNCHANGED items

Delete(i) ==
  /\ i \in 0 .. (Len(items) - 1)
  /\ items' = SubSeq(items, 1, i) \o SubSeq(items, i + 2, Len(items))
  /\ UNCHANGED returned

Empty ==
  /\ items' = <<>>
  /\ UNCHANGED returned

Init == items \in Initial /\ returned = Undef

Next ==
  \/ \E v \in Values : PushBack(v) \/ PushFront(v)
  \/ PopBack \/ PopFront \/ Empty
  \/ \E i \in Indices : ReadAt(i) \/ Delete(i) \/ (\E v \in Values : Replace(i, v))

Spec == Init /\ [][Next]_vars
===============================================================================
