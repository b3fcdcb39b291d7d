-------------------------------- MODULE KxList --------------------------------
(***************************************************************************)
(* core/container/kx_list.c: a doubly linked list of words.  A node is a   *)
(* member of Nodes; Nil is the KX_LIST_NIL word that stands for no node.   *)
(* `heap' is the struct (head, tail, length) together with the memory of   *)
(* the nodes: `live' are those allocated and not freed.  Following a       *)
(* pointer to a node that is not live is undefined behaviour and raises    *)
(* `fault'.                                                                *)
(***************************************************************************)
EXTENDS Integers, Sequences, FiniteSets, SequencesExt

CONSTANTS Values,  \* the words a caller stores
          Undef,   \* KX_LIST_UNDEF
          Nil,     \* KX_LIST_NIL
          Nodes,   \* bound: the nodes there is memory for
          Others   \* the contents of the lists that are appended and prepended

ASSUME NodesAssumption == IsFiniteSet(Nodes) /\ Nil \notin Nodes

ASSUME OthersAssumption == Others \subseteq Seq(Values)

VARIABLES heap, returned

vars == <<heap, returned>>

Init ==
  /\ heap = [head |-> Nil, tail |-> Nil, length |-> 0, live |-> {}, fault |-> FALSE,
             node |-> [n \in Nodes |-> [prev |-> Nil, next |-> Nil, val |-> Undef]]]
  /\ returned = Undef

-------------------------------------------------------------------------------
\* The nodes met going from `start' along a field, until Nil, a node that is
\* freed, or as many as there are nodes: by then the walk has come round.
Walk(h, start, field) ==
  LET at[k \in 1 .. Cardinality(Nodes)] ==
        IF k = 1 THEN start
        ELSE IF at[k - 1] \in h.live THEN h.node[at[k - 1]][field] ELSE Nil
  IN  [k \in 1 .. Cardinality({k \in DOMAIN at : at[k] \in h.live}) |-> at[k]]

Forward == Walk(heap, heap.head, "next")

\* Sets a field of the node p points to; of no node, when p is Nil.
Link(h, p, field, q) ==
  IF p = Nil THEN h
  ELSE IF p \in h.live THEN [h EXCEPT !.node[p][field] = q] ELSE [h EXCEPT !.fault = TRUE]

NewNode(h, n, v) ==
  [h EXCEPT !.live = @ \cup {n}, !.node[n] = [prev |-> Nil, next |-> Nil, val |-> v]]

Free(h, n) ==
  IF n \in h.live THEN [h EXCEPT !.live = @ \ {n}] ELSE [h EXCEPT !.fault = TRUE]

Pushed(h, n, v) ==
  [Link(Link(NewNode(h, n, v), h.tail, "next", n), n, "prev", h.tail) EXCEPT
     !.head = IF h.length = 0 THEN n ELSE @, !.tail = n, !.length = @ + 1]

Unshifted(h, n, v) ==
  [Link(Link(NewNode(h, n, v), h.head, "prev", n), n, "next", h.head) EXCEPT
     !.tail = IF h.length = 0 THEN n ELSE @, !.head = n, !.length = @ + 1]

Push(v) ==
  /\ \E n \in Nodes \ heap.live : heap' = Pushed(heap, n, v)
  /\ UNCHANGED returned

Unshift(v) ==
  /\ \E n \in Nodes \ heap.live : heap' = Unshifted(heap, n, v)
  /\ UNCHANGED returned

\* The items of the other list are put at the end, or the front, one by one.
AppendAll(other) ==
  /\ \E ns \in [1 .. Len(other) -> Nodes \ heap.live] :
       /\ \A j, k \in DOMAIN ns : ns[j] = ns[k] => j = k
       /\ LET made[k \in 0 .. Len(other)] ==
                IF k = 0 THEN heap ELSE Pushed(made[k - 1], ns[k], other[k])
          IN  heap' = made[Len(other)]
  /\ UNCHANGED returned

PrependAll(other) ==
  /\ \E ns \in [1 .. Len(other) -> Nodes \ heap.live] :
       /\ \A j, k \in DOMAIN ns : ns[j] = ns[k] => j = k
       /\ LET made[k \in 0 .. Len(other)] ==
                IF k = 0 THEN heap ELSE Unshifted(made[k - 1], ns[k], other[k])
          IN  heap' = made[Len(other)]
  /\ UNCHANGED returned

\* A mutant: reads the value after the tail has moved.
PopNewTail ==
  LET newTail == IF heap.tail = Nil THEN Nil ELSE heap.node[heap.tail].prev
  IN  /\ returned' = IF newTail = Nil THEN Undef ELSE heap.node[newTail].val
      /\ heap' = IF heap.tail = Nil THEN heap
                 ELSE [Link(Free(heap, heap.tail), newTail, "next", Nil) EXCEPT
                         !.head = IF heap.length = 1 THEN Nil ELSE @,
                         !.tail = newTail, !.length = @ - 1]

Pop ==
  /\ returned' = IF heap.tail = Nil THEN Undef ELSE heap.node[heap.tail].val
  /\ heap' = IF heap.tail = Nil THEN heap
             ELSE LET newTail == heap.node[heap.tail].prev
                  IN  [Link(Free(heap, heap.tail), newTail, "next", Nil) EXCEPT
                         !.head = IF heap.length = 1 THEN Nil ELSE @,
                         !.tail = newTail, !.length = @ - 1]

Shift ==
  /\ returned' = IF heap.head = Nil THEN Undef ELSE heap.node[heap.head].val
  /\ heap' = IF heap.head = Nil THEN heap
             ELSE LET newHead == heap.node[heap.head].next
                  IN  [Link(Free(heap, heap.head), newHead, "prev", Nil) EXCEPT
                         !.tail = IF heap.length = 1 THEN Nil ELSE @,
                         !.head = newHead, !.length = @ - 1]

\* A mutant: deleting the last node leaves the tail pointing at it.
UnlinkedButTail(h, n) ==
  LET prev == h.node[n].prev
      next == h.node[n].next
      ends == IF h.length = 1 /\ h.head = n THEN [h EXCEPT !.head = Nil, !.tail = Nil]
              ELSE IF h.head = n THEN [h EXCEPT !.head = next] ELSE h
  IN  [Free(Link(Link(ends, next, "prev", prev), prev, "next", next), n) EXCEPT !.length = @ - 1]

\* A mutant: the node after it keeps its prev.
UnlinkedOneWay(h, n) ==
  LET prev == h.node[n].prev
      next == h.node[n].next
      ends == IF h.length = 1 /\ h.head = n THEN [h EXCEPT !.head = Nil, !.tail = Nil]
              ELSE IF h.head = n THEN [h EXCEPT !.head = next]
              ELSE IF h.tail = n THEN [h EXCEPT !.tail = prev] ELSE h
  IN  [Free(Link(ends, prev, "next", next), n) EXCEPT !.length = @ - 1]

\* Unlinks and frees the node an iterator stands on.
Unlinked(h, n) ==
  LET prev == h.node[n].prev
      next == h.node[n].next
      ends == IF h.length = 1 /\ h.head = n THEN [h EXCEPT !.head = Nil, !.tail = Nil]
              ELSE IF h.head = n THEN [h EXCEPT !.head = next]
              ELSE IF h.tail = n THEN [h EXCEPT !.tail = prev] ELSE h
  IN  [Free(Link(Link(ends, next, "prev", prev), prev, "next", next), n) EXCEPT !.length = @ - 1]

DelNode(n) ==
  /\ heap' = Unlinked(heap, n)
  /\ UNCHANGED returned

\* A mutant: an index is counted from the tail.
DelAtFromTail(i) ==
  /\ heap' = IF i \in 0 .. (Len(Forward) - 1)
             THEN Unlinked(heap, Forward[Len(Forward) - i]) ELSE heap
  /\ UNCHANGED returned

\* Out of range, nothing happens.
DelAt(i) ==
  /\ heap' = IF i \in 0 .. (Len(Forward) - 1) THEN Unlinked(heap, Forward[i + 1]) ELSE heap
  /\ UNCHANGED returned

ValAt(i) ==
  /\ returned' = IF i \in 0 .. (Len(Forward) - 1) THEN heap.node[Forward[i + 1]].val ELSE Undef
  /\ UNCHANGED heap

\* Puts a node before p; the head does not move.
InsertBefore(p, v) ==
  /\ \E n \in Nodes \ heap.live :
       heap' = [Link(Link(Link(Link(NewNode(heap, n, v), heap.node[p].prev, "next", n),
                               n, "next", p), n, "prev", heap.node[p].prev), p, "prev", n)
                  EXCEPT !.length = @ + 1]
  /\ UNCHANGED returned

\* Frees the nodes and then the struct; a new list takes its place, as in
\* SweepPhase (gc.c:331).
Destroy ==
  /\ heap' = [heap EXCEPT !.head = Nil, !.tail = Nil, !.length = 0,
                          !.live = @ \ {Forward[k] : k \in DOMAIN Forward}]
  /\ UNCHANGED returned

-------------------------------------------------------------------------------
Indices == -1 .. Cardinality(Nodes)

Iterators == {Forward[k] : k \in DOMAIN Forward}

\* Both ends, deletion, reading and starting anew: all that the collector and
\* the tests use; and insertion before a node that is not the first.
Next ==
  /\ ~heap.fault
  /\ \/ \E v \in Values : Push(v) \/ Unshift(v)
     \/ \E other \in Others : AppendAll(other) \/ PrependAll(other)
     \/ Pop \/ Shift \/ Destroy
     \/ \E n \in Iterators : DelNode(n)
     \/ \E i \in Indices : DelAt(i) \/ ValAt(i)
     \/ \E n \in Iterators \ {heap.head}, v \in Values : InsertBefore(n, v)

Spec == Init /\ [][Next]_vars

-------------------------------------------------------------------------------
\* No call follows a pointer to a node that was freed: head, tail and the
\* links of the neighbours are moved on before a node goes (kx_list.c:129,
\* 190, 298).
NoDangling == ~heap.fault

\* Going back from the tail meets the nodes that going on from the head does,
\* in the opposite order, and these are all the nodes there are, as many as
\* KxList_Length says: none is lost and none is kept that was deleted.  The
\* collector counts its segments and its queue by the length, and deletes at
\* the node it iterates over (gc.c:289-326).
EndsAgree ==
  /\ heap.length = Len(Forward)
  /\ Walk(heap, heap.tail, "prev") = Reverse(Forward)
  /\ heap.live = {Forward[k] : k \in DOMAIN Forward}

\* The items in order: what the list stands for.
Items == [k \in DOMAIN Forward |-> heap.node[Forward[k]].val]

Contents == INSTANCE AbstractSequence WITH Initial <- {<<>>}, items <- Items

\* A list is a sequence; append and prepend are several of its steps, the latter
\* turning the other list round, and insertion before an item has its place.
SequenceStep ==
  \/ Contents!Next
  \/ \E other \in Others :
       /\ UNCHANGED returned
       /\ \/ Items' = Items \o other
          \/ Items' = Reverse(other) \o Items
  \/ \E k \in DOMAIN Items, v \in Values : Items' = InsertAt(Items, k, v) /\ UNCHANGED returned
  \/ heap' = heap /\ returned' = Undef

IsSequence == [][SequenceStep]_<<heap, returned>>

\* Each call is the step of the sequence that it is named for, with its own
\* index, value or list; at the ends of an empty list there is nothing to take
\* (kx_list.c:57-342).
CallsMatch ==
  [][/\ \A v \in Values : (Push(v) => Contents!PushBack(v)) /\ (Unshift(v) => Contents!PushFront(v))
     /\ \A other \in Others :
          /\ AppendAll(other) => Items' = Items \o other
          /\ PrependAll(other) => Items' = Reverse(other) \o Items
     /\ Pop => IF Items = <<>> THEN returned' = Undef ELSE Contents!PopBack
     /\ Shift => IF Items = <<>> THEN returned' = Undef ELSE Contents!PopFront
     /\ Destroy => Contents!Empty
     /\ \A k \in DOMAIN Forward :
          /\ DelNode(Forward[k]) => Contents!Delete(k - 1)
          /\ \A v \in Values : k > 1 /\ InsertBefore(Forward[k], v) => Items' = InsertAt(Items, k, v)
     /\ \A i \in Indices :
          /\ ValAt(i) => Contents!ReadAt(i)
          /\ DelAt(i) => IF i + 1 \in DOMAIN Items THEN Contents!Delete(i) ELSE UNCHANGED Items]_vars
===============================================================================
