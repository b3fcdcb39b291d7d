---------------------------- MODULE KxList_proofs ----------------------------
(***************************************************************************)
(* The nodes of a list form one chain: there is a sequence of nodes that   *)
(* head, tail, every next and every prev agree with, and that has all the  *)
(* nodes there are.  Linked says so of a heap; each call inserts a node    *)
(* into that sequence or drops one from it.  Both walks are that sequence  *)
(* or its reverse, so the list follows no freed pointer and is, call for   *)
(* call, the sequence of its values.                                       *)
(***************************************************************************)
EXTENDS KxList, TLAPS, FiniteSetTheorems, SequenceTheorems, WellFoundedInduction

\* A set of naturals has a least element.
LEMMA LeastElement ==
  ASSUME NEW S \in SUBSET Nat, S # {}
  PROVE  \E n \in S : \A m \in S : n <= m
<1> DEFINE R == OpToRel(<, Nat)
<1>1. PICK n \in S : \A m \in S : <<m, n>> \notin R
  <2>1. IsWellFoundedOn(R, Nat)
    BY NatLessThanWellFounded, Zenon
  <2> HIDE DEF R
  <2>2. \E n \in S : \A m \in S : <<m, n>> \notin R
    BY <2>1, WFMin
  <2> QED
    BY <2>2
<1>2. \A m \in S : <<m, n>> \in R <=> m < n
  BY Zenon DEF OpToRel
<1>3. \A m \in S : ~(m < n)
  BY <1>1, <1>2, Zenon
<1> QED
  BY <1>3

\* Induction over the naturals, told with a set in place of a predicate.
LEMMA SetInduction ==
  ASSUME NEW S, 0 \in S, \A n \in Nat : n \in S => n + 1 \in S
  PROVE  Nat \subseteq S
<1> DEFINE T == Nat \ S
<1> SUFFICES ASSUME T # {} PROVE FALSE
  OBVIOUS
<1>1. PICK n \in T : \A m \in T : n <= m
  BY LeastElement
<1>2. n # 0 /\ n - 1 \in Nat
  OBVIOUS
<1>3. n - 1 \notin T
  BY <1>1, <1>2
<1> QED
  BY <1>2, <1>3
-------------------------------------------------------------------------------
\* What a pointer may hold.
Places == Nodes \cup {Nil}

\* The memory of a node.
Cells == [prev : Places, next : Places, val : Values \cup {Undef}]

\* The struct and the nodes; nothing here says how they are linked.
Heaps ==
  [head : Places, tail : Places, length : Int, live : SUBSET Nodes, fault : BOOLEAN,
   node : [Nodes -> Cells]]

\* The k-th node of a sequence, Nil before its first and after its last.
At(s, k) == IF k \in 1 .. Len(s) THEN s[k] ELSE Nil

\* The heap holds the nodes of s, linked in that order, and no other.
Linked(h, s) ==
  /\ \A j, k \in 1 .. Len(s) : s[j] = s[k] => j = k
  /\ h.live = {s[k] : k \in 1 .. Len(s)}
  /\ h.length = Len(s)
  /\ ~h.fault
  /\ h.head = At(s, 1) /\ h.tail = At(s, Len(s))
  /\ \A k \in 1 .. Len(s) :
       h.node[s[k]].next = At(s, k + 1) /\ h.node[s[k]].prev = At(s, k - 1)

\* Two heaps with the same head, tail, length, live nodes and fault.
SameFrame(g, h) ==
  /\ g.head = h.head /\ g.tail = h.tail /\ g.length = h.length
  /\ g.live = h.live /\ g.fault = h.fault

\* g is h but for the field of the node p.
NextIs(g, h, p, q) ==
  /\ g \in Heaps /\ SameFrame(g, h)
  /\ \A m \in Nodes :
       /\ g.node[m].next = IF m = p THEN q ELSE h.node[m].next
       /\ g.node[m].prev = h.node[m].prev
       /\ g.node[m].val = h.node[m].val

\* The same of a field prev.
PrevIs(g, h, p, q) ==
  /\ g \in Heaps /\ SameFrame(g, h)
  /\ \A m \in Nodes :
       /\ g.node[m].prev = IF m = p THEN q ELSE h.node[m].prev
       /\ g.node[m].next = h.node[m].next
       /\ g.node[m].val = h.node[m].val

\* Link of a field next, of a node there is or of none.
LEMMA LinkNext ==
  ASSUME NEW h \in Heaps, NEW p \in Places, NEW q \in Places, p = Nil \/ p \in h.live
  PROVE  NextIs(Link(h, p, "next", q), h, p, q)
<1> DEFINE g == Link(h, p, "next", q)
           r == [h.node[p] EXCEPT !.next = q]
           cells == [h.node EXCEPT ![p] = r]
<1>1. CASE p = Nil
  BY <1>1, NodesAssumption DEF Link, SameFrame, NextIs
<1>2. CASE p \in h.live
  <2>1. p \in Nodes /\ p # Nil /\ h.node \in [Nodes -> Cells] /\ h.node[p] \in Cells
    BY <1>2, NodesAssumption DEF Heaps
  <2>2. r \in Cells /\ r.next = q /\ r.prev = h.node[p].prev /\ r.val = h.node[p].val
    BY <2>1 DEF Cells
  <2>3. cells \in [Nodes -> Cells] /\ \A m \in Nodes : cells[m] = IF m = p THEN r ELSE h.node[m]
    BY <2>1, <2>2
  <2>4. g = [h EXCEPT !.node = cells]
    BY <1>2, <2>1 DEF Link
  <2>5. g \in Heaps /\ SameFrame(g, h) /\ g.node = cells
    BY <2>3, <2>4 DEF Heaps, SameFrame
  <2> QED
    BY <2>2, <2>3, <2>5 DEF NextIs
<1> QED
  BY <1>1, <1>2

\* Link of a field prev, of a node there is or of none.
LEMMA LinkPrev ==
  ASSUME NEW h \in Heaps, NEW p \in Places, NEW q \in Places, p = Nil \/ p \in h.live
  PROVE  PrevIs(Link(h, p, "prev", q), h, p, q)
<1> DEFINE g == Link(h, p, "prev", q)
           r == [h.node[p] EXCEPT !.prev = q]
           cells == [h.node EXCEPT ![p] = r]
<1>1. CASE p = Nil
  BY <1>1, NodesAssumption DEF Link, SameFrame, PrevIs
<1>2. CASE p \in h.live
  <2>1. p \in Nodes /\ p # Nil /\ h.node \in [Nodes -> Cells] /\ h.node[p] \in Cells
    BY <1>2, NodesAssumption DEF Heaps
  <2>2. r \in Cells /\ r.prev = q /\ r.next = h.node[p].next /\ r.val = h.node[p].val
    BY <2>1 DEF Cells
  <2>3. cells \in [Nodes -> Cells] /\ \A m \in Nodes : cells[m] = IF m = p THEN r ELSE h.node[m]
    BY <2>1, <2>2
  <2>4. g = [h EXCEPT !.node = cells]
    BY <1>2, <2>1 DEF Link
  <2>5. g \in Heaps /\ SameFrame(g, h) /\ g.node = cells
    BY <2>3, <2>4 DEF Heaps, SameFrame
  <2> QED
    BY <2>2, <2>3, <2>5 DEF PrevIs
<1> QED
  BY <1>1, <1>2

\* g is h with a new node.
NewIs(g, h, n, v) ==
  /\ g \in Heaps
  /\ g.head = h.head /\ g.tail = h.tail /\ g.length = h.length
  /\ g.live = h.live \cup {n} /\ g.fault = h.fault
  /\ g.node[n].prev = Nil /\ g.node[n].next = Nil /\ g.node[n].val = v
  /\ \A m \in Nodes \ {n} : g.node[m] = h.node[m]

\* What a new node leaves as it was.
LEMMA NewNodeFields ==
  ASSUME NEW h \in Heaps, NEW n \in Nodes, NEW v \in Values
  PROVE  NewIs(NewNode(h, n, v), h, n, v)
<1> DEFINE g == NewNode(h, n, v)
           r == [prev |-> Nil, next |-> Nil, val |-> v]
           cells == [h.node EXCEPT ![n] = r]
<1>1. h.node \in [Nodes -> Cells] /\ r \in Cells
  BY DEF Heaps, Cells, Places
<1>2. cells \in [Nodes -> Cells] /\ \A m \in Nodes : cells[m] = IF m = n THEN r ELSE h.node[m]
  BY <1>1
<1>3. g = [h EXCEPT !.live = h.live \cup {n}, !.node = cells]
  BY DEF NewNode
<1>4. /\ g \in Heaps /\ g.node = cells
      /\ g.head = h.head /\ g.tail = h.tail /\ g.length = h.length
      /\ g.live = h.live \cup {n} /\ g.fault = h.fault
  <2> HIDE DEF g, cells
  <2> QED
    BY <1>2, <1>3 DEF Heaps
<1> QED
  BY <1>2, <1>4 DEF NewIs

\* g is h but for the ends and the length.
EndsAre(g, h, x, y, l) ==
  /\ g \in Heaps /\ g.node = h.node
  /\ g.head = x /\ g.tail = y /\ g.length = l /\ g.live = h.live /\ g.fault = h.fault

\* Moving the ends and the length moves nothing else.
LEMMA MovedEnds ==
  ASSUME NEW h \in Heaps, NEW x \in Places, NEW y \in Places, NEW l \in Int
  PROVE  EndsAre([h EXCEPT !.head = x, !.tail = y, !.length = l], h, x, y, l)
BY DEF Heaps, EndsAre

\* The values of the nodes that were there stay.
Keeps(g, h) == \A m \in h.live : g.node[m].val = h.node[m].val

\* s with n put at place k, and without its place k.
Inserted(s, k, n) ==
  [j \in 1 .. (Len(s) + 1) |-> IF j < k THEN s[j] ELSE IF j = k THEN n ELSE s[j - 1]]

\* s without its k-th item.
Dropped(s, k) == [j \in 1 .. (Len(s) - 1) |-> IF j < k THEN s[j] ELSE s[j + 1]]

\* g is h with the node n linked between the places k - 1 and k of s.
LinkedIn(g, h, s, k, n) ==
  /\ g.live = h.live \cup {n} /\ g.length = h.length + 1 /\ ~g.fault
  /\ g.head = (IF k = 1 THEN n ELSE h.head)
  /\ g.tail = (IF k = Len(s) + 1 THEN n ELSE h.tail)
  /\ g.node[n].next = At(s, k) /\ g.node[n].prev = At(s, k - 1)
  /\ \A m \in h.live :
       /\ g.node[m].next = IF m = At(s, k - 1) THEN n ELSE h.node[m].next
       /\ g.node[m].prev = IF m = At(s, k) THEN n ELSE h.node[m].prev

\* A heap got by linking n in at the k-th place holds the nodes of s with n there.
LEMMA InsertedLinked ==
  ASSUME NEW h \in Heaps, NEW g \in Heaps, NEW s \in Seq(Nodes), Linked(h, s),
         NEW n \in Nodes \ h.live, NEW k \in 1 .. (Len(s) + 1), LinkedIn(g, h, s, k, n)
  PROVE  Inserted(s, k, n) \in Seq(Nodes) /\ Linked(g, Inserted(s, k, n))
<1> DEFINE t == Inserted(s, k, n)
<1>1. /\ t \in Seq(Nodes) /\ Len(t) = Len(s) + 1 /\ t[k] = n /\ Len(s) \in Nat
      /\ \A j \in 1 .. Len(t) : (j < k => t[j] = s[j]) /\ (j > k => t[j] = s[j - 1])
  BY DEF Inserted
<1>2. /\ \A j \in 1 .. Len(s) : s[j] \in h.live /\ s[j] \in Nodes /\ s[j] # n /\ s[j] # Nil
      /\ \A i, j \in 1 .. Len(s) : s[i] = s[j] => i = j
      /\ n # Nil /\ k \in Int
  BY NodesAssumption DEF Linked
<1> HIDE DEF t
\* The places of s in t.
<1>3. \A j \in 1 .. Len(s) : j < k => j \in 1 .. Len(t) /\ t[j] = s[j]
  BY <1>1
<1>4. \A j \in 1 .. Len(s) : j >= k => j + 1 \in 1 .. Len(t) /\ t[j + 1] = s[j]
  <2> SUFFICES ASSUME NEW j \in 1 .. Len(s), j >= k PROVE j + 1 \in 1 .. Len(t) /\ t[j + 1] = s[j]
    OBVIOUS
  <2>1. j + 1 \in 1 .. Len(t) /\ j + 1 > k /\ (j + 1) - 1 = j
    BY <1>1, <1>2
  <2> QED
    BY <1>1, <2>1
<1>5. \A j \in 1 .. Len(t) :
        \/ j = k /\ t[j] = n
        \/ j < k /\ j \in 1 .. Len(s) /\ t[j] = s[j]
        \/ j > k /\ j - 1 \in 1 .. Len(s) /\ t[j] = s[j - 1]
  BY <1>1, <1>2
<1>6. \A i, j \in 1 .. Len(t) : t[i] = t[j] => i = j
  <2> SUFFICES ASSUME NEW i \in 1 .. Len(t), NEW j \in 1 .. Len(t), t[i] = t[j] PROVE i = j
    OBVIOUS
  <2>0. i \in Int /\ j \in Int /\ k \in Int
    BY <1>1
  <2>1. CASE i = k
    BY <1>2, <1>5, <2>1
  <2>2. CASE i < k
    <3>1. i \in 1 .. Len(s) /\ t[i] = s[i]
      BY <1>2, <1>5, <2>2
    <3>2. CASE j > k
      <4>1. j - 1 \in 1 .. Len(s) /\ t[j] = s[j - 1]
        BY <1>2, <1>5, <3>2
      <4>2. i = j - 1
        BY <1>2, <3>1, <4>1
      <4> QED
        BY <2>2, <3>2, <4>2, <1>2
    <3>3. CASE j < k
      <4>1. j \in 1 .. Len(s) /\ t[j] = s[j]
        BY <1>2, <1>5, <3>3
      <4> QED
        BY <1>2, <3>1, <4>1
    <3>4. CASE j = k
      <4>1. t[j] = n
        BY <1>1, <3>4
      <4> QED
        BY <1>2, <3>1, <4>1
    <3> QED
      BY <3>2, <3>3, <3>4, <2>0
  <2>3. CASE i > k
    <3>1. i - 1 \in 1 .. Len(s) /\ t[i] = s[i - 1]
      BY <1>2, <1>5, <2>3
    <3>2. CASE j > k
      <4>1. j - 1 \in 1 .. Len(s) /\ t[j] = s[j - 1]
        BY <1>2, <1>5, <3>2
      <4>2. i - 1 = j - 1
        BY <1>2, <3>1, <4>1
      <4> QED
        BY <4>2
    <3>3. CASE j < k
      <4>1. j \in 1 .. Len(s) /\ t[j] = s[j]
        BY <1>2, <1>5, <3>3
      <4>2. i - 1 = j
        BY <1>2, <3>1, <4>1
      <4> QED
        BY <2>3, <3>3, <4>2, <1>2
    <3>4. CASE j = k
      <4>1. t[j] = n
        BY <1>1, <3>4
      <4> QED
        BY <1>2, <3>1, <4>1
    <3> QED
      BY <3>2, <3>3, <3>4, <2>0
  <2> QED
    BY <2>0, <2>1, <2>2, <2>3
<1>7. g.live = {t[j] : j \in 1 .. Len(t)}
  <2>1. g.live = h.live \cup {n} /\ h.live = {s[j] : j \in 1 .. Len(s)}
    BY DEF LinkedIn, Linked
  <2>2. \A j \in 1 .. Len(t) : t[j] \in g.live
    BY <1>2, <1>5, <2>1
  <2>3. \A j \in 1 .. Len(s) : \E i \in 1 .. Len(t) : t[i] = s[j]
    <3> TAKE j \in 1 .. Len(s)
    <3>1. CASE j < k
      BY <1>3, <3>1
    <3>2. CASE j >= k
      BY <1>4, <3>2
    <3> QED
      BY <3>1, <3>2, <1>2
  <2>4. k \in 1 .. Len(t) /\ t[k] = n
    BY <1>1
  <2>5. \A m \in g.live : \E j \in 1 .. Len(t) : m = t[j]
    BY <2>1, <2>3, <2>4
  <2> QED
    BY <2>2, <2>5
<1>8. g.length = Len(t) /\ ~g.fault
  BY <1>1 DEF Linked, LinkedIn
<1>9. g.head = At(t, 1) /\ g.tail = At(t, Len(t))
  <2>1. h.head = At(s, 1) /\ h.tail = At(s, Len(s))
    BY DEF Linked
  <2>2. g.head = At(t, 1)
    BY <1>1, <2>1 DEF LinkedIn, At
  <2>3. g.tail = IF k = Len(s) + 1 THEN n ELSE h.tail
    BY DEF LinkedIn
  <2>4. At(t, Len(t)) = IF k = Len(s) + 1 THEN n ELSE At(s, Len(s))
    <3>1. CASE k = Len(s) + 1
      BY <1>1, <3>1 DEF At
    <3>2. CASE k < Len(s) + 1
      <4>1. Len(s) \in 1 .. Len(s) /\ t[Len(s) + 1] = s[Len(s)]
        BY <1>1, <1>4, <3>2
      <4> QED
        BY <1>1, <3>2, <4>1 DEF At
    <3> QED
      BY <3>1, <3>2, <1>1
  <2> QED
    BY <2>1, <2>2, <2>3, <2>4
<1>10. ASSUME NEW j \in 1 .. Len(t)
       PROVE  g.node[t[j]].next = At(t, j + 1) /\ g.node[t[j]].prev = At(t, j - 1)
  <2>1. CASE j = k
    <3>1. At(s, k) = At(t, k + 1)
      BY <1>1, <1>4 DEF At
    <3>2. At(s, k - 1) = At(t, k - 1)
      BY <1>1, <1>3 DEF At
    <3> QED
      BY <1>1, <2>1, <3>1, <3>2 DEF LinkedIn
  <2>2. CASE j < k
    <3>1. j \in 1 .. Len(s) /\ t[j] = s[j] /\ s[j] \in h.live
      BY <1>2, <1>5, <2>2
    <3>2. At(t, j + 1) = IF j = k - 1 THEN n ELSE At(s, j + 1)
      BY <1>1, <1>3, <2>2, <3>1 DEF At
    <3>3. At(t, j - 1) = At(s, j - 1)
      BY <1>1, <1>3, <2>2, <3>1 DEF At
    <3>4. h.node[s[j]].next = At(s, j + 1) /\ h.node[s[j]].prev = At(s, j - 1)
      BY <3>1 DEF Linked
    <3>5. s[j] = At(s, k - 1) <=> j = k - 1
      BY <1>1, <1>2, <2>2, <3>1 DEF At
    <3>6. s[j] # At(s, k)
      BY <1>1, <1>2, <2>2, <3>1 DEF At
    <3> QED
      BY <3>1, <3>2, <3>3, <3>4, <3>5, <3>6 DEF LinkedIn
  <2>3. CASE j > k
    <3> DEFINE i == j - 1
    <3>1. i \in 1 .. Len(s) /\ t[j] = s[i] /\ s[i] \in h.live /\ j = i + 1 /\ i >= k
      BY <1>2, <1>5, <2>3
    <3> HIDE DEF i
    <3>2. At(t, j + 1) = At(s, i + 1)
      <4>1. CASE i + 1 \in 1 .. Len(s)
        BY <1>1, <1>2, <1>4, <3>1, <4>1 DEF At
      <4>2. CASE i + 1 \notin 1 .. Len(s)
        BY <1>1, <1>2, <3>1, <4>2 DEF At
      <4> QED
        BY <4>1, <4>2
    <3>3. At(t, j - 1) = IF i = k THEN n ELSE At(s, i - 1)
      <4>1. CASE i = k
        BY <1>1, <3>1, <4>1 DEF At
      <4>2. CASE i > k
        <5>1. i - 1 \in 1 .. Len(s) /\ i - 1 >= k /\ (i - 1) + 1 = i
          BY <1>1, <1>2, <3>1, <4>2
        <5>2. i \in 1 .. Len(t) /\ t[i] = s[i - 1]
          BY <1>4, <5>1
        <5> QED
          BY <3>1, <4>2, <5>1, <5>2, <1>2 DEF At
      <4> QED
        BY <1>2, <3>1, <4>1, <4>2
    <3>4. h.node[s[i]].next = At(s, i + 1) /\ h.node[s[i]].prev = At(s, i - 1)
      BY <3>1 DEF Linked
    <3>5. s[i] = At(s, k) <=> i = k
      BY <1>1, <1>2, <3>1 DEF At
    <3>6. s[i] # At(s, k - 1)
      BY <1>1, <1>2, <3>1 DEF At
    <3> QED
      BY <3>1, <3>2, <3>3, <3>4, <3>5, <3>6 DEF LinkedIn
  <2> QED
    BY <1>2, <2>1, <2>2, <2>3
<1>11. Linked(g, t)
  BY <1>6, <1>7, <1>8, <1>9, <1>10 DEF Linked
<1> QED
  BY <1>1, <1>11 DEF t

\* g is h with the node at place k of s freed and its neighbours linked.
LinkedOut(g, h, s, k) ==
  /\ g.live = h.live \ {s[k]} /\ g.length = h.length - 1 /\ ~g.fault
  /\ g.head = (IF k = 1 THEN At(s, 2) ELSE h.head)
  /\ g.tail = (IF k = Len(s) THEN At(s, k - 1) ELSE h.tail)
  /\ \A m \in g.live :
       /\ g.node[m].next = IF m = At(s, k - 1) THEN At(s, k + 1) ELSE h.node[m].next
       /\ g.node[m].prev = IF m = At(s, k + 1) THEN At(s, k - 1) ELSE h.node[m].prev

\* A heap got by linking the k-th node out holds the nodes of s without it.
LEMMA DroppedLinked ==
  ASSUME NEW h \in Heaps, NEW g \in Heaps, NEW s \in Seq(Nodes), Linked(h, s),
         NEW k \in 1 .. Len(s), LinkedOut(g, h, s, k)
  PROVE  Dropped(s, k) \in Seq(Nodes) /\ Linked(g, Dropped(s, k))
<1> DEFINE t == Dropped(s, k)
<1>1. /\ t \in Seq(Nodes) /\ Len(t) = Len(s) - 1 /\ Len(s) \in Nat
      /\ \A j \in 1 .. Len(t) : (j < k => t[j] = s[j]) /\ (j >= k => t[j] = s[j + 1])
  BY DEF Dropped
<1>2. /\ \A j \in 1 .. Len(s) : s[j] \in h.live /\ s[j] \in Nodes /\ s[j] # Nil
      /\ \A i, j \in 1 .. Len(s) : s[i] = s[j] => i = j
      /\ k \in Int
  BY NodesAssumption DEF Linked
<1> HIDE DEF t
\* The places of s in t, and those of t in s.
<1>3. \A j \in 1 .. Len(s) : j < k => j \in 1 .. Len(t) /\ t[j] = s[j]
  BY <1>1
<1>4. \A j \in 1 .. Len(s) : j > k => j - 1 \in 1 .. Len(t) /\ t[j - 1] = s[j]
  <2> SUFFICES ASSUME NEW j \in 1 .. Len(s), j > k PROVE j - 1 \in 1 .. Len(t) /\ t[j - 1] = s[j]
    OBVIOUS
  <2>1. j - 1 \in 1 .. Len(t) /\ j - 1 >= k /\ (j - 1) + 1 = j
    BY <1>1, <1>2
  <2> QED
    BY <1>1, <2>1
<1>5. \A j \in 1 .. Len(t) :
        \/ j < k /\ j \in 1 .. Len(s) /\ t[j] = s[j]
        \/ j >= k /\ j + 1 \in 1 .. Len(s) /\ t[j] = s[j + 1]
  BY <1>1, <1>2
<1>6. \A i, j \in 1 .. Len(t) : t[i] = t[j] => i = j
  <2> SUFFICES ASSUME NEW i \in 1 .. Len(t), NEW j \in 1 .. Len(t), t[i] = t[j] PROVE i = j
    OBVIOUS
  <2>0. i \in Int /\ j \in Int /\ k \in Int
    BY <1>1
  <2>1. CASE i < k
    <3>1. i \in 1 .. Len(s) /\ t[i] = s[i]
      BY <1>5, <2>0, <2>1
    <3>2. CASE j < k
      <4>1. j \in 1 .. Len(s) /\ t[j] = s[j]
        BY <1>5, <2>0, <3>2
      <4> QED
        BY <1>2, <3>1, <4>1
    <3>3. CASE j >= k
      <4>1. j + 1 \in 1 .. Len(s) /\ t[j] = s[j + 1]
        BY <1>5, <2>0, <3>3
      <4>2. i = j + 1
        BY <1>2, <3>1, <4>1
      <4> QED
        BY <2>0, <2>1, <3>3, <4>2
    <3> QED
      BY <2>0, <3>2, <3>3
  <2>2. CASE i >= k
    <3>1. i + 1 \in 1 .. Len(s) /\ t[i] = s[i + 1]
      BY <1>5, <2>0, <2>2
    <3>2. CASE j < k
      <4>1. j \in 1 .. Len(s) /\ t[j] = s[j]
        BY <1>5, <2>0, <3>2
      <4>2. i + 1 = j
        BY <1>2, <3>1, <4>1
      <4> QED
        BY <2>0, <2>2, <3>2, <4>2
    <3>3. CASE j >= k
      <4>1. j + 1 \in 1 .. Len(s) /\ t[j] = s[j + 1]
        BY <1>5, <2>0, <3>3
      <4>2. i + 1 = j + 1
        BY <1>2, <3>1, <4>1
      <4> QED
        BY <2>0, <4>2
    <3> QED
      BY <2>0, <3>2, <3>3
  <2> QED
    BY <2>0, <2>1, <2>2
<1>7. g.live = {t[j] : j \in 1 .. Len(t)}
  <2>1. g.live = h.live \ {s[k]} /\ h.live = {s[j] : j \in 1 .. Len(s)}
    BY DEF LinkedOut, Linked
  <2>2. ASSUME NEW j \in 1 .. Len(t) PROVE t[j] \in g.live
    <3>1. j \in Int
      BY <1>1
    <3>2. CASE j < k
      BY <1>2, <1>5, <2>1, <3>1, <3>2
    <3>3. CASE j >= k
      <4>1. j + 1 \in 1 .. Len(s) /\ t[j] = s[j + 1] /\ j + 1 # k
        BY <1>2, <1>5, <3>1, <3>3
      <4> QED
        BY <1>2, <2>1, <4>1
    <3> QED
      BY <1>2, <3>1, <3>2, <3>3
  <2>3. ASSUME NEW m \in g.live PROVE \E j \in 1 .. Len(t) : m = t[j]
    <3>1. PICK j \in 1 .. Len(s) : m = s[j]
      BY <2>1
    <3>2. j # k /\ j \in Int
      BY <2>1, <3>1
    <3>3. CASE j < k
      BY <1>3, <3>1, <3>3
    <3>4. CASE j > k
      BY <1>4, <3>1, <3>4
    <3> QED
      BY <1>2, <3>2, <3>3, <3>4
  <2> QED
    BY <2>2, <2>3
<1>8. g.length = Len(t) /\ ~g.fault
  BY <1>1 DEF Linked, LinkedOut
<1>9. g.head = At(t, 1) /\ g.tail = At(t, Len(t))
  <2>1. h.head = At(s, 1) /\ h.tail = At(s, Len(s))
    BY DEF Linked
  <2>2. At(t, 1) = IF k = 1 THEN At(s, 2) ELSE At(s, 1)
    <3>1. CASE k = 1
      <4>1. 2 \in 1 .. Len(s) => t[1] = s[2]
        BY <1>1, <3>1
      <4> QED
        BY <1>1, <3>1, <4>1 DEF At
    <3>2. CASE k > 1
      <4>1. 1 \in 1 .. Len(s) /\ 1 \in 1 .. Len(t) /\ t[1] = s[1]
        BY <1>1, <3>2
      <4> QED
        BY <3>2, <4>1 DEF At
    <3> QED
      BY <3>1, <3>2
  <2>3. At(t, Len(t)) = IF k = Len(s) THEN At(s, k - 1) ELSE At(s, Len(s))
    <3>1. CASE k = Len(s)
      <4>1. k - 1 \in 1 .. Len(s) => t[k - 1] = s[k - 1]
        BY <1>1, <3>1
      <4> QED
        BY <1>1, <3>1, <4>1 DEF At
    <3>2. CASE k < Len(s)
      <4>1. Len(s) \in 1 .. Len(s) /\ Len(s) > k
        BY <1>1, <3>2
      <4>2. Len(s) - 1 \in 1 .. Len(t) /\ t[Len(s) - 1] = s[Len(s)]
        BY <1>4, <4>1
      <4> QED
        BY <1>1, <3>2, <4>1, <4>2 DEF At
    <3> QED
      BY <1>1, <3>1, <3>2
  <2> QED
    BY <2>1, <2>2, <2>3 DEF LinkedOut
<1>10. ASSUME NEW j \in 1 .. Len(t)
       PROVE  g.node[t[j]].next = At(t, j + 1) /\ g.node[t[j]].prev = At(t, j - 1)
  <2>0. j \in Int /\ t[j] \in g.live
    BY <1>1, <1>7
  <2>1. CASE j < k
    <3>1. j \in 1 .. Len(s) /\ t[j] = s[j]
      BY <1>5, <1>2, <2>0, <2>1
    <3>2. At(t, j + 1) = IF j = k - 1 THEN At(s, k + 1) ELSE At(s, j + 1)
      <4>1. CASE j = k - 1
        <5>1. k + 1 \in 1 .. Len(s) => t[k] = s[k + 1] /\ k \in 1 .. Len(t)
          BY <1>1, <2>1
        <5>2. k + 1 \notin 1 .. Len(s) => k \notin 1 .. Len(t)
          BY <1>1
        <5> QED
          BY <1>2, <4>1, <5>1, <5>2 DEF At
      <4>2. CASE j + 1 < k
        <5>1. j + 1 \in 1 .. Len(s) /\ j + 1 \in 1 .. Len(t) /\ t[j + 1] = s[j + 1]
          BY <1>1, <2>0, <4>2
        <5> QED
          BY <1>2, <2>0, <4>2, <5>1 DEF At
      <4> QED
        BY <1>2, <2>0, <2>1, <4>1, <4>2
    <3>3. At(t, j - 1) = At(s, j - 1)
      BY <1>1, <1>3, <2>1, <3>1 DEF At
    <3>4. h.node[s[j]].next = At(s, j + 1) /\ h.node[s[j]].prev = At(s, j - 1)
      BY <3>1 DEF Linked
    <3>5. s[j] = At(s, k - 1) <=> j = k - 1
      BY <1>1, <1>2, <2>1, <3>1 DEF At
    <3>6. s[j] # At(s, k + 1)
      BY <1>1, <1>2, <2>1, <3>1 DEF At
    <3> QED
      BY <2>0, <3>1, <3>2, <3>3, <3>4, <3>5, <3>6 DEF LinkedOut
  <2>2. CASE j >= k
    <3> DEFINE i == j + 1
    <3>1. i \in 1 .. Len(s) /\ t[j] = s[i] /\ j = i - 1 /\ i > k
      BY <1>2, <1>5, <2>0, <2>2
    <3> HIDE DEF i
    <3>2. At(t, j + 1) = At(s, i + 1)
      <4>1. i + 1 \in 1 .. Len(s) => i \in 1 .. Len(t) /\ t[i] = s[i + 1]
        BY <1>1, <1>2, <3>1
      <4>2. i + 1 \notin 1 .. Len(s) => i \notin 1 .. Len(t)
        BY <1>1, <3>1
      <4> QED
        BY <1>1, <3>1, <4>1, <4>2 DEF At
    <3>3. At(t, j - 1) = IF i = k + 1 THEN At(s, k - 1) ELSE At(s, i - 1)
      <4>1. CASE i = k + 1
        <5>1. k - 1 \in 1 .. Len(s) => k - 1 \in 1 .. Len(t) /\ t[k - 1] = s[k - 1]
          BY <1>1
        <5>2. k - 1 \notin 1 .. Len(s) => k - 1 \notin 1 .. Len(t)
          BY <1>1
        <5> QED
          BY <1>2, <3>1, <4>1, <5>1, <5>2 DEF At
      <4>2. CASE i - 1 > k
        <5>1. i - 1 \in 1 .. Len(s) /\ (i - 1) - 1 \in 1 .. Len(t) /\ t[(i - 1) - 1] = s[i - 1]
          BY <1>1, <1>2, <1>4, <3>1, <4>2
        <5> QED
          BY <1>2, <3>1, <4>2, <5>1 DEF At
      <4> QED
        BY <1>1, <1>2, <3>1, <4>1, <4>2
    <3>4. h.node[s[i]].next = At(s, i + 1) /\ h.node[s[i]].prev = At(s, i - 1)
      BY <3>1 DEF Linked
    <3>5. s[i] = At(s, k + 1) <=> i = k + 1
      BY <1>1, <1>2, <3>1 DEF At
    <3>6. s[i] # At(s, k - 1)
      BY <1>1, <1>2, <3>1 DEF At
    <3> QED
      BY <2>0, <3>1, <3>2, <3>3, <3>4, <3>5, <3>6 DEF LinkedOut
  <2> QED
    BY <1>2, <2>0, <2>1, <2>2
<1>11. Linked(g, t)
  BY <1>6, <1>7, <1>8, <1>9, <1>10 DEF Linked
<1> QED
  BY <1>1, <1>11 DEF t

\* What freeing a node leaves as it was.
LEMMA FreeFields ==
  ASSUME NEW h \in Heaps, NEW n \in h.live
  PROVE  /\ Free(h, n) \in Heaps /\ Free(h, n).live = h.live \ {n}
         /\ Free(h, n).head = h.head /\ Free(h, n).tail = h.tail /\ Free(h, n).node = h.node
         /\ Free(h, n).length = h.length /\ Free(h, n).fault = h.fault
<1> DEFINE g == [h EXCEPT !.live = h.live \ {n}]
<1>1. Free(h, n) = g
  BY DEF Free
<1>2. /\ g \in Heaps /\ g.live = h.live \ {n} /\ g.head = h.head /\ g.tail = h.tail
      /\ g.node = h.node /\ g.length = h.length /\ g.fault = h.fault
  BY DEF Heaps
<1> QED
  BY <1>1, <1>2

\* What the ends of a well-linked list are.
LEMMA Ends ==
  ASSUME NEW h \in Heaps, NEW s \in Seq(Nodes), Linked(h, s)
  PROVE  /\ h.head = At(s, 1) /\ h.tail = At(s, Len(s)) /\ Len(s) \in Nat /\ h.length = Len(s)
         /\ Nil \notin h.live /\ Nil \notin Nodes /\ h.live \subseteq Nodes
         /\ \A k \in Int : At(s, k) \in Places /\ (At(s, k) # Nil => At(s, k) \in h.live)
         /\ \A k \in 1 .. Len(s) : At(s, k) = s[k] /\ s[k] \in h.live
         /\ \A j, k \in Int : At(s, j) = At(s, k) /\ At(s, k) # Nil => j = k
<1>1. Nil \notin Nodes /\ h.live \subseteq Nodes
  BY NodesAssumption DEF Heaps
<1>2. \A k \in 1 .. Len(s) : At(s, k) = s[k] /\ s[k] \in h.live
  BY DEF Linked, At
<1>3. \A k \in Int : At(s, k) \in Places /\ (At(s, k) # Nil => k \in 1 .. Len(s))
  BY DEF At, Places
<1>4. ASSUME NEW j \in Int, NEW k \in Int, At(s, j) = At(s, k), At(s, k) # Nil PROVE j = k
  BY <1>2, <1>3, <1>4, SMTT(30) DEF Linked
<1>5. h.head = At(s, 1) /\ h.tail = At(s, Len(s)) /\ Len(s) \in Nat /\ h.length = Len(s)
  BY DEF Linked
<1>6. \A k \in Int : At(s, k) # Nil => At(s, k) \in h.live
  BY <1>2, <1>3
<1>7. Nil \notin h.live
  BY <1>1
<1> QED
  BY <1>1, <1>2, <1>3, <1>4, <1>5, <1>6, <1>7

\* Push links the new node in behind the last (kx_list.c:110).
LEMMA PushedLinked ==
  ASSUME NEW h \in Heaps, NEW s \in Seq(Nodes), Linked(h, s),
         NEW n \in Nodes \ h.live, NEW v \in Values
  PROVE  /\ Pushed(h, n, v) \in Heaps /\ Keeps(Pushed(h, n, v), h)
         /\ Pushed(h, n, v).node[n].val = v
         /\ LinkedIn(Pushed(h, n, v), h, s, Len(s) + 1, n)
<1> DEFINE h1 == NewNode(h, n, v)
           h2 == Link(h1, h.tail, "next", n)
           h3 == Link(h2, n, "prev", h.tail)
           x == IF h.length = 0 THEN n ELSE h3.head
           g == Pushed(h, n, v)
<1>1. /\ h.tail \in Places /\ (h.tail # Nil => h.tail \in h.live) /\ h.tail = At(s, Len(s))
      /\ n # Nil /\ n \in Places
  BY Ends DEF Places
<1>2. NewIs(h1, h, n, v)
  BY NewNodeFields
<1>3. NextIs(h2, h1, h.tail, n)
  <2>1. h1 \in Heaps /\ (h.tail = Nil \/ h.tail \in h1.live)
    BY <1>1, <1>2 DEF NewIs
  <2> HIDE DEF h1
  <2> QED
    BY <1>1, <2>1, LinkNext
<1>4. PrevIs(h3, h2, n, h.tail)
  <2>1. h2 \in Heaps /\ n \in h2.live
    BY <1>2, <1>3 DEF SameFrame, NewIs, NextIs
  <2> HIDE DEF h1, h2
  <2> QED
    BY <1>1, <2>1, LinkPrev
<1>5. g = [h3 EXCEPT !.head = x, !.tail = n, !.length = h3.length + 1]
  BY DEF Pushed
<1> HIDE DEF h1, h2, h3, g
<1>6. EndsAre(g, h3, x, n, h3.length + 1)
  <2>1. h3 \in Heaps /\ x \in Places /\ h3.length + 1 \in Int
    BY <1>1, <1>4 DEF Heaps, PrevIs
  <2> HIDE DEF x
  <2> QED
    BY <1>1, <1>5, <2>1, MovedEnds
<1>7. /\ g.head = (IF h.length = 0 THEN n ELSE h.head) /\ g.tail = n
      /\ g.length = h.length + 1 /\ g.live = h.live \cup {n} /\ g.fault = h.fault
  BY <1>2, <1>3, <1>4, <1>6 DEF SameFrame, NewIs, NextIs, PrevIs, EndsAre
<1>8. \A m \in h.live : m \in Nodes /\ m # n /\ m # Nil
  BY Ends
<1>9. /\ g.node[n].prev = h.tail /\ g.node[n].next = Nil /\ g.node[n].val = v
      /\ \A m \in h.live :
           /\ g.node[m].next = IF m = h.tail THEN n ELSE h.node[m].next
           /\ g.node[m].prev = h.node[m].prev
           /\ g.node[m].val = h.node[m].val
  BY <1>1, <1>2, <1>3, <1>4, <1>6, <1>8 DEF NewIs, NextIs, PrevIs, EndsAre
<1>10. Len(s) \in Nat /\ h.length = Len(s) /\ ~h.fault /\ At(s, Len(s) + 1) = Nil
  BY DEF Linked, At
<1>11. LinkedIn(g, h, s, Len(s) + 1, n)
  BY <1>1, <1>7, <1>8, <1>9, <1>10 DEF LinkedIn
<1> QED
  BY <1>6, <1>9, <1>11 DEF EndsAre, Keeps, g

\* Unshift links the new node in before the first (kx_list.c:170).
LEMMA UnshiftedLinked ==
  ASSUME NEW h \in Heaps, NEW s \in Seq(Nodes), Linked(h, s),
         NEW n \in Nodes \ h.live, NEW v \in Values
  PROVE  /\ Unshifted(h, n, v) \in Heaps /\ Keeps(Unshifted(h, n, v), h)
         /\ Unshifted(h, n, v).node[n].val = v
         /\ LinkedIn(Unshifted(h, n, v), h, s, 1, n)
<1> DEFINE h1 == NewNode(h, n, v)
           h2 == Link(h1, h.head, "prev", n)
           h3 == Link(h2, n, "next", h.head)
           y == IF h.length = 0 THEN n ELSE h3.tail
           g == Unshifted(h, n, v)
<1>1. /\ h.head \in Places /\ (h.head # Nil => h.head \in h.live) /\ h.head = At(s, 1)
      /\ n # Nil /\ n \in Places
  BY Ends DEF Places
<1>2. NewIs(h1, h, n, v)
  BY NewNodeFields
<1>3. PrevIs(h2, h1, h.head, n)
  <2>1. h1 \in Heaps /\ (h.head = Nil \/ h.head \in h1.live)
    BY <1>1, <1>2 DEF NewIs
  <2> HIDE DEF h1
  <2> QED
    BY <1>1, <2>1, LinkPrev
<1>4. NextIs(h3, h2, n, h.head)
  <2>1. h2 \in Heaps /\ n \in h2.live
    BY <1>2, <1>3 DEF SameFrame, NewIs, PrevIs
  <2> HIDE DEF h1, h2
  <2> QED
    BY <1>1, <2>1, LinkNext
<1>5. g = [h3 EXCEPT !.head = n, !.tail = y, !.length = h3.length + 1]
  BY DEF Unshifted
<1> HIDE DEF h1, h2, h3, g
<1>6. EndsAre(g, h3, n, y, h3.length + 1)
  <2>1. h3 \in Heaps /\ y \in Places /\ h3.length + 1 \in Int
    BY <1>1, <1>4 DEF Heaps, NextIs
  <2> HIDE DEF y
  <2> QED
    BY <1>1, <1>5, <2>1, MovedEnds
<1>7. /\ g.tail = (IF h.length = 0 THEN n ELSE h.tail) /\ g.head = n
      /\ g.length = h.length + 1 /\ g.live = h.live \cup {n} /\ g.fault = h.fault
  BY <1>2, <1>3, <1>4, <1>6 DEF SameFrame, NewIs, NextIs, PrevIs, EndsAre
<1>8. \A m \in h.live : m \in Nodes /\ m # n /\ m # Nil
  BY Ends
<1>9. /\ g.node[n].next = h.head /\ g.node[n].prev = Nil /\ g.node[n].val = v
      /\ \A m \in h.live :
           /\ g.node[m].prev = IF m = h.head THEN n ELSE h.node[m].prev
           /\ g.node[m].next = h.node[m].next
           /\ g.node[m].val = h.node[m].val
  BY <1>1, <1>2, <1>3, <1>4, <1>6, <1>8 DEF NewIs, NextIs, PrevIs, EndsAre
<1>10. Len(s) \in Nat /\ h.length = Len(s) /\ ~h.fault /\ At(s, 1 - 1) = Nil
  BY DEF Linked, At
<1>11. LinkedIn(g, h, s, 1, n)
  BY <1>1, <1>7, <1>8, <1>9, <1>10 DEF LinkedIn
<1> QED
  BY <1>6, <1>9, <1>11 DEF EndsAre, Keeps, g

\* Moving the length moves nothing else.
LEMMA MovedLength ==
  ASSUME NEW h \in Heaps, NEW l \in Int
  PROVE  EndsAre([h EXCEPT !.length = l], h, h.head, h.tail, l)
BY DEF Heaps, EndsAre

\* The call's heap before it counts the node (InsertBefore).
Squeezed(h, p, n, v) ==
  Link(Link(Link(Link(NewNode(h, n, v), h.node[p].prev, "next", n),
                 n, "next", p), n, "prev", h.node[p].prev), p, "prev", n)

\* One node more.
Counted(h) == [h EXCEPT !.length = @ + 1]

\* Insertion before a node that is not the first links the new node in there.
LEMMA SqueezedLinked ==
  ASSUME NEW h \in Heaps, NEW s \in Seq(Nodes), Linked(h, s),
         NEW n \in Nodes \ h.live, NEW v \in Values, NEW k \in 2 .. Len(s),
         NEW g, g = Counted(Squeezed(h, s[k], n, v))
  PROVE  g \in Heaps /\ Keeps(g, h) /\ g.node[n].val = v /\ LinkedIn(g, h, s, k, n)
<1> DEFINE p == s[k]
           b == h.node[p].prev
           h1 == NewNode(h, n, v)
           h2 == Link(h1, b, "next", n)
           h3 == Link(h2, n, "next", p)
           h4 == Link(h3, n, "prev", b)
           h5 == Link(h4, p, "prev", n)
<1>1. /\ p \in h.live /\ p \in Nodes /\ p \in Places /\ p = At(s, k) /\ p # n /\ p # Nil
      /\ b = At(s, k - 1) /\ b \in h.live /\ b \in Nodes /\ b \in Places /\ b # n /\ b # p /\ b # Nil
      /\ n # Nil /\ n \in Places
  <2>1. k \in 1 .. Len(s) /\ k - 1 \in 1 .. Len(s)
    BY Ends
  <2>2. b = At(s, k - 1)
    BY <2>1 DEF Linked
  <2>3. p = At(s, k) /\ p \in h.live /\ At(s, k - 1) = s[k - 1] /\ s[k - 1] \in h.live
    BY <2>1, Ends
  <2>4. p # s[k - 1]
    BY <2>1 DEF Linked
  <2>5. h.live \subseteq Nodes /\ Nil \notin Nodes
    BY Ends
  <2> HIDE DEF p, b
  <2> QED
    BY <2>2, <2>3, <2>4, <2>5 DEF Places
<1>2. NewIs(h1, h, n, v)
  BY NewNodeFields
<1>3. NextIs(h2, h1, b, n)
  <2>1. h1 \in Heaps /\ b \in h1.live
    BY <1>1, <1>2 DEF NewIs
  <2> HIDE DEF h1, b, p
  <2> QED
    BY <1>1, <2>1, LinkNext
<1>4. NextIs(h3, h2, n, p)
  <2> HIDE DEF h1, h2, b, p
  <2>1. h2 \in Heaps /\ n \in h2.live
    BY <1>2, <1>3 DEF SameFrame, NewIs, NextIs
  <2> QED
    BY <1>1, <2>1, LinkNext
<1>5. PrevIs(h4, h3, n, b)
  <2> HIDE DEF h1, h2, h3, b, p
  <2>1. h3 \in Heaps /\ n \in h3.live
    BY <1>2, <1>3, <1>4 DEF SameFrame, NewIs, NextIs
  <2> QED
    BY <1>1, <2>1, LinkPrev
<1>6. PrevIs(h5, h4, p, n)
  <2> HIDE DEF h1, h2, h3, h4, b, p
  <2>1. h4 \in Heaps /\ p \in h4.live
    BY <1>1, <1>2, <1>3, <1>4, <1>5 DEF SameFrame, NewIs, NextIs, PrevIs
  <2> QED
    BY <1>1, <2>1, LinkPrev
<1>7. g = [h5 EXCEPT !.length = h5.length + 1]
  BY DEF Squeezed, Counted
<1> HIDE DEF h1, h2, h3, h4, h5, b, p
<1>8. EndsAre(g, h5, h5.head, h5.tail, h5.length + 1)
  <2>1. h5 \in Heaps /\ h5.length + 1 \in Int
    BY <1>6 DEF Heaps, PrevIs
  <2> QED
    BY <1>7, <2>1, MovedLength
<1>9. /\ g.head = h.head /\ g.tail = h.tail
      /\ g.length = h.length + 1 /\ g.live = h.live \cup {n} /\ g.fault = h.fault
  BY <1>2, <1>3, <1>4, <1>5, <1>6, <1>8 DEF SameFrame, NewIs, NextIs, PrevIs, EndsAre
<1>10. \A m \in h.live : m \in Nodes /\ m # n /\ m # Nil
  BY Ends
<1>11. /\ g.node[n].next = p /\ g.node[n].prev = b /\ g.node[n].val = v
       /\ \A m \in h.live :
            /\ g.node[m].next = IF m = b THEN n ELSE h.node[m].next
            /\ g.node[m].prev = IF m = p THEN n ELSE h.node[m].prev
            /\ g.node[m].val = h.node[m].val
  <2>1. g.node = h5.node
    BY <1>8 DEF EndsAre
  <2>2. \A m \in Nodes :
          /\ g.node[m].next = IF m = n THEN p ELSE IF m = b THEN n ELSE h1.node[m].next
          /\ g.node[m].prev = IF m = p THEN n ELSE IF m = n THEN b ELSE h1.node[m].prev
          /\ g.node[m].val = h1.node[m].val
    BY <1>3, <1>4, <1>5, <1>6, <2>1 DEF NextIs, PrevIs
  <2>3. h1.node[n].val = v /\ \A m \in h.live : h1.node[m] = h.node[m] /\ m \in Nodes /\ m # n
    BY <1>2, <1>10 DEF NewIs
  <2> QED
    BY <1>1, <2>2, <2>3
<1>12. Len(s) \in Nat /\ h.length = Len(s) /\ ~h.fault /\ k # 1 /\ k # Len(s) + 1
  BY DEF Linked
<1>13. LinkedIn(g, h, s, k, n)
  BY <1>1, <1>9, <1>10, <1>11, <1>12 DEF LinkedIn
<1> QED
  BY <1>8, <1>11, <1>13 DEF EndsAre, Keeps

\* The heap after Unlinked has moved the head and the tail.
EndsOf(h, n, prev, next) ==
  IF h.length = 1 /\ h.head = n THEN [h EXCEPT !.head = Nil, !.tail = Nil]
  ELSE IF h.head = n THEN [h EXCEPT !.head = next]
  ELSE IF h.tail = n THEN [h EXCEPT !.tail = prev] ELSE h

\* Deletion at an iterator links its node out, wherever it is: the only one, the
\* first, the last or one between.
LEMMA UnlinkedLinked ==
  ASSUME NEW h \in Heaps, NEW s \in Seq(Nodes), Linked(h, s), NEW k \in 1 .. Len(s)
  PROVE  /\ Unlinked(h, s[k]) \in Heaps /\ LinkedOut(Unlinked(h, s[k]), h, s, k)
         /\ \A m \in Nodes : Unlinked(h, s[k]).node[m].val = h.node[m].val
<1> DEFINE n == s[k]
           b == h.node[n].prev
           a == h.node[n].next
           x == IF k = 1 THEN At(s, 2) ELSE h.head
           y == IF k = Len(s) THEN At(s, k - 1) ELSE h.tail
           h1 == EndsOf(h, n, b, a)
           h2 == Link(h1, a, "prev", b)
           h3 == Link(h2, b, "next", a)
           h4 == Free(h3, n)
           g == Unlinked(h, n)
<1>1. /\ n \in h.live /\ n \in Nodes /\ n # Nil
      /\ b = At(s, k - 1) /\ b \in Places /\ (b # Nil => b \in h.live)
      /\ a = At(s, k + 1) /\ a \in Places /\ (a # Nil => a \in h.live)
      /\ h.head \in Places /\ h.tail \in Places
  <2>1. b = At(s, k - 1) /\ a = At(s, k + 1)
    BY DEF Linked
  <2>2. n \in h.live /\ h.live \subseteq Nodes /\ Nil \notin Nodes
    BY Ends
  <2>3. k - 1 \in Int /\ k + 1 \in Int
    OBVIOUS
  <2>4. h.head \in Places /\ h.tail \in Places
    BY DEF Heaps
  <2> HIDE DEF n, b, a
  <2> QED
    BY <2>1, <2>2, <2>3, <2>4, Ends
<1>2. /\ h.length = Len(s) /\ Len(s) \in Nat /\ ~h.fault
      /\ (h.head = n <=> k = 1) /\ (h.tail = n <=> k = Len(s))
      /\ (Len(s) = 1 => At(s, 2) = Nil /\ At(s, k - 1) = Nil)
  <2>1. Len(s) \in Nat /\ h.head = At(s, 1) /\ h.tail = At(s, Len(s)) /\ n = At(s, k)
    BY Ends
  <2>2. h.head = n <=> k = 1
    BY <1>1, <2>1, Ends
  <2>3. h.tail = n <=> k = Len(s)
    BY <1>1, <2>1, Ends
  <2>4. Len(s) = 1 => At(s, 2) = Nil /\ At(s, k - 1) = Nil
    BY DEF At
  <2> QED
    BY <2>1, <2>2, <2>3, <2>4 DEF Linked
<1>3. EndsAre(h1, h, x, y, h.length)
  <2>1. x \in Places /\ y \in Places /\ h.length \in Int
    BY <1>1, Ends DEF Heaps
  <2>2. h1 = IF h.length = 1 /\ h.head = n THEN [h EXCEPT !.head = Nil, !.tail = Nil]
             ELSE IF h.head = n THEN [h EXCEPT !.head = a]
             ELSE IF h.tail = n THEN [h EXCEPT !.tail = b] ELSE h
    BY DEF EndsOf
  <2> HIDE DEF n, a, b, h1
  <2>3. CASE Len(s) = 1
    <3>1. x = Nil /\ y = Nil /\ h1 = [h EXCEPT !.head = Nil, !.tail = Nil]
      BY <1>2, <2>2, <2>3
    <3> QED
      BY <2>1, <3>1 DEF EndsAre, Heaps
  <2>4. CASE Len(s) # 1 /\ k = 1
    <3>1. x = a /\ y = h.tail /\ h1 = [h EXCEPT !.head = a]
      BY <1>1, <1>2, <2>2, <2>4
    <3> QED
      BY <1>1, <2>1, <3>1 DEF EndsAre, Heaps
  <2>5. CASE k # 1 /\ k = Len(s)
    <3>1. x = h.head /\ y = b /\ h1 = [h EXCEPT !.tail = b]
      BY <1>1, <1>2, <2>2, <2>5
    <3> QED
      BY <1>1, <2>1, <3>1 DEF EndsAre, Heaps
  <2>6. CASE k # 1 /\ k # Len(s)
    <3>1. x = h.head /\ y = h.tail /\ h1 = h
      BY <1>1, <1>2, <2>2, <2>6
    <3> QED
      BY <1>1, <2>1, <3>1 DEF EndsAre, Heaps
  <2> QED
    BY <2>3, <2>4, <2>5, <2>6
<1>4. PrevIs(h2, h1, a, b)
  <2>1. h1 \in Heaps /\ (a = Nil \/ a \in h1.live)
    BY <1>1, <1>3 DEF EndsAre
  <2> HIDE DEF n, a, b, h1
  <2> QED
    BY <1>1, <2>1, LinkPrev
<1>5. NextIs(h3, h2, b, a)
  <2>1. h2 \in Heaps /\ (b = Nil \/ b \in h2.live)
    BY <1>1, <1>3, <1>4 DEF EndsAre, PrevIs, SameFrame
  <2> HIDE DEF n, a, b, h1, h2
  <2> QED
    BY <1>1, <2>1, LinkNext
<1>6. /\ h4 \in Heaps /\ h4.live = h3.live \ {n} /\ h4.head = h3.head /\ h4.tail = h3.tail
      /\ h4.node = h3.node /\ h4.length = h3.length /\ h4.fault = h3.fault
  <2> HIDE DEF n, a, b, h1, h2, h3
  <2>1. h3 \in Heaps /\ n \in h3.live
    BY <1>1, <1>3, <1>4, <1>5 DEF EndsAre, PrevIs, NextIs, SameFrame
  <2> QED
    BY <2>1, FreeFields
<1>7. g = [h4 EXCEPT !.length = h4.length - 1]
  BY DEF Unlinked, EndsOf
<1> HIDE DEF n, a, b, x, y, h1, h2, h3, h4, g
<1>8. EndsAre(g, h4, h4.head, h4.tail, h4.length - 1)
  <2>1. h4.length - 1 \in Int
    BY <1>6 DEF Heaps
  <2> QED
    BY <1>6, <1>7, <2>1, MovedLength
<1>9. /\ g \in Heaps /\ g.head = x /\ g.tail = y /\ g.length = h.length - 1
      /\ g.live = h.live \ {n} /\ g.fault = h.fault
  BY <1>3, <1>4, <1>5, <1>6, <1>8 DEF SameFrame, NextIs, PrevIs, EndsAre
<1>10. \A m \in Nodes :
         /\ g.node[m].next = IF m = b THEN a ELSE h.node[m].next
         /\ g.node[m].prev = IF m = a THEN b ELSE h.node[m].prev
         /\ g.node[m].val = h.node[m].val
  BY <1>3, <1>4, <1>5, <1>6, <1>8 DEF NextIs, PrevIs, EndsAre
<1>11. h.live \subseteq Nodes
  BY Ends
<1>12. LinkedOut(g, h, s, k)
  BY <1>1, <1>2, <1>9, <1>10, <1>11 DEF LinkedOut, n, x, y
<1> QED
  BY <1>9, <1>10, <1>12 DEF g, n

\* The heap after Pop, of a list that is not empty.
Popped(h) ==
  LET new == h.node[h.tail].prev
  IN  [Link(Free(h, h.tail), new, "next", Nil) EXCEPT
         !.head = IF h.length = 1 THEN Nil ELSE @, !.tail = new, !.length = @ - 1]

\* Pop links the last node out.
LEMMA PoppedLinked ==
  ASSUME NEW h \in Heaps, NEW s \in Seq(Nodes), Linked(h, s), s # <<>>
  PROVE  /\ Popped(h) \in Heaps /\ LinkedOut(Popped(h), h, s, Len(s))
         /\ \A m \in Nodes : Popped(h).node[m].val = h.node[m].val
<1> DEFINE n == h.tail
           x == h.node[n].prev
           h1 == Free(h, n)
           h2 == Link(h1, x, "next", Nil)
           o == IF h.length = 1 THEN Nil ELSE h2.head
           g == Popped(h)
<1>1. Len(s) \in Nat /\ Len(s) >= 1 /\ Len(s) \in 1 .. Len(s) /\ 1 \in 1 .. Len(s)
  OBVIOUS
<1>2. /\ n \in h.live /\ n = s[Len(s)] /\ n = At(s, Len(s)) /\ x = At(s, Len(s) - 1) /\ x \in Places
      /\ (x # Nil => x \in h.live) /\ x # n /\ Nil \in Places /\ h.head \in Places
  <2>1. n = At(s, Len(s)) /\ At(s, Len(s)) = s[Len(s)] /\ s[Len(s)] \in h.live
    BY <1>1, Ends
  <2>2. x = At(s, Len(s) - 1)
    BY <1>1, <2>1 DEF Linked
  <2>3. Len(s) - 1 \in Int /\ Len(s) \in Int /\ Len(s) - 1 # Len(s)
    BY <1>1
  <2>4. h.head \in Places /\ Nil \in Places
    BY DEF Heaps, Places
  <2> HIDE DEF n, x
  <2> QED
    BY <2>1, <2>2, <2>3, <2>4, Ends
<1>3. /\ h1 \in Heaps /\ h1.live = h.live \ {n} /\ h1.head = h.head /\ h1.tail = h.tail
      /\ h1.node = h.node /\ h1.length = h.length /\ h1.fault = h.fault
  <2> HIDE DEF n, x
  <2> QED
    BY <1>2, FreeFields
<1>4. NextIs(h2, h1, x, Nil)
  <2> HIDE DEF n, x, h1
  <2>1. x = Nil \/ x \in h1.live
    BY <1>2, <1>3
  <2> QED
    BY <1>2, <1>3, <2>1, LinkNext
<1>5. g = [h2 EXCEPT !.head = o, !.tail = x, !.length = h2.length - 1]
  BY DEF Popped
<1> HIDE DEF n, x, h1, h2, g
<1>6. EndsAre(g, h2, o, x, h2.length - 1)
  <2>1. h2 \in Heaps /\ o \in Places /\ h2.length - 1 \in Int
    BY <1>2, <1>4 DEF Heaps, NextIs
  <2> HIDE DEF o
  <2> QED
    BY <1>2, <1>5, <2>1, MovedEnds
<1>7. /\ g \in Heaps /\ g.head = (IF h.length = 1 THEN Nil ELSE h.head) /\ g.tail = x
      /\ g.length = h.length - 1 /\ g.live = h.live \ {n} /\ g.fault = h.fault
  BY <1>3, <1>4, <1>6 DEF SameFrame, NextIs, EndsAre
<1>8. \A m \in Nodes :
        /\ g.node[m].next = IF m = x THEN Nil ELSE h.node[m].next
        /\ g.node[m].prev = h.node[m].prev
        /\ g.node[m].val = h.node[m].val
  BY <1>3, <1>4, <1>6 DEF NextIs, EndsAre
<1>9. /\ h.live \subseteq Nodes /\ Nil \notin h.live /\ h.length = Len(s) /\ ~h.fault
      /\ At(s, Len(s) + 1) = Nil /\ (Len(s) = 1 => At(s, 2) = Nil)
      /\ h.head = At(s, 1)
  <2>1. At(s, Len(s) + 1) = Nil /\ (Len(s) = 1 => At(s, 2) = Nil)
    BY <1>1 DEF At
  <2>2. h.length = Len(s) /\ ~h.fault
    BY DEF Linked
  <2> QED
    BY <2>1, <2>2, Ends
<1>10. LinkedOut(g, h, s, Len(s))
  BY <1>1, <1>2, <1>7, <1>8, <1>9 DEF LinkedOut
<1> QED
  BY <1>7, <1>8, <1>10 DEF g

\* The heap after Shift, of a list that is not empty.
Shifted(h) ==
  LET new == h.node[h.head].next
  IN  [Link(Free(h, h.head), new, "prev", Nil) EXCEPT
         !.tail = IF h.length = 1 THEN Nil ELSE @, !.head = new, !.length = @ - 1]

\* Shift links the first node out.
LEMMA ShiftedLinked ==
  ASSUME NEW h \in Heaps, NEW s \in Seq(Nodes), Linked(h, s), s # <<>>
  PROVE  /\ Shifted(h) \in Heaps /\ LinkedOut(Shifted(h), h, s, 1)
         /\ \A m \in Nodes : Shifted(h).node[m].val = h.node[m].val
<1> DEFINE n == h.head
           x == h.node[n].next
           h1 == Free(h, n)
           h2 == Link(h1, x, "prev", Nil)
           o == IF h.length = 1 THEN Nil ELSE h2.tail
           g == Shifted(h)
<1>1. Len(s) \in Nat /\ Len(s) >= 1 /\ Len(s) \in 1 .. Len(s) /\ 1 \in 1 .. Len(s)
  OBVIOUS
<1>2. /\ n \in h.live /\ n = s[1] /\ n = At(s, 1) /\ x = At(s, 2) /\ x \in Places
      /\ (x # Nil => x \in h.live) /\ x # n /\ Nil \in Places /\ h.tail \in Places
  <2>1. n = At(s, 1) /\ At(s, 1) = s[1] /\ s[1] \in h.live
    BY <1>1, Ends
  <2>2. x = At(s, 2)
    BY <1>1, <2>1 DEF Linked
  <2>3. 2 \in Int /\ 1 \in Int /\ 2 # 1
    BY <1>1
  <2>4. h.tail \in Places /\ Nil \in Places
    BY DEF Heaps, Places
  <2> HIDE DEF n, x
  <2> QED
    BY <2>1, <2>2, <2>3, <2>4, Ends
<1>3. /\ h1 \in Heaps /\ h1.live = h.live \ {n} /\ h1.head = h.head /\ h1.tail = h.tail
      /\ h1.node = h.node /\ h1.length = h.length /\ h1.fault = h.fault
  <2> HIDE DEF n, x
  <2> QED
    BY <1>2, FreeFields
<1>4. PrevIs(h2, h1, x, Nil)
  <2> HIDE DEF n, x, h1
  <2>1. x = Nil \/ x \in h1.live
    BY <1>2, <1>3
  <2> QED
    BY <1>2, <1>3, <2>1, LinkPrev
<1>5. g = [h2 EXCEPT !.head = x, !.tail = o, !.length = h2.length - 1]
  BY DEF Shifted
<1> HIDE DEF n, x, h1, h2, g
<1>6. EndsAre(g, h2, x, o, h2.length - 1)
  <2>1. h2 \in Heaps /\ o \in Places /\ h2.length - 1 \in Int
    BY <1>2, <1>4 DEF Heaps, PrevIs
  <2> HIDE DEF o
  <2> QED
    BY <1>2, <1>5, <2>1, MovedEnds
<1>7. /\ g \in Heaps /\ g.tail = (IF h.length = 1 THEN Nil ELSE h.tail) /\ g.head = x
      /\ g.length = h.length - 1 /\ g.live = h.live \ {n} /\ g.fault = h.fault
  BY <1>3, <1>4, <1>6 DEF SameFrame, PrevIs, EndsAre
<1>8. \A m \in Nodes :
        /\ g.node[m].prev = IF m = x THEN Nil ELSE h.node[m].prev
        /\ g.node[m].next = h.node[m].next
        /\ g.node[m].val = h.node[m].val
  BY <1>3, <1>4, <1>6 DEF PrevIs, EndsAre
<1>9. /\ h.live \subseteq Nodes /\ Nil \notin h.live /\ h.length = Len(s) /\ ~h.fault
      /\ At(s, 1 - 1) = Nil /\ (Len(s) = 1 => At(s, Len(s) - 1) = Nil)
      /\ h.tail = At(s, Len(s))
  <2>1. At(s, 1 - 1) = Nil /\ (Len(s) = 1 => At(s, Len(s) - 1) = Nil)
    <3>1. 0 \notin 1 .. Len(s) /\ 1 - 1 = 0
      BY <1>1
    <3>2. Len(s) = 1 => Len(s) - 1 = 0
      OBVIOUS
    <3>3. At(s, 0) = Nil
      BY <3>1 DEF At
    <3> QED
      BY <3>1, <3>2, <3>3
  <2>2. h.length = Len(s) /\ ~h.fault
    BY DEF Linked
  <2> QED
    BY <2>1, <2>2, Ends
<1>10. LinkedOut(g, h, s, 1)
  BY <1>1, <1>2, <1>7, <1>8, <1>9 DEF LinkedOut
<1> QED
  BY <1>7, <1>8, <1>10 DEF g

-------------------------------------------------------------------------------
\* Walks.

\* How many naturals there are up to n.
LEMMA UpTo ==
  ASSUME NEW n \in Nat
  PROVE  IsFiniteSet(1 .. n) /\ Cardinality(1 .. n) = n
BY FS_Interval

\* There are no more places in a list than nodes: a walk is never cut short.
LEMMA OrderFits ==
  ASSUME NEW s \in Seq(Nodes), \A j, k \in 1 .. Len(s) : s[j] = s[k] => j = k
  PROVE  Cardinality(Nodes) \in Nat /\ Len(s) <= Cardinality(Nodes)
<1>1. IsFiniteSet(Nodes) /\ Cardinality(Nodes) \in Nat
  BY NodesAssumption, FS_CardinalityType
<1>2. Len(s) \in Nat /\ Cardinality(1 .. Len(s)) = Len(s)
  <2>1. Len(s) \in Nat
    OBVIOUS
  <2> QED
    BY <2>1, UpTo
<1>3. s \in Injection(1 .. Len(s), Nodes)
  BY DEF Injection, IsInjective
<1>4. Cardinality(1 .. Len(s)) <= Cardinality(Nodes)
  BY <1>1, <1>3, FS_Injection
<1> QED
  BY <1>1, <1>2, <1>4

\* A walk that starts at the first node of s, and is led on by the field from
\* each node of s to the one after it, is s.
LEMMA WalkIs ==
  ASSUME NEW h \in Heaps, NEW s \in Seq(Nodes), NEW start, NEW field,
         \A j, k \in 1 .. Len(s) : s[j] = s[k] => j = k,
         h.live = {s[k] : k \in 1 .. Len(s)}, start = At(s, 1),
         \A k \in 1 .. Len(s) : h.node[s[k]][field] = At(s, k + 1)
  PROVE  Walk(h, start, field) = s
<1> DEFINE N == Cardinality(Nodes)
           Go(x) == IF x \in h.live THEN h.node[x][field] ELSE Nil
           IsWalk(w) == w = [k \in 1 .. N |-> IF k = 1 THEN start ELSE Go(w[k - 1])]
           g == [k \in 1 .. N |-> At(s, k)]
<1>1. /\ N \in Nat /\ Len(s) \in Nat /\ Len(s) <= N /\ Nil \notin h.live
      /\ \A k \in 1 .. Len(s) : At(s, k) = s[k] /\ s[k] \in h.live
  BY OrderFits, NodesAssumption DEF At, Heaps
<1>2. \A k \in Nat : k >= 1 => Go(At(s, k)) = At(s, k + 1)
  <2> TAKE k \in Nat
  <2> HAVE k >= 1
  <2>1. CASE k <= Len(s)
    BY <1>1, <2>1
  <2>2. CASE k > Len(s)
    BY <1>1, <2>2 DEF At
  <2> QED
    BY <1>1, <2>1, <2>2
<1> HIDE DEF N, Go
<1>3. IsWalk(g)
  <2>1. \A k \in 1 .. N : g[k] = IF k = 1 THEN start ELSE Go(g[k - 1])
    <3> TAKE k \in 1 .. N
    <3>1. CASE k = 1
      BY <3>1
    <3>2. CASE k # 1
      <4>1. k - 1 \in 1 .. N /\ (k - 1) + 1 = k
        BY <1>1, <3>2
      <4> QED
        BY <1>2, <3>2, <4>1
    <3> QED
      BY <3>1, <3>2
  <2> QED
    BY <2>1
<1>4. ASSUME NEW w, IsWalk(w) PROVE w = g
  <2>1. /\ DOMAIN w = 1 .. N /\ w = [k \in 1 .. N |-> w[k]]
        /\ \A k \in 1 .. N : w[k] = IF k = 1 THEN start ELSE Go(w[k - 1])
    BY <1>4
  <2>2. \A k \in 1 .. N : w[k] = At(s, k)
    <3> DEFINE D == {k \in 1 .. N : w[k] # At(s, k)}
    <3> SUFFICES ASSUME D # {} PROVE FALSE
      OBVIOUS
    <3>1. D \in SUBSET Nat
      BY <1>1
    <3>2. PICK k \in D : \A l \in D : k <= l
      BY <3>1, LeastElement
    <3>3. k \in 1 .. N /\ w[k] # At(s, k) /\ k # 1
      BY <2>1, <3>2
    <3>4. k - 1 \in 1 .. N /\ k - 1 \notin D /\ (k - 1) + 1 = k /\ k - 1 >= 1 /\ k - 1 \in Nat
      BY <1>1, <3>2, <3>3
    <3>5. w[k - 1] = At(s, k - 1)
      BY <3>4
    <3>6. w[k] = At(s, k)
      BY <1>2, <2>1, <3>3, <3>4, <3>5
    <3> QED
      BY <3>3, <3>6
  <2> QED
    BY <2>1, <2>2
<1>5. g = CHOOSE w : IsWalk(w)
  <2> HIDE DEF g, IsWalk
  <2>1. IsWalk(CHOOSE w : IsWalk(w))
    BY <1>3
  <2> QED
    BY <1>4, <2>1
<1>6. Walk(h, start, field) = [k \in 1 .. Cardinality({k \in DOMAIN g : g[k] \in h.live}) |-> g[k]]
  BY <1>5, Zenon DEF Walk, Go, N
<1>7. {k \in DOMAIN g : g[k] \in h.live} = 1 .. Len(s)
  BY <1>1 DEF At
<1>8. Cardinality(1 .. Len(s)) = Len(s)
  <2>1. Len(s) \in Nat
    OBVIOUS
  <2> QED
    BY <2>1, UpTo
<1>9. Walk(h, start, field) = [k \in 1 .. Len(s) |-> g[k]]
  <2> HIDE DEF g
  <2> QED
    BY <1>6, <1>7, <1>8
<1>10. \A k \in 1 .. Len(s) : g[k] = s[k]
  BY <1>1
<1> HIDE DEF g
<1>11. [k \in 1 .. Len(s) |-> g[k]] = s
  BY <1>10
<1> QED
  BY <1>9, <1>11

\* From the head a well-linked heap is walked in order, from the tail backwards.
LEMMA WalksOf ==
  ASSUME NEW h \in Heaps, NEW s \in Seq(Nodes), Linked(h, s)
  PROVE  Walk(h, h.head, "next") = s /\ Walk(h, h.tail, "prev") = Reverse(s)
<1> DEFINE r == Reverse(s)
<1>1. /\ \A j, k \in 1 .. Len(s) : s[j] = s[k] => j = k
      /\ h.live = {s[k] : k \in 1 .. Len(s)} /\ Len(s) \in Nat
      /\ h.head = At(s, 1) /\ h.tail = At(s, Len(s))
      /\ \A k \in 1 .. Len(s) :
           h.node[s[k]]["next"] = At(s, k + 1) /\ h.node[s[k]]["prev"] = At(s, k - 1)
  <2>1. Len(s) \in Nat
    OBVIOUS
  <2> QED
    BY <2>1, Zenon DEF Linked
<1>2. Walk(h, h.head, "next") = s
  BY <1>1, WalkIs, SMTT(30)
<1>3. /\ r \in Seq(Nodes) /\ Len(r) = Len(s)
      /\ \A k \in 1 .. Len(s) : r[k] = s[(Len(s) - k) + 1] /\ (Len(s) - k) + 1 \in 1 .. Len(s)
  BY DEF Reverse
<1>4. \A k \in 1 .. Len(s) : s[k] = r[(Len(s) - k) + 1] /\ (Len(s) - k) + 1 \in 1 .. Len(s)
  <2> TAKE k \in 1 .. Len(s)
  <2> DEFINE l == (Len(s) - k) + 1
  <2>1. l \in 1 .. Len(s) /\ (Len(s) - l) + 1 = k
    BY <1>1
  <2> QED
    BY <1>3, <2>1
<1> HIDE DEF r
<1>5. \A j, k \in 1 .. Len(r) : r[j] = r[k] => j = k
  <2> SUFFICES ASSUME NEW j \in 1 .. Len(r), NEW k \in 1 .. Len(r), r[j] = r[k] PROVE j = k
    OBVIOUS
  <2> DEFINE a == (Len(s) - j) + 1
             b == (Len(s) - k) + 1
  <2>1. a \in 1 .. Len(s) /\ b \in 1 .. Len(s) /\ r[j] = s[a] /\ r[k] = s[b]
    BY <1>3
  <2>2. a = b => j = k
    BY <1>1, <1>3
  <2> HIDE DEF a, b
  <2>3. a = b
    BY <1>1, <2>1
  <2> QED
    BY <2>2, <2>3
<1>6. h.live = {r[k] : k \in 1 .. Len(r)}
  <2>1. \A k \in 1 .. Len(r) : r[k] \in h.live
    <3> TAKE k \in 1 .. Len(r)
    <3> DEFINE l == (Len(s) - k) + 1
    <3>1. l \in 1 .. Len(s) /\ r[k] = s[l]
      BY <1>3
    <3> HIDE DEF l
    <3> QED
      BY <1>1, <3>1
  <2>2. \A m \in h.live : \E k \in 1 .. Len(r) : m = r[k]
    <3> TAKE m \in h.live
    <3>1. PICK k \in 1 .. Len(s) : m = s[k]
      BY <1>1
    <3> QED
      BY <1>3, <1>4, <3>1
  <2> QED
    BY <2>1, <2>2
<1>7. \A k \in Int : At(r, k) = At(s, (Len(s) - k) + 1)
  <2> TAKE k \in Int
  <2>1. k \in 1 .. Len(s) <=> (Len(s) - k) + 1 \in 1 .. Len(s)
    BY <1>1
  <2> QED
    BY <1>3, <2>1 DEF At
<1>8. h.tail = At(r, 1)
  <2>1. (Len(s) - 1) + 1 = Len(s)
    BY <1>1
  <2> QED
    BY <1>1, <1>7, <2>1
<1>9. \A k \in 1 .. Len(r) : h.node[r[k]]["prev"] = At(r, k + 1)
  <2> TAKE k \in 1 .. Len(r)
  <2> DEFINE l == (Len(s) - k) + 1
  <2>1. l \in 1 .. Len(s) /\ r[k] = s[l] /\ l - 1 = (Len(s) - (k + 1)) + 1 /\ k + 1 \in Int
    BY <1>1, <1>3
  <2> HIDE DEF l
  <2>2. h.node[s[l]]["prev"] = At(s, l - 1)
    BY <1>1, <2>1
  <2> QED
    BY <1>7, <2>1, <2>2
<1>10. Walk(h, h.tail, "prev") = r
  BY <1>3, <1>5, <1>6, <1>8, <1>9, WalkIs
<1> QED
  BY <1>2, <1>10 DEF r

-------------------------------------------------------------------------------
\* What the list stands for, and what the calls make of it.

\* The values of the nodes of s.
Vals(h, s) == [k \in 1 .. Len(s) |-> h.node[s[k]].val]

\* The heap is well linked, and holds these items in order.
Holds(h, i) == h \in Heaps /\ \E s \in Seq(Nodes) : Linked(h, s) /\ i = Vals(h, s)

\* Items, of any heap.
ItemsOf(h) ==
  [k \in DOMAIN Walk(h, h.head, "next") |-> h.node[Walk(h, h.head, "next")[k]].val]

\* What a node may hold.
Words == Values \cup {Undef}

\* The walk from the head reads what the heap holds.
LEMMA HoldsItems ==
  ASSUME NEW h, NEW i, Holds(h, i)
  PROVE  ItemsOf(h) = i /\ i \in Seq(Words)
<1>1. PICK s \in Seq(Nodes) : h \in Heaps /\ Linked(h, s) /\ i = Vals(h, s)
  BY DEF Holds
<1>2. Walk(h, h.head, "next") = s
  BY <1>1, WalksOf
<1>3. ItemsOf(h) = i
  BY <1>1, <1>2 DEF ItemsOf, Vals
<1>4. \A k \in 1 .. Len(s) : h.node[s[k]].val \in Words
  BY <1>1 DEF Heaps, Cells, Words
<1>5. i \in Seq(Words)
  BY <1>1, <1>4 DEF Vals
<1> QED
  BY <1>3, <1>5

\* Linking a node in puts its value at its place.
LEMMA InsertedVals ==
  ASSUME NEW h \in Heaps, NEW g \in Heaps, NEW s \in Seq(Nodes), Linked(h, s),
         NEW n \in Nodes \ h.live, NEW k \in 1 .. (Len(s) + 1), LinkedIn(g, h, s, k, n),
         Keeps(g, h), NEW v, g.node[n].val = v
  PROVE  Holds(g, Inserted(Vals(h, s), k, v))
<1> DEFINE t == Inserted(s, k, n)
<1>1. t \in Seq(Nodes) /\ Linked(g, t)
  BY InsertedLinked
<1>2. /\ Len(s) \in Nat /\ Len(t) = Len(s) + 1
      /\ \A j \in 1 .. Len(t) : t[j] = IF j < k THEN s[j] ELSE IF j = k THEN n ELSE s[j - 1]
  BY DEF Inserted
<1>3. \A j \in 1 .. Len(s) : g.node[s[j]].val = h.node[s[j]].val
  BY DEF Keeps, Linked
<1>4. Len(Vals(h, s)) = Len(s) /\ \A j \in 1 .. Len(s) : Vals(h, s)[j] = h.node[s[j]].val
  BY DEF Vals
<1> HIDE DEF t
<1>5. ASSUME NEW j \in 1 .. Len(t)
      PROVE  g.node[t[j]].val =
               IF j < k THEN Vals(h, s)[j] ELSE IF j = k THEN v ELSE Vals(h, s)[j - 1]
  <2>0. j \in Int /\ k \in Int
    BY <1>2
  <2>1. CASE j < k
    <3>1. j \in 1 .. Len(s)
      BY <1>2, <2>1
    <3> QED
      BY <1>2, <1>3, <1>4, <2>1, <3>1
  <2>2. CASE j = k
    BY <1>2, <2>2
  <2>3. CASE j > k
    <3>1. j - 1 \in 1 .. Len(s)
      BY <1>2, <2>3
    <3> QED
      BY <1>2, <1>3, <1>4, <2>0, <2>3, <3>1
  <2> QED
    BY <2>0, <2>1, <2>2, <2>3
<1>6. Vals(g, t) = Inserted(Vals(h, s), k, v)
  BY <1>2, <1>4, <1>5 DEF Vals, Inserted
<1> QED
  BY <1>1, <1>6 DEF Holds

\* Linking a node out takes its value away.
LEMMA DroppedVals ==
  ASSUME NEW h \in Heaps, NEW g \in Heaps, NEW s \in Seq(Nodes), Linked(h, s),
         NEW k \in 1 .. Len(s), LinkedOut(g, h, s, k),
         \A m \in Nodes : g.node[m].val = h.node[m].val
  PROVE  Holds(g, Dropped(Vals(h, s), k))
<1> DEFINE t == Dropped(s, k)
<1>1. t \in Seq(Nodes) /\ Linked(g, t)
  BY DroppedLinked
<1>2. /\ Len(s) \in Nat /\ Len(t) = Len(s) - 1
      /\ \A j \in 1 .. Len(t) : t[j] = IF j < k THEN s[j] ELSE s[j + 1]
  BY DEF Dropped
<1>3. Len(Vals(h, s)) = Len(s) /\ \A j \in 1 .. Len(s) : Vals(h, s)[j] = g.node[s[j]].val
  BY DEF Vals
<1> HIDE DEF t
<1>4. ASSUME NEW j \in 1 .. Len(t)
      PROVE  g.node[t[j]].val = IF j < k THEN Vals(h, s)[j] ELSE Vals(h, s)[j + 1]
  <2>1. j \in 1 .. Len(s) /\ j + 1 \in 1 .. Len(s)
    BY <1>2
  <2> QED
    BY <1>2, <1>3, <2>1
<1>5. Vals(g, t) = Dropped(Vals(h, s), k)
  BY <1>2, <1>3, <1>4 DEF Vals, Dropped
<1> QED
  BY <1>1, <1>5 DEF Holds

\* The places of a sequence with an item put in.
LEMMA InsertedPlaces ==
  ASSUME NEW T, NEW i \in Seq(T), NEW k \in 1 .. (Len(i) + 1), NEW v \in T
  PROVE  /\ Inserted(i, k, v) \in Seq(T) /\ Len(Inserted(i, k, v)) = Len(i) + 1
         /\ \A m \in 1 .. (Len(i) + 1) :
              Inserted(i, k, v)[m] = IF m < k THEN i[m] ELSE IF m = k THEN v ELSE i[m - 1]
BY DEF Inserted

\* The places of a sequence with an item taken out.
LEMMA DroppedPlaces ==
  ASSUME NEW T, NEW i \in Seq(T), NEW k \in 1 .. Len(i)
  PROVE  /\ Dropped(i, k) \in Seq(T) /\ Len(Dropped(i, k)) = Len(i) - 1
         /\ \A m \in 1 .. (Len(i) - 1) : Dropped(i, k)[m] = IF m < k THEN i[m] ELSE i[m + 1]
BY DEF Dropped

\* Putting in at the end, at the front and before an item.
LEMMA InsertedSeq ==
  ASSUME NEW T, NEW i \in Seq(T), NEW v \in T
  PROVE  /\ Inserted(i, Len(i) + 1, v) = Append(i, v)
         /\ Inserted(i, 1, v) = <<v>> \o i
         /\ \A k \in 1 .. Len(i) : Inserted(i, k, v) = InsertAt(i, k, v)
<1>1. Inserted(i, Len(i) + 1, v) = Append(i, v)
  <2> DEFINE e == Len(i) + 1
             t == Inserted(i, e, v)
             u == Append(i, v)
  <2>0. e \in 1 .. (Len(i) + 1)
    OBVIOUS
  <2>1. e = Len(i) + 1 /\ Len(i) \in Nat
    OBVIOUS
  <2> HIDE DEF e
  <2>2. /\ t \in Seq(T) /\ Len(t) = Len(i) + 1
        /\ \A m \in 1 .. (Len(i) + 1) : t[m] = IF m < e THEN i[m] ELSE IF m = e THEN v ELSE i[m - 1]
    BY <2>0, <2>1 DEF Inserted
  <2>3. /\ u \in Seq(T) /\ Len(u) = Len(i) + 1
        /\ \A m \in 1 .. (Len(i) + 1) : u[m] = IF m = Len(i) + 1 THEN v ELSE i[m]
    OBVIOUS
  <2> HIDE DEF t, u
  <2>4. \A m \in 1 .. Len(t) : t[m] = u[m]
    BY <2>1, <2>2, <2>3
  <2>5. t = u
    BY <2>2, <2>3, <2>4, SeqEqual
  <2> QED
    BY <2>5 DEF t, u, e
<1>2. Inserted(i, 1, v) = <<v>> \o i
  BY DEF Inserted
<1>3. ASSUME NEW k \in 1 .. Len(i) PROVE Inserted(i, k, v) = InsertAt(i, k, v)
  <2> DEFINE a == SubSeq(i, 1, k - 1)
             b == SubSeq(i, k, Len(i))
             c == a \o <<v>>
             t == Inserted(i, k, v)
             u == c \o b
  <2>1. /\ a \in Seq(T) /\ Len(a) = k - 1 /\ \A m \in 1 .. (k - 1) : a[m] = i[m]
        /\ b \in Seq(T) /\ Len(b) = Len(i) - k + 1
        /\ \A m \in 1 .. (Len(i) - k + 1) : b[m] = i[m + k - 1]
    OBVIOUS
  <2>2. /\ t \in Seq(T) /\ Len(t) = Len(i) + 1
        /\ \A m \in 1 .. (Len(i) + 1) : t[m] = IF m < k THEN i[m] ELSE IF m = k THEN v ELSE i[m - 1]
    <3>1. k \in 1 .. (Len(i) + 1)
      OBVIOUS
    <3> QED
      BY <3>1, InsertedPlaces
  <2>3. InsertAt(i, k, v) = u
    BY DEF InsertAt
  <2> HIDE DEF a, b, t
  <2>4. c \in Seq(T) /\ Len(c) = k /\ \A m \in 1 .. k : c[m] = IF m < k THEN i[m] ELSE v
    BY <2>1
  <2> HIDE DEF c
  <2>5. /\ u \in Seq(T) /\ Len(u) = Len(c) + Len(b)
        /\ \A m \in 1 .. (Len(c) + Len(b)) : u[m] = IF m <= Len(c) THEN c[m] ELSE b[m - Len(c)]
    <3>1. c \in Seq(T) /\ b \in Seq(T)
      BY <2>1, <2>4
    <3> QED
      BY <3>1, ConcatProperties
  <2> HIDE DEF u
  <2>6. ASSUME NEW m \in 1 .. Len(t) PROVE t[m] = u[m]
    <3>0. /\ m \in 1 .. (Len(i) + 1) /\ m \in 1 .. (Len(c) + Len(b)) /\ m \in Int /\ k \in Int
          /\ Len(c) = k /\ Len(i) \in Nat
      BY <2>1, <2>2, <2>4
    <3>1. CASE m <= k
      <4>1. m \in 1 .. k /\ u[m] = c[m]
        BY <2>5, <3>0, <3>1
      <4>2. c[m] = IF m < k THEN i[m] ELSE v
        BY <2>4, <4>1
      <4> QED
        BY <2>2, <3>0, <3>1, <4>1, <4>2
    <3>2. CASE m > k
      <4>1. u[m] = b[m - k]
        BY <2>5, <3>0, <3>2
      <4>2. m - k \in 1 .. (Len(i) - k + 1) /\ (m - k) + k - 1 = m - 1
        BY <3>0, <3>2
      <4>3. b[m - k] = i[m - 1]
        BY <2>1, <4>2
      <4> QED
        BY <2>2, <3>0, <3>2, <4>1, <4>3
    <3> QED
      BY <3>0, <3>1, <3>2
  <2>7. Len(t) = Len(u)
    BY <2>1, <2>2, <2>4, <2>5
  <2>8. t = u
    BY <2>2, <2>5, <2>6, <2>7, SeqEqual
  <2> QED
    BY <2>3, <2>8 DEF t, u, c
<1> QED
  BY <1>1, <1>2, <1>3

\* Taking out at an index, at the end and at the front.
LEMMA DroppedSeq ==
  ASSUME NEW T, NEW i \in Seq(T), NEW k \in 1 .. Len(i)
  PROVE  /\ Dropped(i, k) = SubSeq(i, 1, k - 1) \o SubSeq(i, k + 1, Len(i))
         /\ Dropped(i, Len(i)) = SubSeq(i, 1, Len(i) - 1)
         /\ Dropped(i, 1) = Tail(i)
<1>1. Dropped(i, k) = SubSeq(i, 1, k - 1) \o SubSeq(i, k + 1, Len(i))
  <2> DEFINE a == SubSeq(i, 1, k - 1)
             b == SubSeq(i, k + 1, Len(i))
             t == Dropped(i, k)
             u == a \o b
  <2>1. /\ a \in Seq(T) /\ Len(a) = k - 1 /\ \A m \in 1 .. (k - 1) : a[m] = i[m]
        /\ b \in Seq(T) /\ Len(b) = Len(i) - k
        /\ \A m \in 1 .. (Len(i) - k) : b[m] = i[m + k]
    OBVIOUS
  <2>2. /\ t \in Seq(T) /\ Len(t) = Len(i) - 1
        /\ \A m \in 1 .. (Len(i) - 1) : t[m] = IF m < k THEN i[m] ELSE i[m + 1]
    BY DroppedPlaces
  <2> HIDE DEF a, b, t
  <2>3. /\ u \in Seq(T) /\ Len(u) = (k - 1) + (Len(i) - k)
        /\ \A m \in 1 .. ((k - 1) + (Len(i) - k)) : u[m] = IF m <= k - 1 THEN a[m] ELSE b[m - (k - 1)]
    <3>1. /\ u \in Seq(T) /\ Len(u) = Len(a) + Len(b)
          /\ \A m \in 1 .. (Len(a) + Len(b)) : u[m] = IF m <= Len(a) THEN a[m] ELSE b[m - Len(a)]
      BY <2>1, ConcatProperties
    <3> HIDE DEF u
    <3> QED
      BY <2>1, <3>1
  <2> HIDE DEF u
  <2>4. ASSUME NEW m \in 1 .. Len(t) PROVE t[m] = u[m]
    <3>0. m \in 1 .. (Len(i) - 1) /\ m \in 1 .. ((k - 1) + (Len(i) - k)) /\ m \in Int /\ k \in Int
      BY <2>1, <2>2
    <3>1. CASE m < k
      <4>1. m \in 1 .. (k - 1) /\ m <= k - 1
        BY <3>0, <3>1
      <4> QED
        BY <2>1, <2>2, <2>3, <3>0, <3>1, <4>1
    <3>2. CASE m >= k
      <4>1. m - (k - 1) \in 1 .. (Len(i) - k) /\ (m - (k - 1)) + k = m + 1 /\ ~(m <= k - 1)
        BY <3>0, <3>2
      <4> QED
        BY <2>1, <2>2, <2>3, <3>0, <3>2, <4>1, SMTT(30)
    <3> QED
      BY <3>0, <3>1, <3>2
  <2>5. Len(t) = Len(u)
    BY <2>2, <2>3
  <2>6. t = u
    BY <2>2, <2>3, <2>4, <2>5, SeqEqual
  <2> QED
    BY <2>6 DEF t, u, a, b
<1>2. Dropped(i, Len(i)) = SubSeq(i, 1, Len(i) - 1)
  BY DEF Dropped
<1>3. Dropped(i, 1) = Tail(i)
  <2>1. i # <<>> /\ 1 \in 1 .. Len(i)
    OBVIOUS
  <2>2. Tail(i) \in Seq(T) /\ Len(Tail(i)) = Len(i) - 1 /\ \A m \in 1 .. Len(Tail(i)) : Tail(i)[m] = i[m + 1]
    BY <2>1, HeadTailProperties
  <2>3. /\ Dropped(i, 1) \in Seq(T) /\ Len(Dropped(i, 1)) = Len(i) - 1
        /\ \A m \in 1 .. (Len(i) - 1) : Dropped(i, 1)[m] = IF m < 1 THEN i[m] ELSE i[m + 1]
    BY <2>1, DroppedPlaces
  <2>4. \A m \in 1 .. Len(Dropped(i, 1)) : Dropped(i, 1)[m] = Tail(i)[m]
    BY <2>2, <2>3
  <2> QED
    BY <2>2, <2>3, <2>4, SeqEqual
<1> QED
  BY <1>1, <1>2, <1>3

\* A node is put at the end, or at the front.
LEMMA PushHolds ==
  ASSUME NEW h, NEW i, Holds(h, i), NEW n \in Nodes \ h.live, NEW v \in Values
  PROVE  /\ Holds(Pushed(h, n, v), Append(i, v)) /\ Pushed(h, n, v).live = h.live \cup {n}
         /\ Holds(Unshifted(h, n, v), <<v>> \o i) /\ Unshifted(h, n, v).live = h.live \cup {n}
<1>1. PICK s \in Seq(Nodes) : h \in Heaps /\ Linked(h, s) /\ i = Vals(h, s)
  BY DEF Holds
<1>2. Len(i) = Len(s) /\ Len(s) \in Nat /\ i \in Seq(Words) /\ v \in Words
  BY <1>1, HoldsItems DEF Vals, Words
<1>3. /\ Pushed(h, n, v) \in Heaps /\ Keeps(Pushed(h, n, v), h)
      /\ Pushed(h, n, v).node[n].val = v
      /\ LinkedIn(Pushed(h, n, v), h, s, Len(s) + 1, n)
  BY <1>1, PushedLinked
<1>4. Holds(Pushed(h, n, v), Inserted(i, Len(i) + 1, v))
  <2>1. Len(s) + 1 \in 1 .. (Len(s) + 1)
    BY <1>2
  <2> QED
    BY <1>1, <1>2, <1>3, <2>1, InsertedVals
<1>5. /\ Unshifted(h, n, v) \in Heaps /\ Keeps(Unshifted(h, n, v), h)
      /\ Unshifted(h, n, v).node[n].val = v
      /\ LinkedIn(Unshifted(h, n, v), h, s, 1, n)
  BY <1>1, UnshiftedLinked
<1>6. Holds(Unshifted(h, n, v), Inserted(i, 1, v))
  <2>1. 1 \in 1 .. (Len(s) + 1)
    BY <1>2
  <2> QED
    BY <1>1, <1>5, <2>1, InsertedVals
<1>7. Inserted(i, Len(i) + 1, v) = Append(i, v) /\ Inserted(i, 1, v) = <<v>> \o i
  BY <1>2, InsertedSeq
<1>8. Pushed(h, n, v).live = h.live \cup {n} /\ Unshifted(h, n, v).live = h.live \cup {n}
  BY <1>3, <1>5 DEF LinkedIn
<1> QED
  BY <1>4, <1>6, <1>7, <1>8

\* One is put before the node at place k.
LEMMA SqueezeHolds ==
  ASSUME NEW h, NEW s \in Seq(Nodes), h \in Heaps, Linked(h, s),
         NEW n \in Nodes \ h.live, NEW v \in Values, NEW k \in 2 .. Len(s),
         NEW g, g = Counted(Squeezed(h, s[k], n, v))
  PROVE  Holds(g, InsertAt(Vals(h, s), k, v))
<1>1. g \in Heaps /\ Keeps(g, h) /\ g.node[n].val = v /\ LinkedIn(g, h, s, k, n)
  BY SqueezedLinked
<1>2. k \in 1 .. (Len(s) + 1) /\ k \in 1 .. Len(Vals(h, s))
  BY DEF Vals
<1>3. Holds(g, Inserted(Vals(h, s), k, v))
  BY <1>1, <1>2, InsertedVals
<1>4. Vals(h, s) \in Seq(Words) /\ v \in Words
  <2>1. Holds(h, Vals(h, s))
    BY DEF Holds
  <2> QED
    BY <2>1, HoldsItems DEF Words
<1> QED
  BY <1>2, <1>3, <1>4, InsertedSeq

\* The node at place k is taken away; the last one, and the first.
LEMMA UnlinkHolds ==
  ASSUME NEW h, NEW s \in Seq(Nodes), h \in Heaps, Linked(h, s), NEW k \in 1 .. Len(s)
  PROVE  LET i == Vals(h, s)
         IN  Holds(Unlinked(h, s[k]), SubSeq(i, 1, k - 1) \o SubSeq(i, k + 1, Len(i)))
<1> DEFINE i == Vals(h, s)
<1>1. i \in Seq(Words) /\ Len(i) = Len(s)
  <2>1. Holds(h, i)
    BY DEF Holds
  <2> QED
    BY <2>1, HoldsItems DEF Vals
<1>2. Holds(Unlinked(h, s[k]), Dropped(i, k))
  BY UnlinkedLinked, DroppedVals
<1> HIDE DEF i
<1>3. Dropped(i, k) = SubSeq(i, 1, k - 1) \o SubSeq(i, k + 1, Len(i))
  BY <1>1, DroppedSeq
<1> QED
  BY <1>2, <1>3 DEF i

\* What Pop and Shift read, and what they leave.
LEMMA PopHolds ==
  ASSUME NEW h, NEW i, Holds(h, i), i # <<>>
  PROVE  /\ h.tail # Nil /\ h.node[h.tail].val = i[Len(i)]
         /\ Holds(Popped(h), SubSeq(i, 1, Len(i) - 1))
         /\ h.head # Nil /\ h.node[h.head].val = Head(i)
         /\ Holds(Shifted(h), Tail(i))
<1>1. PICK s \in Seq(Nodes) : h \in Heaps /\ Linked(h, s) /\ i = Vals(h, s)
  BY DEF Holds
<1>2. i \in Seq(Words) /\ Len(i) = Len(s)
  BY <1>1, HoldsItems DEF Vals
<1>3. s # <<>> /\ Len(s) \in 1 .. Len(s) /\ 1 \in 1 .. Len(s) /\ Len(s) \in Nat
  BY <1>1, <1>2
<1>4. h.tail = s[Len(s)] /\ h.head = s[1] /\ h.tail \in Nodes /\ h.head \in Nodes /\ Nil \notin Nodes
  BY <1>1, <1>3, Ends
<1>5. h.node[h.tail].val = i[Len(i)] /\ h.node[h.head].val = Head(i)
  BY <1>1, <1>2, <1>3, <1>4 DEF Vals
<1>6. Holds(Popped(h), Dropped(i, Len(i)))
  BY <1>1, <1>2, <1>3, PoppedLinked, DroppedVals
<1>7. Holds(Shifted(h), Dropped(i, 1))
  BY <1>1, <1>2, <1>3, ShiftedLinked, DroppedVals
<1>8. Dropped(i, Len(i)) = SubSeq(i, 1, Len(i) - 1) /\ Dropped(i, 1) = Tail(i)
  BY <1>2, <1>3, DroppedSeq
<1> QED
  BY <1>4, <1>5, <1>6, <1>7, <1>8

-------------------------------------------------------------------------------
\* The items of another list are put one by one, at the end or at the front.

\* One item put at the front or at the end; the other list joined there.
Put(front, h, n, v) == IF front THEN Unshifted(h, n, v) ELSE Pushed(h, n, v)

Joined(front, i, other) == IF front THEN Reverse(other) \o i ELSE i \o other

\* The heaps on the way.
Making(w, front, h, ns, other, n) ==
  w = [k \in 0 .. n |-> IF k = 0 THEN h ELSE Put(front, w[k - 1], ns[k], other[k])]

\* The function that puts the items of another list in one by one exists: by
\* induction on how many.
LEMMA MakingExists ==
  ASSUME NEW front, NEW h, NEW ns, NEW other
  PROVE  \A n \in Nat : \E w : Making(w, front, h, ns, other, n)
<1> DEFINE S == {n \in Nat : \E w : Making(w, front, h, ns, other, n)}
<1>1. 0 \in S
  <2> DEFINE w == [k \in 0 .. 0 |-> h]
  <2>1. w = [k \in 0 .. 0 |-> IF k = 0 THEN h ELSE Put(front, w[k - 1], ns[k], other[k])]
    OBVIOUS
  <2> QED
    BY <2>1 DEF Making
<1>2. ASSUME NEW n \in Nat, n \in S PROVE n + 1 \in S
  <2>1. PICK w : Making(w, front, h, ns, other, n)
    BY <1>2
  <2> DEFINE x == [k \in 0 .. (n + 1) |-> IF k = n + 1 THEN Put(front, w[n], ns[n + 1], other[n + 1]) ELSE w[k]]
             y == [k \in 0 .. (n + 1) |-> IF k = 0 THEN h ELSE Put(front, x[k - 1], ns[k], other[k])]
  <2>2. \A k \in 0 .. n : w[k] = IF k = 0 THEN h ELSE Put(front, w[k - 1], ns[k], other[k])
    BY <2>1 DEF Making
  <2>3. ASSUME NEW k \in 0 .. (n + 1) PROVE x[k] = y[k]
    <3>1. CASE k = 0
      BY <2>2, <3>1
    <3>2. CASE k \in 1 .. n
      <4>1. k - 1 \in 0 .. (n + 1) /\ k - 1 # n + 1 /\ k # n + 1 /\ k # 0 /\ k \in 0 .. n
        BY <3>2
      <4>2. x[k - 1] = w[k - 1] /\ x[k] = w[k]
        BY <4>1
      <4> QED
        BY <2>2, <4>1, <4>2
    <3>3. CASE k = n + 1
      <4>1. k - 1 = n /\ n \in 0 .. (n + 1) /\ n # n + 1 /\ k # 0
        BY <3>3
      <4>2. x[n] = w[n]
        BY <4>1
      <4> QED
        BY <3>3, <4>1, <4>2
    <3> QED
      BY <3>1, <3>2, <3>3
  <2>4. x = y
    BY <2>3
  <2>5. Making(x, front, h, ns, other, n + 1)
    BY <2>4 DEF Making
  <2> QED
    BY <2>5
<1> HIDE DEF S
<1>3. Nat \subseteq S
  BY <1>1, <1>2, SetInduction
<1> QED
  BY <1>3 DEF S

\* One item more of the other list.
LEMMA JoinedNext ==
  ASSUME NEW T, NEW i \in Seq(T), NEW other \in Seq(T), NEW k \in 0 .. (Len(other) - 1)
  PROVE  /\ i \o SubSeq(other, 1, k + 1) = Append(i \o SubSeq(other, 1, k), other[k + 1])
         /\ Reverse(SubSeq(other, 1, k + 1)) \o i =
              <<other[k + 1]>> \o (Reverse(SubSeq(other, 1, k)) \o i)
<1> DEFINE a == SubSeq(other, 1, k)
           b == SubSeq(other, 1, k + 1)
           v == other[k + 1]
<1>1. /\ a \in Seq(T) /\ b \in Seq(T) /\ v \in T /\ Len(a) = k /\ Len(b) = k + 1 /\ k \in Nat
      /\ \A m \in 1 .. k : a[m] = other[m]
      /\ \A m \in 1 .. (k + 1) : b[m] = other[m]
  OBVIOUS
<1> HIDE DEF a, b, v
<1>2. b = a \o <<v>>
  BY <1>1 DEF v
<1>3. i \o b = Append(i \o a, v)
  BY <1>1, <1>2
<1>4. /\ Reverse(a) \in Seq(T) /\ Len(Reverse(a)) = k /\ \A m \in 1 .. k : Reverse(a)[m] = a[(k - m) + 1]
      /\ Reverse(b) \in Seq(T) /\ Len(Reverse(b)) = k + 1
      /\ \A m \in 1 .. (k + 1) : Reverse(b)[m] = b[((k + 1) - m) + 1]
  BY <1>1 DEF Reverse
<1>5. Reverse(b) = <<v>> \o Reverse(a)
  <2> DEFINE ra == Reverse(a)
             c == <<v>> \o ra
  <2>1. c \in Seq(T) /\ Len(c) = k + 1 /\ \A m \in 1 .. (k + 1) : c[m] = IF m = 1 THEN v ELSE ra[m - 1]
    <3>1. ra \in Seq(T) /\ Len(ra) = k /\ k \in Nat /\ v \in T
      BY <1>1, <1>4
    <3> HIDE DEF ra
    <3> QED
      BY <3>1
  <2> HIDE DEF c
  <2>2. ASSUME NEW m \in 1 .. (k + 1) PROVE Reverse(b)[m] = c[m]
    <3>1. CASE m = 1
      <4>1. ((k + 1) - m) + 1 = k + 1 /\ k + 1 \in 1 .. (k + 1)
        BY <1>1, <3>1
      <4> QED
        BY <1>1, <1>4, <2>1, <3>1, <4>1 DEF v
    <3>2. CASE m # 1
      <4> DEFINE l == (k - (m - 1)) + 1
      <4>1. m - 1 \in 1 .. k /\ l \in 1 .. k /\ l \in 1 .. (k + 1) /\ ((k + 1) - m) + 1 = l
        BY <1>1, <3>2
      <4> HIDE DEF l
      <4>2. Reverse(b)[m] = b[l] /\ Reverse(a)[m - 1] = a[l]
        BY <1>4, <4>1 DEF l
      <4> QED
        BY <1>1, <2>1, <3>2, <4>1, <4>2
    <3> QED
      BY <3>1, <3>2
  <2>3. Reverse(b) = c
    BY <1>4, <2>1, <2>2, SeqEqual
  <2> QED
    BY <2>3 DEF c
<1>6. Reverse(b) \o i = <<v>> \o (Reverse(a) \o i)
  <2>1. <<v>> \in Seq(T) /\ Reverse(a) \in Seq(T)
    BY <1>1, <1>4
  <2>2. (<<v>> \o Reverse(a)) \o i = <<v>> \o (Reverse(a) \o i)
    BY <2>1, ConcatAssociative, SMTT(30)
  <2> QED
    BY <1>5, <2>2
<1> QED
  BY <1>3, <1>6 DEF a, b, v

\* Putting all of them in, one by one, joins the lists: by induction on how many
\* are in.  Each is put into a node that none before it took.
LEMMA PutAll ==
  ASSUME NEW h, NEW i, Holds(h, i), NEW other \in Seq(Values), NEW front \in BOOLEAN,
         NEW ns \in [1 .. Len(other) -> Nodes \ h.live],
         \A j, k \in 1 .. Len(other) : ns[j] = ns[k] => j = k,
         NEW w, Making(w, front, h, ns, other, Len(other))
  PROVE  Holds(w[Len(other)], Joined(front, i, other))
<1> DEFINE N == Len(other)
           P(k) == /\ Holds(w[k], Joined(front, i, SubSeq(other, 1, k)))
                   /\ w[k].live = h.live \cup {ns[j] : j \in 1 .. k}
           S == {k \in Nat : k <= N => P(k)}
<1>1. /\ i \in Seq(Words) /\ other \in Seq(Words) /\ N \in Nat
      /\ \A k \in 1 .. N : other[k] \in Values /\ ns[k] \in Nodes /\ ns[k] \notin h.live
  <2>1. Values \subseteq Words
    BY DEF Words
  <2> QED
    BY <2>1, HoldsItems, SeqMonotonic
<1>2. \A k \in 0 .. N : w[k] = IF k = 0 THEN h ELSE Put(front, w[k - 1], ns[k], other[k])
  BY DEF Making
<1>3. 0 \in S
  <2>1. w[0] = h
    BY <1>1, <1>2
  <2>2. SubSeq(other, 1, 0) = <<>> /\ {ns[j] : j \in 1 .. 0} = {}
    BY SubSeqEmpty
  <2>3. Reverse(<<>>) = <<>>
    BY DEF Reverse
  <2>4. Joined(front, i, <<>>) = i
    BY <1>1, <2>3, ConcatEmptySeq DEF Joined
  <2> QED
    BY <2>1, <2>2, <2>4
<1>4. ASSUME NEW k \in Nat, k \in S PROVE k + 1 \in S
  <2> SUFFICES ASSUME k + 1 <= N PROVE P(k + 1)
    OBVIOUS
  <2> DEFINE n == ns[k + 1]
             v == other[k + 1]
             a == SubSeq(other, 1, k)
  <2>1. /\ k \in 0 .. (N - 1) /\ k + 1 \in 1 .. N /\ k + 1 \in 0 .. N /\ k + 1 # 0 /\ (k + 1) - 1 = k
        /\ P(k) /\ N = Len(other)
    BY <1>1, <1>4
  <2>2. w[k + 1] = Put(front, w[k], n, v)
    BY <1>2, <2>1
  <2>3. n \in Nodes \ w[k].live /\ v \in Values
    <3>1. \A j \in 1 .. k : j \in 1 .. N /\ j # k + 1
      BY <1>1, <2>1
    <3> QED
      BY <1>1, <2>1, <3>1
  <2> HIDE DEF n, v
  <2>4. /\ Holds(Pushed(w[k], n, v), Append(Joined(front, i, a), v))
        /\ Pushed(w[k], n, v).live = w[k].live \cup {n}
        /\ Holds(Unshifted(w[k], n, v), <<v>> \o Joined(front, i, a))
        /\ Unshifted(w[k], n, v).live = w[k].live \cup {n}
    BY <2>1, <2>3, PushHolds
  <2>5. Joined(front, i, SubSeq(other, 1, k + 1)) =
          IF front THEN <<v>> \o Joined(front, i, a) ELSE Append(Joined(front, i, a), v)
    <3>1. k \in 0 .. (Len(other) - 1) /\ i \in Seq(Words) /\ other \in Seq(Words)
      BY <1>1, <2>1
    <3>2. /\ i \o SubSeq(other, 1, k + 1) = Append(i \o SubSeq(other, 1, k), other[k + 1])
          /\ Reverse(SubSeq(other, 1, k + 1)) \o i =
               <<other[k + 1]>> \o (Reverse(SubSeq(other, 1, k)) \o i)
      BY <3>1, JoinedNext, Zenon
    <3> QED
      BY <3>2 DEF Joined, v
  <2>6. {ns[j] : j \in 1 .. (k + 1)} = {ns[j] : j \in 1 .. k} \cup {n}
    BY <2>1 DEF n
  <2> QED
    BY <2>1, <2>2, <2>4, <2>5, <2>6 DEF Put
<1>5. N \in S
  <2> HIDE DEF S
  <2> QED
    BY <1>1, <1>3, <1>4, SetInduction
<1>6. SubSeq(other, 1, N) = other
  BY SubSeqFull
<1>7. P(N)
  BY <1>1, <1>5
<1> HIDE DEF P
<1>8. Holds(w[N], Joined(front, i, SubSeq(other, 1, N)))
  BY <1>7 DEF P
<1> QED
  BY <1>6, <1>8

-------------------------------------------------------------------------------
\* The inductive invariant: the heap is linked in some order, and nothing else
\* lives in it.
ListInv == Holds(heap, Items)

\* The order the invariant speaks of is the one met going on from the head.
LEMMA TheOrder ==
  ASSUME ListInv
  PROVE  /\ heap \in Heaps /\ Forward \in Seq(Nodes) /\ Linked(heap, Forward)
         /\ Items = Vals(heap, Forward) /\ Items \in Seq(Words) /\ Len(Items) = Len(Forward)
         /\ Len(Items) \in Nat
         /\ DOMAIN Items = 1 .. Len(Items) /\ DOMAIN Forward = 1 .. Len(Items)
<1>1. PICK s \in Seq(Nodes) : heap \in Heaps /\ Linked(heap, s) /\ Items = Vals(heap, s)
  BY DEF ListInv, Holds
<1>2. Forward = s
  BY <1>1, WalksOf DEF Forward
<1>3. Items \in Seq(Words)
  BY HoldsItems DEF ListInv
<1>4. Len(Items) = Len(s)
  BY <1>1 DEF Vals
<1> QED
  BY <1>1, <1>2, <1>3, <1>4

\* What a heap holds after a step are the items after it.
LEMMA NextItems ==
  ASSUME NEW i, Holds(heap', i)
  PROVE  ListInv' /\ Items' = i
<1>1. ItemsOf(heap') = i
  BY HoldsItems
<1>2. Items' = ItemsOf(heap')
  BY DEF Items, ItemsOf, Forward
<1> QED
  BY <1>1, <1>2 DEF ListInv

\* Push.
LEMMA PushStep ==
  ASSUME ListInv, NEW v \in Values, Push(v)
  PROVE  ListInv' /\ Items' = Append(Items, v) /\ returned' = returned
<1>1. PICK n \in Nodes \ heap.live : heap' = Pushed(heap, n, v)
  BY DEF Push
<1>2. Holds(heap', Append(Items, v))
  BY <1>1, PushHolds DEF ListInv
<1> QED
  BY <1>2, NextItems DEF Push

\* Unshift.
LEMMA UnshiftStep ==
  ASSUME ListInv, NEW v \in Values, Unshift(v)
  PROVE  ListInv' /\ Items' = <<v>> \o Items /\ returned' = returned
<1>1. PICK n \in Nodes \ heap.live : heap' = Unshifted(heap, n, v)
  BY DEF Unshift
<1>2. Holds(heap', <<v>> \o Items)
  BY <1>1, PushHolds DEF ListInv
<1> QED
  BY <1>2, NextItems DEF Unshift

\* Appending another list.
LEMMA AppendAllStep ==
  ASSUME ListInv, NEW other \in Others, AppendAll(other)
  PROVE  ListInv' /\ Items' = Items \o other /\ returned' = returned
<1>1. PICK ns \in [1 .. Len(other) -> Nodes \ heap.live] :
        /\ \A j, k \in DOMAIN ns : ns[j] = ns[k] => j = k
        /\ LET made[k \in 0 .. Len(other)] ==
                 IF k = 0 THEN heap ELSE Pushed(made[k - 1], ns[k], other[k])
           IN  heap' = made[Len(other)]
  BY DEF AppendAll
<1> DEFINE M(w) == w = [k \in 0 .. Len(other) |-> IF k = 0 THEN heap ELSE Pushed(w[k - 1], ns[k], other[k])]
           made == CHOOSE w : M(w)
<1>2. \A w : M(w) <=> Making(w, FALSE, heap, ns, other, Len(other))
  BY DEF Making, Put
<1>3. other \in Seq(Values) /\ Len(other) \in Nat
  BY OthersAssumption
<1>4. \E w : M(w)
  <2> HIDE DEF M
  <2> QED
    BY <1>2, <1>3, MakingExists
<1>5. heap' = made[Len(other)]
  BY <1>1
<1>6. Making(made, FALSE, heap, ns, other, Len(other))
  <2> HIDE DEF M
  <2> QED
    BY <1>2, <1>4
<1> HIDE DEF made
<1>7. Holds(made[Len(other)], Joined(FALSE, Items, other))
  BY <1>1, <1>3, <1>6, PutAll DEF ListInv
<1>8. Holds(heap', Items \o other)
  BY <1>5, <1>7 DEF Joined
<1> QED
  BY <1>8, NextItems DEF AppendAll

\* Prepending another list, which is turned round.
LEMMA PrependAllStep ==
  ASSUME ListInv, NEW other \in Others, PrependAll(other)
  PROVE  ListInv' /\ Items' = Reverse(other) \o Items /\ returned' = returned
<1>1. PICK ns \in [1 .. Len(other) -> Nodes \ heap.live] :
        /\ \A j, k \in DOMAIN ns : ns[j] = ns[k] => j = k
        /\ LET made[k \in 0 .. Len(other)] ==
                 IF k = 0 THEN heap ELSE Unshifted(made[k - 1], ns[k], other[k])
           IN  heap' = made[Len(other)]
  BY DEF PrependAll
<1> DEFINE M(w) == w = [k \in 0 .. Len(other) |-> IF k = 0 THEN heap ELSE Unshifted(w[k - 1], ns[k], other[k])]
           made == CHOOSE w : M(w)
<1>2. \A w : M(w) <=> Making(w, TRUE, heap, ns, other, Len(other))
  BY DEF Making, Put
<1>3. other \in Seq(Values) /\ Len(other) \in Nat
  BY OthersAssumption
<1>4. \E w : M(w)
  <2> HIDE DEF M
  <2> QED
    BY <1>2, <1>3, MakingExists
<1>5. heap' = made[Len(other)]
  BY <1>1
<1>6. Making(made, TRUE, heap, ns, other, Len(other))
  <2> HIDE DEF M
  <2> QED
    BY <1>2, <1>4
<1> HIDE DEF made
<1>7. Holds(made[Len(other)], Joined(TRUE, Items, other))
  BY <1>1, <1>3, <1>6, PutAll DEF ListInv
<1>8. Holds(heap', Reverse(other) \o Items)
  BY <1>5, <1>7 DEF Joined
<1> QED
  BY <1>8, NextItems DEF PrependAll

\* Either end is Nil when nothing is held, and only then.
LEMMA EmptyEnds ==
  ASSUME ListInv
  PROVE  (heap.head = Nil <=> Items = <<>>) /\ (heap.tail = Nil <=> Items = <<>>)
<1>1. CASE Items = <<>>
  <2>1. Len(Forward) = 0
    BY <1>1, TheOrder
  <2>2. At(Forward, 1) = Nil /\ At(Forward, Len(Forward)) = Nil
    BY <2>1 DEF At
  <2> QED
    BY <1>1, <2>2, TheOrder DEF Linked
<1>2. CASE Items # <<>>
  BY <1>2, PopHolds DEF ListInv
<1> QED
  BY <1>1, <1>2

\* Pop.
LEMMA PopStep ==
  ASSUME ListInv, Pop
  PROVE  /\ ListInv'
         /\ Items = <<>> => Items' = Items /\ heap' = heap /\ returned' = Undef
         /\ Items # <<>> => /\ returned' = Items[Len(Items)]
                            /\ Items' = SubSeq(Items, 1, Len(Items) - 1)
<1>1. CASE Items = <<>>
  <2>1. heap' = heap /\ returned' = Undef
    BY <1>1, EmptyEnds DEF Pop
  <2>2. Holds(heap', Items)
    BY <2>1 DEF ListInv
  <2> QED
    BY <1>1, <2>1, <2>2, NextItems
<1>2. CASE Items # <<>>
  <2>1. heap.tail # Nil
    BY <1>2, EmptyEnds
  <2>2. heap' = Popped(heap) /\ returned' = heap.node[heap.tail].val
    BY <2>1 DEF Pop, Popped
  <2>3. /\ heap.node[heap.tail].val = Items[Len(Items)]
        /\ Holds(Popped(heap), SubSeq(Items, 1, Len(Items) - 1))
    BY <1>2, PopHolds DEF ListInv
  <2>4. Holds(heap', SubSeq(Items, 1, Len(Items) - 1))
    BY <2>2, <2>3
  <2> QED
    BY <1>2, <2>2, <2>3, <2>4, NextItems
<1> QED
  BY <1>1, <1>2

\* Shift.
LEMMA ShiftStep ==
  ASSUME ListInv, Shift
  PROVE  /\ ListInv'
         /\ Items = <<>> => Items' = Items /\ heap' = heap /\ returned' = Undef
         /\ Items # <<>> => returned' = Head(Items) /\ Items' = Tail(Items)
<1>1. CASE Items = <<>>
  <2>1. heap' = heap /\ returned' = Undef
    BY <1>1, EmptyEnds DEF Shift
  <2>2. Holds(heap', Items)
    BY <2>1 DEF ListInv
  <2> QED
    BY <1>1, <2>1, <2>2, NextItems
<1>2. CASE Items # <<>>
  <2>1. heap.head # Nil
    BY <1>2, EmptyEnds
  <2>2. heap' = Shifted(heap) /\ returned' = heap.node[heap.head].val
    BY <2>1 DEF Shift, Shifted
  <2>3. heap.node[heap.head].val = Head(Items) /\ Holds(Shifted(heap), Tail(Items))
    BY <1>2, PopHolds DEF ListInv
  <2>4. Holds(heap', Tail(Items))
    BY <2>2, <2>3
  <2> QED
    BY <1>2, <2>2, <2>3, <2>4, NextItems
<1> QED
  BY <1>1, <1>2

\* Deletion at an iterator.
LEMMA DelNodeStep ==
  ASSUME ListInv, NEW k \in DOMAIN Forward, DelNode(Forward[k])
  PROVE  /\ ListInv' /\ returned' = returned
         /\ Items' = SubSeq(Items, 1, k - 1) \o SubSeq(Items, k + 1, Len(Items))
<1>1. Holds(heap', SubSeq(Items, 1, k - 1) \o SubSeq(Items, k + 1, Len(Items)))
  <2>1. k \in 1 .. Len(Forward) /\ heap' = Unlinked(heap, Forward[k])
    BY TheOrder DEF DelNode
  <2> QED
    BY <2>1, TheOrder, UnlinkHolds
<1> QED
  BY <1>1, NextItems DEF DelNode

\* Deletion at an index, which may be out of range.
LEMMA DelAtStep ==
  ASSUME ListInv, NEW i \in Int, DelAt(i)
  PROVE  /\ ListInv' /\ returned' = returned
         /\ i + 1 \in DOMAIN Items =>
              Items' = SubSeq(Items, 1, i) \o SubSeq(Items, i + 2, Len(Items))
         /\ i + 1 \notin DOMAIN Items => heap' = heap /\ Items' = Items
<1>1. DOMAIN Items = 1 .. Len(Items) /\ Len(Forward) = Len(Items) /\ Len(Items) \in Nat
  BY TheOrder
<1>2. CASE i + 1 \in DOMAIN Items
  <2> DEFINE k == i + 1
  <2>1. k \in 1 .. Len(Forward) /\ k - 1 = i /\ k + 1 = i + 2 /\ i \in 0 .. (Len(Forward) - 1)
    BY <1>1, <1>2
  <2>2. heap' = Unlinked(heap, Forward[k])
    BY <2>1 DEF DelAt
  <2> HIDE DEF k
  <2>3. Holds(heap', SubSeq(Items, 1, k - 1) \o SubSeq(Items, k + 1, Len(Items)))
    BY <2>1, <2>2, TheOrder, UnlinkHolds
  <2>4. Holds(heap', SubSeq(Items, 1, i) \o SubSeq(Items, i + 2, Len(Items)))
    BY <2>1, <2>3
  <2> QED
    BY <1>2, <2>4, NextItems DEF DelAt
<1>3. CASE i + 1 \notin DOMAIN Items
  <2>1. heap' = heap
    BY <1>1, <1>3 DEF DelAt
  <2>2. Holds(heap', Items)
    BY <2>1 DEF ListInv
  <2> QED
    BY <1>3, <2>1, <2>2, NextItems DEF DelAt
<1> QED
  BY <1>2, <1>3

\* Reading at an index, which may be out of range.
LEMMA ValAtStep ==
  ASSUME ListInv, NEW i \in Int, ValAt(i)
  PROVE  /\ ListInv' /\ heap' = heap /\ Items' = Items
         /\ returned' = IF i \in 0 .. (Len(Items) - 1) THEN Items[i + 1] ELSE Undef
<1>1. Len(Forward) = Len(Items) /\ Len(Items) \in Nat /\ Items = Vals(heap, Forward)
  BY TheOrder
<1>2. ASSUME i \in 0 .. (Len(Items) - 1) PROVE heap.node[Forward[i + 1]].val = Items[i + 1]
  <2>1. i + 1 \in 1 .. Len(Forward)
    BY <1>1, <1>2
  <2> QED
    BY <1>1, <2>1 DEF Vals
<1>3. heap' = heap
  BY DEF ValAt
<1>4. Holds(heap', Items)
  BY <1>3 DEF ListInv
<1> QED
  BY <1>1, <1>2, <1>3, <1>4, NextItems DEF ValAt

\* Insertion before an item that is not the first.
LEMMA InsertBeforeStep ==
  ASSUME ListInv, NEW k \in DOMAIN Forward, k > 1, NEW v \in Values, InsertBefore(Forward[k], v)
  PROVE  ListInv' /\ Items' = InsertAt(Items, k, v) /\ returned' = returned
<1>1. PICK n \in Nodes \ heap.live : heap' = Counted(Squeezed(heap, Forward[k], n, v))
  BY DEF InsertBefore, Counted, Squeezed
<1>2. k \in 2 .. Len(Forward)
  BY TheOrder
<1>3. Holds(heap', InsertAt(Items, k, v))
  BY <1>1, <1>2, TheOrder, SqueezeHolds
<1> QED
  BY <1>3, NextItems DEF InsertBefore

\* A heap with no node holds nothing.
LEMMA EmptyHolds ==
  ASSUME NEW h \in Heaps, h.head = Nil, h.tail = Nil, h.length = 0, h.live = {}, ~h.fault
  PROVE  Holds(h, <<>>)
<1>1. <<>> \in Seq(Nodes) /\ Len(<<>>) = 0
  OBVIOUS
<1>2. Linked(h, <<>>)
  BY <1>1 DEF Linked, At
<1>3. Vals(h, <<>>) = <<>>
  BY <1>1 DEF Vals
<1> QED
  BY <1>1, <1>2, <1>3 DEF Holds

\* The list is freed and a new one takes its place.
LEMMA DestroyStep ==
  ASSUME ListInv, Destroy
  PROVE  ListInv' /\ Items' = <<>> /\ returned' = returned
<1> DEFINE rest == heap.live \ {Forward[k] : k \in DOMAIN Forward}
           g == [heap EXCEPT !.head = Nil, !.tail = Nil, !.length = 0, !.live = rest]
<1>1. heap' = g
  BY DEF Destroy
<1>2. rest = {}
  <2>1. heap.live = {Forward[k] : k \in 1 .. Len(Forward)} /\ DOMAIN Forward = 1 .. Len(Forward)
    BY TheOrder DEF Linked
  <2> QED
    BY <2>1
<1>3. heap \in Heaps /\ ~heap.fault
  BY TheOrder DEF Linked
<1> HIDE DEF rest
<1>4. g \in Heaps
  <2>1. Nil \in Places /\ 0 \in Int /\ rest \in SUBSET Nodes
    BY <1>2 DEF Places
  <2> HIDE DEF g
  <2>2. g = [heap EXCEPT !.head = Nil, !.tail = Nil, !.length = 0, !.live = rest]
    BY DEF g
  <2> QED
    BY <1>3, <2>1, <2>2 DEF Heaps
<1>5. g.head = Nil /\ g.tail = Nil /\ g.length = 0 /\ g.live = {} /\ ~g.fault
  BY <1>2, <1>3 DEF Heaps
<1> HIDE DEF g
<1>6. Holds(heap', <<>>)
  BY <1>1, <1>4, <1>5, EmptyHolds
<1> QED
  BY <1>6, NextItems DEF Destroy

-------------------------------------------------------------------------------
\* A new list.
LEMMA InitItems ==
  ASSUME Init
  PROVE  ListInv
<1>1. heap \in Heaps
  BY DEF Init, Heaps, Cells, Places
<1>2. heap.head = Nil /\ heap.tail = Nil /\ heap.length = 0 /\ heap.live = {} /\ ~heap.fault
  BY DEF Init
<1>3. Holds(heap, <<>>)
  BY <1>1, <1>2, EmptyHolds
<1>4. ItemsOf(heap) = <<>>
  BY <1>3, HoldsItems
<1>5. Items = ItemsOf(heap)
  BY DEF Items, ItemsOf, Forward
<1> QED
  BY <1>3, <1>4, <1>5 DEF ListInv

\* The indices the calls are made with.
LEMMA IndicesAreInt ==
  Indices \subseteq Int
<1>1. Cardinality(Nodes) \in Nat
  BY NodesAssumption, FS_CardinalityType
<1> QED
  BY <1>1 DEF Indices


\* Deletion at an iterator is the sequence's Delete.
LEMMA DeletedAt ==
  ASSUME ListInv, NEW k \in DOMAIN Forward, DelNode(Forward[k])
  PROVE  ListInv' /\ Contents!Delete(k - 1)
<1>1. /\ ListInv' /\ returned' = returned
      /\ Items' = SubSeq(Items, 1, k - 1) \o SubSeq(Items, k + 1, Len(Items))
  BY DelNodeStep
<1>2. k - 1 \in 0 .. (Len(Items) - 1) /\ k - 1 + 2 = k + 1
  BY TheOrder
<1> QED
  BY <1>1, <1>2 DEF Contents!Delete

\* Deletion at an index is the sequence's Delete.
LEMMA DeletedIndex ==
  ASSUME ListInv, NEW i \in Int, i + 1 \in DOMAIN Items, DelAt(i)
  PROVE  ListInv' /\ Contents!Delete(i)
<1>1. /\ ListInv' /\ returned' = returned
      /\ Items' = SubSeq(Items, 1, i) \o SubSeq(Items, i + 2, Len(Items))
  BY DelAtStep
<1>2. i \in 0 .. (Len(Items) - 1)
  BY TheOrder
<1> QED
  BY <1>1, <1>2 DEF Contents!Delete

\* The place of an iterator is an index.
LEMMA PlaceIndex ==
  ASSUME ListInv, NEW k \in DOMAIN Forward
  PROVE  k - 1 \in Indices
<1>1. Cardinality(Nodes) \in Nat
  BY NodesAssumption, FS_CardinalityType
<1>2. Len(Forward) <= Cardinality(Nodes)
  <2>1. /\ Forward \in Seq(Nodes)
        /\ \A j, l \in 1 .. Len(Forward) : Forward[j] = Forward[l] => j = l
    BY TheOrder DEF Linked
  <2> QED
    BY <2>1, OrderFits
<1> QED
  BY <1>1, <1>2, TheOrder DEF Indices

\* An iterator that is not at the head is behind the first place.
LEMMA AfterFirst ==
  ASSUME ListInv, NEW k \in DOMAIN Forward, Forward[k] # heap.head
  PROVE  k > 1
<1>1. k \in 1 .. Len(Forward)
  BY TheOrder
<1>2. heap.head = Forward[1]
  BY <1>1, TheOrder DEF Linked, At
<1> QED
  BY <1>1, <1>2

\* Every call keeps the invariant and is a step of the sequence.
LEMMA AnyStep ==
  ASSUME ListInv, Next
  PROVE  ListInv' /\ [SequenceStep]_vars
<1>1. ASSUME NEW v \in Values, Push(v)
      PROVE  ListInv' /\ SequenceStep
  BY <1>1, PushStep DEF SequenceStep, Contents!Next, Contents!PushBack
<1>2. ASSUME NEW v \in Values, Unshift(v)
      PROVE  ListInv' /\ SequenceStep
  BY <1>2, UnshiftStep DEF SequenceStep, Contents!Next, Contents!PushFront
<1>3. ASSUME NEW other \in Others, AppendAll(other)
      PROVE  ListInv' /\ SequenceStep
  BY <1>3, AppendAllStep DEF SequenceStep
<1>4. ASSUME NEW other \in Others, PrependAll(other)
      PROVE  ListInv' /\ SequenceStep
  BY <1>4, PrependAllStep DEF SequenceStep
<1>5. ASSUME Pop
      PROVE  ListInv' /\ SequenceStep
  BY <1>5, PopStep DEF SequenceStep, Contents!Next, Contents!PopBack
<1>6. ASSUME Shift
      PROVE  ListInv' /\ SequenceStep
  BY <1>6, ShiftStep DEF SequenceStep, Contents!Next, Contents!PopFront
<1>7. ASSUME Destroy
      PROVE  ListInv' /\ SequenceStep
  BY <1>7, DestroyStep DEF SequenceStep, Contents!Next, Contents!Empty
<1>8. ASSUME NEW n \in Iterators, DelNode(n)
      PROVE  ListInv' /\ SequenceStep
  <2>1. PICK k \in DOMAIN Forward : n = Forward[k]
    BY DEF Iterators
  <2>2. ListInv' /\ Contents!Delete(k - 1)
    BY <1>8, <2>1, DeletedAt
  <2>3. k - 1 \in Indices
    BY <2>1, PlaceIndex
  <2> QED
    BY <2>2, <2>3 DEF SequenceStep, Contents!Next
<1>9. ASSUME NEW i \in Indices, DelAt(i)
      PROVE  ListInv' /\ [SequenceStep]_vars
  <2>1. CASE i + 1 \in DOMAIN Items
    <3>1. ListInv' /\ Contents!Delete(i)
      BY <1>9, <2>1, DeletedIndex, IndicesAreInt
    <3> QED
      BY <3>1 DEF SequenceStep, Contents!Next
  <2>2. CASE i + 1 \notin DOMAIN Items
    BY <1>9, <2>2, DelAtStep, IndicesAreInt DEF vars
  <2> QED
    BY <2>1, <2>2
<1>10. ASSUME NEW i \in Indices, ValAt(i)
      PROVE  ListInv' /\ SequenceStep
  <2>1. ListInv' /\ Contents!ReadAt(i)
    BY <1>10, ValAtStep, IndicesAreInt DEF Contents!ReadAt
  <2> QED
    BY <2>1 DEF SequenceStep, Contents!Next
<1>11. ASSUME NEW n \in Iterators \ {heap.head}, NEW v \in Values, InsertBefore(n, v)
      PROVE  ListInv' /\ SequenceStep
  <2>1. PICK k \in DOMAIN Forward : n = Forward[k]
    BY DEF Iterators
  <2>2. k > 1
    BY <2>1, AfterFirst
  <2>3. ListInv' /\ Items' = InsertAt(Items, k, v) /\ returned' = returned
    BY <1>11, <2>1, <2>2, InsertBeforeStep
  <2>4. k \in DOMAIN Items
    BY <2>1, TheOrder
  <2> QED
    BY <2>3, <2>4 DEF SequenceStep
<1> QED
  BY <1>1, <1>2, <1>3, <1>4, <1>5, <1>6, <1>7, <1>8, <1>9, <1>10, <1>11 DEF Next

\* So does a step that changes nothing.
LEMMA AnyChange ==
  ASSUME ListInv, [Next]_vars
  PROVE  ListInv' /\ [SequenceStep]_vars
<1>1. CASE UNCHANGED vars
  <2>1. Holds(heap', Items)
    BY <1>1 DEF vars, ListInv
  <2> QED
    BY <1>1, <2>1, NextItems
<1> QED
  BY <1>1, AnyStep

\* What CallsMatch says of one step.
Answered ==
  /\ \A v \in Values : (Push(v) => Contents!PushBack(v)) /\ (Unshift(v) => Contents!PushFront(v))
  /\ \A other \in Others :
       /\ AppendAll(other) => Items' = Items \o other
       /\ PrependAll(other) => Items' = Reverse(other) \o Items
  /\ Pop => IF Items = <<>> THEN returned' = Undef ELSE Contents!PopBack
  /\ Shift => IF Items = <<>> THEN returned' = Undef ELSE Contents!PopFront
  /\ Destroy => Contents!Empty
  /\ \A k \in DOMAIN Forward :
       /\ DelNode(Forward[k]) => Contents!Delete(k - 1)
       /\ \A v \in Values : k > 1 /\ InsertBefore(Forward[k], v) => Items' = InsertAt(Items, k, v)
  /\ \A i \in Indices :
       /\ ValAt(i) => Contents!ReadAt(i)
       /\ DelAt(i) => IF i + 1 \in DOMAIN Items THEN Contents!Delete(i) ELSE UNCHANGED Items

\* Each call against the sequence's call of its name.
LEMMA EachAnswered ==
  ASSUME ListInv
  PROVE  Answered
<1>1. ASSUME NEW v \in Values
      PROVE  (Push(v) => Contents!PushBack(v)) /\ (Unshift(v) => Contents!PushFront(v))
  BY PushStep, UnshiftStep DEF Contents!PushBack, Contents!PushFront
<1>2. ASSUME NEW other \in Others
      PROVE  /\ AppendAll(other) => Items' = Items \o other
             /\ PrependAll(other) => Items' = Reverse(other) \o Items
  BY AppendAllStep, PrependAllStep
<1>3. Pop => IF Items = <<>> THEN returned' = Undef ELSE Contents!PopBack
  BY PopStep DEF Contents!PopBack
<1>4. Shift => IF Items = <<>> THEN returned' = Undef ELSE Contents!PopFront
  BY ShiftStep DEF Contents!PopFront
<1>5. Destroy => Contents!Empty
  BY DestroyStep DEF Contents!Empty
<1>6. ASSUME NEW k \in DOMAIN Forward
      PROVE  /\ DelNode(Forward[k]) => Contents!Delete(k - 1)
             /\ \A v \in Values :
                  k > 1 /\ InsertBefore(Forward[k], v) => Items' = InsertAt(Items, k, v)
  BY DeletedAt, InsertBeforeStep
<1>7. ASSUME NEW i \in Indices
      PROVE  /\ ValAt(i) => Contents!ReadAt(i)
             /\ DelAt(i) => IF i + 1 \in DOMAIN Items THEN Contents!Delete(i)
                            ELSE UNCHANGED Items
  <2>1. i \in Int
    BY IndicesAreInt
  <2>2. ValAt(i) => Contents!ReadAt(i)
    BY <2>1, ValAtStep DEF Contents!ReadAt
  <2>3. DelAt(i) /\ i + 1 \in DOMAIN Items => Contents!Delete(i)
    BY <2>1, DeletedIndex
  <2>4. DelAt(i) /\ i + 1 \notin DOMAIN Items => UNCHANGED Items
    BY <2>1, DelAtStep
  <2> QED
    BY <2>2, <2>3, <2>4
<1> QED
  BY <1>1, <1>2, <1>3, <1>4, <1>5, <1>6, <1>7 DEF Answered

\* Whatever is called, no pointer to a freed node is followed (kx_list.c:129,
\* 190, 298).
THEOREM NeverDangling ==
  Spec => []NoDangling
<1>1. Init => ListInv
  BY InitItems
<1>2. ListInv /\ [Next]_vars => ListInv'
  BY AnyChange
<1>3. ListInv => NoDangling
  BY TheOrder DEF Linked, NoDangling
<1> QED
  BY <1>1, <1>2, <1>3, PTL DEF Spec

\* Both walks meet the same nodes, and these are all there are
\* (kx_list.c:57-342).
THEOREM BothWaysRound ==
  Spec => []EndsAgree
<1>1. Init => ListInv
  BY InitItems
<1>2. ListInv /\ [Next]_vars => ListInv'
  BY AnyChange
<1>3. ListInv => EndsAgree
  <2> SUFFICES ASSUME ListInv PROVE EndsAgree
    OBVIOUS
  <2>1. Walk(heap, heap.tail, "prev") = Reverse(Forward)
    BY TheOrder, WalksOf
  <2> QED
    BY <2>1, TheOrder DEF Linked, EndsAgree
<1> QED
  BY <1>1, <1>2, <1>3, PTL DEF Spec

\* The list is a sequence: every call is a step of AbstractSequence, or one of
\* the four that put several items or put one in the middle, or does nothing.
THEOREM ListIsSequence ==
  Spec => IsSequence
<1>1. Init => ListInv
  BY InitItems
<1>2. ListInv /\ [Next]_vars => ListInv' /\ [SequenceStep]_<<heap, returned>>
  BY AnyChange DEF vars
<1> QED
  BY <1>1, <1>2, PTL DEF Spec, IsSequence

\* Each call answers as the sequence's call of its name does (kx_list.c:57-342).
THEOREM ListCallsAnswered ==
  Spec => CallsMatch
<1>1. Init => ListInv
  BY InitItems
<1>2. ListInv /\ [Next]_vars => ListInv'
  BY AnyChange
<1>3. ListInv => Answered
  BY EachAnswered
<1>4. CallsMatch <=> [][Answered]_vars
  BY DEF CallsMatch, Answered
<1> QED
  BY <1>1, <1>2, <1>3, <1>4, PTL DEF Spec
===============================================================================
