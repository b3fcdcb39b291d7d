----------------------------- MODULE KxVector_proofs -----------------------------
(***************************************************************************)
(* A vector that was not made with room for one item only keeps its items  *)
(* between the ends of its pool, whatever is called, and behaves as a      *)
(* sequence if its callers check before they take out.                     *)
(***************************************************************************)
EXTENDS KxVector, TLAPS

\* What Push and the others rely on.  A pool of one word is excluded: 1.618 of
\* it is one word again.
VectorOK(s) ==
  /\ s.buffSize \in Nat \ {1} /\ s.headOffset \in Nat /\ s.length \in Int
  /\ s = [buffStart |-> s.buffStart, buffSize |-> s.buffSize,
          headOffset |-> s.headOffset, length |-> s.length]
  /\ s.buffStart \in [0 .. (s.buffSize - 1) -> Words]
  /\ s.headOffset + s.length <= s.buffSize

ItemsOf(s) == [k \in 1 .. s.length |-> s.buffStart[s.headOffset + k - 1]]

-----------------------------------------------------------------------------
\* A pool of two words or more grows.
LEMMA ResizedGrows ==
  ASSUME NEW n \in Nat, n >= 2
  PROVE  Resized(n) \in Nat /\ Resized(n) > n
BY DEF Resized

\* Setting bytes of a pool leaves it a pool.
LEMMA MemSetType ==
  ASSUME NEW n \in Nat, NEW pool \in [0 .. (n - 1) -> Words], NEW m \in Nat,
         NEW bytes \in {UndefBytes, UknBytes}
  PROVE  MemSet(pool, bytes, m) \in [0 .. (n - 1) -> Words]
BY DEF MemSet, Words

\* What the pool of a new vector holds.
LEMMA AllocType ==
  ASSUME NEW n \in Nat
  PROVE  AllocPoolWithCapacity(n) \in [0 .. (n - 1) -> Words]
<1>1. [i \in 0 .. (n - 1) |-> Zero] \in [0 .. (n - 1) -> Words]
  BY DEF Words
<1> QED
  BY <1>1, MemSetType DEF AllocPoolWithCapacity

\* Moving the items of a vector moves all of them, if the new pool has the room.
LEMMA MovedItems ==
  ASSUME NEW s, VectorOK(s), NEW n \in Nat, NEW d \in Nat
  PROVE  /\ Moved(s, n, d) \in [0 .. (n - 1) -> Words]
         /\ s.length + d <= n =>
              \A k \in 1 .. s.length : Moved(s, n, d)[d + k - 1] = s.buffStart[s.headOffset + k - 1]
<1>1. ASSUME NEW i \in 0 .. (n - 1), i >= d, i - d < s.length
      PROVE  s.buffStart[s.headOffset + i - d] \in Words
  <2>1. s.headOffset + i - d \in 0 .. (s.buffSize - 1)
    BY <1>1 DEF VectorOK
  <2> QED
    BY <2>1 DEF VectorOK
<1>2. ASSUME NEW i \in 0 .. (n - 1)
      PROVE  AllocPoolWithCapacity(n)[i] \in Words
  BY AllocType
<1>3. Moved(s, n, d) \in [0 .. (n - 1) -> Words]
  BY <1>1, <1>2 DEF Moved
<1>4. ASSUME s.length + d <= n, NEW k \in 1 .. s.length
      PROVE  Moved(s, n, d)[d + k - 1] = s.buffStart[s.headOffset + k - 1]
  <2>1. /\ d + k - 1 \in 0 .. (n - 1) /\ d + k - 1 >= d /\ d + k - 1 - d < s.length
        /\ s.headOffset + (d + k - 1) - d = s.headOffset + k - 1
    BY <1>4 DEF VectorOK
  <2> QED
    BY <2>1 DEF Moved
<1> QED
  BY <1>3, <1>4

\* After the preparation there is room for one more item, and the items are
\* the same.
LEMMA PreparedRoom ==
  ASSUME NEW s, VectorOK(s)
  PROVE  /\ VectorOK(Prepared(s)) /\ Prepared(s).length = s.length
         /\ Prepared(s).headOffset + s.length < Prepared(s).buffSize
         /\ ItemsOf(Prepared(s)) = ItemsOf(s)
<1>1. CASE s.buffSize = 0
  <2>1. Prepared(s) = [buffStart |-> AllocPoolWithCapacity(DefaultCapacity), buffSize |-> DefaultCapacity,
                       headOffset |-> s.headOffset, length |-> s.length]
    BY <1>1 DEF Prepared, VectorOK
  <2>2. DefaultCapacity \in Nat \ {0, 1} /\ s.length \in Int /\ s.headOffset \in Nat
        /\ s.headOffset + s.length <= 0
    BY <1>1, CapacityAssumption DEF VectorOK
  <2>3. VectorOK(Prepared(s))
    BY <2>1, <2>2, AllocType DEF VectorOK
  <2>4. 1 .. s.length = {}
    BY <2>2
  <2>5. ItemsOf(Prepared(s)) = ItemsOf(s)
    BY <2>1, <2>4 DEF ItemsOf
  <2> QED
    BY <2>1, <2>2, <2>3, <2>5
<1>2. CASE s.buffSize # 0 /\ SpaceLeft(s) <= 0
  <2> DEFINE n == Resized(s.buffSize)
  <2>1. n \in Nat /\ n > s.buffSize /\ n # 1
    BY <1>2, ResizedGrows DEF VectorOK
  <2>2. Prepared(s) = [buffStart |-> Moved(s, n, 0), buffSize |-> n, headOffset |-> 0,
                       length |-> s.length]
    BY <1>2 DEF Prepared, Grow
  <2>3. s.length \in Int /\ s.length <= s.buffSize /\ s.buffSize \in Nat
    BY DEF VectorOK
  <2>4. /\ Moved(s, n, 0) \in [0 .. (n - 1) -> Words]
        /\ \A k \in 1 .. s.length : Moved(s, n, 0)[0 + k - 1] = s.buffStart[s.headOffset + k - 1]
    <3> HIDE DEF n
    <3>1. s.length + 0 <= n /\ n \in Nat /\ 0 \in Nat
      BY <2>1, <2>3
    <3>2. s.length + 0 <= n =>
            \A k \in 1 .. s.length : Moved(s, n, 0)[0 + k - 1] = s.buffStart[s.headOffset + k - 1]
      BY <3>1, MovedItems
    <3>3. Moved(s, n, 0) \in [0 .. (n - 1) -> Words]
      BY <3>1, MovedItems
    <3> QED
      BY <3>1, <3>2, <3>3
  <2> HIDE DEF n
  <2>5. VectorOK(Prepared(s))
    BY <2>1, <2>2, <2>3, <2>4 DEF VectorOK
  <2>6. ItemsOf(Prepared(s)) = ItemsOf(s)
    BY <2>2, <2>4 DEF ItemsOf
  <2> QED
    BY <2>1, <2>2, <2>3, <2>5, <2>6
<1>3. CASE s.buffSize # 0 /\ ~(SpaceLeft(s) <= 0)
  <2>1. Prepared(s) = s
    BY <1>3 DEF Prepared
  <2> QED
    BY <1>3, <2>1 DEF VectorOK, SpaceLeft
<1> QED
  BY <1>1, <1>2, <1>3

-----------------------------------------------------------------------------
\* What a call relies on.
CallsOK == VectorOK(vec) /\ returned \in Words /\ fault \in BOOLEAN

\* Pushing keeps the vector well formed, and appends to what it holds.
LEMMA PushStep ==
  ASSUME CallsOK, NEW v \in Words, Push(v)
  PROVE  /\ CallsOK'
         /\ vec.length >= 0 => ~fault' /\ Items' = Append(Items, v)
<1> DEFINE s == Prepared(vec)
           slot == s.headOffset + s.length
<1>1. /\ VectorOK(s) /\ s.length = vec.length /\ slot < s.buffSize
      /\ ItemsOf(s) = Items
  BY PreparedRoom DEF CallsOK, ItemsOf, Items
<1>2. vec' = [Store(s, slot, v) EXCEPT !.length = @ + 1] /\ fault' = (slot \notin DOMAIN s.buffStart)
      /\ returned' = returned
  BY DEF Push
<1> HIDE DEF s
<1>3. /\ vec'.buffSize = s.buffSize /\ vec'.headOffset = s.headOffset
      /\ vec'.length = s.length + 1
      /\ vec' = [buffStart |-> vec'.buffStart, buffSize |-> vec'.buffSize,
                 headOffset |-> vec'.headOffset, length |-> vec'.length]
      /\ vec'.buffStart = IF slot \in 0 .. (s.buffSize - 1)
                          THEN [s.buffStart EXCEPT ![slot] = v] ELSE s.buffStart
  BY <1>1, <1>2 DEF VectorOK, Store
<1>4. vec'.buffStart \in [0 .. (s.buffSize - 1) -> Words]
  BY <1>1, <1>3 DEF VectorOK
<1>5. VectorOK(vec')
  BY <1>1, <1>3, <1>4 DEF VectorOK
<1>6. ASSUME vec.length >= 0
      PROVE  ~fault' /\ Items' = Append(Items, v)
  <2>1. slot \in 0 .. (s.buffSize - 1) /\ s.length \in Nat /\ s.headOffset \in Nat
    BY <1>1, <1>6 DEF VectorOK
  <2>2. ~fault'
    BY <1>1, <1>2, <2>1 DEF VectorOK
  <2>3. Items = [k \in 1 .. s.length |-> s.buffStart[s.headOffset + k - 1]]
    BY <1>1 DEF ItemsOf
  <2>4. Items' = [k \in 1 .. (s.length + 1) |-> vec'.buffStart[s.headOffset + k - 1]]
    BY <1>3 DEF Items
  <2>5. \A k \in 1 .. (s.length + 1) :
           vec'.buffStart[s.headOffset + k - 1] =
             IF k = s.length + 1 THEN v ELSE s.buffStart[s.headOffset + k - 1]
    BY <1>1, <1>3, <2>1 DEF VectorOK
  <2>6. Append(Items, v) = [k \in 1 .. (s.length + 1) |->
           IF k = s.length + 1 THEN v ELSE s.buffStart[s.headOffset + k - 1]]
    BY <2>1, <2>3
  <2> QED
    BY <2>2, <2>4, <2>5, <2>6
<1> QED
  BY <1>2, <1>5, <1>6 DEF CallsOK

\* So does putting an item before the others.
LEMMA UnshiftStep ==
  ASSUME CallsOK, NEW v \in Words, Unshift(v)
  PROVE  /\ CallsOK'
         /\ vec.length >= 0 => ~fault' /\ Items' = <<v>> \o Items
<1> DEFINE s == Prepared(vec)
<1>1. /\ VectorOK(s) /\ s.length = vec.length /\ s.headOffset + s.length < s.buffSize
      /\ ItemsOf(s) = Items
  BY PreparedRoom DEF CallsOK, ItemsOf, Items
<1>2. ~(SpaceLeft(s) <= 0)
  BY <1>1 DEF SpaceLeft, VectorOK
<1>3. ASSUME vec.length >= 0
      PROVE  s.length \in Nat /\ Items = [k \in 1 .. s.length |-> s.buffStart[s.headOffset + k - 1]]
             /\ <<v>> \o Items = [k \in 1 .. (s.length + 1) |->
                  IF k = 1 THEN v ELSE s.buffStart[s.headOffset + k - 2]]
  <2>1. s.length \in Nat /\ Items = [k \in 1 .. s.length |-> s.buffStart[s.headOffset + k - 1]]
    BY <1>1, <1>3 DEF VectorOK, ItemsOf
  <2>2. \A k \in 1 .. (s.length + 1) : k # 1 =>
           k - 1 \in 1 .. s.length /\ s.headOffset + (k - 1) - 1 = s.headOffset + k - 2
    BY <2>1, <1>1 DEF VectorOK
  <2>3. <<v>> \o Items = [k \in 1 .. (s.length + 1) |-> IF k = 1 THEN v ELSE Items[k - 1]]
    BY <2>1
  <2>4. \A k \in 1 .. (s.length + 1) : k # 1 => Items[k - 1] = s.buffStart[s.headOffset + k - 2]
    BY <2>1, <2>2
  <2> QED
    BY <2>1, <2>3, <2>4
<1>4. CASE s.headOffset > 0
  <2>1. /\ vec' = [Store(s, s.headOffset - 1, v) EXCEPT !.headOffset = @ - 1, !.length = @ + 1]
        /\ fault' = (s.headOffset - 1 \notin DOMAIN s.buffStart) /\ returned' = returned
    BY <1>4 DEF Unshift
  <2> HIDE DEF s
  <2>2. /\ vec'.buffSize = s.buffSize /\ vec'.headOffset = s.headOffset - 1
        /\ vec'.length = s.length + 1
        /\ vec' = [buffStart |-> vec'.buffStart, buffSize |-> vec'.buffSize,
                   headOffset |-> vec'.headOffset, length |-> vec'.length]
        /\ vec'.buffStart = IF s.headOffset - 1 \in 0 .. (s.buffSize - 1)
                            THEN [s.buffStart EXCEPT ![s.headOffset - 1] = v] ELSE s.buffStart
    BY <1>1, <2>1 DEF VectorOK, Store
  <2>3. vec'.buffStart \in [0 .. (s.buffSize - 1) -> Words]
    BY <1>1, <2>2 DEF VectorOK
  <2>4. VectorOK(vec')
    BY <1>1, <1>4, <2>2, <2>3 DEF VectorOK
  <2>5. ASSUME vec.length >= 0
        PROVE  ~fault' /\ Items' = <<v>> \o Items
    <3>1. s.headOffset - 1 \in 0 .. (s.buffSize - 1) /\ s.headOffset \in Nat
      BY <1>1, <1>3, <1>4, <2>5 DEF VectorOK
    <3>2. ~fault'
      BY <1>1, <2>1, <3>1 DEF VectorOK
    <3>3. Items' = [k \in 1 .. (s.length + 1) |-> vec'.buffStart[(s.headOffset - 1) + k - 1]]
      BY <2>2 DEF Items
    <3>4. \A k \in 1 .. (s.length + 1) : vec'.buffStart[(s.headOffset - 1) + k - 1] =
             IF k = 1 THEN v ELSE s.buffStart[s.headOffset + k - 2]
      BY <1>1, <1>3, <2>2, <2>5, <3>1 DEF VectorOK
    <3> QED
      BY <1>3, <2>5, <3>2, <3>3, <3>4
  <2> QED
    BY <2>1, <2>4, <2>5 DEF CallsOK
<1>5. CASE ~(s.headOffset > 0)
  <2> DEFINE moved == [buffStart |-> Moved(s, s.buffSize, 1), buffSize |-> s.buffSize,
                       headOffset |-> 0, length |-> s.length + 1]
  <2>1. vec' = Store(moved, 0, v) /\ fault' = (s.length >= s.buffSize) /\ returned' = returned
    BY <1>2, <1>5 DEF Unshift
  <2> HIDE DEF s
  <2>2. s.buffSize \in Nat \ {1} /\ s.headOffset = 0 /\ s.length \in Int
        /\ s.length < s.buffSize
    BY <1>1, <1>5 DEF VectorOK
  <2>3. /\ Moved(s, s.buffSize, 1) \in [0 .. (s.buffSize - 1) -> Words]
        /\ \A k \in 1 .. s.length : Moved(s, s.buffSize, 1)[1 + k - 1] = s.buffStart[s.headOffset + k - 1]
    <3>1. s.length + 1 <= s.buffSize /\ s.buffSize \in Nat /\ 1 \in Nat
      BY <2>2
    <3>2. s.length + 1 <= s.buffSize =>
            \A k \in 1 .. s.length :
              Moved(s, s.buffSize, 1)[1 + k - 1] = s.buffStart[s.headOffset + k - 1]
      BY <1>1, <3>1, MovedItems
    <3>3. Moved(s, s.buffSize, 1) \in [0 .. (s.buffSize - 1) -> Words]
      BY <1>1, <3>1, MovedItems
    <3> QED
      BY <3>1, <3>2, <3>3
  <2>4. /\ vec'.buffSize = s.buffSize /\ vec'.headOffset = 0 /\ vec'.length = s.length + 1
        /\ vec' = [buffStart |-> vec'.buffStart, buffSize |-> vec'.buffSize,
                   headOffset |-> vec'.headOffset, length |-> vec'.length]
        /\ vec'.buffStart = IF 0 \in 0 .. (s.buffSize - 1)
                            THEN [Moved(s, s.buffSize, 1) EXCEPT ![0] = v]
                            ELSE Moved(s, s.buffSize, 1)
    BY <2>1 DEF Store
  <2>5. vec'.buffStart \in [0 .. (s.buffSize - 1) -> Words]
    BY <2>2, <2>3, <2>4
  <2>6. VectorOK(vec')
    BY <2>2, <2>4, <2>5 DEF VectorOK
  <2>7. ASSUME vec.length >= 0
        PROVE  ~fault' /\ Items' = <<v>> \o Items
    <3>0. ~(s.length >= s.buffSize)
      BY <2>2
    <3>1. ~fault' /\ s.length \in Nat
      BY <1>3, <2>1, <2>7, <3>0
    <3>2. Items' = [k \in 1 .. (s.length + 1) |-> vec'.buffStart[0 + k - 1]]
      BY <2>4 DEF Items
    <3>3. \A k \in 1 .. (s.length + 1) : vec'.buffStart[0 + k - 1] =
             IF k = 1 THEN v ELSE s.buffStart[s.headOffset + k - 2]
      <4> TAKE k \in 1 .. (s.length + 1)
      <4>1. CASE k = 1
        BY <2>2, <2>3, <2>4, <3>1, <4>1
      <4>2. CASE k # 1
        <5>1. k - 1 \in 1 .. s.length /\ k - 1 \in 0 .. (s.buffSize - 1) /\ k - 1 # 0
          BY <2>2, <3>1, <4>2
        <5>2. vec'.buffStart[k - 1] = Moved(s, s.buffSize, 1)[k - 1]
          BY <2>3, <2>4, <5>1
        <5>3. Moved(s, s.buffSize, 1)[1 + (k - 1) - 1] = s.buffStart[s.headOffset + (k - 1) - 1]
          BY <2>3, <5>1
        <5>4. 1 + (k - 1) - 1 = k - 1 /\ s.headOffset + (k - 1) - 1 = s.headOffset + k - 2
              /\ 0 + k - 1 = k - 1
          BY <2>2
        <5> QED
          BY <4>2, <5>2, <5>3, <5>4
      <4> QED
        BY <4>1, <4>2
    <3> QED
      BY <1>3, <2>7, <3>1, <3>2, <3>3
  <2> QED
    BY <2>1, <2>2, <2>6, <2>7 DEF CallsOK
<1> QED
  BY <1>4, <1>5

\* Taking out the last item.  Below empty it only moves the end further down.
LEMMA PopStep ==
  ASSUME CallsOK, Pop
  PROVE  /\ CallsOK'
         /\ vec.length > 0 => ~fault' /\ Items # <<>> /\ returned' = Items[Len(Items)]
                              /\ Items' = SubSeq(Items, 1, Len(Items) - 1)
<1>1. /\ vec' = [vec EXCEPT !.length = @ - 1]
      /\ Load(vec.headOffset + vec.length - 1)
  BY DEF Pop
<1>2. /\ vec'.buffSize = vec.buffSize /\ vec'.headOffset = vec.headOffset
      /\ vec'.length = vec.length - 1 /\ vec'.buffStart = vec.buffStart
      /\ vec' = [buffStart |-> vec'.buffStart, buffSize |-> vec'.buffSize,
                 headOffset |-> vec'.headOffset, length |-> vec'.length]
  BY <1>1 DEF CallsOK, VectorOK
<1>3. VectorOK(vec')
  BY <1>2 DEF CallsOK, VectorOK
<1>4. returned' \in Words /\ fault' \in BOOLEAN
  BY <1>1 DEF CallsOK, VectorOK, Load
<1>5. ASSUME vec.length > 0
      PROVE  /\ ~fault' /\ Items # <<>> /\ returned' = Items[Len(Items)]
             /\ Items' = SubSeq(Items, 1, Len(Items) - 1)
  <2>1. /\ vec.length \in Nat \ {0} /\ vec.headOffset \in Nat /\ vec.buffSize \in Nat
        /\ vec.headOffset + vec.length - 1 \in DOMAIN vec.buffStart
    BY <1>5 DEF CallsOK, VectorOK
  <2>2. ~fault' /\ returned' = vec.buffStart[vec.headOffset + vec.length - 1]
    BY <1>1, <2>1 DEF Load
  <2>3. Items = [k \in 1 .. vec.length |-> vec.buffStart[vec.headOffset + k - 1]]
        /\ Len(Items) = vec.length
    BY <2>1 DEF Items
  <2>4. Items' = [k \in 1 .. (vec.length - 1) |-> vec.buffStart[vec.headOffset + k - 1]]
    BY <1>2 DEF Items
  <2>5. SubSeq(Items, 1, Len(Items) - 1) = [k \in 1 .. (vec.length - 1) |-> Items[k]]
    BY <2>1, <2>3
  <2>6. Items # <<>> /\ Items[vec.length] = vec.buffStart[vec.headOffset + vec.length - 1]
    BY <2>1, <2>3
  <2> QED
    BY <2>1, <2>2, <2>3, <2>4, <2>5, <2>6
<1> QED
  BY <1>3, <1>4, <1>5 DEF CallsOK

\* Taking out the first.
LEMMA ShiftStep ==
  ASSUME CallsOK, Shift
  PROVE  /\ CallsOK'
         /\ vec.length > 0 => ~fault' /\ Items # <<>> /\ returned' = Head(Items)
                              /\ Items' = Tail(Items)
<1>1. /\ vec' = [vec EXCEPT !.headOffset = @ + 1, !.length = @ - 1]
      /\ Load(vec.headOffset)
  BY DEF Shift
<1>2. /\ vec'.buffSize = vec.buffSize /\ vec'.headOffset = vec.headOffset + 1
      /\ vec'.length = vec.length - 1 /\ vec'.buffStart = vec.buffStart
      /\ vec' = [buffStart |-> vec'.buffStart, buffSize |-> vec'.buffSize,
                 headOffset |-> vec'.headOffset, length |-> vec'.length]
  BY <1>1 DEF CallsOK, VectorOK
<1>3. VectorOK(vec')
  BY <1>2 DEF CallsOK, VectorOK
<1>4. returned' \in Words /\ fault' \in BOOLEAN
  BY <1>1 DEF CallsOK, VectorOK, Load
<1>5. ASSUME vec.length > 0
      PROVE  ~fault' /\ Items # <<>> /\ returned' = Head(Items) /\ Items' = Tail(Items)
  <2>1. /\ vec.length \in Nat \ {0} /\ vec.headOffset \in Nat /\ vec.buffSize \in Nat
        /\ vec.headOffset \in DOMAIN vec.buffStart
    BY <1>5 DEF CallsOK, VectorOK
  <2>2. ~fault' /\ returned' = vec.buffStart[vec.headOffset]
    BY <1>1, <2>1 DEF Load
  <2>3. Items = [k \in 1 .. vec.length |-> vec.buffStart[vec.headOffset + k - 1]]
        /\ Len(Items) = vec.length
    BY <2>1 DEF Items
  <2>4. Items' = [k \in 1 .. (vec.length - 1) |-> vec.buffStart[(vec.headOffset + 1) + k - 1]]
    BY <1>2 DEF Items
  <2>5. Tail(Items) = [k \in 1 .. (vec.length - 1) |-> Items[k + 1]]
    BY <2>1, <2>3
  <2>6. \A k \in 1 .. (vec.length - 1) :
           Items[k + 1] = vec.buffStart[(vec.headOffset + 1) + k - 1]
    <3> TAKE k \in 1 .. (vec.length - 1)
    <3>1. k + 1 \in 1 .. vec.length
          /\ vec.headOffset + (k + 1) - 1 = (vec.headOffset + 1) + k - 1
      BY <2>1
    <3> QED
      BY <2>3, <3>1
  <2>7. Items # <<>> /\ Head(Items) = vec.buffStart[vec.headOffset]
    <3>1. 1 \in 1 .. vec.length /\ vec.headOffset + 1 - 1 = vec.headOffset
      BY <2>1
    <3>2. Items[1] = vec.buffStart[vec.headOffset]
      BY <2>3, <3>1
    <3> QED
      BY <2>1, <2>3, <3>2
  <2> QED
    BY <2>2, <2>4, <2>5, <2>6, <2>7
<1> QED
  BY <1>3, <1>4, <1>5 DEF CallsOK

\* Reading by index stays in the pool, however far below empty a vector is.
LEMMA AtIndexStep ==
  ASSUME CallsOK, NEW i \in Int, AtIndex(i)
  PROVE  /\ CallsOK' /\ ~fault' /\ Items' = Items
         /\ returned' = IF i \in 0 .. (Len(Items) - 1) THEN Items[i + 1] ELSE Undef
<1>1. vec' = vec /\ Items' = Items
  BY DEF AtIndex, Items
<1>2. CASE i < 0 \/ i >= vec.length
  <2>1. returned' = Undef /\ fault' = FALSE
    BY <1>2 DEF AtIndex
  <2>2. i \notin 0 .. (Len(Items) - 1)
    <3>1. CASE vec.length >= 0
      BY <1>2, <3>1 DEF Items, CallsOK, VectorOK
    <3>2. CASE vec.length < 0
      <4>1. 1 .. vec.length = {}
        BY <3>2 DEF CallsOK, VectorOK
      <4>2. Items = <<>>
        BY <4>1 DEF Items
      <4> QED
        BY <4>2
    <3> QED
      BY <3>1, <3>2 DEF CallsOK, VectorOK
  <2> QED
    BY <1>1, <2>1, <2>2 DEF CallsOK, Words
<1>3. CASE ~(i < 0 \/ i >= vec.length)
  <2>1. /\ vec.length \in Nat /\ vec.headOffset \in Nat /\ i \in 0 .. (vec.length - 1)
        /\ vec.headOffset + i \in DOMAIN vec.buffStart
        /\ vec.headOffset + i \in 0 .. (vec.buffSize - 1)
    BY <1>3 DEF CallsOK, VectorOK
  <2>2. returned' = vec.buffStart[vec.headOffset + i] /\ fault' = FALSE
    BY <1>3, <2>1 DEF AtIndex, Load
  <2>3. returned' \in Words
    BY <2>1, <2>2 DEF CallsOK, VectorOK
  <2>4. Items = [k \in 1 .. vec.length |-> vec.buffStart[vec.headOffset + k - 1]]
        /\ Len(Items) = vec.length
    BY <2>1 DEF Items
  <2>5. Items[i + 1] = vec.buffStart[vec.headOffset + i]
    <3>1. i + 1 \in 1 .. vec.length /\ vec.headOffset + (i + 1) - 1 = vec.headOffset + i
      BY <2>1
    <3> QED
      BY <2>4, <3>1
  <2> QED
    BY <1>1, <2>1, <2>2, <2>3, <2>4, <2>5 DEF CallsOK
<1> QED
  BY <1>2, <1>3

\* And so does writing.
LEMMA SetIndexStep ==
  ASSUME CallsOK, NEW i \in Int, NEW v \in Words, SetIndex(i, v)
  PROVE  /\ CallsOK' /\ ~fault'
         /\ vec.length >= 0 =>
              Items' = [k \in 1 .. Len(Items) |-> IF k = i + 1 THEN v ELSE Items[k]]
<1>0. vec.length >= 0 =>
        /\ Items = [k \in 1 .. vec.length |-> vec.buffStart[vec.headOffset + k - 1]]
        /\ Len(Items) = vec.length /\ vec.length \in Nat
  BY DEF CallsOK, VectorOK, Items
<1>1. CASE i < 0 \/ i >= vec.length
  <2>1. vec' = vec /\ fault' = FALSE /\ Items' = Items /\ returned' = returned
    BY <1>1 DEF SetIndex, Items
  <2>2. ASSUME vec.length >= 0
        PROVE  Items = [k \in 1 .. Len(Items) |-> IF k = i + 1 THEN v ELSE Items[k]]
    <3>1. \A k \in 1 .. vec.length : k # i + 1
      BY <1>1, <1>0, <2>2
    <3> QED
      BY <1>0, <2>2, <3>1
  <2> QED
    BY <2>1, <2>2 DEF CallsOK
<1>2. CASE ~(i < 0 \/ i >= vec.length)
  <2>1. /\ vec.length \in Nat /\ vec.headOffset \in Nat /\ i \in 0 .. (vec.length - 1)
        /\ vec.headOffset + i \in DOMAIN vec.buffStart
        /\ vec.headOffset + i \in 0 .. (vec.buffSize - 1)
    BY <1>2 DEF CallsOK, VectorOK
  <2>2. /\ vec' = [vec EXCEPT !.buffStart[vec.headOffset + i] = v]
        /\ fault' = FALSE /\ returned' = returned
    BY <1>2, <2>1 DEF SetIndex, Store
  <2>3. /\ vec'.buffSize = vec.buffSize /\ vec'.headOffset = vec.headOffset
        /\ vec'.length = vec.length
        /\ vec' = [buffStart |-> vec'.buffStart, buffSize |-> vec'.buffSize,
                   headOffset |-> vec'.headOffset, length |-> vec'.length]
        /\ vec'.buffStart = [vec.buffStart EXCEPT ![vec.headOffset + i] = v]
    BY <2>2 DEF CallsOK, VectorOK
  <2>4. VectorOK(vec')
    BY <2>1, <2>3 DEF CallsOK, VectorOK
  <2>5. Items' = [k \in 1 .. vec.length |-> vec'.buffStart[vec.headOffset + k - 1]]
    BY <2>3 DEF Items
  <2>6. \A k \in 1 .. vec.length : vec'.buffStart[vec.headOffset + k - 1] =
           IF k = i + 1 THEN v ELSE vec.buffStart[vec.headOffset + k - 1]
    BY <2>1, <2>3 DEF CallsOK, VectorOK
  <2> QED
    BY <1>0, <2>1, <2>2, <2>4, <2>5, <2>6 DEF CallsOK
<1> QED
  BY <1>1, <1>2

\* A clear empties the sequence.
LEMMA ClearStep ==
  ASSUME CallsOK, Clear
  PROVE  CallsOK' /\ ~fault' /\ Items' = <<>>
<1>1. /\ vec' = [vec EXCEPT !.length = 0, !.headOffset = 0,
                            !.buffStart = MemSet(@, UndefBytes, vec.buffSize)]
      /\ fault' = FALSE /\ returned' = returned
  BY DEF Clear
<1>2. /\ vec'.buffSize = vec.buffSize /\ vec'.headOffset = 0 /\ vec'.length = 0
      /\ vec' = [buffStart |-> vec'.buffStart, buffSize |-> vec'.buffSize,
                 headOffset |-> vec'.headOffset, length |-> vec'.length]
      /\ vec'.buffStart = MemSet(vec.buffStart, UndefBytes, vec.buffSize)
  BY <1>1 DEF CallsOK, VectorOK
<1>3. vec'.buffStart \in [0 .. (vec.buffSize - 1) -> Words]
  BY <1>2, MemSetType DEF CallsOK, VectorOK
<1>4. VectorOK(vec')
  BY <1>2, <1>3 DEF CallsOK, VectorOK
<1>5. Items' = <<>>
  BY <1>2 DEF Items
<1> QED
  BY <1>1, <1>4, <1>5 DEF CallsOK

-----------------------------------------------------------------------------
\* A call that is well defined whatever the vector holds keeps it well formed,
\* and maps to a call of the sequence.
LEMMA CallStep ==
  ASSUME CallsOK, Call
  PROVE  /\ CallsOK'
         /\ vec.length >= 0 => ~fault' /\ vec'.length >= 0 /\ Contents!Next
<1>0. Values \subseteq Words /\ -1 .. MaxLength \subseteq Int
  BY BoundAssumption DEF Words
<1>1. CASE \E v \in Values : Push(v) \/ Unshift(v)
  <2>1. PICK v \in Values : Push(v) \/ Unshift(v)
    BY <1>1
  <2>2. v \in Words
    BY <1>0
  <2>3. CallsOK' /\ returned' = returned
    BY <2>1, <2>2, PushStep, UnshiftStep DEF Push, Unshift
  <2>4. ASSUME vec.length >= 0
        PROVE  ~fault' /\ Contents!Next
    <3>1. ~fault' /\ (Items' = Append(Items, v) \/ Items' = <<v>> \o Items)
      BY <2>1, <2>2, <2>4, PushStep, UnshiftStep
    <3> QED
      BY <2>2, <2>3, <3>1 DEF Contents!Next, Contents!PushBack, Contents!PushFront
  <2>5. vec.length >= 0 => vec'.length >= 0
    <3>1. VectorOK(Prepared(vec)) /\ Prepared(vec).length = vec.length
      BY PreparedRoom DEF CallsOK
    <3>2. vec'.length = Prepared(vec).length + 1
      <4> HIDE DEF Prepared
      <4>1. CASE Push(v)
        BY <3>1, <4>1 DEF Push, Store, VectorOK
      <4>2. CASE Unshift(v)
        <5>1. CASE Prepared(vec).headOffset > 0
          BY <3>1, <4>2, <5>1 DEF Unshift, Store, VectorOK
        <5>2. CASE ~(Prepared(vec).headOffset > 0)
          BY <4>2, <5>2 DEF Unshift, Store
        <5> QED
          BY <5>1, <5>2
      <4> QED
        BY <2>1, <4>1, <4>2
    <3> QED
      BY <3>1, <3>2 DEF CallsOK, VectorOK
  <2> QED
    BY <2>3, <2>4, <2>5
<1>2. ASSUME NEW i \in -1 .. MaxLength, AtIndex(i)
      PROVE  CallsOK' /\ ~fault' /\ vec' = vec /\ Contents!Next
  <2>1. /\ CallsOK' /\ ~fault' /\ Items' = Items
        /\ returned' = IF i \in 0 .. (Len(Items) - 1) THEN Items[i + 1] ELSE Undef
    BY <1>0, <1>2, AtIndexStep
  <2>2. Contents!ReadAt(i)
    BY <2>1 DEF Contents!ReadAt
  <2> QED
    BY <1>2, <2>1, <2>2 DEF Contents!Next, AtIndex
<1>3. ASSUME NEW i \in -1 .. MaxLength, NEW v \in Values, SetIndex(i, v)
      PROVE  /\ CallsOK' /\ ~fault' /\ vec'.length = vec.length
             /\ vec.length >= 0 => Contents!Next
  <2>1. /\ CallsOK' /\ ~fault' /\ returned' = returned
        /\ vec.length >= 0 =>
             Items' = [k \in 1 .. Len(Items) |-> IF k = i + 1 THEN v ELSE Items[k]]
    BY <1>0, <1>3, SetIndexStep DEF SetIndex
  <2>2. vec.length >= 0 => Contents!Replace(i, v)
    BY <2>1 DEF Contents!Replace
  <2>3. vec'.length = vec.length
    BY <1>3 DEF SetIndex, Store, CallsOK, VectorOK
  <2> QED
    BY <1>0, <2>1, <2>2, <2>3 DEF Contents!Next
<1>4. CASE Clear
  <2>1. CallsOK' /\ ~fault' /\ Items' = <<>> /\ returned' = returned
    BY <1>4, ClearStep DEF Clear
  <2>2. Contents!Empty
    BY <2>1 DEF Contents!Empty
  <2>3. vec'.length = 0
    BY <1>4 DEF Clear, CallsOK, VectorOK
  <2> QED
    BY <2>1, <2>2, <2>3 DEF Contents!Next
<1> QED
  BY <1>1, <1>2, <1>3, <1>4 DEF Call

\* Every vector starts well formed, unless it was made for one item.
LEMMA InitOK ==
  ASSUME Init, 1 \notin Capacities \cup Sizes
  PROVE  CallsOK /\ ~fault /\ vec.length >= 0 /\ Contents!Init
<1>1. returned = Undef /\ fault = FALSE /\ returned \in Words
  BY DEF Init, Words
<1>2. CASE \E n \in Capacities : vec = InitWithCapacity(n)
  <2>1. PICK n \in Capacities : vec = InitWithCapacity(n)
    BY <1>2
  <2>2. n \in Nat \ {1} /\ AllocPoolWithCapacity(n) \in [0 .. (n - 1) -> Words]
    BY AllocType, CapacityAssumption
  <2>3. VectorOK(vec) /\ vec.length = 0
    BY <2>1, <2>2 DEF InitWithCapacity, VectorOK
  <2>4. Items = <<>>
    BY <2>3 DEF Items
  <2>5. Contents!Init
    BY <1>1, <2>4 DEF Contents!Init
  <2>6. vec.length >= 0
    BY <2>3
  <2> QED
    BY <1>1, <2>3, <2>5, <2>6 DEF CallsOK
<1>3. CASE \E n \in Sizes : vec = InitWithSize(n)
  <2>1. PICK n \in Sizes : vec = InitWithSize(n)
    BY <1>3
  <2>2. n \in Nat \ {1} /\ AllocPoolWithCapacity(n) \in [0 .. (n - 1) -> Words]
    BY AllocType, CapacityAssumption
  <2> DEFINE pool == MemSet(AllocPoolWithCapacity(n), UknBytes, n)
  <2>3. pool \in [0 .. (n - 1) -> Words]
    BY <2>2, MemSetType
  <2>4. vec = [buffStart |-> pool, buffSize |-> n, headOffset |-> 0, length |-> n]
    BY <2>1 DEF InitWithCapacity, InitWithSize
  <2>5. VectorOK(vec) /\ vec.length = n
    BY <2>2, <2>3, <2>4 DEF VectorOK
  <2>6. \A i \in 0 .. (n - 1) : pool[i] = MemSet([j \in 0 .. (n - 1) |-> Zero], UknBytes, n)[i]
    BY <2>2 DEF MemSet, AllocPoolWithCapacity
  <2>7. Items = [k \in 1 .. n |-> MemSet([j \in 0 .. (n - 1) |-> Zero], UknBytes, n)[k - 1]]
    <3>1. Items = [k \in 1 .. n |-> pool[0 + k - 1]]
      BY <2>4 DEF Items
    <3>2. \A k \in 1 .. n : 0 + k - 1 = k - 1 /\ k - 1 \in 0 .. (n - 1)
      BY <2>2
    <3> HIDE DEF pool
    <3> QED
      BY <2>6, <3>1, <3>2
  <2>8. Contents!Init
    BY <1>1, <2>7 DEF Contents!Init
  <2>9. vec.length >= 0
    BY <2>2, <2>5
  <2> QED
    BY <1>1, <2>5, <2>8, <2>9 DEF CallsOK
<1> QED
  BY <1>2, <1>3 DEF Init

-----------------------------------------------------------------------------
\* A step of any caller.
LEMMA AnyStep ==
  ASSUME CallsOK, [Next]_vars
  PROVE  CallsOK'
<1>1. CASE Call
  BY <1>1, CallStep
<1>2. CASE Pop \/ Shift
  BY <1>2, PopStep, ShiftStep
<1>3. CASE UNCHANGED vars
  BY <1>3 DEF vars, CallsOK
<1> QED
  BY <1>1, <1>2, <1>3 DEF Next

\* What a caller who checks relies on.
CheckedOK == CallsOK /\ ~fault /\ vec.length >= 0

\* A step of a caller who checks.
LEMMA CheckedStep ==
  ASSUME CheckedOK, CheckedNext
  PROVE  CheckedOK' /\ Contents!Next
<1>1. CASE Call
  BY <1>1, CallStep DEF CheckedOK
<1>2. CASE vec.length > 0 /\ Pop
  <2>1. vec'.length >= 0
    BY <1>2 DEF Pop, CheckedOK, CallsOK, VectorOK
  <2> QED
    BY <1>2, <2>1, PopStep DEF CheckedOK, Contents!Next, Contents!PopBack
<1>3. CASE vec.length > 0 /\ Shift
  <2>1. vec'.length >= 0
    BY <1>3 DEF Shift, CheckedOK, CallsOK, VectorOK
  <2> QED
    BY <1>3, <2>1, ShiftStep DEF CheckedOK, Contents!Next, Contents!PopFront
<1> QED
  BY <1>1, <1>2, <1>3 DEF CheckedNext

\* Whatever is called, and however often an empty vector is popped, the struct
\* stays well formed and what it says it holds ends in its pool.
THEOREM WindowKept ==
  ASSUME 1 \notin Capacities \cup Sizes
  PROVE  Spec => [](TypeOK /\ WindowEndsInPool)
<1>1. Init => CallsOK
  BY InitOK
<1>2. CallsOK /\ [Next]_vars => CallsOK'
  BY AnyStep
<1>3. CallsOK => TypeOK /\ WindowEndsInPool
  BY DEF CallsOK, VectorOK, TypeOK, WindowEndsInPool
<1> QED
  BY <1>1, <1>2, <1>3, PTL DEF Spec

\* So that reading and writing by index never leave the pool.
THEOREM IndexedInPool ==
  ASSUME 1 \notin Capacities \cup Sizes
  PROVE  Spec => IndexedAccessInPool
<1> DEFINE Indexed == \E i \in -1 .. MaxLength : AtIndex(i) \/ \E v \in Values : SetIndex(i, v)
<1>1. Init => CallsOK
  BY InitOK
<1>2. CallsOK /\ [Next]_vars => CallsOK'
  BY AnyStep
<1>3. CallsOK /\ [Next]_vars => [Indexed => ~fault']_vars
  <2> SUFFICES ASSUME CallsOK, Indexed PROVE ~fault'
    OBVIOUS
  <2>1. PICK i \in -1 .. MaxLength : AtIndex(i) \/ \E v \in Values : SetIndex(i, v)
    OBVIOUS
  <2>2. i \in Int
    BY BoundAssumption
  <2>3. Values \subseteq Words
    BY DEF Words
  <2> QED
    BY <2>1, <2>2, <2>3, AtIndexStep, SetIndexStep
<1> QED
  BY <1>1, <1>2, <1>3, PTL DEF Spec, IndexedAccessInPool

\* A caller who checks before taking out never makes the vector touch a word
\* outside its pool.
THEOREM CheckedInPool ==
  ASSUME 1 \notin Capacities \cup Sizes
  PROVE  CheckedSpec => []AccessInPool
<1>1. Init => CheckedOK
  BY InitOK DEF CheckedOK
<1>2. CheckedOK /\ [CheckedNext]_vars => CheckedOK'
  <2>1. CASE UNCHANGED vars
    BY <2>1 DEF vars, CheckedOK, CallsOK
  <2> QED
    BY <2>1, CheckedStep
<1>3. CheckedOK => AccessInPool
  BY DEF CheckedOK, AccessInPool
<1> QED
  BY <1>1, <1>2, <1>3, PTL DEF CheckedSpec

\* To that caller the vector is a sequence: the refinement of AbstractSequence.
THEOREM ImplementsSequence ==
  ASSUME 1 \notin Capacities \cup Sizes
  PROVE  CheckedSpec => IsSequence
<1>1. Init => CheckedOK /\ Contents!Init
  BY InitOK DEF CheckedOK
<1>2. CheckedOK /\ [CheckedNext]_vars => CheckedOK' /\ [Contents!Next]_<<Items, returned>>
  <2>1. CASE UNCHANGED vars
    BY <2>1 DEF vars, CheckedOK, CallsOK, Items
  <2> QED
    BY <2>1, CheckedStep
<1> QED
  BY <1>1, <1>2, PTL DEF CheckedSpec, IsSequence

\* Each call is the sequence's call of that name, with the same arguments.
THEOREM CallsAnswered ==
  ASSUME 1 \notin Capacities \cup Sizes
  PROVE  CheckedSpec => CallsMatch
<1> DEFINE Matches ==
      /\ \A v \in Values : (Push(v) => Contents!PushBack(v)) /\ (Unshift(v) => Contents!PushFront(v))
      /\ (Pop => Contents!PopBack) /\ (Shift => Contents!PopFront) /\ (Clear => Contents!Empty)
      /\ \A i \in -1 .. MaxLength :
           /\ AtIndex(i) => Contents!ReadAt(i)
           /\ \A v \in Values : SetIndex(i, v) => Contents!Replace(i, v)
<1>1. Init => CheckedOK
  BY InitOK DEF CheckedOK
<1>2. CheckedOK /\ [CheckedNext]_vars => CheckedOK'
  <2>1. CASE UNCHANGED vars
    BY <2>1 DEF vars, CheckedOK, CallsOK
  <2> QED
    BY <2>1, CheckedStep
<1>3. ASSUME CheckedOK, CheckedNext
      PROVE  Matches
  <2>1. CallsOK /\ vec.length >= 0 /\ vec.length \in Int /\ vec'.length >= 0
    BY <1>3, CheckedStep DEF CheckedOK, CallsOK, VectorOK
  <2>2. Values \subseteq Words /\ -1 .. MaxLength \subseteq Int
    BY BoundAssumption DEF Words
  <2>3. ASSUME NEW v \in Values, Push(v)
        PROVE  Contents!PushBack(v)
    BY <2>1, <2>2, <2>3, PushStep DEF Push, Contents!PushBack
  <2>4. ASSUME NEW v \in Values, Unshift(v)
        PROVE  Contents!PushFront(v)
    BY <2>1, <2>2, <2>4, UnshiftStep DEF Unshift, Contents!PushFront
  <2>5. ASSUME Pop
        PROVE  Contents!PopBack
    <3>1. vec.length > 0
      BY <1>3, <2>1, <2>5 DEF Pop, CheckedOK, CallsOK, VectorOK
    <3> QED
      BY <2>1, <2>5, <3>1, PopStep DEF Contents!PopBack
  <2>6. ASSUME Shift
        PROVE  Contents!PopFront
    <3>1. vec.length > 0
      BY <1>3, <2>1, <2>6 DEF Shift, CheckedOK, CallsOK, VectorOK
    <3> QED
      BY <2>1, <2>6, <3>1, ShiftStep DEF Contents!PopFront
  <2>7. ASSUME Clear
        PROVE  Contents!Empty
    BY <2>1, <2>7, ClearStep DEF Clear, Contents!Empty
  <2>8. ASSUME NEW i \in -1 .. MaxLength, AtIndex(i)
        PROVE  Contents!ReadAt(i)
    BY <2>1, <2>2, <2>8, AtIndexStep DEF Contents!ReadAt
  <2>9. ASSUME NEW i \in -1 .. MaxLength, NEW v \in Values, SetIndex(i, v)
        PROVE  Contents!Replace(i, v)
    BY <2>1, <2>2, <2>9, SetIndexStep DEF SetIndex, Contents!Replace
  <2> QED
    BY <2>3, <2>4, <2>5, <2>6, <2>7, <2>8, <2>9
<1>4. CheckedOK /\ [CheckedNext]_vars => [Matches]_vars
  BY <1>3
<1> QED
  BY <1>1, <1>2, <1>4, PTL DEF CheckedSpec, CallsMatch
================================================================================
