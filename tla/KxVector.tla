------------------------------- MODULE KxVector -------------------------------
(***************************************************************************)
(* core/container/kx_vector.c: a vector of words in a pool that grows by   *)
(* 1.618, with a gap at the head that shift leaves and unshift uses.       *)
(* `vec' is the struct, its pool a function from slot numbers.  An access  *)
(* to a slot the pool has not got is undefined behaviour: it raises        *)
(* `fault', after which there is nothing more to say of the vector.        *)
(***************************************************************************)
EXTENDS Integers, Sequences

CONSTANTS Values,           \* the words a caller stores
          Undef,            \* KX_VEC_UNDEF, the answer to an index out of range
          Ukn,              \* KX_VEC_UKN
          Capacities,       \* what InitWithCapacity is called with
          Sizes,            \* what InitWithSize is called with
          DefaultCapacity,  \* KX_VEC_DEFAULT_CAPACITY
          MaxLength,        \* bound: a vector this long is not added to
          MaxPool           \* bound: a pool is not replaced by one larger than this

ASSUME CapacityAssumption ==
  /\ Capacities \in SUBSET Nat
  /\ Sizes \in SUBSET Nat
  /\ DefaultCapacity \in Nat \ {0, 1}

ASSUME BoundAssumption == MaxLength \in Nat /\ MaxPool \in Nat

VARIABLES vec, returned, fault

vars == <<vec, returned, fault>>

\* Words of bytes 0x0e and of bytes 0x2e, and the null word.
UndefBytes == "undef bytes"
UknBytes == "ukn bytes"
Zero == "zero"

Words == Values \cup {UndefBytes, UknBytes, Zero, Undef, Ukn}

\* memset(pool, KX_VEC_UNDEF or KX_VEC_UKN, n) sets n bytes, which reach into
\* n / 8 words, rounded up.
MemSet(pool, bytes, n) ==
  [i \in DOMAIN pool |-> IF 8 * i < n THEN bytes ELSE pool[i]]

AllocPoolWithCapacity(n) == MemSet([i \in 0 .. (n - 1) |-> Zero], UndefBytes, n)

\* (int32_t)(n * KX_VEC_RESIZE_RATIO)
Resized(n) == (n * 1618) \div 1000

\* A mutant: the test of KxVector_IsFull, which leaves out the gap at the head.
SpaceLeftButGap(s) == s.buffSize - s.length

SpaceLeft(s) == s.buffSize - s.headOffset - s.length

\* A mutant: copies from the start of the pool, not from the head.
MovedFromStart(s, n, d) ==
  [i \in 0 .. (n - 1) |->
     IF i >= d /\ i - d < s.length THEN s.buffStart[i - d] ELSE AllocPoolWithCapacity(n)[i]]

\* A pool of n slots with the items of s moved to slot d and following.
Moved(s, n, d) ==
  [i \in 0 .. (n - 1) |->
     IF i >= d /\ i - d < s.length
     THEN s.buffStart[s.headOffset + i - d] ELSE AllocPoolWithCapacity(n)[i]]

Grow(s) ==
  [buffStart |-> Moved(s, Resized(s.buffSize), 0), buffSize |-> Resized(s.buffSize),
   headOffset |-> 0, length |-> s.length]

\* The first item allocates a pool; a pool used up to its end is replaced.
Prepared(s) ==
  IF s.buffSize = 0
  THEN [s EXCEPT !.buffStart = AllocPoolWithCapacity(DefaultCapacity),
                 !.buffSize = DefaultCapacity]
  ELSE IF SpaceLeft(s) <= 0 THEN Grow(s) ELSE s

-------------------------------------------------------------------------------
InitWithCapacity(n) ==
  [buffStart |-> AllocPoolWithCapacity(n), buffSize |-> n, headOffset |-> 0, length |-> 0]

InitWithSize(n) ==
  [InitWithCapacity(n) EXCEPT !.buffStart = MemSet(@, UknBytes, n), !.length = n]

Init ==
  /\ vec \in {InitWithCapacity(n) : n \in Capacities} \cup {InitWithSize(n) : n \in Sizes}
  /\ returned = Undef
  /\ fault = FALSE

\* s with v at the slot, if its pool has it.
Store(s, slot, v) ==
  IF slot \in 0 .. (s.buffSize - 1) THEN [s EXCEPT !.buffStart[slot] = v] ELSE s

\* What is read there; of a word outside the pool, anything.
Load(slot) ==
  IF slot \in DOMAIN vec.buffStart
  THEN returned' = vec.buffStart[slot] /\ fault' = FALSE
  ELSE returned' \in Words /\ fault' = TRUE

Push(v) ==
  LET s == Prepared(vec)
      slot == s.headOffset + s.length
  IN  /\ vec' = [Store(s, slot, v) EXCEPT !.length = @ + 1]
      /\ fault' = (slot \notin DOMAIN s.buffStart)
      /\ UNCHANGED returned

Pop ==
  /\ Load(vec.headOffset + vec.length - 1)
  /\ vec' = [vec EXCEPT !.length = @ - 1]

\* Uses the gap before the head, or moves everything up by one in a new pool
\* of the same size, which Prepared has made larger than what it holds.
Unshift(v) ==
  LET s == Prepared(vec)
      size == IF SpaceLeft(s) <= 0 THEN Resized(s.buffSize) ELSE s.buffSize
      moved == [buffStart |-> Moved(s, size, 1), buffSize |-> size,
                headOffset |-> 0, length |-> s.length + 1]
  IN  /\ IF s.headOffset > 0
         THEN /\ vec' = [Store(s, s.headOffset - 1, v) EXCEPT
                           !.headOffset = @ - 1, !.length = @ + 1]
              /\ fault' = (s.headOffset - 1 \notin DOMAIN s.buffStart)
         ELSE /\ vec' = Store(moved, 0, v)
              /\ fault' = (s.length >= size)
      /\ UNCHANGED returned

Shift ==
  /\ Load(vec.headOffset)
  /\ vec' = [vec EXCEPT !.headOffset = @ + 1, !.length = @ - 1]

AtIndex(i) ==
  /\ IF i < 0 \/ i >= vec.length
     THEN returned' = Undef /\ fault' = FALSE
     ELSE Load(vec.headOffset + i)
  /\ UNCHANGED vec

\* A mutant: an index counts from the start of the pool.
SetIndexOfPool(i, v) ==
  /\ IF i < 0 \/ i >= vec.length
     THEN fault' = FALSE /\ UNCHANGED vec
     ELSE /\ fault' = (i \notin DOMAIN vec.buffStart)
          /\ vec' = Store(vec, i, v)
  /\ UNCHANGED returned

SetIndex(i, v) ==
  /\ IF i < 0 \/ i >= vec.length
     THEN fault' = FALSE /\ UNCHANGED vec
     ELSE /\ fault' = (vec.headOffset + i \notin DOMAIN vec.buffStart)
          /\ vec' = Store(vec, vec.headOffset + i, v)
  /\ UNCHANGED returned

Clear ==
  /\ vec' = [vec EXCEPT !.length = 0, !.headOffset = 0,
                        !.buffStart = MemSet(@, UndefBytes, vec.buffSize)]
  /\ fault' = FALSE
  /\ UNCHANGED returned

-------------------------------------------------------------------------------
\* The calls that are well defined whatever the vector holds.
Call ==
  \/ /\ vec.length < MaxLength /\ Prepared(vec).buffSize <= MaxPool
     /\ \E v \in Values : Push(v) \/ Unshift(v)
  \/ \E i \in -1 .. MaxLength : AtIndex(i) \/ (\E v \in Values : SetIndex(i, v))
  \/ Clear

\* Callers that take an item out only where they know that there is one.
CheckedNext == ~fault /\ (Call \/ (vec.length > 0 /\ (Pop \/ Shift)))

\* The natives of the language pass pop and shift on without a test.
\* Bound: nothing more is taken out than MaxLength below empty.
Next == ~fault /\ (Call \/ (vec.length > -MaxLength /\ (Pop \/ Shift)))

CheckedSpec == Init /\ [][CheckedNext]_vars

Spec == Init /\ [][Next]_vars

-------------------------------------------------------------------------------
TypeOK ==
  /\ vec.buffSize \in Nat /\ vec.headOffset \in Nat /\ vec.length \in Int
  /\ vec = [buffStart |-> vec.buffStart, buffSize |-> vec.buffSize,
            headOffset |-> vec.headOffset, length |-> vec.length]
  /\ vec.buffStart \in [0 .. (vec.buffSize - 1) -> Words]
  /\ returned \in Words
  /\ fault \in BOOLEAN

\* No call of a caller that checks before it takes out reads or writes a word
\* outside the pool: growing, the gap at the head and the copies of unshift
\* keep the items between the ends of the pool (kx_vector.c:125, 149, 180).
AccessInPool == ~fault

\* However many more items were taken out than there were, the items that
\* length and headOffset speak of never end beyond the pool.
WindowEndsInPool == vec.headOffset + vec.length <= vec.buffSize

\* So reading and writing by index stay in the pool even after pop or shift of
\* an empty vector has made length negative (kx_vector.c:257, 267).
IndexedAccessInPool ==
  [][(\E i \in -1 .. MaxLength : AtIndex(i) \/ \E v \in Values : SetIndex(i, v)) => ~fault']_vars

\* The items in order: what the vector stands for.
Items == [k \in 1 .. vec.length |-> vec.buffStart[vec.headOffset + k - 1]]

Contents == INSTANCE AbstractSequence WITH
  Values <- Words, items <- Items, Indices <- -1 .. MaxLength,
  Initial <- {<<>>} \cup {[k \in 1 .. n |-> MemSet([i \in 0 .. (n - 1) |-> Zero], UknBytes, n)[k - 1]] :
                            n \in Sizes}

\* Pools that grow, gaps at the head and copies are invisible: a vector whose
\* callers check before they take out behaves as a sequence, and gives back
\* the items that were put in (the whole of kx_vector.c).
IsSequence == Contents!Init /\ [][Contents!Next]_<<Items, returned>>

\* Each call is the step of the sequence that it is named for, with its own
\* index and value: what is read is what was put at that index
\* (kx_vector.c:149-275).
CallsMatch ==
  [][/\ \A v \in Values : (Push(v) => Contents!PushBack(v)) /\ (Unshift(v) => Contents!PushFront(v))
     /\ (Pop => Contents!PopBack) /\ (Shift => Contents!PopFront) /\ (Clear => Contents!Empty)
     /\ \A i \in -1 .. MaxLength :
          /\ AtIndex(i) => Contents!ReadAt(i)
          /\ \A v \in Values : SetIndex(i, v) => Contents!Replace(i, v)]_vars
===============================================================================
