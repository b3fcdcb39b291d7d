--------------------------- MODULE KonReader_proofs ---------------------------
(***************************************************************************)
(* The reader's two stacks never get out of step, whatever the brackets,   *)
(* unless by the pair of a map; and where its accesses fail.               *)
(***************************************************************************)
EXTENDS KonReader, FiniteSetTheorems, SequenceTheorems, WellFoundedInduction, TLAPS

Containers == {"LIST", "BLOCK", "VECTOR", "TABLE", "PARAM", "MAP", "CELL"} \cup Wrappers
Types == Containers \cup {"KV_PAIR"}

IsBuilder(x, T) == x.type \in T /\ x = [f \in {"type", "key", "items"} |-> x[f]]

IsSequence(t) == t \in Seq(Range(t))

\* The i-th builder of a stack b and its state in a stack s.  A map waits for a
\* key but when its pair is open; only a map, a cell or a table has pairs.
Fits(b, s, T, i) ==
  /\ IsBuilder(b[i], T)
  /\ s[Place(b, i)] \in StatesOf(b, i)
  /\ b[i].type = "MAP" /\ s[Place(b, i)] # "MAP_PAIR_KEY" => i < Len(b) /\ b[i + 1].type = "KV_PAIR"
  /\ b[i].type = "KV_PAIR" => i > 1 /\ b[i - 1].type \in {"CELL", "MAP", "TABLE", "PARAM"}

InStep(b, s, T) ==
  /\ IsSequence(b) /\ IsSequence(s)
  /\ Len(s) = Place(b, Len(b)) /\ s[1] = "ROOT"
  /\ \A i \in 1 .. Len(b) : Fits(b, s, T, i)

Kinds(T) == Containers \subseteq T /\ T \subseteq Types

-----------------------------------------------------------------------------
(***************************************************************************)
(* Sequences, and the places of states.                                    *)
(***************************************************************************)
LEMMA SequencesAre ==
  ASSUME NEW S, NEW t \in Seq(S)
  PROVE  IsSequence(t)
<1>1. \A i \in 1 .. Len(t) : t[i] \in Range(t)
  BY DEF Range
<1> QED
  BY <1>1 DEF IsSequence

\* Its length is a number and its positions go up to that.
LEMMA LenIs ==
  ASSUME NEW t, IsSequence(t)
  PROVE  Len(t) \in Nat /\ DOMAIN t = 1 .. Len(t)
BY DEF IsSequence

\* What Append leaves alone, and what it adds.
LEMMA AppendTo ==
  ASSUME NEW t, IsSequence(t), NEW e
  PROVE  /\ IsSequence(Append(t, e)) /\ Len(Append(t, e)) = Len(t) + 1
         /\ \A i \in 1 .. Len(t) : Append(t, e)[i] = t[i]
         /\ Append(t, e)[Len(t) + 1] = e
         /\ Append(t, e) # <<>>
<1> DEFINE S == Range(t) \cup {e}
<1>1. t \in Seq(S) /\ e \in S
  BY DEF IsSequence
<1> HIDE DEF S
<1>2. /\ Append(t, e) \in Seq(S) /\ Len(Append(t, e)) = Len(t) + 1
      /\ \A i \in 1 .. Len(t) : Append(t, e)[i] = t[i]
      /\ Append(t, e)[Len(t) + 1] = e /\ Append(t, e) # <<>>
  BY <1>1, AppendProperties
<1> QED
  BY <1>2, SequencesAre

\* What a prefix keeps.
LEMMA PrefixOf ==
  ASSUME NEW t, IsSequence(t), NEW n \in 0 .. Len(t)
  PROVE  /\ IsSequence(SubSeq(t, 1, n)) /\ Len(SubSeq(t, 1, n)) = n
         /\ \A i \in 1 .. n : SubSeq(t, 1, n)[i] = t[i]
<1>1. t \in Seq(Range(t)) /\ Len(t) \in Nat
  BY DEF IsSequence
<1>2. /\ SubSeq(t, 1, n) \in Seq(Range(t)) /\ Len(SubSeq(t, 1, n)) = n
      /\ \A i \in 1 .. n : SubSeq(t, 1, n)[i] = t[i]
  BY <1>1
<1> QED
  BY <1>2, SequencesAre

\* What Front and Last return.
LEMMA FrontOf ==
  ASSUME NEW t, IsSequence(t), t # <<>>
  PROVE  /\ Len(t) \in Nat \ {0} /\ IsSequence(Front(t)) /\ Len(Front(t)) = Len(t) - 1
         /\ \A i \in 1 .. (Len(t) - 1) : Front(t)[i] = t[i]
         /\ Front(t) = SubSeq(t, 1, Len(t) - 1) /\ Last(t) = t[Len(t)]
<1>1. Len(t) \in Nat \ {0}
  BY DEF IsSequence
<1>2. Len(t) - 1 \in 0 .. Len(t)
  BY <1>1
<1> QED
  BY <1>1, <1>2, PrefixOf DEF Front, Last

\* A sequence with its last element replaced.
LEMMA ReplaceLast ==
  ASSUME NEW t, IsSequence(t), t # <<>>, NEW e
  PROVE  /\ IsSequence(Append(Front(t), e)) /\ Len(Append(Front(t), e)) = Len(t)
         /\ \A i \in 1 .. (Len(t) - 1) : Append(Front(t), e)[i] = t[i]
         /\ Append(Front(t), e)[Len(t)] = e
         /\ Append(Front(t), e) # <<>>
<1>1. /\ Len(t) \in Nat \ {0} /\ IsSequence(Front(t)) /\ Len(Front(t)) = Len(t) - 1
      /\ \A i \in 1 .. (Len(t) - 1) : Front(t)[i] = t[i]
  BY FrontOf
<1> DEFINE f == Front(t)
<1> HIDE DEF f
<1>2. /\ IsSequence(Append(f, e)) /\ Len(Append(f, e)) = Len(f) + 1
      /\ \A i \in 1 .. Len(f) : Append(f, e)[i] = f[i]
      /\ Append(f, e)[Len(f) + 1] = e /\ Append(f, e) # <<>>
  BY <1>1, AppendTo DEF f
<1> QED
  BY <1>1, <1>2 DEF f

\* The states of a prefix are where they were.
LEMMA PlacesSame ==
  ASSUME NEW b, NEW c, NEW i \in Nat, \A k \in 1 .. i : Shares(b, k) = Shares(c, k)
  PROVE  Place(b, i) = Place(c, i)
<1>1. {k \in 1 .. i : ~Shares(b, k)} = {k \in 1 .. i : ~Shares(c, k)}
  OBVIOUS
<1> QED
  BY <1>1 DEF Place

\* ROOT is below the state of every builder.
LEMMA PlaceFirst == ASSUME NEW b PROVE Place(b, 0) = 1
<1>1. {k \in 1 .. 0 : ~Shares(b, k)} = {}
  OBVIOUS
<1> QED
  BY <1>1, FS_EmptySet DEF Place

\* Places are positions.
LEMMA PlaceType ==
  ASSUME NEW b, NEW i \in Nat
  PROVE  /\ IsFiniteSet({k \in 1 .. i : ~Shares(b, k)}) /\ Place(b, i) \in Nat \ {0}
<1>1. IsFiniteSet(1 .. i)
  BY FS_Interval
<1>2. IsFiniteSet({k \in 1 .. i : ~Shares(b, k)})
  BY <1>1, FS_Subset
<1>3. Cardinality({k \in 1 .. i : ~Shares(b, k)}) \in Nat
  BY <1>2, FS_CardinalityType
<1> QED
  BY <1>2, <1>3 DEF Place

\* A builder has the place above the builder below it, or shares that one's.
LEMMA PlaceNext ==
  ASSUME NEW b, NEW i \in Nat
  PROVE  /\ Shares(b, i + 1) => Place(b, i + 1) = Place(b, i)
         /\ ~Shares(b, i + 1) => Place(b, i + 1) = Place(b, i) + 1
<1> DEFINE S(j) == {k \in 1 .. j : ~Shares(b, k)}
<1>1. CASE Shares(b, i + 1)
  <2>1. S(i + 1) = S(i)
    BY <1>1
  <2> QED
    BY <1>1, <2>1 DEF Place
<1>2. CASE ~Shares(b, i + 1)
  <2>1. S(i + 1) = S(i) \cup {i + 1} /\ (i + 1) \notin S(i)
    BY <1>2
  <2>2. IsFiniteSet(S(i))
    BY PlaceType
  <2> HIDE DEF S
  <2>3. Cardinality(S(i + 1)) = Cardinality(S(i)) + 1
    BY <2>1, <2>2, FS_AddElement
  <2>4. Cardinality(S(i)) \in Nat
    BY <2>2, FS_CardinalityType
  <2> QED
    BY <1>2, <2>3, <2>4 DEF Place, S
<1> QED
  BY <1>1, <1>2

\* Lower builders have lower states, but for the pair of a map.
LEMMA PlacesRise ==
  ASSUME NEW b, NEW i \in Nat, NEW j \in Nat, i <= j
  PROVE  /\ Place(b, i) <= Place(b, j)
         /\ i < j /\ ~Shares(b, j) => Place(b, i) < Place(b, j)
<1> DEFINE S(m) == {k \in 1 .. m : ~Shares(b, k)}
<1>1. S(i) \in SUBSET S(j)
  OBVIOUS
<1>2. IsFiniteSet(S(j)) /\ IsFiniteSet(S(i))
  BY PlaceType
<1>3. ASSUME i < j, ~Shares(b, j)
      PROVE  S(i) # S(j)
  <2>1. j \in S(j) /\ j \notin S(i)
    BY <1>3
  <2> QED
    BY <2>1
<1> HIDE DEF S
<1>4. Cardinality(S(i)) \in Nat /\ Cardinality(S(j)) \in Nat
  BY <1>2, FS_CardinalityType
<1>5. Cardinality(S(i)) <= Cardinality(S(j)) /\ (Cardinality(S(i)) = Cardinality(S(j)) => S(i) = S(j))
  BY <1>1, <1>2, FS_Subset
<1> QED
  BY <1>3, <1>4, <1>5 DEF Place, S

\* The two lemmas before for all builders at once.
LEMMA Places ==
  ASSUME NEW b
  PROVE  /\ \A i \in Nat : Place(b, i) \in Nat \ {0}
         /\ \A i, j \in Nat : i <= j => Place(b, i) <= Place(b, j)
         /\ \A i, j \in Nat : i < j /\ ~Shares(b, j) => Place(b, i) < Place(b, j)
<1>1. ASSUME NEW i \in Nat
      PROVE  Place(b, i) \in Nat \ {0}
  BY PlaceType
<1>2. ASSUME NEW i \in Nat, NEW j \in Nat, i <= j
      PROVE  Place(b, i) <= Place(b, j) /\ (i < j /\ ~Shares(b, j) => Place(b, i) < Place(b, j))
  BY <1>2, PlacesRise
<1> QED
  BY <1>1, <1>2

-----------------------------------------------------------------------------
(***************************************************************************)
(* What keeps the stacks in step.                                          *)
(***************************************************************************)
\* What Fits reads of the builders is their types.
LEMMA StatesSame ==
  ASSUME NEW b, NEW c, NEW i \in Nat \ {0}, b[i].type = c[i].type,
         i > 1 => b[i - 1].type = c[i - 1].type
  PROVE  StatesOf(b, i) = StatesOf(c, i) /\ Shares(b, i) = Shares(c, i)
BY DEF StatesOf, Shares

\* The types of a prefix give it its places.
LEMMA PlacesOfTypes ==
  ASSUME NEW b, NEW c, NEW n \in Nat, \A k \in 1 .. n : b[k].type = c[k].type, NEW i \in 0 .. n
  PROVE  Place(b, i) = Place(c, i)
<1>1. ASSUME NEW k \in 1 .. i
      PROVE  Shares(b, k) = Shares(c, k)
  <2>1. k \in 1 .. n /\ (k > 1 => k - 1 \in 1 .. n)
    OBVIOUS
  <2> QED
    BY <2>1, StatesSame
<1> QED
  BY <1>1, PlacesSame

\* A builder may be replaced by one of its type.
LEMMA Retyped ==
  ASSUME NEW T, NEW b, NEW s, InStep(b, s, T), NEW c, IsSequence(c), Len(c) = Len(b),
         \A i \in 1 .. Len(b) : c[i].type = b[i].type /\ IsBuilder(c[i], T)
  PROVE  InStep(c, s, T)
<1>1. Len(b) \in Nat
  BY LenIs DEF InStep
<1>2. \A i \in 0 .. Len(b) : Place(c, i) = Place(b, i)
  BY <1>1, PlacesOfTypes
<1>3. ASSUME NEW i \in 1 .. Len(b)
      PROVE  Fits(c, s, T, i)
  <2>1. Fits(b, s, T, i) /\ c[i].type = b[i].type /\ IsBuilder(c[i], T) /\ Place(c, i) = Place(b, i)
    BY <1>1, <1>2 DEF InStep
  <2>2. i > 1 => i - 1 \in 1 .. Len(b) /\ c[i - 1].type = b[i - 1].type
    BY <1>1
  <2>3. StatesOf(c, i) = StatesOf(b, i)
    BY <1>1, <2>1, <2>2, StatesSame
  <2>4. i < Len(b) => i + 1 \in 1 .. Len(b) /\ c[i + 1].type = b[i + 1].type
    BY <1>1
  <2> QED
    BY <2>1, <2>2, <2>3, <2>4 DEF Fits
<1> QED
  BY <1>1, <1>2, <1>3 DEF InStep

\* A prefix of the builders goes with the states up to the one of its last, if
\* that is no map with a pair open.
LEMMA Prefix ==
  ASSUME NEW T, NEW b, NEW s, InStep(b, s, T), NEW u \in 0 .. Len(b),
         u > 0 /\ b[u].type = "MAP" => s[Place(b, u)] = "MAP_PAIR_KEY"
  PROVE  InStep(SubSeq(b, 1, u), SubSeq(s, 1, Place(b, u)), T)
<1> DEFINE c == SubSeq(b, 1, u)
           t == SubSeq(s, 1, Place(b, u))
<1>1. Len(b) \in Nat /\ IsSequence(b) /\ IsSequence(s) /\ Len(s) = Place(b, Len(b))
  BY LenIs DEF InStep
<1>2. Place(b, u) \in Nat \ {0} /\ Place(b, u) <= Len(s) /\ Len(s) \in Nat
  <2>1. u \in Nat /\ u <= Len(b)
    BY <1>1
  <2>2. Place(b, u) \in Nat \ {0} /\ Place(b, Len(b)) \in Nat
    BY <1>1, <2>1, PlaceType
  <2>3. Place(b, u) <= Place(b, Len(b))
    BY <1>1, <2>1, Places
  <2> QED
    BY <1>1, <2>2, <2>3
<1>3. IsSequence(c) /\ Len(c) = u /\ \A i \in 1 .. u : c[i] = b[i]
  BY <1>1, PrefixOf
<1>4. IsSequence(t) /\ Len(t) = Place(b, u) /\ \A i \in 1 .. Place(b, u) : t[i] = s[i]
  <2>1. Place(b, u) \in 0 .. Len(s)
    BY <1>2
  <2> QED
    BY <1>1, <2>1, PrefixOf
<1> HIDE DEF c, t
<1>5. \A i \in 0 .. u : Place(c, i) = Place(b, i)
  <2>1. u \in Nat /\ \A k \in 1 .. u : c[k].type = b[k].type
    BY <1>1, <1>3
  <2> QED
    BY <2>1, PlacesOfTypes
<1>6. ASSUME NEW i \in 1 .. u
      PROVE  Fits(c, t, T, i)
  <2>1. i \in 1 .. Len(b) /\ i \in Nat \ {0} /\ c[i] = b[i] /\ Place(c, i) = Place(b, i)
    BY <1>1, <1>3, <1>5
  <2>2. Fits(b, s, T, i)
    BY <2>1 DEF InStep
  <2>3. Place(b, i) \in 1 .. Place(b, u)
    BY <1>1, <1>2, Places
  <2>4. t[Place(c, i)] = s[Place(b, i)]
    BY <1>4, <2>1, <2>3
  <2>5. i > 1 => c[i - 1] = b[i - 1]
    BY <1>1, <1>3
  <2>6. StatesOf(c, i) = StatesOf(b, i)
    BY <2>1, <2>5, StatesSame
  <2>7. c[i].type = "MAP" /\ t[Place(c, i)] # "MAP_PAIR_KEY" => i < u /\ c[i + 1].type = "KV_PAIR"
    <3>1. CASE i = u
      BY <2>1, <2>4, <3>1
    <3>2. CASE i < u
      <4>1. c[i + 1] = b[i + 1]
        BY <1>1, <1>3, <3>2
      <4> QED
        BY <2>1, <2>2, <2>4, <3>2, <4>1 DEF Fits
    <3> QED
      BY <1>1, <3>1, <3>2
  <2> QED
    BY <1>3, <2>1, <2>2, <2>4, <2>5, <2>6, <2>7 DEF Fits
<1>7. t[1] = "ROOT"
  BY <1>2, <1>4 DEF InStep
<1>8. Place(c, Len(c)) = Place(b, u)
  BY <1>1, <1>3, <1>5
<1>9. InStep(c, t, T)
  BY <1>3, <1>4, <1>6, <1>7, <1>8 DEF InStep
<1> QED
  BY <1>9 DEF c, t

\* The state at the top is the one of the builder at the top.
LEMMA TopIs ==
  ASSUME NEW T, NEW b, NEW s, InStep(b, s, T)
  PROVE  /\ Len(b) \in Nat /\ Len(s) \in Nat \ {0} /\ s # <<>> /\ Last(s) = s[Place(b, Len(b))]
         /\ b = <<>> => Last(s) = "ROOT" /\ Len(b) = 0
         /\ b # <<>> => /\ Len(b) \in 1 .. Len(b) /\ Last(b) = b[Len(b)]
                        /\ Fits(b, s, T, Len(b)) /\ Last(s) \in StatesOf(b, Len(b))
<1>1. Len(b) \in Nat /\ IsSequence(s) /\ Len(s) = Place(b, Len(b)) /\ s[1] = "ROOT"
  BY LenIs DEF InStep
<1>2. Len(s) \in Nat \ {0}
  BY <1>1, PlaceType
<1>3. s # <<>>
  BY <1>2
<1>4. Last(s) = s[Len(s)]
  BY DEF Last
<1>5. CASE b = <<>>
  <2>1. Len(b) = 0
    BY <1>5
  <2>2. Len(s) = 1
    BY <1>1, <2>1, PlaceFirst
  <2> QED
    BY <1>1, <1>2, <1>3, <1>4, <1>5, <2>1, <2>2
<1>6. CASE b # <<>>
  <2>1. Len(b) # 0
    BY <1>6 DEF InStep, IsSequence
  <2>2. Len(b) \in 1 .. Len(b)
    BY <1>1, <2>1
  <2>3. Fits(b, s, T, Len(b))
    BY <2>2 DEF InStep
  <2>4. Last(s) \in StatesOf(b, Len(b))
    BY <1>1, <1>4, <2>3 DEF Fits
  <2> QED
    BY <1>1, <1>2, <1>3, <1>4, <1>6, <2>2, <2>3, <2>4 DEF Last
<1> QED
  BY <1>5, <1>6

\* The builder at the top may go to another of its states.
LEMMA Restated ==
  ASSUME NEW T, NEW b, NEW s, InStep(b, s, T), b # <<>>, NEW st \in StatesOf(b, Len(b)),
         b[Len(b)].type = "MAP" => st = "MAP_PAIR_KEY"
  PROVE  InStep(b, Append(Front(s), st), T)
<1> DEFINE t == Append(Front(s), st)
           n == Len(b)
<1>1. n \in Nat \ {0} /\ IsSequence(b) /\ IsSequence(s) /\ Len(s) = Place(b, n) /\ s # <<>>
  BY TopIs DEF InStep
<1>n. n = Len(b)
  OBVIOUS
<1> HIDE DEF n
<1>2. IsSequence(t) /\ Len(t) = Len(s) /\ t[Len(s)] = st /\ \A i \in 1 .. (Len(s) - 1) : t[i] = s[i]
  BY <1>1, ReplaceLast
<1> HIDE DEF t
<1>3. Place(b, 0) = 1 /\ Place(b, n) \in Nat
  BY <1>1, PlaceFirst, PlaceType
<1>p. /\ \A i \in Nat : Place(b, i) \in Nat \ {0}
      /\ \A i, j \in Nat : i <= j => Place(b, i) <= Place(b, j)
      /\ \A i, j \in Nat : i < j /\ ~Shares(b, j) => Place(b, i) < Place(b, j)
  BY Places
<1>4. Place(b, n) > 1
  <2>1. CASE Shares(b, n)
    <3>1. n - 1 \in Nat /\ n - 1 > 0 /\ ~Shares(b, n - 1)
      BY <1>1, <2>1 DEF Shares
    <3>2. Place(b, 0) < Place(b, n - 1)
      BY <1>1, <3>1, <1>p
    <3>3. Place(b, n - 1) <= Place(b, n) /\ Place(b, n - 1) \in Nat
      BY <1>1, <3>1, <1>p
    <3> QED
      BY <1>3, <3>2, <3>3
  <2>2. CASE ~Shares(b, n)
    <3>1. Place(b, 0) < Place(b, n)
      BY <1>1, <2>2, <1>p
    <3> QED
      BY <1>3, <3>1
  <2> QED
    BY <2>1, <2>2
<1>5. t[1] = "ROOT"
  BY <1>1, <1>2, <1>3, <1>4 DEF InStep
<1>6. ASSUME NEW i \in 1 .. n
      PROVE  Fits(b, t, T, i)
  <2>1. Fits(b, s, T, i)
    BY <1>n DEF InStep
  <2>2. i \in Nat /\ Place(b, i) \in Nat \ {0} /\ Place(b, i) <= Place(b, n)
    <3>1. i \in Nat /\ i <= n
      BY <1>1
    <3> QED
      BY <1>1, <1>p, <3>1
  <2>3. CASE i = n
    BY <1>1, <1>2, <1>n, <2>1, <2>3 DEF Fits
  <2>4. CASE i < n /\ Place(b, i) < Place(b, n)
    <3>1. t[Place(b, i)] = s[Place(b, i)]
      BY <1>1, <1>2, <1>3, <2>2, <2>4
    <3> QED
      BY <2>1, <3>1 DEF Fits
  <2>5. CASE i < n /\ Place(b, i) = Place(b, n)
    <3>1. Shares(b, n)
      <4>1. ~Shares(b, n) => Place(b, i) < Place(b, n)
        BY <1>1, <1>p, <2>2, <2>5
      <4> QED
        BY <1>3, <2>2, <2>5, <4>1
    <3>2. n > 1 /\ b[n].type = "KV_PAIR" /\ b[n - 1].type = "MAP"
      BY <3>1 DEF Shares
    <3>3. i = n - 1
      <4>1. CASE i < n - 1
        <5>1. n - 1 \in Nat /\ ~Shares(b, n - 1)
          BY <1>1, <3>2 DEF Shares
        <5>2. Place(b, i) < Place(b, n - 1) /\ Place(b, n - 1) <= Place(b, n)
                /\ Place(b, n - 1) \in Nat
          BY <1>1, <2>2, <4>1, <5>1, <1>p
        <5> QED
          BY <1>3, <2>2, <2>5, <5>2
      <4> QED
        BY <1>1, <2>2, <2>5, <4>1
    <3>4. st \in PairStates
      <4>1. b[n].type # "CELL" /\ b[n].type # "MAP" /\ b[n - 1].type \in {"CELL", "MAP"}
        BY <3>2
      <4>2. StatesOf(b, n) = PairStates
        BY <1>1, <3>2, <4>1 DEF StatesOf
      <4> QED
        BY <1>n, <4>2
    <3>5. StatesOf(b, i) = PairStates
      BY <3>2, <3>3 DEF StatesOf
    <3>6. t[Place(b, i)] = st
      BY <1>1, <1>2, <2>5
    <3>7. i < Len(b) /\ b[i + 1].type = "KV_PAIR"
      BY <1>1, <1>n, <3>2, <3>3
    <3>8. b[i].type = "MAP"
      BY <3>2, <3>3
    <3> QED
      BY <2>1, <3>4, <3>5, <3>6, <3>7, <3>8 DEF Fits
  <2> QED
    BY <1>1, <1>3, <2>2, <2>3, <2>4, <2>5
<1> QED
  BY <1>1, <1>2, <1>5, <1>6, <1>n DEF InStep, t

\* A builder that shares no state is pushed with one of its states, in a map
\* when that waits for a key.
LEMMA Pushed ==
  ASSUME NEW T, NEW b, NEW s, InStep(b, s, T), NEW x, IsBuilder(x, T), NEW st,
         ~Shares(Append(b, x), Len(b) + 1), st \in StatesOf(Append(b, x), Len(b) + 1),
         x.type = "MAP" => st = "MAP_PAIR_KEY",
         x.type = "KV_PAIR" => b # <<>> /\ Last(b).type \in {"CELL", "TABLE", "PARAM"}
  PROVE  InStep(Append(b, x), Append(s, st), T)
<1> DEFINE c == Append(b, x)
           t == Append(s, st)
<1>1. Len(b) \in Nat /\ IsSequence(b) /\ IsSequence(s) /\ Len(s) = Place(b, Len(b))
        /\ Len(s) \in Nat \ {0}
  BY TopIs DEF InStep
<1>2. IsSequence(c) /\ Len(c) = Len(b) + 1 /\ \A i \in 1 .. Len(b) : c[i] = b[i]
  BY <1>1, AppendTo
<1>3. c[Len(b) + 1] = x
  BY <1>1, AppendTo
<1>4. IsSequence(t) /\ Len(t) = Len(s) + 1 /\ \A i \in 1 .. Len(s) : t[i] = s[i]
  BY <1>1, AppendTo
<1>5. t[Len(s) + 1] = st
  BY <1>1, AppendTo
<1>6. ~Shares(c, Len(b) + 1) /\ st \in StatesOf(c, Len(b) + 1)
  OBVIOUS
<1> HIDE DEF c, t
<1>7. \A i \in 0 .. Len(b) : Place(c, i) = Place(b, i)
  <2>1. \A k \in 1 .. Len(b) : c[k].type = b[k].type
    BY <1>2
  <2> QED
    BY <1>1, <2>1, PlacesOfTypes
<1>8. Place(c, Len(b)) = Len(s)
  BY <1>1, <1>7
<1>9. Place(c, Len(b) + 1) = Len(s) + 1
  BY <1>1, <1>6, <1>8, PlaceNext
<1>10. ASSUME NEW i \in 1 .. Len(b)
       PROVE  Fits(c, t, T, i)
  <2>1. Fits(b, s, T, i) /\ i \in Nat \ {0} /\ c[i] = b[i] /\ Place(c, i) = Place(b, i)
    BY <1>1, <1>2, <1>7 DEF InStep
  <2>2. i > 1 => c[i - 1] = b[i - 1]
    BY <1>1, <1>2
  <2>3. StatesOf(c, i) = StatesOf(b, i)
    BY <2>1, <2>2, StatesSame
  <2>4. Place(b, i) \in 1 .. Len(s)
    <3>1. i \in Nat /\ i <= Len(b)
      BY <1>1
    <3>2. Place(b, i) <= Place(b, Len(b)) /\ Place(b, i) \in Nat \ {0}
      BY <1>1, <3>1, Places
    <3> QED
      BY <1>1, <3>2
  <2>5. t[Place(c, i)] = s[Place(b, i)]
    BY <1>4, <2>1, <2>4
  <2>6. i < Len(b) => c[i + 1] = b[i + 1]
    BY <1>1, <1>2
  <2>7. i < Len(b) => i < Len(c)
    BY <1>1, <1>2
  <2> QED
    BY <2>1, <2>2, <2>3, <2>5, <2>6, <2>7 DEF Fits
<1>11. Fits(c, t, T, Len(b) + 1)
  <2>1. t[Place(c, Len(b) + 1)] = st
    BY <1>5, <1>9
  <2>2. ASSUME x.type = "KV_PAIR"
        PROVE  Len(b) + 1 > 1 /\ c[Len(b) + 1 - 1].type \in {"CELL", "MAP", "TABLE", "PARAM"}
    <3>1. Len(b) \in 1 .. Len(b) /\ Last(b) = b[Len(b)]
      BY <2>2, TopIs
    <3>2. c[Len(b)] = Last(b) /\ Len(b) + 1 - 1 = Len(b)
      BY <1>1, <1>2, <3>1
    <3> QED
      BY <1>1, <2>2, <3>1, <3>2
  <2> QED
    BY <1>3, <1>6, <2>1, <2>2 DEF Fits
<1>12. t[1] = "ROOT"
  <2>1. s[1] = "ROOT" /\ 1 \in 1 .. Len(s)
    BY <1>1 DEF InStep
  <2> QED
    BY <1>4, <2>1
<1>13. InStep(c, t, T)
  <2>1. \A i \in 1 .. Len(c) : Fits(c, t, T, i)
    BY <1>1, <1>2, <1>10, <1>11
  <2>2. Len(t) = Place(c, Len(c))
    BY <1>2, <1>4, <1>9
  <2> QED
    BY <1>2, <1>4, <1>12, <2>1, <2>2 DEF InStep
<1> QED
  BY <1>13 DEF c, t

\* The pair of a map is pushed without a state.
LEMMA PairPushed ==
  ASSUME NEW T, NEW b, NEW s, InStep(b, s, T), NEW x, IsBuilder(x, T), x.type = "KV_PAIR",
         b # <<>>, Last(b).type = "MAP"
  PROVE  InStep(Append(b, x), s, T)
<1> DEFINE c == Append(b, x)
<1>1. Len(b) \in Nat /\ IsSequence(b) /\ IsSequence(s) /\ Len(s) = Place(b, Len(b))
        /\ Len(s) \in Nat \ {0}
  BY TopIs DEF InStep
<1>2. IsSequence(c) /\ Len(c) = Len(b) + 1 /\ \A i \in 1 .. Len(b) : c[i] = b[i]
  BY <1>1, AppendTo
<1>3. c[Len(b) + 1] = x
  BY <1>1, AppendTo
<1> HIDE DEF c
<1>4. Len(b) \in 1 .. Len(b) /\ b[Len(b)].type = "MAP" /\ Fits(b, s, T, Len(b))
  BY TopIs
<1>5. c[Len(b)] = b[Len(b)] /\ Len(b) + 1 - 1 = Len(b) /\ Len(b) + 1 > 1
  BY <1>1, <1>2, <1>4
<1>6. Shares(c, Len(b) + 1)
  BY <1>3, <1>4, <1>5 DEF Shares
<1>7. \A i \in 0 .. Len(b) : Place(c, i) = Place(b, i)
  <2>1. \A k \in 1 .. Len(b) : c[k].type = b[k].type
    BY <1>2
  <2> QED
    BY <1>1, <2>1, PlacesOfTypes
<1>8. Place(c, Len(b)) = Len(s)
  BY <1>1, <1>7
<1>9. Place(c, Len(b) + 1) = Len(s)
  BY <1>1, <1>6, <1>8, PlaceNext
<1>10. ASSUME NEW i \in 1 .. Len(b)
       PROVE  Fits(c, s, T, i)
  <2>1. Fits(b, s, T, i) /\ i \in Nat \ {0} /\ c[i] = b[i] /\ Place(c, i) = Place(b, i)
    BY <1>1, <1>2, <1>7 DEF InStep
  <2>2. i > 1 => c[i - 1] = b[i - 1]
    BY <1>1, <1>2
  <2>3. StatesOf(c, i) = StatesOf(b, i)
    BY <2>1, <2>2, StatesSame
  <2>4. i < Len(b) => c[i + 1] = b[i + 1]
    BY <1>1, <1>2
  <2>5. i < Len(b) => i < Len(c)
    BY <1>1, <1>2
  <2> QED
    BY <2>1, <2>2, <2>3, <2>4, <2>5 DEF Fits
<1>11. Fits(c, s, T, Len(b) + 1)
  <2>1. s[Place(c, Len(b) + 1)] \in StatesOf(b, Len(b))
    BY <1>1, <1>4, <1>9 DEF Fits
  <2>2. StatesOf(b, Len(b)) = PairStates
    BY <1>4 DEF StatesOf
  <2>3. StatesOf(c, Len(b) + 1) = PairStates
    BY <1>3, <1>4, <1>5 DEF StatesOf
  <2> QED
    BY <1>3, <1>4, <1>5, <2>1, <2>2, <2>3 DEF Fits
<1>12. InStep(c, s, T)
  <2>1. \A i \in 1 .. Len(c) : Fits(c, s, T, i)
    BY <1>1, <1>2, <1>10, <1>11
  <2>2. Len(s) = Place(c, Len(c))
    BY <1>2, <1>9
  <2> QED
    BY <1>1, <1>2, <2>1, <2>2 DEF InStep
<1> QED
  BY <1>12 DEF c

-----------------------------------------------------------------------------
(***************************************************************************)
(* The operations on the stacks.                                           *)
(***************************************************************************)
IsReader(r) ==
  /\ r = [f \in {"stateStack", "builderStack", "root", "fault"} |-> r[f]]
  /\ r.fault \in BOOLEAN

Good(r, T) == IsReader(r) /\ ~r.fault /\ InStep(r.builderStack, r.stateStack, T)

\* How a token leaves the reader, unless it looked at what no branch has set.
Fine(r, T) ==
  /\ IsReader(r)
  /\ IF r.fault THEN NothingBelow(r) \/ (KeyFault(r) /\ "KV_PAIR" \in T) ELSE Good(r, T)

Faulty(r) == IsReader(r) /\ r.fault

\* What Fault changes.
LEMMA FaultIs ==
  ASSUME NEW r, IsReader(r)
  PROVE  /\ IsReader(Fault(r)) /\ Fault(r).fault /\ Fault(r).builderStack = r.builderStack
         /\ Fault(r).stateStack = r.stateStack
BY DEF Fault, IsReader

\* What SetTopState changes.
LEMMA SetTopStateIs ==
  ASSUME NEW r, IsReader(r), NEW st
  PROVE  /\ IsReader(SetTopState(r, st)) /\ SetTopState(r, st).fault = r.fault
         /\ SetTopState(r, st).builderStack = r.builderStack
         /\ SetTopState(r, st).stateStack = Append(Front(r.stateStack), st)
BY DEF SetTopState, IsReader

\* What SetTopBuilder changes.
LEMMA SetTopBuilderIs ==
  ASSUME NEW r, IsReader(r), NEW x
  PROVE  /\ IsReader(SetTopBuilder(r, x)) /\ SetTopBuilder(r, x).fault = r.fault
         /\ SetTopBuilder(r, x).builderStack = Append(Front(r.builderStack), x)
         /\ SetTopBuilder(r, x).stateStack = r.stateStack
BY DEF SetTopBuilder, IsReader

\* What Open changes.
LEMMA OpenIs ==
  ASSUME NEW r, IsReader(r), NEW type, NEW st
  PROVE  /\ IsReader(Open(r, type, st)) /\ Open(r, type, st).fault = r.fault
         /\ Open(r, type, st).builderStack = Append(r.builderStack, Builder(type))
         /\ Open(r, type, st).stateStack = Append(r.stateStack, st)
BY DEF Open, IsReader

\* What PopBuilder changes.
LEMMA PopBuilderIs ==
  ASSUME NEW r, IsReader(r)
  PROVE  /\ IsReader(PopBuilder(r)) /\ PopBuilder(r).fault = r.fault
         /\ PopBuilder(r).builderStack = Front(r.builderStack)
         /\ PopBuilder(r).stateStack = r.stateStack
BY DEF PopBuilder, IsReader

\* What PopState changes.
LEMMA PopStateIs ==
  ASSUME NEW r, IsReader(r), r.stateStack # <<>>
  PROVE  /\ IsReader(PopState(r)) /\ PopState(r).fault = r.fault
         /\ PopState(r).builderStack = r.builderStack
         /\ PopState(r).stateStack = Front(r.stateStack)
BY DEF PopState, IsReader

\* The builder at the top goes to another of its states.
LEMMA StateSet ==
  ASSUME NEW T, NEW r, Good(r, T), r.builderStack # <<>>,
         NEW st \in StatesOf(r.builderStack, Len(r.builderStack)),
         Last(r.builderStack).type = "MAP" => st = "MAP_PAIR_KEY"
  PROVE  Good(SetTopState(r, st), T) /\ SetTopState(r, st).builderStack = r.builderStack
<1>1. Last(r.builderStack) = r.builderStack[Len(r.builderStack)]
  BY DEF Last
<1>2. InStep(r.builderStack, Append(Front(r.stateStack), st), T)
  BY <1>1, Restated DEF Good
<1> QED
  BY <1>2, SetTopStateIs DEF Good

\* The builder at the top is replaced by one of its type.
LEMMA BuilderSet ==
  ASSUME NEW T, NEW r, Good(r, T), r.builderStack # <<>>, NEW x, IsBuilder(x, T),
         x.type = Last(r.builderStack).type
  PROVE  /\ Good(SetTopBuilder(r, x), T) /\ SetTopBuilder(r, x).builderStack # <<>>
         /\ Last(SetTopBuilder(r, x).builderStack) = x
         /\ Len(SetTopBuilder(r, x).builderStack) = Len(r.builderStack)
         /\ StatesOf(SetTopBuilder(r, x).builderStack, Len(r.builderStack)) =
              StatesOf(r.builderStack, Len(r.builderStack))
<1> DEFINE b == r.builderStack
           s == r.stateStack
           c == Append(Front(b), x)
<1>1. InStep(b, s, T) /\ IsSequence(b) /\ b # <<>> /\ x.type = Last(b).type
  BY DEF Good, InStep
<1>2. c = SetTopBuilder(r, x).builderStack /\ s = SetTopBuilder(r, x).stateStack
        /\ IsReader(SetTopBuilder(r, x)) /\ ~SetTopBuilder(r, x).fault
  BY SetTopBuilderIs DEF Good
<1> HIDE DEF b, s
<1>3. /\ IsSequence(c) /\ Len(c) = Len(b) /\ \A i \in 1 .. (Len(b) - 1) : c[i] = b[i]
      /\ c[Len(b)] = x /\ c # <<>>
  BY <1>1, ReplaceLast
<1> HIDE DEF c
<1>4. Len(b) \in Nat /\ Len(b) \in 1 .. Len(b) /\ Last(b) = b[Len(b)]
  BY <1>1, TopIs
<1>5. ASSUME NEW i \in 1 .. Len(b)
      PROVE  c[i].type = b[i].type /\ IsBuilder(c[i], T)
  <2>1. CASE i = Len(b)
    BY <1>1, <1>3, <1>4, <2>1
  <2>2. CASE i # Len(b)
    <3>1. c[i] = b[i]
      BY <1>3, <1>4, <2>2
    <3> QED
      BY <1>1, <3>1 DEF InStep, Fits
  <2> QED
    BY <2>1, <2>2
<1>6. InStep(c, s, T)
  BY <1>1, <1>3, <1>5, Retyped
<1>7. Last(c) = x
  BY <1>3 DEF Last
<1>8. StatesOf(c, Len(b)) = StatesOf(b, Len(b))
  <2>1. Len(b) > 1 => Len(b) - 1 \in 1 .. Len(b)
    BY <1>4
  <2>2. Len(b) \in Nat \ {0}
    BY <1>4
  <2>3. c[Len(b)].type = b[Len(b)].type /\ (Len(b) > 1 => c[Len(b) - 1].type = b[Len(b) - 1].type)
    BY <1>4, <1>5, <2>1
  <2> QED
    BY <2>2, <2>3, StatesSame
<1> QED
  BY <1>2, <1>3, <1>6, <1>7, <1>8 DEF Good, b

\* The builders from one on, none of them the pair of a map, go with their states.
LEMMA Popped ==
  ASSUME NEW T, NEW r, Good(r, T), r.builderStack # <<>>,
         ~Shares(r.builderStack, Len(r.builderStack))
  PROVE  /\ Good(PopState(PopBuilder(r)), T)
         /\ PopState(PopBuilder(r)).builderStack = Front(r.builderStack)
<1> DEFINE b == r.builderStack
           s == r.stateStack
           n == Len(b)
<1>1. InStep(b, s, T) /\ b # <<>> /\ ~Shares(b, n) /\ IsSequence(b) /\ IsSequence(s)
  BY DEF Good, InStep
<1>2. PopBuilder(r).builderStack = Front(b) /\ PopBuilder(r).stateStack = s
        /\ IsReader(PopBuilder(r)) /\ ~PopBuilder(r).fault
  BY PopBuilderIs DEF Good
<1> HIDE DEF b, s
<1>3. n \in Nat \ {0} /\ Len(s) = Place(b, n) /\ s # <<>>
  BY <1>1, TopIs DEF InStep
<1> HIDE DEF n
<1>4. Place(b, n - 1) = Place(b, n) - 1
  <2>1. n - 1 \in Nat /\ n - 1 + 1 = n
    BY <1>3
  <2>2. Place(b, n - 1) \in Nat /\ (~Shares(b, n - 1 + 1) => Place(b, n - 1 + 1) = Place(b, n - 1) + 1)
    BY <2>1, PlaceNext, PlaceType
  <2> QED
    BY <1>1, <2>1, <2>2
<1>5. n - 1 > 0 /\ b[n - 1].type = "MAP" => s[Place(b, n - 1)] = "MAP_PAIR_KEY"
  <2> SUFFICES ASSUME n - 1 > 0, b[n - 1].type = "MAP", s[Place(b, n - 1)] # "MAP_PAIR_KEY"
               PROVE  FALSE
    OBVIOUS
  <2>1. Fits(b, s, T, n - 1)
    BY <1>1, <1>3 DEF InStep, n
  <2>2. b[n - 1 + 1].type = "KV_PAIR" /\ n - 1 + 1 = n
    BY <1>3, <2>1 DEF Fits
  <2> QED
    BY <1>1, <1>3, <2>2 DEF Shares
<1>6. InStep(SubSeq(b, 1, n - 1), SubSeq(s, 1, Place(b, n - 1)), T)
  <2>1. n - 1 \in 0 .. Len(b)
    BY <1>3 DEF n
  <2> QED
    BY <1>1, <1>5, <2>1, Prefix
<1>7. Front(b) = SubSeq(b, 1, n - 1) /\ Front(s) = SubSeq(s, 1, Place(b, n - 1))
  BY <1>3, <1>4 DEF Front, n
<1>8. IsReader(PopState(PopBuilder(r))) /\ ~PopState(PopBuilder(r)).fault
        /\ PopState(PopBuilder(r)).builderStack = Front(b)
        /\ PopState(PopBuilder(r)).stateStack = Front(s)
  BY <1>2, <1>3, PopStateIs
<1> QED
  BY <1>6, <1>7, <1>8 DEF Good, b

-----------------------------------------------------------------------------
(***************************************************************************)
(* Builders keep their type, and states tell the builder at the top.       *)
(***************************************************************************)
LEMMA BuilderIs ==
  ASSUME NEW T, NEW type \in T
  PROVE  IsBuilder(Builder(type), T) /\ Builder(type).type = type
BY DEF Builder, IsBuilder

\* Writing its items keeps a builder one of its type,
LEMMA ItemsSet ==
  ASSUME NEW T, NEW x, IsBuilder(x, T), NEW items
  PROVE  IsBuilder([x EXCEPT !.items = items], T) /\ [x EXCEPT !.items = items].type = x.type
BY DEF IsBuilder

\* and so does adding an item to them,
LEMMA ItemAdded ==
  ASSUME NEW T, NEW x, IsBuilder(x, T), NEW v
  PROVE  IsBuilder(AddItem(x, v), T) /\ AddItem(x, v).type = x.type
BY ItemsSet DEF AddItem

\* writing the key of a pair,
LEMMA KeySet ==
  ASSUME NEW T, NEW x, IsBuilder(x, T), NEW name
  PROVE  IsBuilder([x EXCEPT !.key = name], T) /\ [x EXCEPT !.key = name].type = x.type
BY DEF IsBuilder

\* filling a section of a cell,
LEMMA CellKept ==
  ASSUME NEW T, NEW x, IsBuilder(x, T), NEW field, NEW taken, NEW v
  PROVE  /\ IsBuilder(CellBuilderSet(x, field, taken, v), T)
         /\ CellBuilderSet(x, field, taken, v).type = x.type
<1> DEFINE full == \E f \in taken : Last(x.items).items[f] # Undef
           opened == IF full THEN AddItem(x, Builder("CELL").items[1]) ELSE x
<1>1. IsBuilder(opened, T) /\ opened.type = x.type
  BY ItemAdded
<1> HIDE DEF opened
<1>2. CellBuilderSet(x, field, taken, v) =
        [opened EXCEPT !.items =
           [opened.items EXCEPT ![Len(opened.items)] =
              [opened.items[Len(opened.items)] EXCEPT !.items =
                 [opened.items[Len(opened.items)].items EXCEPT ![field] = v]]]]
  BY DEF CellBuilderSet, opened
<1> QED
  BY <1>1, <1>2, ItemsSet

\* putting a pair into its last section,
LEMMA CellPairKept ==
  ASSUME NEW T, NEW x, IsBuilder(x, T), NEW key, NEW v
  PROVE  IsBuilder(CellBuilderAddPair(x, key, v), T) /\ CellBuilderAddPair(x, key, v).type = x.type
BY ItemsSet DEF CellBuilderAddPair

\* and putting a value where it belongs in a cell.
LEMMA PartKept ==
  ASSUME NEW T, NEW x, IsBuilder(x, T), NEW v,
         NEW y \in {CellBuilderSetTable(x, v), CellBuilderSetList(x, v), CellBuilderSetCore(x, v)}
  PROVE  IsBuilder(y, T) /\ y.type = x.type
<1>1. y \in {CellBuilderSet(x, 2, {2, 3}, v), CellBuilderSet(x, 3, {3}, v),
             CellBuilderSet(x, 1, {1, 2, 3}, v)}
  BY DEF CellBuilderSetTable, CellBuilderSetList, CellBuilderSetCore
<1> QED
  BY <1>1, CellKept

\* The states of a pair.
LEMMA PairTop ==
  ASSUME NEW T, NEW r, Good(r, T), r.builderStack # <<>>, Last(r.builderStack).type = "KV_PAIR"
  PROVE  /\ Front(r.builderStack) # <<>> /\ "KV_PAIR" \in T
         /\ \/ /\ Last(r.stateStack) \in PairStates
               /\ StatesOf(r.builderStack, Len(r.builderStack)) = PairStates
               /\ Last(Front(r.builderStack)).type \in {"CELL", "MAP"}
            \/ /\ Last(r.stateStack) \in TablePairStates
               /\ StatesOf(r.builderStack, Len(r.builderStack)) = TablePairStates
               /\ Last(Front(r.builderStack)).type \in {"TABLE", "PARAM"}
         /\ Last(Front(r.builderStack)) = r.builderStack[Len(r.builderStack) - 1]
         /\ Shares(r.builderStack, Len(r.builderStack)) <=> Last(Front(r.builderStack)).type = "MAP"
<1> DEFINE b == r.builderStack
           s == r.stateStack
           n == Len(b)
<1>1. InStep(b, s, T) /\ b # <<>> /\ IsSequence(b) /\ Last(b).type = "KV_PAIR"
  BY DEF Good, InStep
<1> HIDE DEF b, s
<1>2. n \in Nat \ {0} /\ Fits(b, s, T, n) /\ Last(s) \in StatesOf(b, n) /\ Last(b) = b[n]
  BY <1>1, TopIs
<1>3. n > 1 /\ b[n - 1].type \in {"CELL", "MAP", "TABLE", "PARAM"} /\ b[n].type \in T
  BY <1>1, <1>2 DEF Fits, IsBuilder
<1>4. Len(Front(b)) = n - 1 /\ \A i \in 1 .. (n - 1) : Front(b)[i] = b[i]
  BY <1>1, FrontOf
<1>5. Front(b) # <<>> /\ Last(Front(b)) = b[n - 1]
  <2>1. Len(Front(b)) # 0 /\ n - 1 \in 1 .. (n - 1)
    BY <1>2, <1>3, <1>4
  <2> QED
    BY <1>4, <2>1 DEF Last
<1>6. b[n].type = "KV_PAIR"
  BY <1>1, <1>2
<1>7. StatesOf(b, n) = IF b[n - 1].type \in {"CELL", "MAP"} THEN PairStates ELSE TablePairStates
  BY <1>3, <1>6 DEF StatesOf
<1>8. Shares(b, n) <=> b[n - 1].type = "MAP"
  BY <1>3, <1>6 DEF Shares
<1> HIDE DEF n
<1>9. \/ Last(s) \in PairStates /\ StatesOf(b, n) = PairStates /\ b[n - 1].type \in {"CELL", "MAP"}
      \/ Last(s) \in TablePairStates /\ StatesOf(b, n) = TablePairStates
           /\ b[n - 1].type \in {"TABLE", "PARAM"}
  BY <1>2, <1>3, <1>7
<1> QED
  BY <1>3, <1>5, <1>6, <1>8, <1>9 DEF b, s, n

\* What the state at the top tells of the builder at the top.
LEMMA StateTells ==
  ASSUME NEW T, T \subseteq Types, NEW r, Good(r, T)
  PROVE  LET b == r.builderStack
             st == Last(r.stateStack)
         IN  /\ st \in CellStates => b # <<>> /\ Last(b).type = "CELL"
             /\ st \in {"TABLE", "PARAM"} => b # <<>> /\ Last(b).type = st
             /\ st \in PairStates =>
                  b # <<>> /\ (Last(b).type = "KV_PAIR" \/ (Last(b).type = "MAP" /\ st = "MAP_PAIR_KEY"))
             /\ st \in TablePairStates => b # <<>> /\ Last(b).type = "KV_PAIR"
<1> DEFINE b == r.builderStack
           s == r.stateStack
           n == Len(b)
           st == Last(s)
<1>1. InStep(b, s, T)
  BY DEF Good
<1> HIDE DEF b, s
<1>2. CASE b = <<>>
  <2>1. st = "ROOT"
    BY <1>1, <1>2, TopIs
  <2> QED
    BY <2>1 DEF b, s, CellStates, PairStates, TablePairStates
<1>3. CASE b # <<>>
  <2>1. Fits(b, s, T, n) /\ st \in StatesOf(b, n) /\ Last(b) = b[n] /\ st = s[Place(b, n)]
          /\ n \in Nat
    BY <1>1, <1>3, TopIs
  <2> HIDE DEF st
  <2>2. b[n].type \in Types
    BY <2>1 DEF Fits, IsBuilder
  <2>3. b[n].type = "MAP" => st = "MAP_PAIR_KEY"
    BY <2>1 DEF Fits
  <2>4. \/ b[n].type = "CELL" /\ st \in CellStates
        \/ b[n].type = "MAP" /\ st \in PairStates
        \/ b[n].type = "KV_PAIR" /\ st \in PairStates \cup TablePairStates
        \/ b[n].type \in Types \ {"CELL", "MAP", "KV_PAIR"} /\ st = b[n].type
    BY <2>1, <2>2 DEF StatesOf
  <2> DEFINE type == b[n].type
  <2>5. Last(b).type = type
    BY <2>1
  <2> HIDE DEF type
  <2>6. Wrappers = {"QUOTE", "QUASIQUOTE", "EXPAND", "UNQUOTE"}
    BY DEF Wrappers, Wrapped
  <2>7. \/ type = "CELL" /\ st \in CellStates
        \/ type = "MAP" /\ st = "MAP_PAIR_KEY"
        \/ type = "KV_PAIR" /\ st \in PairStates \cup TablePairStates
        \/ type \in {"LIST", "BLOCK", "VECTOR", "TABLE", "PARAM", "QUOTE", "QUASIQUOTE", "EXPAND", "UNQUOTE"}
             /\ st = type
    BY <2>3, <2>4, <2>6 DEF type, Types, Containers
  <2>8. /\ st \in CellStates => type = "CELL"
        /\ st \in {"TABLE", "PARAM"} => type = st
        /\ st \in PairStates => type = "KV_PAIR" \/ (type = "MAP" /\ st = "MAP_PAIR_KEY")
        /\ st \in TablePairStates => type = "KV_PAIR"
    BY <2>7 DEF CellStates, PairStates, TablePairStates
  <2> QED
    BY <1>3, <2>5, <2>8 DEF b, s, st
<1> QED
  BY <1>2, <1>3

-----------------------------------------------------------------------------
(***************************************************************************)
(* AddValueToTopBuilder on a pair.                                         *)
(***************************************************************************)
LEMMA TopBuilder ==
  ASSUME NEW T, NEW r, Good(r, T), r.builderStack # <<>>
  PROVE  IsBuilder(Last(r.builderStack), T) /\ IsReader(r) /\ r.stateStack # <<>>
<1>1. InStep(r.builderStack, r.stateStack, T)
  BY DEF Good
<1>2. Fits(r.builderStack, r.stateStack, T, Len(r.builderStack)) /\ r.stateStack # <<>>
        /\ Last(r.builderStack) = r.builderStack[Len(r.builderStack)]
  BY <1>1, TopIs
<1> QED
  BY <1>2 DEF Fits, Good

\* The two stacks are written one after the other, in either order.
LEMMA StateAfterBuilder ==
  ASSUME NEW r, IsReader(r), r.stateStack # <<>>, NEW x, NEW st
  PROVE  /\ PopState(SetTopBuilder(PopBuilder(r), x)) = SetTopBuilder(PopState(PopBuilder(r)), x)
         /\ SetTopState(SetTopBuilder(PopBuilder(r), x), st) =
              SetTopBuilder(PopBuilder(SetTopState(r, st)), x)
<1>1. PopState(SetTopBuilder(PopBuilder(r), x)) = SetTopBuilder(PopState(PopBuilder(r)), x)
  BY DEF PopState, SetTopBuilder, PopBuilder, IsReader
<1>2. SetTopState(SetTopBuilder(PopBuilder(r), x), st) =
        SetTopBuilder(PopBuilder(SetTopState(r, st)), x)
  BY DEF SetTopState, SetTopBuilder, PopBuilder, IsReader
<1> QED
  BY <1>1, <1>2

\* The key of a pair.
LEMMA KeyTaken ==
  ASSUME NEW T, NEW r, Good(r, T), r.builderStack # <<>>, Last(r.builderStack).type = "KV_PAIR",
         Last(r.stateStack) \in {"TABLE_PAIR_KEY", "MAP_PAIR_KEY"}, NEW v,
         NEW next \in StatesOf(r.builderStack, Len(r.builderStack))
  PROVE  Fine(SetPairKey(r, v, next), T)
<1> DEFINE x == [Last(r.builderStack) EXCEPT !.key = v.name]
<1>1. "KV_PAIR" \in T
  BY PairTop
<1>2. CASE SetPairKey(r, v, next) = Fault(r)
  <2>1. IsReader(r)
    BY DEF Good
  <2>2. KeyFault(Fault(r))
    BY <2>1, FaultIs DEF KeyFault
  <2> QED
    BY <1>1, <1>2, <2>1, <2>2, FaultIs DEF Fine
<1>3. CASE SetPairKey(r, v, next) = SetTopState(SetTopBuilder(r, x), next)
  <2>1. IsBuilder(x, T) /\ x.type = Last(r.builderStack).type
    BY TopBuilder, KeySet
  <2> HIDE DEF x
  <2> DEFINE q == SetTopBuilder(r, x)
  <2>2. /\ Good(q, T) /\ q.builderStack # <<>> /\ Last(q.builderStack) = x
        /\ next \in StatesOf(q.builderStack, Len(q.builderStack))
    BY <2>1, BuilderSet
  <2> HIDE DEF q
  <2>3. Good(SetTopState(q, next), T)
    BY <2>1, <2>2, StateSet
  <2>4. ~SetTopState(q, next).fault /\ IsReader(SetTopState(q, next))
    BY <2>3 DEF Good
  <2> QED
    BY <1>3, <2>3, <2>4 DEF Fine, q
<1> QED
  BY <1>2, <1>3 DEF SetPairKey

\* A pair of a table is put into it, and its state popped.
LEMMA TablePairAdded ==
  ASSUME NEW T, NEW r, Good(r, T), r.builderStack # <<>>, Last(r.builderStack).type = "KV_PAIR",
         Last(r.stateStack) \in TablePairStates, NEW v
  PROVE  Good(AddTablePair(r, v), T)
<1> DEFINE b == Front(r.builderStack)
           table == Last(b)
           x == AddItem(table, Pair(Last(r.builderStack).key, v))
           p == PopState(PopBuilder(r))
<1>1. b # <<>> /\ table.type \in {"TABLE", "PARAM"} /\ ~Shares(r.builderStack, Len(r.builderStack))
  BY PairTop DEF PairStates, TablePairStates
<1>2. Good(p, T) /\ p.builderStack = b
  BY <1>1, Popped
<1>3. IsReader(r) /\ r.stateStack # <<>> /\ PopBuilder(r).builderStack = b
  BY TopBuilder, PopBuilderIs
<1>4. AddTablePair(r, v) = PopState(SetTopBuilder(PopBuilder(r), x))
  BY <1>1, <1>3 DEF AddTablePair
<1>5. AddTablePair(r, v) = SetTopBuilder(p, x)
  BY <1>3, <1>4, StateAfterBuilder
<1> HIDE DEF p
<1>6. IsBuilder(table, T)
  BY <1>1, <1>2, TopBuilder
<1>7. IsBuilder(x, T) /\ x.type = table.type
  BY <1>6, ItemAdded
<1> HIDE DEF x, b
<1>8. Good(SetTopBuilder(p, x), T)
  BY <1>1, <1>2, <1>7, BuilderSet
<1> QED
  BY <1>5, <1>8

\* A pair of a map or cell is put into it: the state of the pair is popped with
\* it, but for a map, whose state it is.
LEMMA MapPairAdded ==
  ASSUME NEW T, NEW r, Good(r, T), r.builderStack # <<>>, Last(r.builderStack).type = "KV_PAIR",
         Last(r.stateStack) \in PairStates, NEW v
  PROVE  LET y == AddMapPair(r, v)
         IN  /\ Good(y, T) /\ y.builderStack # <<>>
             /\ Last(y.builderStack).type = Last(Front(r.builderStack)).type
<1> DEFINE b == Front(r.builderStack)
           map == Last(b)
           key == Last(r.builderStack).key
           p == PopState(PopBuilder(r))
<1>1. /\ b # <<>> /\ map.type \in {"CELL", "MAP"}
      /\ StatesOf(r.builderStack, Len(r.builderStack)) = PairStates
      /\ Shares(r.builderStack, Len(r.builderStack)) <=> map.type = "MAP"
  BY PairTop DEF PairStates, TablePairStates
<1>2. IsReader(r) /\ r.stateStack # <<>> /\ PopBuilder(r).builderStack = b
  BY TopBuilder, PopBuilderIs
<1>3. CASE map.type = "CELL"
  <2> DEFINE x == CellBuilderAddPair(map, key, v)
             q == SetTopBuilder(p, x)
  <2>1. Good(p, T) /\ p.builderStack = b
    BY <1>1, <1>3, Popped
  <2>2. IsBuilder(x, T) /\ x.type = "CELL"
    <3>1. IsBuilder(map, T)
      BY <1>1, <2>1, TopBuilder
    <3> QED
      BY <1>3, <3>1, CellPairKept
  <2>3. Len(r.stateStack) >= 2
    <3>1. p.stateStack = Front(r.stateStack)
      BY <1>2, PopBuilderIs, PopStateIs
    <3>2. Len(p.stateStack) \in Nat \ {0}
      BY <2>1, TopIs DEF Good
    <3>3. IsSequence(r.stateStack)
      BY DEF Good, InStep
    <3>4. Len(Front(r.stateStack)) = Len(r.stateStack) - 1 /\ Len(r.stateStack) \in Nat
      BY <1>2, <3>3, FrontOf
    <3>5. Len(Front(r.stateStack)) \in Nat \ {0}
      BY <3>1, <3>2
    <3> DEFINE m == Len(r.stateStack)
               k == Len(Front(r.stateStack))
    <3>6. k = m - 1 /\ m \in Nat /\ k \in Nat \ {0}
      BY <3>4, <3>5
    <3> HIDE DEF m, k
    <3>7. m >= 2
      BY <3>6
    <3> QED
      BY <3>7 DEF m
  <2>4. AddMapPair(r, v) = SetTopState(PopState(SetTopBuilder(PopBuilder(r), x)), "CELL_MAP_PAIR")
    <3>1. Len(r.stateStack) \in Nat /\ ~(Len(r.stateStack) < 2)
      BY <2>3, TopIs DEF Good
    <3> QED
      BY <1>1, <1>2, <1>3, <3>1 DEF AddMapPair
  <2>5. AddMapPair(r, v) = SetTopState(q, "CELL_MAP_PAIR")
    BY <1>2, <2>4, StateAfterBuilder
  <2> HIDE DEF p, x
  <2>6. Good(q, T) /\ q.builderStack # <<>> /\ Last(q.builderStack) = x
    BY <1>1, <1>3, <2>1, <2>2, BuilderSet
  <2> HIDE DEF q
  <2>7. "CELL_MAP_PAIR" \in StatesOf(q.builderStack, Len(q.builderStack))
    <3>1. q.builderStack[Len(q.builderStack)].type = "CELL"
      BY <2>2, <2>6 DEF Last
    <3> QED
      BY <3>1 DEF StatesOf, CellStates
  <2>8. /\ Good(SetTopState(q, "CELL_MAP_PAIR"), T)
        /\ SetTopState(q, "CELL_MAP_PAIR").builderStack = q.builderStack
    BY <2>2, <2>6, <2>7, StateSet
  <2> QED
    BY <1>3, <2>2, <2>5, <2>6, <2>8
<1>4. CASE map.type = "MAP"
  <2> DEFINE x == [map EXCEPT !.items = PutKv(@, key, v)]
             q == SetTopState(r, "MAP_PAIR_KEY")
             o == PopBuilder(q)
             n == Len(r.builderStack)
  <2>1. Good(q, T) /\ q.builderStack = r.builderStack
    BY <1>1, StateSet DEF PairStates
  <2>2. AddMapPair(r, v) = SetTopState(SetTopBuilder(PopBuilder(r), x), "MAP_PAIR_KEY")
    BY <1>1, <1>2, <1>4 DEF AddMapPair
  <2>3. AddMapPair(r, v) = SetTopBuilder(o, x)
    BY <1>2, <2>2, StateAfterBuilder
  <2>4. o.builderStack = b /\ o.stateStack = q.stateStack /\ IsReader(o) /\ ~o.fault
    BY <2>1, PopBuilderIs DEF Good
  <2> HIDE DEF o
  <2>5. q.stateStack = Append(Front(r.stateStack), "MAP_PAIR_KEY")
    BY <1>2, SetTopStateIs
  <2> HIDE DEF q
  <2>6. InStep(b, q.stateStack, T)
    <3> DEFINE c == r.builderStack
               s == q.stateStack
    <3>1. InStep(c, s, T) /\ Shares(c, n) /\ c # <<>> /\ b = Front(c)
      BY <1>1, <1>4, <2>1 DEF Good
    <3>2. n \in Nat \ {0} /\ Len(s) = Place(c, n)
      BY <3>1, TopIs DEF InStep
    <3> HIDE DEF c, s, b, n
    <3>3. n - 1 \in Nat /\ n - 1 + 1 = n
      BY <3>2
    <3>4. Place(c, n - 1) = Len(s)
      <4>1. Shares(c, n - 1 + 1) => Place(c, n - 1 + 1) = Place(c, n - 1)
        BY <3>3, PlaceNext
      <4> QED
        BY <3>1, <3>2, <3>3, <4>1
    <3>5. s[Place(c, n - 1)] = "MAP_PAIR_KEY"
      <4>1. IsSequence(r.stateStack)
        BY DEF Good, InStep
      <4>2. /\ Len(Append(Front(r.stateStack), "MAP_PAIR_KEY")) = Len(r.stateStack)
            /\ Append(Front(r.stateStack), "MAP_PAIR_KEY")[Len(r.stateStack)] = "MAP_PAIR_KEY"
        BY <1>2, <4>1, ReplaceLast
      <4> QED
        BY <2>5, <3>4, <4>2 DEF s
    <3>6. n - 1 \in 0 .. Len(c)
      BY <3>2 DEF n, c
    <3>7. InStep(SubSeq(c, 1, n - 1), SubSeq(s, 1, Place(c, n - 1)), T)
      BY <3>1, <3>5, <3>6, Prefix
    <3>8. SubSeq(s, 1, Place(c, n - 1)) = s
      <4>1. s \in Seq(Range(s))
        BY <3>1 DEF InStep, IsSequence
      <4>2. SubSeq(s, 1, Len(s)) = s
        BY <4>1
      <4> QED
        BY <3>4, <4>2
    <3>9. b = SubSeq(c, 1, n - 1)
      BY <3>1 DEF Front, n, c
    <3> QED
      BY <3>7, <3>8, <3>9 DEF s
  <2>7. Good(o, T)
    BY <2>4, <2>6 DEF Good
  <2>8. IsBuilder(map, T)
    BY <1>1, <2>4, <2>7, TopBuilder
  <2>9. IsBuilder(x, T) /\ x.type = "MAP"
    BY <1>4, <2>8, ItemsSet
  <2> HIDE DEF x
  <2>10. /\ Good(SetTopBuilder(o, x), T) /\ SetTopBuilder(o, x).builderStack # <<>>
         /\ Last(SetTopBuilder(o, x).builderStack) = x
    BY <1>1, <1>4, <2>4, <2>7, <2>9, BuilderSet
  <2> QED
    BY <1>4, <2>3, <2>9, <2>10
<1> QED
  BY <1>1, <1>3, <1>4

\* A value for the pair at the top is its key, or what its key stands for.
LEMMA AddedToPair ==
  ASSUME NEW T, NEW r, Good(r, T), r.builderStack # <<>>, Last(r.builderStack).type = "KV_PAIR", NEW v
  PROVE  Fine(AddToPair(r, v), T)
<1> DEFINE st == Last(r.stateStack)
<1>1. \/ /\ st \in PairStates
         /\ StatesOf(r.builderStack, Len(r.builderStack)) = PairStates
      \/ /\ st \in TablePairStates
         /\ StatesOf(r.builderStack, Len(r.builderStack)) = TablePairStates
  BY PairTop
<1>2. CASE st = "TABLE_PAIR_KEY"
  <2>1. "TABLE_PAIR_EQ" \in StatesOf(r.builderStack, Len(r.builderStack))
    BY <1>1, <1>2 DEF PairStates, TablePairStates
  <2>2. Fine(SetPairKey(r, v, "TABLE_PAIR_EQ"), T)
    BY <1>2, <2>1, KeyTaken
  <2> QED
    BY <1>2, <2>2 DEF AddToPair
<1>3. CASE st = "MAP_PAIR_KEY"
  <2>1. "MAP_PAIR_EQ_OR_TAG" \in StatesOf(r.builderStack, Len(r.builderStack))
    BY <1>1, <1>3 DEF PairStates, TablePairStates
  <2>2. Fine(SetPairKey(r, v, "MAP_PAIR_EQ_OR_TAG"), T)
    BY <1>3, <2>1, KeyTaken
  <2> QED
    BY <1>3, <2>2 DEF AddToPair
<1>4. CASE st \in {"TABLE_PAIR_EQ", "TABLE_PAIR_VAL"}
  <2>1. st \in TablePairStates
    BY <1>4 DEF TablePairStates
  <2>2. Good(AddTablePair(r, v), T)
    BY <2>1, TablePairAdded
  <2>3. AddToPair(r, v) = AddTablePair(r, v)
    BY <1>4 DEF AddToPair
  <2> QED
    BY <2>2, <2>3 DEF Fine, Good
<1>5. CASE st \in {"MAP_PAIR_EQ_OR_TAG", "MAP_PAIR_VAL"}
  <2>1. st \in PairStates
    BY <1>5 DEF PairStates
  <2>2. Good(AddMapPair(r, v), T)
    BY <2>1, MapPairAdded
  <2>3. AddToPair(r, v) = AddMapPair(r, v)
    BY <1>5 DEF AddToPair
  <2> QED
    BY <2>2, <2>3 DEF Fine, Good
<1> QED
  BY <1>1, <1>2, <1>3, <1>4, <1>5 DEF PairStates, TablePairStates

\* A value for the cell at the top is one of its parts, if it can be looked at.
LEMMA AddedToCell ==
  ASSUME NEW T, NEW r, Good(r, T), r.builderStack # <<>>, NEW v, v # Uninitialized
  PROVE  Good(AddToCell(r, v), T)
<1> DEFINE b == Last(r.builderStack)
<1>1. PICK y \in {CellBuilderSetTable(b, v), CellBuilderSetList(b, v), CellBuilderSetCore(b, v)} :
        AddToCell(r, v) = SetTopBuilder(r, y)
  BY DEF AddToCell
<1>2. IsBuilder(b, T)
  BY TopBuilder
<1> HIDE DEF b
<1>3. IsBuilder(y, T) /\ y.type = b.type
  BY <1>2, PartKept
<1> QED
  BY <1>1, <1>3, BuilderSet DEF b

\* A value for what is at the top, if that is no wrapper.  Only a cell looks at it.
LEMMA AddedToContainer ==
  ASSUME NEW T, NEW r, Good(r, T), NEW v
  PROVE  \/ Fine(AddToContainer(r, v), T)
         \/ /\ v = Uninitialized /\ Faulty(AddToContainer(r, v))
            /\ r.builderStack # <<>> /\ Last(r.builderStack).type = "CELL"
<1> DEFINE b == Last(r.builderStack)
<1>1. CASE r.builderStack = <<>>
  <2> DEFINE o == [r EXCEPT !.root = v]
  <2>1. AddToContainer(r, v) = o
    BY <1>1 DEF AddToContainer
  <2>2. IsReader(o) /\ o.fault = r.fault /\ o.stateStack = r.stateStack /\ o.builderStack = r.builderStack
    BY DEF Good, IsReader
  <2> QED
    BY <2>1, <2>2 DEF Fine, Good
<1>2. CASE r.builderStack # <<>> /\ b.type = "KV_PAIR"
  BY <1>2, AddedToPair DEF AddToContainer
<1>3. CASE r.builderStack # <<>> /\ b.type = "CELL"
  <2>1. AddToContainer(r, v) = AddToCell(r, v)
    BY <1>3 DEF AddToContainer
  <2>2. CASE v = Uninitialized
    <3>1. AddToCell(r, v) = Fault(r)
      BY <2>2 DEF AddToCell
    <3>2. IsReader(r)
      BY DEF Good
    <3> QED
      BY <1>3, <2>1, <2>2, <3>1, <3>2, FaultIs DEF Faulty
  <2>3. CASE v # Uninitialized
    BY <1>3, <2>1, <2>3, AddedToCell DEF Fine, Good
  <2> QED
    BY <2>2, <2>3
<1>4. CASE r.builderStack # <<>> /\ b.type \notin {"KV_PAIR", "CELL"}
  <2>1. IsBuilder(b, T)
    BY <1>4, TopBuilder
  <2>2. Good(SetTopBuilder(r, AddItem(b, v)), T)
    BY <1>4, <2>1, ItemAdded, BuilderSet
  <2>3. AddToContainer(r, v) \in {r, SetTopBuilder(r, AddItem(b, v))}
    BY <1>4 DEF AddToContainer
  <2>4. Good(AddToContainer(r, v), T)
    BY <2>2, <2>3
  <2> QED
    BY <2>4 DEF Fine, Good
<1> QED
  BY <1>1, <1>2, <1>3, <1>4

-----------------------------------------------------------------------------
(***************************************************************************)
(* The wrappers at the top.                                                *)
(***************************************************************************)
LEMMA LeastExists ==
  ASSUME NEW U \in SUBSET Nat, U # {}
  PROVE  \E m \in U : \A y \in U : m <= y
<1>1. PICK m \in U : \A y \in U : ~(<<y, m>> \in OpToRel(<, Nat))
  BY NatLessThanWellFounded, WFMin
<1>2. ASSUME NEW y \in U
      PROVE  m <= y
  <2>1. ~(y < m)
    BY <1>1 DEF OpToRel
  <2> QED
    BY <2>1
<1> QED
  BY <1>2

\* What Max returns for a set of positions.
LEMMA MaxOf ==
  ASSUME NEW n \in Nat, NEW S \in SUBSET (0 .. n), S # {}
  PROVE  Max(S) \in S /\ \A y \in S : Max(S) >= y
<1> DEFINE U == {n - x : x \in S}
<1>1. U \in SUBSET Nat
  <2> SUFFICES ASSUME NEW x \in S PROVE n - x \in Nat
    OBVIOUS
  <2> x \in 0 .. n
    OBVIOUS
  <2> QED
    OBVIOUS
<1>2. U # {}
  <2>1. PICK x : x \in S
    OBVIOUS
  <2>2. n - x \in U
    BY <2>1
  <2> QED
    BY <2>2
<1>3. PICK m \in U : \A y \in U : m <= y
  BY <1>1, <1>2, LeastExists
<1>4. PICK x \in S : m = n - x
  BY <1>3
<1>5. ASSUME NEW y \in S
      PROVE  x >= y
  <2>1. n - x <= n - y
    BY <1>3, <1>4
  <2>2. x \in 0 .. n /\ y \in 0 .. n
    OBVIOUS
  <2> QED
    BY <2>1, <2>2
<1> QED
  BY <1>5 DEF Max

\* Under finds the last builder that is no wrapper.
LEMMA UnderIs ==
  ASSUME NEW r, IsSequence(r.builderStack)
  PROVE  /\ Under(r) \in 0 .. Len(r.builderStack)
         /\ \A i \in 1 .. Len(r.builderStack) : i > Under(r) => r.builderStack[i].type \in Wrappers
<1> DEFINE b == r.builderStack
           n == Len(b)
           S == {0} \cup {i \in DOMAIN b : b[i].type \notin Wrappers}
<1>1. n \in Nat /\ DOMAIN b = 1 .. n
  BY LenIs
<1>2. S \in SUBSET (0 .. n) /\ S # {}
  BY <1>1
<1>3. Max(S) \in S /\ \A y \in S : Max(S) >= y
  BY <1>1, <1>2, MaxOf
<1>4. ASSUME NEW i \in 1 .. n, i > Max(S)
      PROVE  b[i].type \in Wrappers
  <2> SUFFICES ASSUME b[i].type \notin Wrappers PROVE FALSE
    OBVIOUS
  <2>1. i \in S
    BY <1>1
  <2>2. Max(S) \in 0 .. n
    BY <1>2, <1>3
  <2> QED
    BY <1>1, <1>3, <1>4, <2>1, <2>2
<1> QED
  BY <1>2, <1>3, <1>4 DEF Under

\* Each of the wrappers at the top has a state.
LEMMA PlacesAbove ==
  ASSUME NEW b, NEW n \in Nat, NEW u \in 0 .. n, \A i \in 1 .. n : i > u => ~Shares(b, i)
  PROVE  Place(b, n) = Place(b, u) + (n - u)
<1> DEFINE S(m) == {k \in 1 .. m : ~Shares(b, k)}
           W == (u + 1) .. n
<1>1. S(n) = S(u) \cup W /\ S(u) \cap W = {}
  OBVIOUS
<1>2. IsFiniteSet(S(u)) /\ IsFiniteSet(W) /\ Cardinality(W) = n - u
  <2>1. u \in Nat /\ u + 1 \in Int /\ n \in Int /\ u <= n
    OBVIOUS
  <2>2. IsFiniteSet(W) /\ Cardinality(W) = IF u + 1 > n THEN 0 ELSE n - (u + 1) + 1
    BY <2>1, FS_Interval
  <2>3. IsFiniteSet(S(u))
    BY <2>1, PlaceType
  <2>4. Cardinality(W) = n - u
    <3> HIDE DEF W
    <3> QED
      BY <2>1, <2>2
  <2> QED
    BY <2>2, <2>3, <2>4
<1> HIDE DEF S, W
<1>3. Cardinality(S(u) \cup W) = Cardinality(S(u)) + Cardinality(W) - Cardinality(S(u) \cap W)
  BY <1>2, FS_Union
<1>4. Cardinality(S(u) \cap W) = 0
  BY <1>1, FS_EmptySet
<1>5. Cardinality(S(u)) \in Nat
  BY <1>2, FS_CardinalityType
<1>6. Cardinality(S(n)) = Cardinality(S(u)) + (n - u)
  BY <1>1, <1>2, <1>3, <1>4, <1>5
<1> QED
  BY <1>5, <1>6 DEF Place, S

\* The wrappers go with their states.
LEMMA Exited ==
  ASSUME NEW T, NEW r, Good(r, T)
  PROVE  /\ Good(ExitWrappers(r), T)
         /\ Len(r.stateStack) > Len(r.builderStack) - Under(r)
         /\ r.builderStack # <<>> /\ Last(r.builderStack).type \notin Wrappers => ExitWrappers(r) = r
<1> DEFINE b == r.builderStack
           s == r.stateStack
           n == Len(b)
           u == Under(r)
           o == ExitWrappers(r)
<1>1. InStep(b, s, T) /\ IsSequence(b) /\ IsSequence(s)
  BY DEF Good, InStep
<1>2. n \in Nat /\ Len(s) \in Nat \ {0} /\ Len(s) = Place(b, n)
  BY <1>1, TopIs DEF InStep
<1>3. u \in 0 .. n /\ \A i \in 1 .. n : i > u => b[i].type \in Wrappers
  BY <1>1, UnderIs
<1>4. /\ IsReader(o) /\ o.fault = r.fault
      /\ o.builderStack = SubSeq(b, 1, u) /\ o.stateStack = SubSeq(s, 1, Len(s) - (n - u))
  BY DEF ExitWrappers, Good, IsReader
<1>5. b # <<>> /\ Last(b).type \notin Wrappers => o = r
  <2> SUFFICES ASSUME b # <<>>, Last(b).type \notin Wrappers PROVE o = r
    OBVIOUS
  <2>1. n \in 1 .. n /\ Last(b) = b[n]
    BY <1>1, TopIs
  <2>2. u = n
    BY <1>2, <1>3, <2>1
  <2>3. SubSeq(b, 1, n) = b /\ SubSeq(s, 1, Len(s)) = s
    <3>1. b \in Seq(Range(b)) /\ s \in Seq(Range(s))
      BY <1>1 DEF IsSequence
    <3> QED
      BY <3>1
  <2>4. o.builderStack = b /\ o.stateStack = s
    BY <1>2, <1>4, <2>2, <2>3
  <2>5. o.root = r.root
    BY DEF ExitWrappers, Good, IsReader
  <2> QED
    BY <1>4, <2>4, <2>5 DEF Good, IsReader
<1> HIDE DEF b, s, n, u, o
<1>6. ASSUME NEW i \in 1 .. n, i > u
      PROVE  ~Shares(b, i) /\ b[i].type # "KV_PAIR"
  BY <1>3, <1>6 DEF Shares, Wrappers, Wrapped
<1>7. Place(b, n) = Place(b, u) + (n - u)
  BY <1>2, <1>3, <1>6, PlacesAbove
<1>8. Place(b, u) \in Nat \ {0}
  <2>1. u \in Nat
    BY <1>3
  <2> QED
    BY <2>1, PlaceType
<1>9. Len(s) - (n - u) = Place(b, u) /\ Len(s) > n - u
  BY <1>2, <1>3, <1>7, <1>8
<1>10. u > 0 /\ b[u].type = "MAP" => s[Place(b, u)] = "MAP_PAIR_KEY"
  <2> SUFFICES ASSUME u > 0, b[u].type = "MAP", s[Place(b, u)] # "MAP_PAIR_KEY" PROVE FALSE
    OBVIOUS
  <2>1. Fits(b, s, T, u)
    <3>1. u \in 1 .. Len(b)
      BY <1>2, <1>3 DEF n
    <3> QED
      BY <1>1, <3>1 DEF InStep
  <2>2. u < Len(b) /\ b[u + 1].type = "KV_PAIR"
    BY <2>1 DEF Fits
  <2>3. u + 1 \in 1 .. n /\ u + 1 > u
    BY <1>2, <1>3, <2>2 DEF n
  <2> QED
    BY <1>6, <2>2, <2>3
<1>11. InStep(SubSeq(b, 1, u), SubSeq(s, 1, Place(b, u)), T)
  <2>1. u \in 0 .. Len(b)
    BY <1>3 DEF n
  <2> QED
    BY <1>1, <1>10, <2>1, Prefix
<1>12. Good(o, T)
  BY <1>4, <1>9, <1>11 DEF Good
<1> QED
  BY <1>5, <1>9, <1>12 DEF b, s, n, u, o

\* A wrapper around a value is there to be looked at, whatever the value is.
LEMMA WrappedIsSet ==
  ASSUME NEW r, NEW v, WrappedIn(r, v) = Uninitialized
  PROVE  v = Uninitialized
<1>1. ASSUME NEW type, NEW inner
      PROVE  Node(type, "", <<inner>>) # Uninitialized
  BY DEF Node, Uninitialized, Plain
<1> QED
  BY <1>1 DEF WrappedIn

\* A value for what is at the top, wrapper or not.
LEMMA ValueAdded ==
  ASSUME NEW T, NEW r, Good(r, T), NEW v
  PROVE  \/ Fine(AddValueToTopBuilder(r, v), T)
         \/ /\ v = Uninitialized /\ Faulty(AddValueToTopBuilder(r, v))
            /\ Last(ExitWrappers(r).builderStack).type = "CELL"
<1>1. Good(ExitWrappers(r), T) /\ Len(r.stateStack) > Len(r.builderStack) - Under(r)
  BY Exited
<1>2. Len(r.stateStack) \in Nat /\ Len(r.builderStack) - Under(r) \in Int
  <2>1. InStep(r.builderStack, r.stateStack, T)
    BY DEF Good
  <2>2. Len(r.stateStack) \in Nat /\ Len(r.builderStack) \in Nat
    BY <2>1, TopIs
  <2>3. Under(r) \in 0 .. Len(r.builderStack)
    BY <2>1, UnderIs DEF InStep
  <2> QED
    BY <2>2, <2>3
<1>3. AddValueToTopBuilder(r, v) = AddToContainer(ExitWrappers(r), WrappedIn(r, v))
  BY <1>1, <1>2 DEF AddValueToTopBuilder
<1>4. \/ Fine(AddToContainer(ExitWrappers(r), WrappedIn(r, v)), T)
      \/ /\ WrappedIn(r, v) = Uninitialized
         /\ Faulty(AddToContainer(ExitWrappers(r), WrappedIn(r, v)))
         /\ Last(ExitWrappers(r).builderStack).type = "CELL"
  BY <1>1, AddedToContainer
<1> QED
  BY <1>3, <1>4, WrappedIsSet

\* A tag or a container ends the pair whose value is due.
LEMMA PairEnded ==
  ASSUME NEW T, NEW r, Good(r, T), r.builderStack # <<>>, Last(r.builderStack).type = "KV_PAIR",
         Last(r.stateStack) \in {"MAP_PAIR_EQ_OR_TAG", "MAP_PAIR_VAL"}, NEW v
  PROVE  LET y == AddValueToTopBuilder(r, v)
         IN  /\ Good(y, T) /\ y.builderStack # <<>> /\ ~y.fault
             /\ Last(y.builderStack).type = Last(Front(r.builderStack)).type
             /\ Last(y.builderStack).type \in {"CELL", "MAP"}
<1> DEFINE w == WrappedIn(r, v)
<1>1. Last(r.builderStack).type \notin Wrappers
  BY DEF Wrappers, Wrapped
<1>2. ExitWrappers(r) = r /\ Len(r.stateStack) > Len(r.builderStack) - Under(r)
  BY <1>1, Exited
<1>3. Len(r.stateStack) \in Nat /\ Len(r.builderStack) - Under(r) \in Int
  <2>1. InStep(r.builderStack, r.stateStack, T)
    BY DEF Good
  <2>2. Len(r.stateStack) \in Nat /\ Len(r.builderStack) \in Nat
    BY <2>1, TopIs
  <2>3. Under(r) \in 0 .. Len(r.builderStack)
    BY <2>1, UnderIs DEF InStep
  <2> QED
    BY <2>2, <2>3
<1>4. AddValueToTopBuilder(r, v) = AddToContainer(r, w)
  BY <1>2, <1>3 DEF AddValueToTopBuilder
<1> HIDE DEF w
<1>5. AddToContainer(r, w) = AddMapPair(r, w)
  BY DEF AddToContainer, AddToPair
<1>6. Last(r.stateStack) \in PairStates
  BY DEF PairStates
<1>7. /\ Good(AddMapPair(r, w), T) /\ AddMapPair(r, w).builderStack # <<>>
      /\ Last(AddMapPair(r, w).builderStack).type = Last(Front(r.builderStack)).type
  BY <1>6, MapPairAdded
<1>8. Last(Front(r.builderStack)).type \in {"CELL", "MAP"}
  BY <1>6, PairTop DEF PairStates, TablePairStates
<1> QED
  BY <1>4, <1>5, <1>7, <1>8 DEF Good

\* A container or wrapper makes a value; what a pair leaves may be none.
LEMMA MadeIsSet ==
  ASSUME NEW T, T \subseteq Types, NEW b, IsBuilder(b, T), NEW u, Made(b, u) = Uninitialized
  PROVE  b.type = "KV_PAIR"
<1> SUFFICES ASSUME b.type # "KV_PAIR" PROVE FALSE
  OBVIOUS
<1>1. b.type \in Types /\ "UNINITIALIZED" \notin Types
  BY DEF IsBuilder, Types, Containers, Wrappers, Wrapped
<1>2. Made(b, u) \in {Nil, Node(b.type, "", <<Undef>>), Node(b.type, "", b.items)}
  BY DEF Made
<1>3. ASSUME NEW tag, NEW items
      PROVE  Node(tag, "", items).tag = tag
  BY DEF Node
<1>4. Uninitialized.tag = "UNINITIALIZED" /\ Made(b, u).tag \in {"NIL", b.type}
  BY <1>2, <1>3 DEF Nil, Plain, Uninitialized
<1> QED
  BY <1>1, <1>4

\* A pair of a cell is at the top.
CellPair(r) ==
  /\ r.builderStack # <<>> /\ Last(r.builderStack).type = "KV_PAIR"
  /\ Last(Front(r.builderStack)).type = "CELL"

\* The container at the top is a value of what is below it; only the leftover of
\* the pair of a cell may be looked at in vain.
LEMMA TopExited ==
  ASSUME NEW T, T \subseteq Types, NEW r, Good(r, T), r.builderStack # <<>>,
         ~Shares(r.builderStack, Len(r.builderStack)), NEW u
  PROVE  \/ Fine(ExitTopBuilder(r, u), T)
         \/ Faulty(ExitTopBuilder(r, u)) /\ CellPair(r)
<1> DEFINE b == Last(r.builderStack)
           below == PopState(PopBuilder(r))
           next == Last(below.builderStack)
<1>1. Good(below, T) /\ below.builderStack = Front(r.builderStack)
  BY Popped
<1>2. r.stateStack # <<>> /\ IsReader(r) /\ IsSequence(r.builderStack)
  BY TopBuilder DEF Good, InStep
<1> HIDE DEF below
<1>3. CASE b.type = "BLOCK" /\ below.builderStack = <<>>
  <2>1. ExitTopBuilder(r, u) = Fault(r)
    BY <1>2, <1>3 DEF ExitTopBuilder, below
  <2>2. Len(Front(r.builderStack)) = 0
    BY <1>1, <1>3
  <2>3. /\ Len(r.builderStack) \in Nat \ {0} /\ Len(Front(r.builderStack)) = Len(r.builderStack) - 1
        /\ b = r.builderStack[Len(r.builderStack)]
    BY <1>2, FrontOf
  <2>4. Len(r.builderStack) = 1
    <3> DEFINE m == Len(r.builderStack)
               k == Len(Front(r.builderStack))
    <3>1. m \in Nat \ {0} /\ k = m - 1 /\ k = 0
      BY <2>2, <2>3
    <3> HIDE DEF m, k
    <3>2. m = 1
      BY <3>1
    <3> QED
      BY <3>2 DEF m
  <2>5. NothingBelow(Fault(r))
    BY <1>2, <1>3, <2>3, <2>4, FaultIs DEF NothingBelow
  <2> QED
    BY <1>2, <2>1, <2>5, FaultIs DEF Fine
<1>4. CASE b.type = "BLOCK" /\ below.builderStack # <<>> /\ next.type = "CELL"
  <2>1. ExitTopBuilder(r, u) = SetTopBuilder(below, CellBuilderSetList(next, Made(b, u)))
    BY <1>2, <1>4 DEF ExitTopBuilder, below
  <2>2. IsBuilder(next, T)
    BY <1>1, <1>4, TopBuilder
  <2>3. /\ IsBuilder(CellBuilderSetList(next, Made(b, u)), T)
        /\ CellBuilderSetList(next, Made(b, u)).type = next.type
    BY <2>2, PartKept
  <2>4. Good(ExitTopBuilder(r, u), T)
    BY <1>1, <1>4, <2>1, <2>3, BuilderSet
  <2> QED
    BY <2>4 DEF Fine, Good
<1>5. CASE ~(b.type = "BLOCK" /\ (below.builderStack = <<>> \/ next.type = "CELL"))
  <2> DEFINE v == Made(b, u)
  <2>1. ExitTopBuilder(r, u) = AddValueToTopBuilder(below, v)
    BY <1>2, <1>5 DEF ExitTopBuilder, below
  <2>2. v = Uninitialized => b.type = "KV_PAIR"
    BY TopBuilder, MadeIsSet
  <2> HIDE DEF v
  <2>3. \/ Fine(AddValueToTopBuilder(below, v), T)
        \/ /\ v = Uninitialized /\ Faulty(AddValueToTopBuilder(below, v))
           /\ Last(ExitWrappers(below).builderStack).type = "CELL"
    BY <1>1, ValueAdded
  <2>4. b.type = "KV_PAIR" => ExitWrappers(below) = below
    <3>1. b.type = "KV_PAIR" =>
            below.builderStack # <<>> /\ Last(below.builderStack).type \in {"CELL", "MAP", "TABLE", "PARAM"}
      BY <1>1, PairTop
    <3>2. Wrappers \cap {"CELL", "MAP", "TABLE", "PARAM"} = {}
      BY DEF Wrappers, Wrapped
    <3> QED
      BY <1>1, <3>1, <3>2, Exited
  <2> QED
    BY <1>1, <2>1, <2>2, <2>3, <2>4 DEF CellPair
<1> QED
  BY <1>3, <1>4, <1>5

-----------------------------------------------------------------------------
(***************************************************************************)
(* The branches of the loop.                                               *)
(***************************************************************************)
LEMMA Opened ==
  ASSUME NEW T, Containers \subseteq T, NEW r, Good(r, T), NEW type \in Containers
  PROVE  Good(Open(r, type, FirstState(type)), T)
<1> DEFINE b == r.builderStack
           x == Builder(type)
           c == Append(b, x)
           n == Len(b) + 1
<1>1. InStep(b, r.stateStack, T) /\ IsSequence(b) /\ IsReader(r) /\ ~r.fault
  BY DEF Good, InStep
<1>2. IsBuilder(x, T) /\ x.type = type
  <2>1. type \in T
    OBVIOUS
  <2> QED
    BY <2>1, BuilderIs
<1>3. type # "KV_PAIR"
  BY DEF Containers, Wrappers, Wrapped
<1> HIDE DEF x, b
<1>4. c[n] = x
  BY <1>1, AppendTo
<1> HIDE DEF c, n
<1>5. ~Shares(c, n)
  BY <1>2, <1>3, <1>4 DEF Shares
<1>6. FirstState(type) \in StatesOf(c, n)
  <2>1. CASE type = "MAP"
    BY <1>2, <1>4, <2>1 DEF FirstState, StatesOf, PairStates
  <2>2. CASE type = "CELL"
    BY <1>2, <1>4, <2>2 DEF FirstState, StatesOf, CellStates
  <2>3. CASE type \notin {"MAP", "CELL"}
    BY <1>2, <1>3, <1>4, <2>3 DEF FirstState, StatesOf
  <2> QED
    BY <2>1, <2>2, <2>3
<1>7. x.type = "MAP" => FirstState(type) = "MAP_PAIR_KEY"
  BY <1>2 DEF FirstState
<1>8. InStep(Append(b, x), Append(r.stateStack, FirstState(type)), T)
  BY <1>1, <1>2, <1>3, <1>5, <1>6, <1>7, Pushed DEF c, n
<1> DEFINE o == Open(r, type, FirstState(type))
<1>9. /\ IsReader(o) /\ ~o.fault
      /\ o.builderStack = Append(b, x) /\ o.stateStack = Append(r.stateStack, FirstState(type))
  BY <1>1, OpenIs DEF b, x
<1> HIDE DEF o
<1> QED
  BY <1>8, <1>9 DEF Good, o

\* What is opened above it, a container finds the cell or pair it is in ready.
LEMMA ContainerStarted ==
  ASSUME NEW T, Kinds(T), NEW r, Good(r, T),
         NEW kind \in DOMAIN Started \cup DOMAIN Wrapped
  PROVE  Good(StartContainer(r, kind), T)
<1> DEFINE type == IF kind \in DOMAIN Started THEN Started[kind] ELSE Wrapped[kind]
           before == BeforeContainer(r)
           st == Last(r.stateStack)
<1>1. Containers \subseteq T /\ T \subseteq Types
  BY DEF Kinds
<1>2. type \in Containers
  BY DEF Containers, Wrappers, Wrapped, Started
<1> HIDE DEF type
<1>3. Good(before, T)
  <2>1. CASE st = "CELL_CORE"
    <3>1. r.builderStack # <<>> /\ Last(r.builderStack).type = "CELL"
      BY <1>1, <2>1, StateTells DEF CellStates
    <3>2. "CELL_INNER_CONTAINER" \in StatesOf(r.builderStack, Len(r.builderStack))
      BY <3>1 DEF StatesOf, CellStates, Last
    <3>3. Good(SetTopState(r, "CELL_INNER_CONTAINER"), T)
      BY <3>1, <3>2, StateSet
    <3> QED
      BY <2>1, <3>3 DEF BeforeContainer
  <2>2. CASE st = "MAP_PAIR_EQ_OR_TAG"
    <3>1. r.builderStack # <<>> /\ Last(r.builderStack).type = "KV_PAIR"
      BY <1>1, <2>2, StateTells DEF PairStates
    <3>2. Good(AddValueToTopBuilder(r, Ukn), T)
      BY <2>2, <3>1, PairEnded
    <3> QED
      BY <2>2, <3>2 DEF BeforeContainer
  <2>3. CASE st \notin {"CELL_CORE", "MAP_PAIR_EQ_OR_TAG"}
    BY <2>3 DEF BeforeContainer
  <2> QED
    BY <2>1, <2>2, <2>3
<1> HIDE DEF before
<1>4. StartContainer(r, kind) = Open(before, type, FirstState(type))
  BY <1>3 DEF StartContainer, Good, before, type
<1> QED
  BY <1>1, <1>2, <1>3, <1>4, Opened

\* A tag opens a pair in a table or cell.
LEMMA PairOpened ==
  ASSUME NEW T, "KV_PAIR" \in T, NEW r, Good(r, T), r.builderStack # <<>>,
         NEW st, \/ Last(r.builderStack).type \in {"TABLE", "PARAM"} /\ st = "TABLE_PAIR_KEY"
                 \/ Last(r.builderStack).type = "CELL" /\ st = "MAP_PAIR_KEY"
  PROVE  Good(OpenPair(r, st), T)
<1> DEFINE b == r.builderStack
           x == Builder("KV_PAIR")
           c == Append(b, x)
           n == Len(b) + 1
<1>1. InStep(b, r.stateStack, T) /\ IsSequence(b) /\ IsReader(r) /\ ~r.fault /\ b # <<>>
  BY DEF Good, InStep
<1>2. IsBuilder(x, T) /\ x.type = "KV_PAIR"
  BY BuilderIs
<1> HIDE DEF x
<1>3. Len(b) \in Nat /\ Len(b) \in 1 .. Len(b) /\ Last(b) = b[Len(b)]
  BY <1>1, TopIs
<1>4. \/ Last(b).type \in {"TABLE", "PARAM"} /\ st = "TABLE_PAIR_KEY"
      \/ Last(b).type = "CELL" /\ st = "MAP_PAIR_KEY"
  OBVIOUS
<1> HIDE DEF b
<1>5. c[n] = x /\ \A i \in 1 .. Len(b) : c[i] = b[i]
  BY <1>1, AppendTo
<1> HIDE DEF c
<1>6. n > 1 /\ n - 1 = Len(b) /\ c[n - 1] = Last(b)
  BY <1>3, <1>5
<1> HIDE DEF n
<1>7. ~Shares(c, n)
  BY <1>4, <1>6 DEF Shares
<1>8. st \in StatesOf(c, n)
  <2>1. StatesOf(c, n) = IF c[n - 1].type \in {"CELL", "MAP"} THEN PairStates ELSE TablePairStates
    BY <1>2, <1>5, <1>6 DEF StatesOf
  <2> QED
    BY <1>4, <1>6, <2>1 DEF PairStates, TablePairStates
<1>9. x.type # "MAP" /\ (x.type = "KV_PAIR" => b # <<>> /\ Last(b).type \in {"CELL", "TABLE", "PARAM"})
  BY <1>1, <1>2, <1>4
<1>10. InStep(Append(b, x), Append(r.stateStack, st), T)
  BY <1>1, <1>2, <1>7, <1>8, <1>9, Pushed DEF c, n
<1> DEFINE o == OpenPair(r, st)
<1>11. /\ IsReader(o) /\ ~o.fault
       /\ o.builderStack = Append(b, x) /\ o.stateStack = Append(r.stateStack, st)
  BY <1>1, OpenIs DEF OpenPair, b, x
<1> HIDE DEF o
<1> QED
  BY <1>10, <1>11 DEF Good, o

\* A tag opens a pair in a table, a map or a cell, after it ended the one before it.
LEMMA PairStarted ==
  ASSUME NEW T, T \subseteq Types, "KV_PAIR" \in T, NEW r, Good(r, T),
         r.builderStack # <<>> /\ Last(r.builderStack).type = "KV_PAIR" =>
           /\ ~Shares(r.builderStack, Len(r.builderStack))
           /\ Last(r.stateStack) # "MAP_PAIR_KEY"
  PROVE  Good(StartPair(r), T)
<1> DEFINE st == Last(r.stateStack)
           tagged == AddValueToTopBuilder(r, Ukn)
<1>1. CASE st \in {"TABLE", "PARAM"}
  <2>1. r.builderStack # <<>> /\ Last(r.builderStack).type \in {"TABLE", "PARAM"}
    BY <1>1, StateTells
  <2>2. Good(OpenPair(r, "TABLE_PAIR_KEY"), T)
    BY <2>1, PairOpened
  <2> QED
    BY <1>1, <2>2 DEF StartPair
<1>2. CASE st = "MAP_PAIR_KEY"
  <2> DEFINE x == Builder("KV_PAIR")
             o == [r EXCEPT !.builderStack = Append(@, x)]
  <2>1. r.builderStack # <<>> /\ Last(r.builderStack).type = "MAP"
    BY <1>2, StateTells DEF PairStates
  <2>2. IsBuilder(x, T) /\ x.type = "KV_PAIR"
    BY BuilderIs
  <2>3. StartPair(r) = o
    BY <1>2 DEF StartPair
  <2> HIDE DEF x
  <2>4. InStep(r.builderStack, r.stateStack, T)
    BY DEF Good
  <2>5. InStep(Append(r.builderStack, x), r.stateStack, T)
    BY <2>1, <2>2, <2>4, PairPushed
  <2>6. IsReader(o) /\ ~o.fault /\ o.builderStack = Append(r.builderStack, x) /\ o.stateStack = r.stateStack
    BY DEF Good, IsReader
  <2> QED
    BY <2>3, <2>5, <2>6 DEF Good
<1>3. CASE st \in {"CELL_CORE", "CELL_MAP_PAIR"}
  <2>1. r.builderStack # <<>> /\ Last(r.builderStack).type = "CELL"
    BY <1>3, StateTells DEF CellStates
  <2>2. Good(OpenPair(r, "MAP_PAIR_KEY"), T)
    BY <2>1, PairOpened
  <2> QED
    BY <1>3, <2>2 DEF StartPair
<1>4. CASE st \in {"MAP_PAIR_EQ_OR_TAG", "MAP_PAIR_VAL"}
  <2>1. r.builderStack # <<>> /\ Last(r.builderStack).type = "KV_PAIR"
    BY <1>4, StateTells DEF PairStates
  <2>2. Last(Front(r.builderStack)).type # "MAP"
    BY <2>1, PairTop
  <2>3. Good(tagged, T) /\ tagged.builderStack # <<>> /\ Last(tagged.builderStack).type = "CELL" /\ ~tagged.fault
    BY <1>4, <2>1, <2>2, PairEnded
  <2>4. StartPair(r) = OpenPair(tagged, "MAP_PAIR_KEY")
    BY <1>4, <2>3 DEF StartPair
  <2> HIDE DEF tagged
  <2>5. Good(OpenPair(tagged, "MAP_PAIR_KEY"), T)
    BY <2>3, PairOpened
  <2> QED
    BY <2>4, <2>5
<1>5. CASE st \notin {"TABLE", "PARAM", "MAP_PAIR_KEY", "CELL_CORE", "CELL_MAP_PAIR",
                      "MAP_PAIR_EQ_OR_TAG", "MAP_PAIR_VAL"}
  BY <1>5 DEF StartPair
<1> QED
  BY <1>1, <1>2, <1>3, <1>4, <1>5

\* The end of a container ends the pair whose value is due, and then what is at the
\* top; a pair whose value is not due is cut.
LEMMA Closed ==
  ASSUME NEW T, T \subseteq Types, NEW r, Good(r, T), r.builderStack # <<>>, NEW kind \in ContainerEndTokens,
         Shares(r.builderStack, Len(r.builderStack)) =>
           \/ kind = "VECTOR_END"
           \/ kind = "CELL_END" /\ Last(r.stateStack) # "MAP_PAIR_KEY",
         NEW u
  PROVE  \/ Fine(Close(r, kind, u), T)
         \/ /\ Faulty(Close(r, kind, u)) /\ CellPair(r)
            /\ \/ kind \in {"LIST_END", "TABLE_END"}
               \/ kind = "CELL_END" /\ Last(r.stateStack) \notin {"MAP_PAIR_EQ_OR_TAG", "MAP_PAIR_VAL"}
<1> DEFINE st == Last(r.stateStack)
           tagged == kind = "CELL_END" /\ st \in {"MAP_PAIR_EQ_OR_TAG", "MAP_PAIR_VAL"}
           closed == AddValueToTopBuilder(r, Ukn)
<1>0. ~r.fault
  BY DEF Good
<1>1. CASE tagged
  <2>1. r.builderStack # <<>> /\ Last(r.builderStack).type = "KV_PAIR"
    BY <1>1, StateTells DEF PairStates
  <2>2. Good(closed, T) /\ closed.builderStack # <<>> /\ Last(closed.builderStack).type \in {"CELL", "MAP"} /\ ~closed.fault
    BY <1>1, <2>1, PairEnded
  <2>3. Close(r, kind, u) = ExitTopBuilder(closed, u)
    BY <1>1, <2>2 DEF Close
  <2> HIDE DEF closed
  <2>4. ~Shares(closed.builderStack, Len(closed.builderStack)) /\ ~CellPair(closed)
    BY <2>2 DEF Shares, Last, CellPair
  <2> QED
    BY <2>2, <2>3, <2>4, TopExited
<1>2. CASE ~tagged /\ kind = "VECTOR_END" /\ Last(r.builderStack).type # "VECTOR"
  <2>1. Close(r, kind, u) = AddValueToTopBuilder(r, Node("SYM_WORD", ">", <<>>))
    BY <1>0, <1>2 DEF Close
  <2>2. Node("SYM_WORD", ">", <<>>) # Uninitialized
    BY DEF Node, Uninitialized, Plain
  <2> QED
    BY <2>1, <2>2, ValueAdded
<1>3. CASE ~tagged /\ ~(kind = "VECTOR_END" /\ Last(r.builderStack).type # "VECTOR")
  <2>1. Close(r, kind, u) = ExitTopBuilder(r, u)
    BY <1>0, <1>3 DEF Close
  <2>2. ~Shares(r.builderStack, Len(r.builderStack))
    <3> SUFFICES ASSUME Shares(r.builderStack, Len(r.builderStack)) PROVE FALSE
      OBVIOUS
    <3>1. Last(r.builderStack).type = "KV_PAIR"
      BY DEF Shares, Last
    <3>2. kind = "CELL_END" /\ st # "MAP_PAIR_KEY"
      BY <1>3, <3>1
    <3>3. Last(Front(r.builderStack)).type = "MAP"
      BY <3>1, PairTop
    <3>4. st \in PairStates
      BY <3>1, <3>3, PairTop
    <3> QED
      BY <1>3, <3>2, <3>4 DEF PairStates
  <2>3. CASE Fine(ExitTopBuilder(r, u), T)
    BY <2>1, <2>3
  <2>4. CASE Faulty(ExitTopBuilder(r, u)) /\ CellPair(r)
    <3>1. kind # "VECTOR_END"
      BY <1>3, <2>4 DEF CellPair
    <3> QED
      BY <1>3, <2>1, <2>4, <3>1 DEF ContainerEndTokens
  <2> QED
    BY <2>2, <2>3, <2>4, TopExited
<1> QED
  BY <1>1, <1>2, <1>3

\* An equal sign takes the pair to where its value is due.
LEMMA EqualTaken ==
  ASSUME NEW T, T \subseteq Types, NEW r, Good(r, T), Last(r.stateStack) \in DOMAIN PairEqual
  PROVE  Good(SetTopState(r, PairEqual[Last(r.stateStack)]), T)
<1> DEFINE st == Last(r.stateStack)
           b == r.builderStack
<1>1. st \in {"MAP_PAIR_EQ_OR_TAG", "TABLE_PAIR_EQ"}
  BY DEF PairEqual
<1>2. b # <<>> /\ Last(b).type = "KV_PAIR"
  BY <1>1, StateTells DEF PairStates, TablePairStates
<1>3. \/ st \in PairStates /\ StatesOf(b, Len(b)) = PairStates
      \/ st \in TablePairStates /\ StatesOf(b, Len(b)) = TablePairStates
  BY <1>2, PairTop
<1>4. PairEqual[st] \in StatesOf(b, Len(b))
  <2>1. CASE st = "MAP_PAIR_EQ_OR_TAG"
    BY <1>3, <2>1 DEF PairEqual, PairStates, TablePairStates
  <2>2. CASE st = "TABLE_PAIR_EQ"
    BY <1>3, <2>2 DEF PairEqual, PairStates, TablePairStates
  <2> QED
    BY <1>1, <2>1, <2>2
<1> QED
  BY <1>2, <1>4, StateSet

-----------------------------------------------------------------------------
(***************************************************************************)
(* The invariant: the reader is as a token may leave it.  Only a text with *)
(* tags ever has pairs, and so only one cuts them.                         *)
(***************************************************************************)
Tagged == \E i \in DOMAIN text : text[i].kind = "KV_PAIR_TAG"

Allowed == IF Tagged THEN Types ELSE Containers

ReaderInv ==
  /\ text \in Texts /\ cursor \in Nat
  /\ Fine(reader, Allowed) \/ (Faulty(reader) /\ Tagged)

\* There are pairs among the allowed builders when there are tags in the text.
LEMMA AllowedKinds == Kinds(Allowed) /\ ("KV_PAIR" \in Allowed <=> Tagged)
<1>1. "KV_PAIR" \notin Containers
  BY DEF Containers, Wrappers, Wrapped
<1> QED
  BY <1>1 DEF Kinds, Allowed, Types

\* Without a builder or a state to read the access fails.
LEMMA Needs ==
  ASSUME NEW T, Good(reader, T)
  PROVE  /\ \A y : NeedsState(y) = y
         /\ \A y : (reader.builderStack # <<>> => Fine(y, T)) => Fine(NeedsBuilder(y), T)
<1>1. reader.stateStack # <<>>
  BY TopIs DEF Good
<1>2. Fine(Fault(reader), T) \/ reader.builderStack # <<>>
  BY FaultIs DEF Fine, NothingBelow, Good
<1> QED
  BY <1>1, <1>2 DEF NeedsState, NeedsBuilder

\* The invariant holds before the first token,
LEMMA InitInv == Init => ReaderInv
<1> SUFFICES ASSUME Init PROVE ReaderInv
  OBVIOUS
<1> DEFINE b == reader.builderStack
           s == reader.stateStack
<1>1. /\ text \in Texts /\ cursor = 0 /\ IsReader(reader) /\ ~reader.fault
      /\ b = <<>> /\ s = <<"ROOT">>
  BY DEF Init, Start, IsReader
<1> HIDE DEF b, s
<1>2. Len(b) = 0 /\ Len(s) = 1 /\ s[1] = "ROOT"
  BY <1>1
<1>3. IsSequence(b) /\ IsSequence(s)
  <2>1. b \in Seq({}) /\ s \in Seq({"ROOT"})
    BY <1>1
  <2> QED
    BY <2>1, SequencesAre
<1>4. Place(b, 0) = 1
  BY PlaceFirst
<1>5. InStep(b, s, Allowed)
  BY <1>2, <1>3, <1>4 DEF InStep
<1> QED
  BY <1>1, <1>5 DEF ReaderInv, Fine, Good, b, s

\* A token read with care leaves the reader as it should, or cuts the pair of a cell.
LEMMA TokenTaken ==
  ASSUME ReaderInv, CarefulNext
  PROVE  /\ text \in Texts /\ cursor' \in Nat /\ UNCHANGED text
         /\ Fine(reader', Allowed) \/ (Faulty(reader') /\ Tagged /\ CutsPairOfCell)
<1> DEFINE T == Allowed
           kind == text[cursor + 1].kind
<1>1. ~reader.fault /\ cursor < Len(text) /\ UNCHANGED text /\ cursor' = cursor + 1
  BY <1>1 DEF CarefulNext, Next, Skip, ContainerStart, KvPairTag, Equal, Value, ContainerEnd,
              Ignore, NextIs, Took
<1>2. Good(reader, T)
  BY <1>1 DEF ReaderInv, Fine, Faulty
<1>3. Kinds(T) /\ T \subseteq Types /\ ("KV_PAIR" \in T <=> Tagged)
  BY AllowedKinds DEF Kinds
<1>4. text \in Texts /\ cursor \in Nat /\ cursor + 1 \in DOMAIN text
  BY <1>1, TextsAssumption DEF ReaderInv
<1> SUFFICES Fine(reader', T) \/ (Faulty(reader') /\ Tagged /\ CutsPairOfCell)
  BY <1>1, <1>4
<1> HIDE DEF T
<1>5. /\ \A y : NeedsState(y) = y
      /\ \A y : (reader.builderStack # <<>> => Fine(y, T)) => Fine(NeedsBuilder(y), T)
  BY <1>2, Needs
<1>6. \A y : Good(y, T) => Fine(y, T)
  BY DEF Fine, Good
<1>7. CASE Skip
  BY <1>2, <1>6, <1>7 DEF Skip, Took
<1>8. CASE ContainerStart
  <2>1. kind \in DOMAIN Started \cup DOMAIN Wrapped /\ reader' = NeedsState(StartContainer(reader, kind))
    BY <1>8 DEF ContainerStart, NextIs, Took
  <2>2. Good(StartContainer(reader, kind), T)
    BY <1>2, <1>3, <2>1, ContainerStarted
  <2> QED
    BY <1>5, <1>6, <2>1, <2>2
<1>9. CASE KvPairTag
  <2>1. kind = "KV_PAIR_TAG" /\ reader' = NeedsState(StartPair(reader)) /\ ~InMapPair /\ ~KeyDue
    BY <1>9 DEF KvPairTag, CarefulNext, NextIs, Took
  <2>2. "KV_PAIR" \in T
    BY <1>3, <1>4, <2>1 DEF Tagged
  <2>3. Good(StartPair(reader), T)
    BY <1>2, <1>3, <2>1, <2>2, PairStarted DEF InMapPair, KeyDue, InPair
  <2> QED
    BY <1>5, <1>6, <2>1, <2>3
<1>10. CASE Equal
  <2>1. /\ reader.stateStack # <<>> => Last(reader.stateStack) \in DOMAIN PairEqual
        /\ reader' = NeedsState(SetTopState(reader, PairEqual[Last(reader.stateStack)]))
    BY <1>10 DEF Equal, Took
  <2>2. reader.stateStack # <<>>
    BY <1>2, TopIs DEF Good
  <2>3. Good(SetTopState(reader, PairEqual[Last(reader.stateStack)]), T)
    BY <1>2, <1>3, <2>1, <2>2, EqualTaken
  <2> QED
    BY <1>5, <1>6, <2>1, <2>3
<1>11. CASE Value
  <2> DEFINE y == AddValueToTopBuilder(reader, Node(kind, text[cursor + 1].content, <<>>))
  <2>1. reader' = NeedsBuilder(y)
    BY <1>11 DEF Value, Took
  <2>2. kind # "UNINITIALIZED"
    BY <1>11 DEF Value, NextIs, ValueTokens, SyntaxTokens, SymbolTokens, LiteralTokens
  <2>3. Node(kind, text[cursor + 1].content, <<>>) # Uninitialized
    BY <2>2 DEF Node, Uninitialized, Plain
  <2>4. Fine(y, T)
    BY <1>2, <2>3, ValueAdded
  <2> HIDE DEF y
  <2> QED
    BY <1>5, <2>1, <2>4
<1>12. CASE ContainerEnd
  <2>1. PICK u \in Leftovers : reader' = NeedsBuilder(Close(reader, kind, u))
    BY <1>12 DEF ContainerEnd, Took
  <2>2. kind \in ContainerEndTokens
    BY <1>12 DEF ContainerEnd, NextIs
  <2>3. CASE reader.builderStack = <<>>
    BY <1>5, <2>1, <2>3
  <2>4. CASE reader.builderStack # <<>>
    <3> DEFINE y == Close(reader, kind, u)
    <3>1. Shares(reader.builderStack, Len(reader.builderStack)) =>
            Last(reader.builderStack).type = "KV_PAIR"
      BY DEF Shares, Last
    <3>2. /\ kind = "CELL_END" => ~(InMapPair /\ KeyDue)
          /\ kind \in {"LIST_END", "TABLE_END"} => ~InMapPair
      BY <1>1 DEF CarefulNext, NextIs
    <3>3. Shares(reader.builderStack, Len(reader.builderStack)) =>
            \/ kind = "VECTOR_END"
            \/ kind = "CELL_END" /\ Last(reader.stateStack) # "MAP_PAIR_KEY"
      BY <2>2, <2>4, <3>1, <3>2 DEF InMapPair, InPair, KeyDue, ContainerEndTokens
    <3>4. reader' = y
      BY <1>2, <2>1, <2>4, TopIs DEF NeedsBuilder, NeedsState, Good
    <3>5. kind = text[cursor + 1].kind
      OBVIOUS
    <3> HIDE DEF kind
    <3>6. \/ Fine(y, T)
          \/ /\ Faulty(y) /\ CellPair(reader)
             /\ \/ kind \in {"LIST_END", "TABLE_END"}
                \/ kind = "CELL_END" /\ Last(reader.stateStack) \notin {"MAP_PAIR_EQ_OR_TAG", "MAP_PAIR_VAL"}
      BY <1>2, <1>3, <2>2, <2>4, <3>3, Closed
    <3> HIDE DEF y
    <3>7. CellPair(reader) => Tagged /\ InPair
      BY <1>2, <1>3, PairTop DEF CellPair, InPair
    <3> QED
      BY <1>1, <3>4, <3>5, <3>6, <3>7 DEF CutsPairOfCell, CutsPair, CellPair, NextIs
  <2> QED
    BY <2>3, <2>4
<1>13. CASE Ignore
  <2>1. reader' = NeedsBuilder(reader) /\ Fine(reader, T)
    BY <1>2, <1>6, <1>13 DEF Ignore, Took
  <2> QED
    BY <1>5, <2>1
<1> QED
  BY <1>7, <1>8, <1>9, <1>10, <1>11, <1>12, <1>13 DEF CarefulNext, Next

\* and so its invariant is kept.
LEMMA NextInv == ReaderInv /\ [CarefulNext]_vars => ReaderInv'
<1>1. ReaderInv /\ CarefulNext => ReaderInv'
  BY TokenTaken DEF ReaderInv, Allowed, Tagged
<1>2. ReaderInv /\ UNCHANGED vars => ReaderInv'
  BY DEF ReaderInv, vars, Allowed, Tagged
<1> QED
  BY <1>1, <1>2

\* It says that the stacks agree.
LEMMA InvAgrees == ReaderInv => StacksAgree
<1> SUFFICES ASSUME ReaderInv, ~reader.fault PROVE StacksAgree
  BY DEF StacksAgree
<1> DEFINE b == reader.builderStack
           s == reader.stateStack
<1>1. InStep(b, s, Allowed)
  BY DEF ReaderInv, Fine, Good, Faulty
<1>2. DOMAIN b = 1 .. Len(b)
  BY <1>1, LenIs DEF InStep
<1>3. \A i \in DOMAIN b : s[Place(b, i)] \in StatesOf(b, i)
  BY <1>1, <1>2 DEF InStep, Fits
<1> QED
  BY <1>1, <1>3 DEF StacksAgree, InStep

\* Without tags there is no pair, and every step is careful.
LEMMA TaglessCareful == ReaderInv /\ ~Tagged /\ Next => CarefulNext
<1> SUFFICES ASSUME ReaderInv, ~Tagged, Next PROVE CarefulNext
  OBVIOUS
<1>1. ~reader.fault
  BY DEF Next, Skip, ContainerStart, KvPairTag, Equal, Value, ContainerEnd, Ignore, NextIs
<1>2. Good(reader, Allowed)
  BY <1>1 DEF ReaderInv, Fine, Faulty
<1>3. "KV_PAIR" \notin Allowed
  BY AllowedKinds
<1>4. ~InPair
  BY <1>2, <1>3, PairTop DEF InPair
<1> QED
  BY <1>4 DEF CarefulNext, InMapPair, KeyDue

\* and so always.
LEMMA ReaderInvariant == CarefulSpec => []ReaderInv
BY InitInv, NextInv, PTL DEF CarefulSpec

-----------------------------------------------------------------------------
(***************************************************************************)
(* What KSON_Parse promises of its stacks.                                 *)
(***************************************************************************)
\* KSON_Parse pushes and pops its builders and its states at different places,
\* and yet after every token of a careful text there are as many states as
\* there should be, each one of the states of the builder it is for: StacksAgree.
THEOREM StacksStayInStep == CarefulSpec => []StacksAgree
BY InvAgrees, ReaderInvariant, PTL

\* Whatever brackets a careful text leaves open, closes twice or mixes, an access of
\* KSON_Parse can only fail where no builder is left below what is closed, at the
\* key of a pair that is no word, or where the pair of a cell is closed without its
\* value, {:a ], so that AddValueToTopBuilder looks at a value ExitTopBuilder never
\* set.  It never pops or reads an empty stack of states, and never finds the wrong
\* container below a pair.
THEOREM FaultsOnlyOutside == CarefulSpec => [][FaultsKnown]_vars
<1>1. ReaderInv /\ CarefulNext => FaultsKnown
  BY TokenTaken DEF FaultsKnown, Fine
<1>2. ReaderInv /\ [CarefulNext]_vars => [FaultsKnown]_vars
  BY <1>1
<1> QED
  BY <1>2, ReaderInvariant, PTL DEF CarefulSpec

\* A text without tags need not be careful: whatever its brackets are, KSON_Parse
\* keeps its two stacks in step and can only fail where no builder is left below
\* what is closed.
THEOREM TaglessTextsAreSafe ==
  Init /\ [][Next]_vars =>
    [](~Tagged => StacksAgree /\ (reader.fault => NothingBelow(reader)))
<1>1. Init => Tagged \/ ReaderInv
  BY InitInv
<1>2. (Tagged \/ ReaderInv) /\ [Next]_vars => (Tagged \/ ReaderInv)'
  <2> SUFFICES ASSUME Tagged \/ ReaderInv, [Next]_vars PROVE (Tagged \/ ReaderInv)'
    OBVIOUS
  <2>1. UNCHANGED text
    BY DEF Next, Skip, ContainerStart, KvPairTag, Equal, Value, ContainerEnd, Ignore, Took, vars
  <2>2. CASE Tagged
    BY <2>1, <2>2 DEF Tagged
  <2>3. CASE ReaderInv /\ ~Tagged
    BY <2>3, TaglessCareful, NextInv
  <2> QED
    BY <2>2, <2>3
<1>3. (Tagged \/ ReaderInv) => (~Tagged => StacksAgree /\ (reader.fault => NothingBelow(reader)))
  <2>1. ReaderInv /\ ~Tagged => (reader.fault => NothingBelow(reader))
    BY AllowedKinds DEF ReaderInv, Fine
  <2> QED
    BY <2>1, InvAgrees
<1> QED
  BY <1>1, <1>2, <1>3, PTL
=============================================================================
