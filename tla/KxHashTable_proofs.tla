-------------------------- MODULE KxHashTable_proofs --------------------------
(***************************************************************************)
(* A table used with care is in good order (Good): there is a sequence of  *)
(* value entries that head, tail, every next and every prev agree with and *)
(* that has all the entries there are, one of key entries for each bucket, *)
(* and keys and items lead to each other.  Each assignment changes one     *)
(* field; a call inserts an entry in such a sequence or drops one.  What   *)
(* is read of a table in good order is the list, so that the calls are the *)
(* steps of AbstractTable on the items the list stands for.                *)
(***************************************************************************)
EXTENDS KxHashTable, TLAPS, FiniteSetTheorems, SequenceTheorems, WellFoundedInduction

\* A set of naturals has a least element.
LEMMA LeastElement ==
  ASSUME NEW S \in SUBSET Nat, S # {}
  PROVE  \E n \in S : \A m \in S : n <= m
<1> DEFINE R == OpToRel(<, Nat)
<1>1. PICK n \in S : \A m \in S : <<m, n>> \notin R
  <2>1. IsWellFoundedOn(R, Nat)
    BY NatLessThanWellFounded, Zenon
  <2> HIDE DEF R
  <2>2. \E n \in S : \A m \in S : <<m, n>> \notin R
    BY <2>1, WFMin
  <2> QED
    BY <2>2
<1>2. \A m \in S : <<m, n>> \in R <=> m < n
  BY Zenon DEF OpToRel
<1>3. \A m \in S : ~(m < n)
  BY <1>1, <1>2, Zenon
<1> QED
  BY <1>3

\* Induction over the naturals, told with a set in place of a predicate.
LEMMA SetInduction ==
  ASSUME NEW S, 0 \in S, \A n \in Nat : n \in S => n + 1 \in S
  PROVE  Nat \subseteq S
<1> DEFINE T == Nat \ S
<1> SUFFICES ASSUME T # {} PROVE FALSE
  OBVIOUS
<1>1. PICK n \in T : \A m \in T : n <= m
  BY LeastElement
<1>2. n # 0 /\ n - 1 \in Nat
  OBVIOUS
<1>3. n - 1 \notin T
  BY <1>1, <1>2
<1> QED
  BY <1>2, <1>3

-------------------------------------------------------------------------------
\* Chains: sequences of entries linked both ways.

\* The k-th entry of a sequence, Nil before its first and after its last.
At(s, k) == IF k \in 1 .. Len(s) THEN s[k] ELSE Nil

Elems(s) == {s[k] : k \in 1 .. Len(s)}

\* Going on by nx and back by pv, the entries of s are met in order, each once.
Chained(nx, pv, s) ==
  /\ \A j, k \in 1 .. Len(s) : s[j] = s[k] => j = k
  /\ \A k \in 1 .. Len(s) : nx[s[k]] = At(s, k + 1) /\ pv[s[k]] = At(s, k - 1)

\* s with n put at place k.
Inserted(s, k, n) ==
  [j \in 1 .. (Len(s) + 1) |-> IF j < k THEN s[j] ELSE IF j = k THEN n ELSE s[j - 1]]

\* s without its k-th item.
Dropped(s, k) == [j \in 1 .. (Len(s) - 1) |-> IF j < k THEN s[j] ELSE s[j + 1]]

\* The new links go through n between the places k - 1 and k of s.
ChainedIn(ny, pw, nx, pv, s, k, n) ==
  /\ ny[n] = At(s, k) /\ pw[n] = At(s, k - 1)
  /\ \A m \in Elems(s) :
       /\ ny[m] = IF m = At(s, k - 1) THEN n ELSE nx[m]
       /\ pw[m] = IF m = At(s, k) THEN n ELSE pv[m]

\* The new links chain s with n at place k.
ChainedWith(S, ny, pw, s, k, n) ==
  /\ Inserted(s, k, n) \in Seq(S) /\ Chained(ny, pw, Inserted(s, k, n))
  /\ Elems(Inserted(s, k, n)) = Elems(s) \cup {n} /\ Len(Inserted(s, k, n)) = Len(s) + 1
  /\ At(Inserted(s, k, n), 1) = (IF k = 1 THEN n ELSE At(s, 1))
  /\ At(Inserted(s, k, n), Len(s) + 1) = (IF k = Len(s) + 1 THEN n ELSE At(s, Len(s)))

\* Linking n in at place k chains s with n there.
LEMMA InsertedChained ==
  ASSUME NEW S, Nil \notin S, NEW nx, NEW pv, NEW ny, NEW pw, NEW s \in Seq(S),
         Chained(nx, pv, s), NEW n \in S \ Elems(s), NEW k \in 1 .. (Len(s) + 1),
         ChainedIn(ny, pw, nx, pv, s, k, n)
  PROVE  ChainedWith(S, ny, pw, s, k, n)
<1> DEFINE t == Inserted(s, k, n)
<1>1. /\ t \in Seq(S) /\ Len(t) = Len(s) + 1 /\ t[k] = n /\ Len(s) \in Nat
      /\ \A j \in 1 .. Len(t) : (j < k => t[j] = s[j]) /\ (j > k => t[j] = s[j - 1])
  BY DEF Inserted
<1>2. /\ \A j \in 1 .. Len(s) : s[j] \in Elems(s) /\ s[j] \in S /\ s[j] # n /\ s[j] # Nil
      /\ \A i, j \in 1 .. Len(s) : s[i] = s[j] => i = j
      /\ n # Nil /\ k \in Int
  BY DEF Chained, Elems
<1> HIDE DEF t
\* The places of s in t.
<1>3. \A j \in 1 .. Len(s) : j < k => j \in 1 .. Len(t) /\ t[j] = s[j]
  BY <1>1
<1>4. \A j \in 1 .. Len(s) : j >= k => j + 1 \in 1 .. Len(t) /\ t[j + 1] = s[j]
  <2> SUFFICES ASSUME NEW j \in 1 .. Len(s), j >= k PROVE j + 1 \in 1 .. Len(t) /\ t[j + 1] = s[j]
    OBVIOUS
  <2>1. j + 1 \in 1 .. Len(t) /\ j + 1 > k /\ (j + 1) - 1 = j
    BY <1>1, <1>2
  <2> QED
    BY <1>1, <2>1
<1>5. \A j \in 1 .. Len(t) :
        \/ j = k /\ t[j] = n
        \/ j < k /\ j \in 1 .. Len(s) /\ t[j] = s[j]
        \/ j > k /\ j - 1 \in 1 .. Len(s) /\ t[j] = s[j - 1]
  <2> TAKE j \in 1 .. Len(t)
  <2>1. j \in Int /\ k \in Int /\ j >= 1 /\ j <= Len(s) + 1 /\ k >= 1 /\ k <= Len(s) + 1
    BY <1>1
  <2>2. j < k => j \in 1 .. Len(s) /\ t[j] = s[j]
    BY <1>1, <2>1
  <2>3. j > k => j - 1 \in 1 .. Len(s) /\ t[j] = s[j - 1]
    BY <1>1, <2>1
  <2> QED
    BY <1>1, <2>1, <2>2, <2>3
<1>6. \A i, j \in 1 .. Len(t) : t[i] = t[j] => i = j
  <2> SUFFICES ASSUME NEW i \in 1 .. Len(t), NEW j \in 1 .. Len(t), t[i] = t[j] PROVE i = j
    OBVIOUS
  <2>0. i \in Int /\ j \in Int /\ k \in Int
    BY <1>1
  <2>1. CASE i = k
    BY <1>2, <1>5, <2>1
  <2>2. CASE i < k
    <3>1. i \in 1 .. Len(s) /\ t[i] = s[i]
      BY <1>2, <1>5, <2>2
    <3>2. CASE j > k
      <4>1. j - 1 \in 1 .. Len(s) /\ t[j] = s[j - 1]
        BY <1>2, <1>5, <3>2
      <4>2. i = j - 1
        BY <1>2, <3>1, <4>1
      <4> QED
        BY <2>2, <3>2, <4>2, <1>2
    <3>3. CASE j < k
      <4>1. j \in 1 .. Len(s) /\ t[j] = s[j]
        BY <1>2, <1>5, <3>3
      <4> QED
        BY <1>2, <3>1, <4>1
    <3>4. CASE j = k
      <4>1. t[j] = n
        BY <1>1, <3>4
      <4> QED
        BY <1>2, <3>1, <4>1
    <3> QED
      BY <3>2, <3>3, <3>4, <2>0
  <2>3. CASE i > k
    <3>1. i - 1 \in 1 .. Len(s) /\ t[i] = s[i - 1]
      BY <1>2, <1>5, <2>3
    <3>2. CASE j > k
      <4>1. j - 1 \in 1 .. Len(s) /\ t[j] = s[j - 1]
        BY <1>2, <1>5, <3>2
      <4>2. i - 1 = j - 1
        BY <1>2, <3>1, <4>1
      <4> QED
        BY <4>2
    <3>3. CASE j < k
      <4>1. j \in 1 .. Len(s) /\ t[j] = s[j]
        BY <1>2, <1>5, <3>3
      <4>2. i - 1 = j
        BY <1>2, <3>1, <4>1
      <4> QED
        BY <2>3, <3>3, <4>2, <1>2
    <3>4. CASE j = k
      <4>1. t[j] = n
        BY <1>1, <3>4
      <4> QED
        BY <1>2, <3>1, <4>1
    <3> QED
      BY <3>2, <3>3, <3>4, <2>0
  <2> QED
    BY <2>0, <2>1, <2>2, <2>3
<1>7. Elems(t) = Elems(s) \cup {n}
  <2> DEFINE U == Elems(s) \cup {n}
  <2>1. Elems(s) = {s[j] : j \in 1 .. Len(s)} /\ Elems(t) = {t[j] : j \in 1 .. Len(t)}
    BY DEF Elems
  <2>2. \A j \in 1 .. Len(t) : t[j] \in U
    BY <1>2, <1>5, <2>1
  <2>3. \A j \in 1 .. Len(s) : \E i \in 1 .. Len(t) : t[i] = s[j]
    <3> TAKE j \in 1 .. Len(s)
    <3>1. CASE j < k
      BY <1>3, <3>1
    <3>2. CASE j >= k
      BY <1>4, <3>2
    <3> QED
      BY <3>1, <3>2, <1>2
  <2>4. k \in 1 .. Len(t) /\ t[k] = n
    BY <1>1
  <2>5. \A m \in U : \E j \in 1 .. Len(t) : m = t[j]
    BY <2>1, <2>3, <2>4
  <2>6. {t[j] : j \in 1 .. Len(t)} \subseteq U
    BY <2>2
  <2>7. U \subseteq {t[j] : j \in 1 .. Len(t)}
    BY <2>5
  <2> HIDE DEF U
  <2>8. Elems(t) = U
    BY <2>1, <2>6, <2>7
  <2> QED
    BY <2>8 DEF U
<1>9. /\ At(t, 1) = (IF k = 1 THEN n ELSE At(s, 1))
      /\ At(t, Len(t)) = (IF k = Len(s) + 1 THEN n ELSE At(s, Len(s)))
  <2>2. At(t, 1) = (IF k = 1 THEN n ELSE At(s, 1))
    BY <1>1 DEF At
  <2>4. At(t, Len(t)) = IF k = Len(s) + 1 THEN n ELSE At(s, Len(s))
    <3>1. CASE k = Len(s) + 1
      BY <1>1, <3>1 DEF At
    <3>2. CASE k < Len(s) + 1
      <4>1. Len(s) \in 1 .. Len(s) /\ t[Len(s) + 1] = s[Len(s)]
        BY <1>1, <1>4, <3>2
      <4> QED
        BY <1>1, <3>2, <4>1 DEF At
    <3> QED
      BY <3>1, <3>2, <1>1
  <2> QED
    BY <2>2, <2>4
<1>10. ASSUME NEW j \in 1 .. Len(t)
       PROVE  ny[t[j]] = At(t, j + 1) /\ pw[t[j]] = At(t, j - 1)
  <2>1. CASE j = k
    <3>1. At(s, k) = At(t, k + 1)
      BY <1>1, <1>4 DEF At
    <3>2. At(s, k - 1) = At(t, k - 1)
      BY <1>1, <1>3 DEF At
    <3> QED
      BY <1>1, <2>1, <3>1, <3>2 DEF ChainedIn, Elems
  <2>2. CASE j < k
    <3>1. j \in 1 .. Len(s) /\ t[j] = s[j] /\ s[j] \in Elems(s)
      BY <1>2, <1>5, <2>2
    <3>2. At(t, j + 1) = IF j = k - 1 THEN n ELSE At(s, j + 1)
      BY <1>1, <1>3, <2>2, <3>1 DEF At
    <3>3. At(t, j - 1) = At(s, j - 1)
      BY <1>1, <1>3, <2>2, <3>1 DEF At
    <3>4. nx[s[j]] = At(s, j + 1) /\ pv[s[j]] = At(s, j - 1)
      BY <3>1 DEF Chained
    <3>5. s[j] = At(s, k - 1) <=> j = k - 1
      BY <1>1, <1>2, <2>2, <3>1 DEF At
    <3>6. s[j] # At(s, k)
      BY <1>1, <1>2, <2>2, <3>1 DEF At
    <3> QED
      BY <3>1, <3>2, <3>3, <3>4, <3>5, <3>6 DEF ChainedIn, Elems
  <2>3. CASE j > k
    <3> DEFINE i == j - 1
    <3>1. i \in 1 .. Len(s) /\ t[j] = s[i] /\ s[i] \in Elems(s) /\ j = i + 1 /\ i >= k
      BY <1>2, <1>5, <2>3
    <3> HIDE DEF i
    <3>2. At(t, j + 1) = At(s, i + 1)
      <4>1. CASE i + 1 \in 1 .. Len(s)
        BY <1>1, <1>2, <1>4, <3>1, <4>1 DEF At
      <4>2. CASE i + 1 \notin 1 .. Len(s)
        BY <1>1, <1>2, <3>1, <4>2 DEF At
      <4> QED
        BY <4>1, <4>2
    <3>3. At(t, j - 1) = IF i = k THEN n ELSE At(s, i - 1)
      <4>1. CASE i = k
        BY <1>1, <3>1, <4>1 DEF At
      <4>2. CASE i > k
        <5>1. i - 1 \in 1 .. Len(s) /\ i - 1 >= k /\ (i - 1) + 1 = i
          BY <1>1, <1>2, <3>1, <4>2
        <5>2. i \in 1 .. Len(t) /\ t[i] = s[i - 1]
          BY <1>4, <5>1
        <5> QED
          BY <3>1, <4>2, <5>1, <5>2, <1>2 DEF At
      <4> QED
        BY <1>2, <3>1, <4>1, <4>2
    <3>4. nx[s[i]] = At(s, i + 1) /\ pv[s[i]] = At(s, i - 1)
      BY <3>1 DEF Chained
    <3>5. s[i] = At(s, k) <=> i = k
      BY <1>1, <1>2, <3>1 DEF At
    <3>6. s[i] # At(s, k - 1)
      BY <1>1, <1>2, <3>1 DEF At
    <3> QED
      BY <3>1, <3>2, <3>3, <3>4, <3>5, <3>6 DEF ChainedIn, Elems
  <2> QED
    BY <1>2, <2>1, <2>2, <2>3
<1>11. Chained(ny, pw, t)
  BY <1>6, <1>10 DEF Chained
<1> QED
  BY <1>1, <1>7, <1>9, <1>11 DEF t, ChainedWith

\* The new links go past the entry at place k.
ChainedOut(ny, pw, nx, pv, s, k) ==
  \A m \in Elems(s) \ {s[k]} :
    /\ ny[m] = IF m = At(s, k - 1) THEN At(s, k + 1) ELSE nx[m]
    /\ pw[m] = IF m = At(s, k + 1) THEN At(s, k - 1) ELSE pv[m]

\* The new links chain s without its k-th entry.
ChainedWithout(S, ny, pw, s, k) ==
  /\ Dropped(s, k) \in Seq(S) /\ Chained(ny, pw, Dropped(s, k))
  /\ Elems(Dropped(s, k)) = Elems(s) \ {s[k]} /\ Len(Dropped(s, k)) = Len(s) - 1
  /\ At(Dropped(s, k), 1) = (IF k = 1 THEN At(s, 2) ELSE At(s, 1))
  /\ At(Dropped(s, k), Len(s) - 1) = (IF k = Len(s) THEN At(s, k - 1) ELSE At(s, Len(s)))

\* Linking past the entry at place k chains s without it.
LEMMA DroppedChained ==
  ASSUME NEW S, Nil \notin S, NEW nx, NEW pv, NEW ny, NEW pw, NEW s \in Seq(S),
         Chained(nx, pv, s), NEW k \in 1 .. Len(s), ChainedOut(ny, pw, nx, pv, s, k)
  PROVE  ChainedWithout(S, ny, pw, s, k)
<1> DEFINE t == Dropped(s, k)
<1>1. /\ t \in Seq(S) /\ Len(t) = Len(s) - 1 /\ Len(s) \in Nat
      /\ \A j \in 1 .. Len(t) : (j < k => t[j] = s[j]) /\ (j >= k => t[j] = s[j + 1])
  BY DEF Dropped
<1>2. /\ \A j \in 1 .. Len(s) : s[j] \in Elems(s) /\ s[j] \in S /\ s[j] # Nil
      /\ \A i, j \in 1 .. Len(s) : s[i] = s[j] => i = j
      /\ k \in Int
  BY DEF Chained, Elems
<1> HIDE DEF t
\* The places of s in t, and those of t in s.
<1>3. \A j \in 1 .. Len(s) : j < k => j \in 1 .. Len(t) /\ t[j] = s[j]
  BY <1>1
<1>4. \A j \in 1 .. Len(s) : j > k => j - 1 \in 1 .. Len(t) /\ t[j - 1] = s[j]
  <2> SUFFICES ASSUME NEW j \in 1 .. Len(s), j > k PROVE j - 1 \in 1 .. Len(t) /\ t[j - 1] = s[j]
    OBVIOUS
  <2>1. j - 1 \in 1 .. Len(t) /\ j - 1 >= k /\ (j - 1) + 1 = j
    BY <1>1, <1>2
  <2> QED
    BY <1>1, <2>1
<1>5. \A j \in 1 .. Len(t) :
        \/ j < k /\ j \in 1 .. Len(s) /\ t[j] = s[j]
        \/ j >= k /\ j + 1 \in 1 .. Len(s) /\ t[j] = s[j + 1]
  BY <1>1, <1>2
<1>6. \A i, j \in 1 .. Len(t) : t[i] = t[j] => i = j
  <2> SUFFICES ASSUME NEW i \in 1 .. Len(t), NEW j \in 1 .. Len(t), t[i] = t[j] PROVE i = j
    OBVIOUS
  <2>0. i \in Int /\ j \in Int /\ k \in Int
    BY <1>1
  <2>1. CASE i < k
    <3>1. i \in 1 .. Len(s) /\ t[i] = s[i]
      BY <1>5, <2>0, <2>1
    <3>2. CASE j < k
      <4>1. j \in 1 .. Len(s) /\ t[j] = s[j]
        BY <1>5, <2>0, <3>2
      <4> QED
        BY <1>2, <3>1, <4>1
    <3>3. CASE j >= k
      <4>1. j + 1 \in 1 .. Len(s) /\ t[j] = s[j + 1]
        BY <1>5, <2>0, <3>3
      <4>2. i = j + 1
        BY <1>2, <3>1, <4>1
      <4> QED
        BY <2>0, <2>1, <3>3, <4>2
    <3> QED
      BY <2>0, <3>2, <3>3
  <2>2. CASE i >= k
    <3>1. i + 1 \in 1 .. Len(s) /\ t[i] = s[i + 1]
      BY <1>5, <2>0, <2>2
    <3>2. CASE j < k
      <4>1. j \in 1 .. Len(s) /\ t[j] = s[j]
        BY <1>5, <2>0, <3>2
      <4>2. i + 1 = j
        BY <1>2, <3>1, <4>1
      <4> QED
        BY <2>0, <2>2, <3>2, <4>2
    <3>3. CASE j >= k
      <4>1. j + 1 \in 1 .. Len(s) /\ t[j] = s[j + 1]
        BY <1>5, <2>0, <3>3
      <4>2. i + 1 = j + 1
        BY <1>2, <3>1, <4>1
      <4> QED
        BY <2>0, <4>2
    <3> QED
      BY <2>0, <3>2, <3>3
  <2> QED
    BY <2>0, <2>1, <2>2
<1>7. Elems(t) = Elems(s) \ {s[k]}
  <2> DEFINE U == Elems(s) \ {s[k]}
  <2>1. Elems(s) = {s[j] : j \in 1 .. Len(s)} /\ Elems(t) = {t[j] : j \in 1 .. Len(t)}
    BY DEF Elems
  <2>2. ASSUME NEW j \in 1 .. Len(t) PROVE t[j] \in U
    <3>1. j \in Int
      BY <1>1
    <3>2. CASE j < k
      BY <1>2, <1>5, <2>1, <3>1, <3>2
    <3>3. CASE j >= k
      <4>1. j + 1 \in 1 .. Len(s) /\ t[j] = s[j + 1] /\ j + 1 # k
        BY <1>2, <1>5, <3>1, <3>3
      <4> QED
        BY <1>2, <2>1, <4>1
    <3> QED
      BY <1>2, <3>1, <3>2, <3>3
  <2>3. ASSUME NEW m \in U PROVE \E j \in 1 .. Len(t) : m = t[j]
    <3>1. PICK j \in 1 .. Len(s) : m = s[j]
      BY <2>1
    <3>2. j # k /\ j \in Int
      BY <2>1, <3>1
    <3>3. CASE j < k
      BY <1>3, <3>1, <3>3
    <3>4. CASE j > k
      BY <1>4, <3>1, <3>4
    <3> QED
      BY <1>2, <3>2, <3>3, <3>4
  <2>4. {t[j] : j \in 1 .. Len(t)} \subseteq U
    BY <2>2
  <2>5. U \subseteq {t[j] : j \in 1 .. Len(t)}
    BY <2>3
  <2> HIDE DEF U
  <2>6. Elems(t) = U
    BY <2>1, <2>4, <2>5
  <2> QED
    BY <2>6 DEF U
<1>9. /\ At(t, 1) = (IF k = 1 THEN At(s, 2) ELSE At(s, 1))
      /\ At(t, Len(t)) = (IF k = Len(s) THEN At(s, k - 1) ELSE At(s, Len(s)))
  <2>2. At(t, 1) = IF k = 1 THEN At(s, 2) ELSE At(s, 1)
    <3>1. CASE k = 1
      <4>1. 2 \in 1 .. Len(s) => t[1] = s[2]
        BY <1>1, <3>1
      <4> QED
        BY <1>1, <3>1, <4>1 DEF At
    <3>2. CASE k > 1
      <4>1. 1 \in 1 .. Len(s) /\ 1 \in 1 .. Len(t) /\ t[1] = s[1]
        BY <1>1, <3>2
      <4> QED
        BY <3>2, <4>1 DEF At
    <3> QED
      BY <3>1, <3>2
  <2>3. At(t, Len(t)) = IF k = Len(s) THEN At(s, k - 1) ELSE At(s, Len(s))
    <3>1. CASE k = Len(s)
      <4>1. k - 1 \in 1 .. Len(s) => t[k - 1] = s[k - 1]
        BY <1>1, <3>1
      <4> QED
        BY <1>1, <3>1, <4>1 DEF At
    <3>2. CASE k < Len(s)
      <4>1. Len(s) \in 1 .. Len(s) /\ Len(s) > k
        BY <1>1, <3>2
      <4>2. Len(s) - 1 \in 1 .. Len(t) /\ t[Len(s) - 1] = s[Len(s)]
        BY <1>4, <4>1
      <4> QED
        BY <1>1, <3>2, <4>1, <4>2 DEF At
    <3> QED
      BY <1>1, <3>1, <3>2
  <2> QED
    BY <2>2, <2>3
<1>10. ASSUME NEW j \in 1 .. Len(t)
       PROVE  ny[t[j]] = At(t, j + 1) /\ pw[t[j]] = At(t, j - 1)
  <2>0. j \in Int /\ t[j] \in Elems(s) \ {s[k]}
    <3>1. j \in Int
      BY <1>1
    <3>2. t[j] \in Elems(t)
      BY DEF Elems
    <3> QED
      BY <1>7, <3>1, <3>2
  <2>1. CASE j < k
    <3>1. j \in 1 .. Len(s) /\ t[j] = s[j]
      BY <1>5, <1>2, <2>0, <2>1
    <3>2. At(t, j + 1) = IF j = k - 1 THEN At(s, k + 1) ELSE At(s, j + 1)
      <4>1. CASE j = k - 1
        <5>1. k + 1 \in 1 .. Len(s) => t[k] = s[k + 1] /\ k \in 1 .. Len(t)
          BY <1>1, <2>1
        <5>2. k + 1 \notin 1 .. Len(s) => k \notin 1 .. Len(t)
          BY <1>1
        <5> QED
          BY <1>2, <4>1, <5>1, <5>2 DEF At
      <4>2. CASE j + 1 < k
        <5>1. j + 1 \in 1 .. Len(s) /\ j + 1 \in 1 .. Len(t) /\ t[j + 1] = s[j + 1]
          BY <1>1, <2>0, <4>2
        <5> QED
          BY <1>2, <2>0, <4>2, <5>1 DEF At
      <4> QED
        BY <1>2, <2>0, <2>1, <4>1, <4>2
    <3>3. At(t, j - 1) = At(s, j - 1)
      BY <1>1, <1>3, <2>1, <3>1 DEF At
    <3>4. nx[s[j]] = At(s, j + 1) /\ pv[s[j]] = At(s, j - 1)
      BY <3>1 DEF Chained
    <3>5. s[j] = At(s, k - 1) <=> j = k - 1
      BY <1>1, <1>2, <2>1, <3>1 DEF At
    <3>6. s[j] # At(s, k + 1)
      BY <1>1, <1>2, <2>1, <3>1 DEF At
    <3> QED
      BY <2>0, <3>1, <3>2, <3>3, <3>4, <3>5, <3>6 DEF ChainedOut
  <2>2. CASE j >= k
    <3> DEFINE i == j + 1
    <3>1. i \in 1 .. Len(s) /\ t[j] = s[i] /\ j = i - 1 /\ i > k
      BY <1>2, <1>5, <2>0, <2>2
    <3> HIDE DEF i
    <3>2. At(t, j + 1) = At(s, i + 1)
      <4>1. i + 1 \in 1 .. Len(s) => i \in 1 .. Len(t) /\ t[i] = s[i + 1]
        <5> HAVE i + 1 \in 1 .. Len(s)
        <5>1. i \in Int /\ k \in Int /\ i > k
          BY <3>1
        <5>2. i \in 1 .. (Len(s) - 1) /\ ~(i < k)
          BY <1>1, <5>1
        <5> QED
          BY <1>1, <5>2
      <4>2. i + 1 \notin 1 .. Len(s) => i \notin 1 .. Len(t)
        BY <1>1, <3>1
      <4> QED
        BY <1>1, <3>1, <4>1, <4>2 DEF At
    <3>3. At(t, j - 1) = IF i = k + 1 THEN At(s, k - 1) ELSE At(s, i - 1)
      <4>1. CASE i = k + 1
        <5>1. k - 1 \in 1 .. Len(s) => k - 1 \in 1 .. Len(t) /\ t[k - 1] = s[k - 1]
          BY <1>1
        <5>2. k - 1 \notin 1 .. Len(s) => k - 1 \notin 1 .. Len(t)
          BY <1>1
        <5> QED
          BY <1>2, <3>1, <4>1, <5>1, <5>2 DEF At
      <4>2. CASE i - 1 > k
        <5>1. i - 1 \in 1 .. Len(s) /\ (i - 1) - 1 \in 1 .. Len(t) /\ t[(i - 1) - 1] = s[i - 1]
          BY <1>1, <1>2, <1>4, <3>1, <4>2
        <5> QED
          BY <1>2, <3>1, <4>2, <5>1 DEF At
      <4> QED
        BY <1>1, <1>2, <3>1, <4>1, <4>2
    <3>4. nx[s[i]] = At(s, i + 1) /\ pv[s[i]] = At(s, i - 1)
      BY <3>1 DEF Chained
    <3>5. s[i] = At(s, k + 1) <=> i = k + 1
      BY <1>1, <1>2, <3>1 DEF At
    <3>6. s[i] # At(s, k - 1)
      BY <1>1, <1>2, <3>1 DEF At
    <3> QED
      BY <2>0, <3>1, <3>2, <3>3, <3>4, <3>5, <3>6 DEF ChainedOut
  <2> QED
    BY <1>2, <2>0, <2>1, <2>2
<1>11. Chained(ny, pw, t)
  BY <1>6, <1>10 DEF Chained
<1> QED
  BY <1>1, <1>7, <1>9, <1>11 DEF ChainedWithout, t

\* The places of a sequence with an item put in.
LEMMA InsertedPlaces ==
  ASSUME NEW T, NEW i \in Seq(T), NEW k \in 1 .. (Len(i) + 1), NEW v \in T
  PROVE  /\ Inserted(i, k, v) \in Seq(T) /\ Len(Inserted(i, k, v)) = Len(i) + 1
         /\ \A m \in 1 .. (Len(i) + 1) :
              Inserted(i, k, v)[m] = IF m < k THEN i[m] ELSE IF m = k THEN v ELSE i[m - 1]
BY DEF Inserted

\* The places of a sequence with an item taken out.
LEMMA DroppedPlaces ==
  ASSUME NEW T, NEW i \in Seq(T), NEW k \in 1 .. Len(i)
  PROVE  /\ Dropped(i, k) \in Seq(T) /\ Len(Dropped(i, k)) = Len(i) - 1
         /\ \A m \in 1 .. (Len(i) - 1) : Dropped(i, k)[m] = IF m < k THEN i[m] ELSE i[m + 1]
BY DEF Dropped

\* Putting in at the end, at the front and before an item.
LEMMA InsertedSeq ==
  ASSUME NEW T, NEW i \in Seq(T), NEW v \in T
  PROVE  /\ Inserted(i, Len(i) + 1, v) = Append(i, v)
         /\ Inserted(i, 1, v) = <<v>> \o i
         /\ \A k \in 1 .. Len(i) : Inserted(i, k, v) = InsertAt(i, k, v)
<1>1. Inserted(i, Len(i) + 1, v) = Append(i, v)
  <2> DEFINE e == Len(i) + 1
             t == Inserted(i, e, v)
             u == Append(i, v)
  <2>0. e \in 1 .. (Len(i) + 1)
    OBVIOUS
  <2>1. e = Len(i) + 1 /\ Len(i) \in Nat
    OBVIOUS
  <2> HIDE DEF e
  <2>2. /\ t \in Seq(T) /\ Len(t) = Len(i) + 1
        /\ \A m \in 1 .. (Len(i) + 1) : t[m] = IF m < e THEN i[m] ELSE IF m = e THEN v ELSE i[m - 1]
    BY <2>0, <2>1 DEF Inserted
  <2>3. /\ u \in Seq(T) /\ Len(u) = Len(i) + 1
        /\ \A m \in 1 .. (Len(i) + 1) : u[m] = IF m = Len(i) + 1 THEN v ELSE i[m]
    OBVIOUS
  <2> HIDE DEF t, u
  <2>4. \A m \in 1 .. Len(t) : t[m] = u[m]
    BY <2>1, <2>2, <2>3
  <2>5. t = u
    BY <2>2, <2>3, <2>4, SeqEqual
  <2> QED
    BY <2>5 DEF t, u, e
<1>2. Inserted(i, 1, v) = <<v>> \o i
  BY DEF Inserted
<1>3. ASSUME NEW k \in 1 .. Len(i) PROVE Inserted(i, k, v) = InsertAt(i, k, v)
  <2> DEFINE a == SubSeq(i, 1, k - 1)
             b == SubSeq(i, k, Len(i))
             c == a \o <<v>>
             t == Inserted(i, k, v)
             u == c \o b
  <2>1. /\ a \in Seq(T) /\ Len(a) = k - 1 /\ \A m \in 1 .. (k - 1) : a[m] = i[m]
        /\ b \in Seq(T) /\ Len(b) = Len(i) - k + 1
        /\ \A m \in 1 .. (Len(i) - k + 1) : b[m] = i[m + k - 1]
    OBVIOUS
  <2>2. /\ t \in Seq(T) /\ Len(t) = Len(i) + 1
        /\ \A m \in 1 .. (Len(i) + 1) : t[m] = IF m < k THEN i[m] ELSE IF m = k THEN v ELSE i[m - 1]
    <3>1. k \in 1 .. (Len(i) + 1)
      OBVIOUS
    <3> QED
      BY <3>1, InsertedPlaces
  <2>3. InsertAt(i, k, v) = u
    BY DEF InsertAt
  <2> HIDE DEF a, b, t
  <2>4. c \in Seq(T) /\ Len(c) = k /\ \A m \in 1 .. k : c[m] = IF m < k THEN i[m] ELSE v
    BY <2>1
  <2> HIDE DEF c
  <2>5. /\ u \in Seq(T) /\ Len(u) = Len(c) + Len(b)
        /\ \A m \in 1 .. (Len(c) + Len(b)) : u[m] = IF m <= Len(c) THEN c[m] ELSE b[m - Len(c)]
    <3>1. c \in Seq(T) /\ b \in Seq(T)
      BY <2>1, <2>4
    <3> QED
      BY <3>1, ConcatProperties
  <2> HIDE DEF u
  <2>6. ASSUME NEW m \in 1 .. Len(t) PROVE t[m] = u[m]
    <3>0. /\ m \in 1 .. (Len(i) + 1) /\ m \in 1 .. (Len(c) + Len(b)) /\ m \in Int /\ k \in Int
          /\ Len(c) = k /\ Len(i) \in Nat
      BY <2>1, <2>2, <2>4
    <3>1. CASE m <= k
      <4>1. m \in 1 .. k /\ u[m] = c[m]
        BY <2>5, <3>0, <3>1
      <4>2. c[m] = IF m < k THEN i[m] ELSE v
        BY <2>4, <4>1
      <4> QED
        BY <2>2, <3>0, <3>1, <4>1, <4>2
    <3>2. CASE m > k
      <4>1. u[m] = b[m - k]
        BY <2>5, <3>0, <3>2
      <4>2. m - k \in 1 .. (Len(i) - k + 1) /\ (m - k) + k - 1 = m - 1
        BY <3>0, <3>2
      <4>3. b[m - k] = i[m - 1]
        BY <2>1, <4>2
      <4> QED
        BY <2>2, <3>0, <3>2, <4>1, <4>3
    <3> QED
      BY <3>0, <3>1, <3>2
  <2>7. Len(t) = Len(u)
    BY <2>1, <2>2, <2>4, <2>5
  <2>8. t = u
    BY <2>2, <2>5, <2>6, <2>7, SeqEqual
  <2> QED
    BY <2>3, <2>8 DEF t, u, c
<1> QED
  BY <1>1, <1>2, <1>3

\* Taking out at an index, at the end and at the front.
LEMMA DroppedSeq ==
  ASSUME NEW T, NEW i \in Seq(T), NEW k \in 1 .. Len(i)
  PROVE  /\ Dropped(i, k) = SubSeq(i, 1, k - 1) \o SubSeq(i, k + 1, Len(i))
         /\ Dropped(i, Len(i)) = SubSeq(i, 1, Len(i) - 1)
         /\ Dropped(i, 1) = Tail(i)
<1>1. Dropped(i, k) = SubSeq(i, 1, k - 1) \o SubSeq(i, k + 1, Len(i))
  <2> DEFINE a == SubSeq(i, 1, k - 1)
             b == SubSeq(i, k + 1, Len(i))
             t == Dropped(i, k)
             u == a \o b
  <2>1. /\ a \in Seq(T) /\ Len(a) = k - 1 /\ \A m \in 1 .. (k - 1) : a[m] = i[m]
        /\ b \in Seq(T) /\ Len(b) = Len(i) - k
        /\ \A m \in 1 .. (Len(i) - k) : b[m] = i[m + k]
    OBVIOUS
  <2>2. /\ t \in Seq(T) /\ Len(t) = Len(i) - 1
        /\ \A m \in 1 .. (Len(i) - 1) : t[m] = IF m < k THEN i[m] ELSE i[m + 1]
    BY DroppedPlaces
  <2> HIDE DEF a, b, t
  <2>3. /\ u \in Seq(T) /\ Len(u) = (k - 1) + (Len(i) - k)
        /\ \A m \in 1 .. ((k - 1) + (Len(i) - k)) : u[m] = IF m <= k - 1 THEN a[m] ELSE b[m - (k - 1)]
    <3>1. /\ u \in Seq(T) /\ Len(u) = Len(a) + Len(b)
          /\ \A m \in 1 .. (Len(a) + Len(b)) : u[m] = IF m <= Len(a) THEN a[m] ELSE b[m - Len(a)]
      BY <2>1, ConcatProperties
    <3> HIDE DEF u
    <3> QED
      BY <2>1, <3>1
  <2> HIDE DEF u
  <2>4. ASSUME NEW m \in 1 .. Len(t) PROVE t[m] = u[m]
    <3>0. m \in 1 .. (Len(i) - 1) /\ m \in 1 .. ((k - 1) + (Len(i) - k)) /\ m \in Int /\ k \in Int
      BY <2>1, <2>2
    <3>1. CASE m < k
      <4>1. m \in 1 .. (k - 1) /\ m <= k - 1
        BY <3>0, <3>1
      <4> QED
        BY <2>1, <2>2, <2>3, <3>0, <3>1, <4>1
    <3>2. CASE m >= k
      <4>1. m - (k - 1) \in 1 .. (Len(i) - k) /\ (m - (k - 1)) + k = m + 1 /\ ~(m <= k - 1)
        BY <3>0, <3>2
      <4> QED
        BY <2>1, <2>2, <2>3, <3>0, <3>2, <4>1, SMTT(30)
    <3> QED
      BY <3>0, <3>1, <3>2
  <2>5. Len(t) = Len(u)
    BY <2>2, <2>3
  <2>6. t = u
    BY <2>2, <2>3, <2>4, <2>5, SeqEqual
  <2> QED
    BY <2>6 DEF t, u, a, b
<1>2. Dropped(i, Len(i)) = SubSeq(i, 1, Len(i) - 1)
  BY DEF Dropped
<1>3. Dropped(i, 1) = Tail(i)
  <2>1. i # <<>> /\ 1 \in 1 .. Len(i)
    OBVIOUS
  <2>2. Tail(i) \in Seq(T) /\ Len(Tail(i)) = Len(i) - 1 /\ \A m \in 1 .. Len(Tail(i)) : Tail(i)[m] = i[m + 1]
    BY <2>1, HeadTailProperties
  <2>3. /\ Dropped(i, 1) \in Seq(T) /\ Len(Dropped(i, 1)) = Len(i) - 1
        /\ \A m \in 1 .. (Len(i) - 1) : Dropped(i, 1)[m] = IF m < 1 THEN i[m] ELSE i[m + 1]
    BY <2>1, DroppedPlaces
  <2>4. \A m \in 1 .. Len(Dropped(i, 1)) : Dropped(i, 1)[m] = Tail(i)[m]
    BY <2>2, <2>3
  <2> QED
    BY <2>2, <2>3, <2>4, SeqEqual
<1> QED
  BY <1>1, <1>2, <1>3

\* How many naturals there are up to n.
LEMMA UpTo ==
  ASSUME NEW n \in Nat
  PROVE  IsFiniteSet(1 .. n) /\ Cardinality(1 .. n) = n
BY FS_Interval

-------------------------------------------------------------------------------
\* Walks.

\* Where a walk goes on to from p.
StepFrom(t, p, field) ==
  IF p \in t.liveKeys THEN t.keyEntry[p][field]
  ELSE IF p \in t.liveVals THEN t.valEntry[p][field] ELSE Nil

\* The first of the n places of a is x, and each leads to the next.
LeadsAlong(t, x, n, field, a) ==
  /\ a = [j \in 1 .. n |-> a[j]]
  /\ n >= 1 => a[1] = x
  /\ \A j \in 1 .. n : j # 1 => a[j] = StepFrom(t, a[j - 1], field)

\* A walk comes to the places that lead to one another from where it starts: by
\* induction on the place.
LEMMA WalkIs ==
  ASSUME NEW t, NEW x, NEW n \in Nat, NEW field, NEW a, LeadsAlong(t, x, n, field, a)
  PROVE  Walk(t, x, n, field) = a
<1> USE DEF LeadsAlong
<1> DEFINE IsWalk(w) ==
             w = [j \in 1 .. n |->
                    IF j = 1 THEN x
                    ELSE IF w[j - 1] \in t.liveKeys THEN t.keyEntry[w[j - 1]][field]
                    ELSE IF w[j - 1] \in t.liveVals THEN t.valEntry[w[j - 1]][field] ELSE Nil]
<1>1. \A w : IsWalk(w) <=>
               w = [j \in 1 .. n |-> IF j = 1 THEN x ELSE StepFrom(t, w[j - 1], field)]
  BY DEF StepFrom
<1>2. IsWalk(a)
  <2> HIDE DEF IsWalk
  <2>1. \A j \in 1 .. n : a[j] = IF j = 1 THEN x ELSE StepFrom(t, a[j - 1], field)
    <3> TAKE j \in 1 .. n
    <3>1. CASE j = 1
      BY <3>1
    <3>2. CASE j # 1
      BY <3>2
    <3> QED
      BY <3>1, <3>2
  <2>2. a = [j \in 1 .. n |-> IF j = 1 THEN x ELSE StepFrom(t, a[j - 1], field)]
    BY <2>1
  <2> QED
    BY <1>1, <2>2
<1>3. ASSUME NEW w, IsWalk(w) PROVE w = a
  <2>1. w = [j \in 1 .. n |-> IF j = 1 THEN x ELSE StepFrom(t, w[j - 1], field)]
    <3> HIDE DEF IsWalk
    <3> QED
      BY <1>1, <1>3
  <2> HIDE DEF IsWalk
  <2>2. \A j \in 1 .. n : w[j] = IF j = 1 THEN x ELSE StepFrom(t, w[j - 1], field)
    BY <2>1
  <2>3. \A j \in 1 .. n : w[j] = a[j]
    <3> DEFINE D == {j \in 1 .. n : w[j] # a[j]}
    <3> SUFFICES ASSUME D # {} PROVE FALSE
      OBVIOUS
    <3>1. D \in SUBSET Nat
      OBVIOUS
    <3>2. PICK j \in D : \A l \in D : j <= l
      BY <3>1, LeastElement
    <3>3. j \in 1 .. n /\ w[j] # a[j] /\ j # 1
      BY <2>2, <3>2
    <3>4. j - 1 \in 1 .. n /\ j - 1 \notin D
      BY <3>2, <3>3
    <3>5. w[j - 1] = a[j - 1]
      BY <3>4
    <3> QED
      BY <2>2, <3>3, <3>5
  <2>4. w = [j \in 1 .. n |-> w[j]]
    BY <2>1
  <2> QED
    BY <2>3, <2>4
<1>4. Walk(t, x, n, field) = CHOOSE w : IsWalk(w)
  BY Zenon DEF Walk
<1> HIDE DEF IsWalk
<1>5. IsWalk(CHOOSE w : IsWalk(w))
  BY <1>2
<1> QED
  BY <1>3, <1>4, <1>5

-------------------------------------------------------------------------------
\* What the struct and the memory behind it may hold.

KeyPlaces == Keys \cup {Nil}

ValPlaces == Entries \cup {Nil}

KeyCells == [prev : KeyPlaces, next : KeyPlaces, valEntry : ValPlaces]

ValCells == [prev : ValPlaces, next : ValPlaces, key : Keys \cup {NoKey}, val : Values \cup {Undef}]

Tables ==
  [buckets : [Buckets -> KeyPlaces], itemNum : Int,
   valListHead : ValPlaces, valListTail : ValPlaces,
   keyEntry : [Keys -> KeyCells], liveKeys : SUBSET Keys,
   valEntry : [Entries -> ValCells], liveVals : SUBSET Entries, fault : BOOLEAN]

\* The parts of a table that a step may leave as they are: the struct but for
\* the buckets, the buckets and key entries, the links and the data of value
\* entries.
SameEnds(g, t) ==
  /\ g.itemNum = t.itemNum /\ g.valListHead = t.valListHead /\ g.valListTail = t.valListTail

SameKeys(g, t) ==
  g.buckets = t.buckets /\ g.keyEntry = t.keyEntry /\ g.liveKeys = t.liveKeys

SameVals(g, t) == g.valEntry = t.valEntry /\ g.liveVals = t.liveVals

SameLinks(g, t) ==
  \A m \in Entries :
    g.valEntry[m].next = t.valEntry[m].next /\ g.valEntry[m].prev = t.valEntry[m].prev

SameData(g, t) ==
  \A m \in Entries :
    g.valEntry[m].key = t.valEntry[m].key /\ g.valEntry[m].val = t.valEntry[m].val

-------------------------------------------------------------------------------
\* One assignment at a time: the value entries.

\* g is t but for one kind of field of value entries.
ValsOnly(g, t) ==
  /\ g \in Tables /\ g.fault = t.fault /\ g.liveVals = t.liveVals
  /\ SameEnds(g, t) /\ SameKeys(g, t)

NextIs(g, t, e, x) ==
  /\ ValsOnly(g, t) /\ SameData(g, t)
  /\ \A m \in Entries :
       /\ g.valEntry[m].next = IF m = e THEN x ELSE t.valEntry[m].next
       /\ g.valEntry[m].prev = t.valEntry[m].prev

PrevIs(g, t, e, x) ==
  /\ ValsOnly(g, t) /\ SameData(g, t)
  /\ \A m \in Entries :
       /\ g.valEntry[m].prev = IF m = e THEN x ELSE t.valEntry[m].prev
       /\ g.valEntry[m].next = t.valEntry[m].next

KeyIs(g, t, e, x) ==
  /\ ValsOnly(g, t) /\ SameLinks(g, t)
  /\ \A m \in Entries :
       /\ g.valEntry[m].key = IF m = e THEN x ELSE t.valEntry[m].key
       /\ g.valEntry[m].val = t.valEntry[m].val

ValIs(g, t, e, x) ==
  /\ ValsOnly(g, t) /\ SameLinks(g, t)
  /\ \A m \in Entries :
       /\ g.valEntry[m].val = IF m = e THEN x ELSE t.valEntry[m].val
       /\ g.valEntry[m].key = t.valEntry[m].key

\* LinkVal sets the next of a value entry, and nothing of no entry.
LEMMA LinkNext ==
  ASSUME NEW t \in Tables, NEW e \in ValPlaces, NEW x \in ValPlaces, e = Nil \/ e \in t.liveVals
  PROVE  NextIs(LinkVal(t, e, "next", x), t, e, x)
<1>1. Nil \notin Entries
  BY EntriesAssumption
<1>2. CASE e = Nil
  BY <1>1, <1>2 DEF LinkVal, NextIs, ValsOnly, SameData, SameEnds, SameKeys
<1>3. CASE e # Nil
  <2> DEFINE g == [t EXCEPT !.valEntry[e]["next"] = x]
  <2>1. LinkVal(t, e, "next", x) = g /\ e \in Entries
    BY <1>3 DEF LinkVal, ValPlaces
  <2>2. t.valEntry \in [Entries -> ValCells]
    BY DEF Tables
  <2>3. g = [t EXCEPT !.valEntry = [t.valEntry EXCEPT ![e] = [t.valEntry[e] EXCEPT !.next = x]]]
    OBVIOUS
  <2>4. [t.valEntry[e] EXCEPT !.next = x] \in ValCells
    BY <2>1, <2>2 DEF ValCells
  <2>5. [t.valEntry EXCEPT ![e] = [t.valEntry[e] EXCEPT !.next = x]] \in [Entries -> ValCells]
    BY <2>2, <2>4
  <2>6. g \in Tables
    BY <2>3, <2>5 DEF Tables
  <2>7. /\ SameEnds(g, t) /\ SameKeys(g, t) /\ g.liveVals = t.liveVals /\ g.fault = t.fault
        /\ g.valEntry = [t.valEntry EXCEPT ![e] = [t.valEntry[e] EXCEPT !.next = x]]
    BY <2>3 DEF Tables, SameEnds, SameKeys
  <2> HIDE DEF g
  <2>8. /\ g.valEntry[e] = [t.valEntry[e] EXCEPT !.next = x]
        /\ \A m \in Entries : m # e => g.valEntry[m] = t.valEntry[m]
    BY <2>1, <2>2, <2>7
  <2>9. /\ g.valEntry[e].next = x /\ g.valEntry[e].prev = t.valEntry[e].prev
        /\ g.valEntry[e].key = t.valEntry[e].key /\ g.valEntry[e].val = t.valEntry[e].val
    BY <2>1, <2>2, <2>8 DEF ValCells
  <2> QED
    BY <2>1, <2>6, <2>7, <2>8, <2>9 DEF NextIs, ValsOnly, SameData
<1> QED
  BY <1>2, <1>3

\* LinkVal sets the prev of a value entry.
LEMMA LinkPrev ==
  ASSUME NEW t \in Tables, NEW e \in ValPlaces, NEW x \in ValPlaces, e = Nil \/ e \in t.liveVals
  PROVE  PrevIs(LinkVal(t, e, "prev", x), t, e, x)
<1>1. Nil \notin Entries
  BY EntriesAssumption
<1>2. CASE e = Nil
  BY <1>1, <1>2 DEF LinkVal, PrevIs, ValsOnly, SameData, SameEnds, SameKeys
<1>3. CASE e # Nil
  <2> DEFINE g == [t EXCEPT !.valEntry[e]["prev"] = x]
  <2>1. LinkVal(t, e, "prev", x) = g /\ e \in Entries
    BY <1>3 DEF LinkVal, ValPlaces
  <2>2. t.valEntry \in [Entries -> ValCells]
    BY DEF Tables
  <2>3. g = [t EXCEPT !.valEntry = [t.valEntry EXCEPT ![e] = [t.valEntry[e] EXCEPT !.prev = x]]]
    OBVIOUS
  <2>4. [t.valEntry[e] EXCEPT !.prev = x] \in ValCells
    BY <2>1, <2>2 DEF ValCells
  <2>5. [t.valEntry EXCEPT ![e] = [t.valEntry[e] EXCEPT !.prev = x]] \in [Entries -> ValCells]
    BY <2>2, <2>4
  <2>6. g \in Tables
    BY <2>3, <2>5 DEF Tables
  <2>7. /\ SameEnds(g, t) /\ SameKeys(g, t) /\ g.liveVals = t.liveVals /\ g.fault = t.fault
        /\ g.valEntry = [t.valEntry EXCEPT ![e] = [t.valEntry[e] EXCEPT !.prev = x]]
    BY <2>3 DEF Tables, SameEnds, SameKeys
  <2> HIDE DEF g
  <2>8. /\ g.valEntry[e] = [t.valEntry[e] EXCEPT !.prev = x]
        /\ \A m \in Entries : m # e => g.valEntry[m] = t.valEntry[m]
    BY <2>1, <2>2, <2>7
  <2>9. /\ g.valEntry[e].next = t.valEntry[e].next /\ g.valEntry[e].prev = x
        /\ g.valEntry[e].key = t.valEntry[e].key /\ g.valEntry[e].val = t.valEntry[e].val
    BY <2>1, <2>2, <2>8 DEF ValCells
  <2> QED
    BY <2>1, <2>6, <2>7, <2>8, <2>9 DEF PrevIs, ValsOnly, SameData
<1> QED
  BY <1>2, <1>3

\* LinkVal sets the key of a value entry.
LEMMA LinkKeyOf ==
  ASSUME NEW t \in Tables, NEW e \in ValPlaces, NEW x \in Keys \cup {NoKey}, e = Nil \/ e \in t.liveVals
  PROVE  KeyIs(LinkVal(t, e, "key", x), t, e, x)
<1>1. Nil \notin Entries
  BY EntriesAssumption
<1>2. CASE e = Nil
  BY <1>1, <1>2 DEF LinkVal, KeyIs, ValsOnly, SameLinks, SameEnds, SameKeys
<1>3. CASE e # Nil
  <2> DEFINE g == [t EXCEPT !.valEntry[e]["key"] = x]
  <2>1. LinkVal(t, e, "key", x) = g /\ e \in Entries
    BY <1>3 DEF LinkVal, ValPlaces
  <2>2. t.valEntry \in [Entries -> ValCells]
    BY DEF Tables
  <2>3. g = [t EXCEPT !.valEntry = [t.valEntry EXCEPT ![e] = [t.valEntry[e] EXCEPT !.key = x]]]
    OBVIOUS
  <2>4. [t.valEntry[e] EXCEPT !.key = x] \in ValCells
    BY <2>1, <2>2 DEF ValCells
  <2>5. [t.valEntry EXCEPT ![e] = [t.valEntry[e] EXCEPT !.key = x]] \in [Entries -> ValCells]
    BY <2>2, <2>4
  <2>6. g \in Tables
    BY <2>3, <2>5 DEF Tables
  <2>7. /\ SameEnds(g, t) /\ SameKeys(g, t) /\ g.liveVals = t.liveVals /\ g.fault = t.fault
        /\ g.valEntry = [t.valEntry EXCEPT ![e] = [t.valEntry[e] EXCEPT !.key = x]]
    BY <2>3 DEF Tables, SameEnds, SameKeys
  <2> HIDE DEF g
  <2>8. /\ g.valEntry[e] = [t.valEntry[e] EXCEPT !.key = x]
        /\ \A m \in Entries : m # e => g.valEntry[m] = t.valEntry[m]
    BY <2>1, <2>2, <2>7
  <2>9. /\ g.valEntry[e].next = t.valEntry[e].next /\ g.valEntry[e].prev = t.valEntry[e].prev
        /\ g.valEntry[e].key = x /\ g.valEntry[e].val = t.valEntry[e].val
    BY <2>1, <2>2, <2>8 DEF ValCells
  <2> QED
    BY <2>1, <2>6, <2>7, <2>8, <2>9 DEF KeyIs, ValsOnly, SameLinks
<1> QED
  BY <1>2, <1>3

\* LinkVal sets the value of a value entry.
LEMMA LinkValOf ==
  ASSUME NEW t \in Tables, NEW e \in ValPlaces, NEW x \in Values \cup {Undef}, e = Nil \/ e \in t.liveVals
  PROVE  ValIs(LinkVal(t, e, "val", x), t, e, x)
<1>1. Nil \notin Entries
  BY EntriesAssumption
<1>2. CASE e = Nil
  BY <1>1, <1>2 DEF LinkVal, ValIs, ValsOnly, SameLinks, SameEnds, SameKeys
<1>3. CASE e # Nil
  <2> DEFINE g == [t EXCEPT !.valEntry[e]["val"] = x]
  <2>1. LinkVal(t, e, "val", x) = g /\ e \in Entries
    BY <1>3 DEF LinkVal, ValPlaces
  <2>2. t.valEntry \in [Entries -> ValCells]
    BY DEF Tables
  <2>3. g = [t EXCEPT !.valEntry = [t.valEntry EXCEPT ![e] = [t.valEntry[e] EXCEPT !.val = x]]]
    OBVIOUS
  <2>4. [t.valEntry[e] EXCEPT !.val = x] \in ValCells
    BY <2>1, <2>2 DEF ValCells
  <2>5. [t.valEntry EXCEPT ![e] = [t.valEntry[e] EXCEPT !.val = x]] \in [Entries -> ValCells]
    BY <2>2, <2>4
  <2>6. g \in Tables
    BY <2>3, <2>5 DEF Tables
  <2>7. /\ SameEnds(g, t) /\ SameKeys(g, t) /\ g.liveVals = t.liveVals /\ g.fault = t.fault
        /\ g.valEntry = [t.valEntry EXCEPT ![e] = [t.valEntry[e] EXCEPT !.val = x]]
    BY <2>3 DEF Tables, SameEnds, SameKeys
  <2> HIDE DEF g
  <2>8. /\ g.valEntry[e] = [t.valEntry[e] EXCEPT !.val = x]
        /\ \A m \in Entries : m # e => g.valEntry[m] = t.valEntry[m]
    BY <2>1, <2>2, <2>7
  <2>9. /\ g.valEntry[e].next = t.valEntry[e].next /\ g.valEntry[e].prev = t.valEntry[e].prev
        /\ g.valEntry[e].key = t.valEntry[e].key /\ g.valEntry[e].val = x
    BY <2>1, <2>2, <2>8 DEF ValCells
  <2> QED
    BY <2>1, <2>6, <2>7, <2>8, <2>9 DEF ValIs, ValsOnly, SameLinks
<1> QED
  BY <1>2, <1>3

\* A value entry is made, and freed.
NewValIs(g, t, e, v) ==
  /\ g \in Tables /\ g.fault = t.fault /\ g.liveVals = t.liveVals \cup {e}
  /\ SameEnds(g, t) /\ SameKeys(g, t)
  /\ g.valEntry[e].next = Nil /\ g.valEntry[e].prev = Nil
  /\ g.valEntry[e].key = NoKey /\ g.valEntry[e].val = v
  /\ \A m \in Entries \ {e} : g.valEntry[m] = t.valEntry[m]

FreeValIs(g, t, e) ==
  /\ g \in Tables /\ g.fault = t.fault /\ g.liveVals = t.liveVals \ {e}
  /\ SameEnds(g, t) /\ SameKeys(g, t)
  /\ \A m \in Entries \ {e} : g.valEntry[m] = t.valEntry[m]

\* A new value entry is blank but for its value.
LEMMA NewVal ==
  ASSUME NEW t \in Tables, NEW e \in Entries, NEW v \in Values
  PROVE  NewValIs(NewValEntry(t, e, v), t, e, v)
<1> DEFINE c == [BlankVal EXCEPT !.val = v]
           L == t.liveVals \cup {e}
           g == NewValEntry(t, e, v)
<1>1. /\ c \in ValCells /\ c.next = Nil /\ c.prev = Nil /\ c.key = NoKey /\ c.val = v
  BY DEF BlankVal, ValCells, ValPlaces
<1>2. g = [t EXCEPT !.liveVals = L, !.valEntry = [t.valEntry EXCEPT ![e] = c]]
  BY DEF NewValEntry
<1>8. L \in SUBSET Entries /\ L = t.liveVals \cup {e}
  BY DEF Tables
<1> HIDE DEF c, L
<1>3. t.valEntry \in [Entries -> ValCells]
  BY DEF Tables
<1>4. [t.valEntry EXCEPT ![e] = c] \in [Entries -> ValCells]
  BY <1>1, <1>3
<1>5. g \in Tables
  BY <1>2, <1>4, <1>8 DEF Tables
<1>6. /\ SameEnds(g, t) /\ SameKeys(g, t) /\ g.fault = t.fault
      /\ g.liveVals = L /\ g.valEntry = [t.valEntry EXCEPT ![e] = c]
  BY <1>2 DEF Tables, SameEnds, SameKeys
<1> HIDE DEF g
<1>7. g.valEntry[e] = c /\ \A m \in Entries \ {e} : g.valEntry[m] = t.valEntry[m]
  BY <1>3, <1>6
<1> QED
  BY <1>1, <1>5, <1>6, <1>7, <1>8 DEF NewValIs, g

\* Freeing a value entry touches no other.
LEMMA FreeVals ==
  ASSUME NEW t \in Tables, NEW e \in t.liveVals
  PROVE  FreeValIs(FreeVal(t, e), t, e)
<1> DEFINE c == BlankVal
           L == t.liveVals \ {e}
           g == FreeVal(t, e)
<1>1. c \in ValCells /\ e \in Entries
  BY DEF BlankVal, ValCells, ValPlaces, Tables
<1>2. g = [t EXCEPT !.liveVals = L, !.valEntry = [t.valEntry EXCEPT ![e] = c]]
  BY DEF FreeVal
<1>8. L \in SUBSET Entries /\ L = t.liveVals \ {e}
  BY DEF Tables
<1> HIDE DEF c, L
<1>3. t.valEntry \in [Entries -> ValCells]
  BY DEF Tables
<1>4. /\ [t.valEntry EXCEPT ![e] = c] \in [Entries -> ValCells]
  BY <1>1, <1>3
<1>5. g \in Tables
  BY <1>2, <1>4, <1>8 DEF Tables
<1>6. /\ SameEnds(g, t) /\ SameKeys(g, t) /\ g.fault = t.fault
      /\ g.liveVals = L /\ g.valEntry = [t.valEntry EXCEPT ![e] = c]
  BY <1>2 DEF Tables, SameEnds, SameKeys
<1> HIDE DEF g
<1>7. \A m \in Entries \ {e} : g.valEntry[m] = t.valEntry[m]
  BY <1>1, <1>3, <1>6
<1> QED
  BY <1>5, <1>6, <1>7, <1>8 DEF FreeValIs, g

\* The ends of the list of values are moved.
EndsAre(g, t, x, y, n) ==
  /\ g \in Tables /\ g.fault = t.fault /\ SameKeys(g, t) /\ SameVals(g, t)
  /\ g.valListHead = x /\ g.valListTail = y /\ g.itemNum = n

\* Moving the ends of the list touches no entry.
LEMMA MovedEnds ==
  ASSUME NEW t \in Tables, NEW x \in ValPlaces, NEW y \in ValPlaces, NEW n \in Int
  PROVE  EndsAre([t EXCEPT !.valListHead = x, !.valListTail = y, !.itemNum = n], t, x, y, n)
BY DEF Tables, EndsAre, SameKeys, SameVals

-------------------------------------------------------------------------------
\* One assignment at a time: the buckets and the key entries.

\* g is t but for key entries and buckets.
KeysOnly(g, t) == g \in Tables /\ g.fault = t.fault /\ SameEnds(g, t) /\ SameVals(g, t)

KNextIs(g, t, k, x) ==
  /\ KeysOnly(g, t) /\ g.buckets = t.buckets /\ g.liveKeys = t.liveKeys
  /\ \A m \in Keys :
       /\ g.keyEntry[m].next = IF m = k THEN x ELSE t.keyEntry[m].next
       /\ g.keyEntry[m].prev = t.keyEntry[m].prev
       /\ g.keyEntry[m].valEntry = t.keyEntry[m].valEntry

KPrevIs(g, t, k, x) ==
  /\ KeysOnly(g, t) /\ g.buckets = t.buckets /\ g.liveKeys = t.liveKeys
  /\ \A m \in Keys :
       /\ g.keyEntry[m].prev = IF m = k THEN x ELSE t.keyEntry[m].prev
       /\ g.keyEntry[m].next = t.keyEntry[m].next
       /\ g.keyEntry[m].valEntry = t.keyEntry[m].valEntry

\* LinkKey sets the next of a key entry, and nothing of no entry.
LEMMA LinkKNext ==
  ASSUME NEW t \in Tables, NEW k \in KeyPlaces, NEW x \in KeyPlaces, k = Nil \/ k \in t.liveKeys
  PROVE  KNextIs(LinkKey(t, k, "next", x), t, k, x)
<1>1. Nil \notin Keys
  BY EntriesAssumption
<1>2. CASE k = Nil
  BY <1>1, <1>2 DEF LinkKey, KNextIs, KeysOnly, SameEnds, SameVals
<1>3. CASE k # Nil
  <2> DEFINE g == [t EXCEPT !.keyEntry[k]["next"] = x]
  <2>1. LinkKey(t, k, "next", x) = g /\ k \in Keys
    BY <1>3 DEF LinkKey, KeyPlaces
  <2>2. t.keyEntry \in [Keys -> KeyCells]
    BY DEF Tables
  <2>3. g = [t EXCEPT !.keyEntry = [t.keyEntry EXCEPT ![k] = [t.keyEntry[k] EXCEPT !.next = x]]]
    OBVIOUS
  <2>4. [t.keyEntry[k] EXCEPT !.next = x] \in KeyCells
    BY <2>1, <2>2 DEF KeyCells
  <2>5. [t.keyEntry EXCEPT ![k] = [t.keyEntry[k] EXCEPT !.next = x]] \in [Keys -> KeyCells]
    BY <2>2, <2>4
  <2>6. g \in Tables
    BY <2>3, <2>5 DEF Tables
  <2>7. /\ SameEnds(g, t) /\ SameVals(g, t) /\ g.fault = t.fault
        /\ g.buckets = t.buckets /\ g.liveKeys = t.liveKeys
        /\ g.keyEntry = [t.keyEntry EXCEPT ![k] = [t.keyEntry[k] EXCEPT !.next = x]]
    BY <2>3 DEF Tables, SameEnds, SameVals
  <2> HIDE DEF g
  <2>8. /\ g.keyEntry[k] = [t.keyEntry[k] EXCEPT !.next = x]
        /\ \A m \in Keys : m # k => g.keyEntry[m] = t.keyEntry[m]
    BY <2>1, <2>2, <2>7
  <2>9. /\ g.keyEntry[k].next = x /\ g.keyEntry[k].prev = t.keyEntry[k].prev
        /\ g.keyEntry[k].valEntry = t.keyEntry[k].valEntry
    BY <2>1, <2>2, <2>8 DEF KeyCells
  <2> QED
    BY <2>1, <2>6, <2>7, <2>8, <2>9 DEF KNextIs, KeysOnly
<1> QED
  BY <1>2, <1>3

\* LinkKey sets the prev of a key entry.
LEMMA LinkKPrev ==
  ASSUME NEW t \in Tables, NEW k \in KeyPlaces, NEW x \in KeyPlaces, k = Nil \/ k \in t.liveKeys
  PROVE  KPrevIs(LinkKey(t, k, "prev", x), t, k, x)
<1>1. Nil \notin Keys
  BY EntriesAssumption
<1>2. CASE k = Nil
  BY <1>1, <1>2 DEF LinkKey, KPrevIs, KeysOnly, SameEnds, SameVals
<1>3. CASE k # Nil
  <2> DEFINE g == [t EXCEPT !.keyEntry[k]["prev"] = x]
  <2>1. LinkKey(t, k, "prev", x) = g /\ k \in Keys
    BY <1>3 DEF LinkKey, KeyPlaces
  <2>2. t.keyEntry \in [Keys -> KeyCells]
    BY DEF Tables
  <2>3. g = [t EXCEPT !.keyEntry = [t.keyEntry EXCEPT ![k] = [t.keyEntry[k] EXCEPT !.prev = x]]]
    OBVIOUS
  <2>4. [t.keyEntry[k] EXCEPT !.prev = x] \in KeyCells
    BY <2>1, <2>2 DEF KeyCells
  <2>5. [t.keyEntry EXCEPT ![k] = [t.keyEntry[k] EXCEPT !.prev = x]] \in [Keys -> KeyCells]
    BY <2>2, <2>4
  <2>6. g \in Tables
    BY <2>3, <2>5 DEF Tables
  <2>7. /\ SameEnds(g, t) /\ SameVals(g, t) /\ g.fault = t.fault
        /\ g.buckets = t.buckets /\ g.liveKeys = t.liveKeys
        /\ g.keyEntry = [t.keyEntry EXCEPT ![k] = [t.keyEntry[k] EXCEPT !.prev = x]]
    BY <2>3 DEF Tables, SameEnds, SameVals
  <2> HIDE DEF g
  <2>8. /\ g.keyEntry[k] = [t.keyEntry[k] EXCEPT !.prev = x]
        /\ \A m \in Keys : m # k => g.keyEntry[m] = t.keyEntry[m]
    BY <2>1, <2>2, <2>7
  <2>9. /\ g.keyEntry[k].prev = x /\ g.keyEntry[k].next = t.keyEntry[k].next
        /\ g.keyEntry[k].valEntry = t.keyEntry[k].valEntry
    BY <2>1, <2>2, <2>8 DEF KeyCells
  <2> QED
    BY <2>1, <2>6, <2>7, <2>8, <2>9 DEF KPrevIs, KeysOnly
<1> QED
  BY <1>2, <1>3

\* A key entry leads to another value entry.
LeadsIs(g, t, k, e) ==
  /\ KeysOnly(g, t) /\ g.buckets = t.buckets /\ g.liveKeys = t.liveKeys
  /\ \A m \in Keys :
       /\ g.keyEntry[m].valEntry = IF m = k THEN e ELSE t.keyEntry[m].valEntry
       /\ g.keyEntry[m].next = t.keyEntry[m].next
       /\ g.keyEntry[m].prev = t.keyEntry[m].prev

\* Making a key entry lead elsewhere touches nothing else.
LEMMA Leads ==
  ASSUME NEW t \in Tables, NEW k \in Keys, NEW e \in Entries
  PROVE  LeadsIs([t EXCEPT !.keyEntry[k].valEntry = e], t, k, e)
<1> DEFINE g == [t EXCEPT !.keyEntry[k].valEntry = e]
<1>2. t.keyEntry \in [Keys -> KeyCells]
  BY DEF Tables
<1>3. g = [t EXCEPT !.keyEntry = [t.keyEntry EXCEPT ![k] = [t.keyEntry[k] EXCEPT !.valEntry = e]]]
  OBVIOUS
<1>4. [t.keyEntry[k] EXCEPT !.valEntry = e] \in KeyCells
  BY <1>2 DEF KeyCells, ValPlaces
<1>5. [t.keyEntry EXCEPT ![k] = [t.keyEntry[k] EXCEPT !.valEntry = e]] \in [Keys -> KeyCells]
  BY <1>2, <1>4
<1>6. g \in Tables
  BY <1>3, <1>5 DEF Tables
<1>7. /\ SameEnds(g, t) /\ SameVals(g, t) /\ g.fault = t.fault
      /\ g.buckets = t.buckets /\ g.liveKeys = t.liveKeys
      /\ g.keyEntry = [t.keyEntry EXCEPT ![k] = [t.keyEntry[k] EXCEPT !.valEntry = e]]
  BY <1>3 DEF Tables, SameEnds, SameVals
<1> HIDE DEF g
<1>8. /\ g.keyEntry[k] = [t.keyEntry[k] EXCEPT !.valEntry = e]
      /\ \A m \in Keys : m # k => g.keyEntry[m] = t.keyEntry[m]
  BY <1>2, <1>7
<1>9. /\ g.keyEntry[k].valEntry = e /\ g.keyEntry[k].next = t.keyEntry[k].next
      /\ g.keyEntry[k].prev = t.keyEntry[k].prev
  BY <1>2, <1>8 DEF KeyCells
<1> QED
  BY <1>6, <1>7, <1>8, <1>9 DEF LeadsIs, KeysOnly, g

\* A key entry is made, and freed.
NewKeyIs(g, t, k, e) ==
  /\ KeysOnly(g, t) /\ g.buckets = t.buckets /\ g.liveKeys = t.liveKeys \cup {k}
  /\ g.keyEntry[k].next = Nil /\ g.keyEntry[k].prev = Nil /\ g.keyEntry[k].valEntry = e
  /\ \A m \in Keys \ {k} : g.keyEntry[m] = t.keyEntry[m]

FreeKeyIs(g, t, k) ==
  /\ KeysOnly(g, t) /\ g.buckets = t.buckets /\ g.liveKeys = t.liveKeys \ {k}
  /\ \A m \in Keys \ {k} : g.keyEntry[m] = t.keyEntry[m]

\* A new key entry is blank but for the value entry it leads to.
LEMMA NewKey ==
  ASSUME NEW t \in Tables, NEW k \in Keys, NEW e \in Entries
  PROVE  NewKeyIs(NewKeyEntry(t, k, e), t, k, e)
<1> DEFINE c == [BlankKey EXCEPT !.valEntry = e]
           L == t.liveKeys \cup {k}
           g == NewKeyEntry(t, k, e)
<1>1. /\ c \in KeyCells /\ c.next = Nil /\ c.prev = Nil /\ c.valEntry = e
  BY DEF BlankKey, KeyCells, KeyPlaces, ValPlaces
<1>2. g = [t EXCEPT !.liveKeys = L, !.keyEntry = [t.keyEntry EXCEPT ![k] = c]]
  BY DEF NewKeyEntry
<1>8. L \in SUBSET Keys /\ L = t.liveKeys \cup {k}
  BY DEF Tables
<1> HIDE DEF c, L
<1>3. t.keyEntry \in [Keys -> KeyCells]
  BY DEF Tables
<1>4. [t.keyEntry EXCEPT ![k] = c] \in [Keys -> KeyCells]
  BY <1>1, <1>3
<1>5. g \in Tables
  BY <1>2, <1>4, <1>8 DEF Tables
<1>6. /\ SameEnds(g, t) /\ SameVals(g, t) /\ g.fault = t.fault /\ g.buckets = t.buckets
      /\ g.liveKeys = L /\ g.keyEntry = [t.keyEntry EXCEPT ![k] = c]
  BY <1>2 DEF Tables, SameEnds, SameVals
<1> HIDE DEF g
<1>7. g.keyEntry[k] = c /\ \A m \in Keys \ {k} : g.keyEntry[m] = t.keyEntry[m]
  BY <1>3, <1>6
<1> QED
  BY <1>1, <1>5, <1>6, <1>7, <1>8 DEF NewKeyIs, KeysOnly, g

\* Freeing a key entry touches no other.
LEMMA FreeKeys ==
  ASSUME NEW t \in Tables, NEW k \in t.liveKeys
  PROVE  FreeKeyIs(FreeKey(t, k), t, k)
<1> DEFINE c == BlankKey
           L == t.liveKeys \ {k}
           g == FreeKey(t, k)
<1>1. c \in KeyCells /\ k \in Keys
  BY DEF BlankKey, KeyCells, KeyPlaces, ValPlaces, Tables
<1>2. g = [t EXCEPT !.liveKeys = L, !.keyEntry = [t.keyEntry EXCEPT ![k] = c]]
  BY DEF FreeKey
<1>8. L \in SUBSET Keys /\ L = t.liveKeys \ {k}
  BY DEF Tables
<1> HIDE DEF c, L
<1>3. t.keyEntry \in [Keys -> KeyCells]
  BY DEF Tables
<1>4. /\ [t.keyEntry EXCEPT ![k] = c] \in [Keys -> KeyCells]
  BY <1>1, <1>3
<1>5. g \in Tables
  BY <1>2, <1>4, <1>8 DEF Tables
<1>6. /\ SameEnds(g, t) /\ SameVals(g, t) /\ g.fault = t.fault /\ g.buckets = t.buckets
      /\ g.liveKeys = L /\ g.keyEntry = [t.keyEntry EXCEPT ![k] = c]
  BY <1>2 DEF Tables, SameEnds, SameVals
<1> HIDE DEF g
<1>7. \A m \in Keys \ {k} : g.keyEntry[m] = t.keyEntry[m]
  BY <1>1, <1>3, <1>6
<1> QED
  BY <1>5, <1>6, <1>7, <1>8 DEF FreeKeyIs, KeysOnly, g

\* A bucket starts with another key entry.
BucketIs(g, t, b, x) ==
  /\ KeysOnly(g, t) /\ g.keyEntry = t.keyEntry /\ g.liveKeys = t.liveKeys
  /\ \A d \in Buckets : g.buckets[d] = IF d = b THEN x ELSE t.buckets[d]

\* Setting the first of a bucket touches no other bucket.
LEMMA SetBucket ==
  ASSUME NEW t \in Tables, NEW b \in Buckets, NEW x \in KeyPlaces
  PROVE  BucketIs([t EXCEPT !.buckets[b] = x], t, b, x)
<1> DEFINE g == [t EXCEPT !.buckets[b] = x]
<1>1. t.buckets \in [Buckets -> KeyPlaces]
  BY DEF Tables
<1>2. g = [t EXCEPT !.buckets = [t.buckets EXCEPT ![b] = x]]
  OBVIOUS
<1>3. [t.buckets EXCEPT ![b] = x] \in [Buckets -> KeyPlaces]
  BY <1>1
<1>4. g \in Tables
  BY <1>2, <1>3 DEF Tables
<1>5. /\ SameEnds(g, t) /\ SameVals(g, t) /\ g.fault = t.fault /\ g.keyEntry = t.keyEntry
      /\ g.liveKeys = t.liveKeys /\ g.buckets = [t.buckets EXCEPT ![b] = x]
  BY <1>2 DEF Tables, SameEnds, SameVals
<1> HIDE DEF g
<1> QED
  BY <1>1, <1>4, <1>5 DEF BucketIs, KeysOnly, g

-------------------------------------------------------------------------------
\* What a table in good order is.

NextOf(t) == [m \in Entries |-> t.valEntry[m].next]

PrevOf(t) == [m \in Entries |-> t.valEntry[m].prev]

KNextOf(t) == [m \in Keys |-> t.keyEntry[m].next]

KPrevOf(t) == [m \in Keys |-> t.keyEntry[m].prev]

\* The list of items is s.
ListOK(t, s) ==
  /\ s \in Seq(Entries) /\ Elems(s) \subseteq t.liveVals
  /\ t.itemNum = Len(s) /\ t.valListHead = At(s, 1) /\ t.valListTail = At(s, Len(s))
  /\ Chained(NextOf(t), PrevOf(t), s)

\* The chain of bucket b is c, which has all the key entries that belong there.
ChainOK(t, b, c) ==
  /\ c \in Seq(Keys) /\ Elems(c) = {k \in t.liveKeys : Hash[k] = b}
  /\ t.buckets[b] = At(c, 1)
  /\ Chained(KNextOf(t), KPrevOf(t), c)

BucketsOK(t) == \A b \in Buckets : \E c \in Seq(Keys) : ChainOK(t, b, c)

\* Keys and items lead to each other.
KeysOK(t) ==
  /\ \A e \in t.liveVals :
       t.valEntry[e].key # NoKey =>
         t.valEntry[e].key \in t.liveKeys /\ t.keyEntry[t.valEntry[e].key].valEntry = e
  /\ \A k \in t.liveKeys :
       t.keyEntry[k].valEntry \in t.liveVals /\ t.valEntry[t.keyEntry[k].valEntry].key = k

ValsOK(t) == \A e \in t.liveVals : t.valEntry[e].val \in Values

Keyed(t) == t \in Tables /\ ~t.fault /\ BucketsOK(t) /\ KeysOK(t) /\ ValsOK(t)

TableIs(t, s) == Keyed(t) /\ ListOK(t, s) /\ t.liveVals = Elems(s)

\* A sequence has no more items than there are if each is in it once.
LEMMA SeqFits ==
  ASSUME NEW S, IsFiniteSet(S), NEW c \in Seq(S), \A j, k \in 1 .. Len(c) : c[j] = c[k] => j = k
  PROVE  Cardinality(S) \in Nat /\ Len(c) \in Nat /\ Len(c) <= Cardinality(S)
<1>1. Cardinality(S) \in Nat
  BY FS_CardinalityType
<1>2. Len(c) \in Nat /\ Cardinality(1 .. Len(c)) = Len(c)
  <2>1. Len(c) \in Nat
    OBVIOUS
  <2> QED
    BY <2>1, UpTo
<1>3. c \in Injection(1 .. Len(c), S)
  BY DEF Injection, IsInjective
<1>4. Cardinality(1 .. Len(c)) <= Cardinality(S)
  BY <1>3, FS_Injection
<1> QED
  BY <1>1, <1>2, <1>4

\* Each key is once in a chain at most.
LEMMA ChainFits ==
  ASSUME NEW c \in Seq(Keys), \A j, k \in 1 .. Len(c) : c[j] = c[k] => j = k
  PROVE  Cardinality(Keys) \in Nat /\ Len(c) \in Nat /\ Len(c) <= Cardinality(Keys)
BY HashAssumption, SeqFits

\* A walk along a chain of key entries comes to its end.
LEMMA ChainIs ==
  ASSUME NEW t \in Tables, NEW b \in Buckets, NEW c, ChainOK(t, b, c)
  PROVE  /\ Cardinality(Keys) \in Nat /\ Len(c) \in Nat /\ Len(c) <= Cardinality(Keys)
         /\ Chain(t, b) = [j \in 1 .. (Cardinality(Keys) + 1) |-> At(c, j)]
<1> DEFINE N == Cardinality(Keys) + 1
           a == [j \in 1 .. N |-> At(c, j)]
<1>1. Cardinality(Keys) \in Nat /\ Len(c) \in Nat /\ Len(c) <= Cardinality(Keys)
  BY ChainFits DEF ChainOK, Chained
<1>2. N \in Nat /\ N >= 1
  BY <1>1
<1> HIDE DEF N
<1>3. \A j \in 1 .. Len(c) : c[j] \in t.liveKeys /\ c[j] \in Keys /\ t.keyEntry[c[j]].next = At(c, j + 1)
  <2> TAKE j \in 1 .. Len(c)
  <2>1. c[j] \in Elems(c) /\ c[j] \in Keys
    BY DEF Elems, ChainOK
  <2>2. KNextOf(t)[c[j]] = At(c, j + 1)
    BY DEF ChainOK, Chained
  <2> QED
    BY <2>1, <2>2 DEF ChainOK, KNextOf
<1>4. Nil \notin t.liveKeys /\ Nil \notin t.liveVals
  BY EntriesAssumption DEF Tables
<1>5. ASSUME NEW j \in 1 .. N, j # 1 PROVE a[j] = StepFrom(t, a[j - 1], "next")
  <2>1. j - 1 \in 1 .. N /\ a[j] = At(c, j) /\ a[j - 1] = At(c, j - 1) /\ j \in Int
    BY <1>2, <1>5
  <2>2. CASE j - 1 \in 1 .. Len(c)
    <3>1. a[j - 1] = c[j - 1] /\ c[j - 1] \in t.liveKeys /\ t.keyEntry[c[j - 1]].next = At(c, (j - 1) + 1)
      BY <1>3, <2>1, <2>2 DEF At
    <3>2. (j - 1) + 1 = j
      BY <2>1
    <3> QED
      BY <2>1, <3>1, <3>2 DEF StepFrom
  <2>3. CASE j - 1 \notin 1 .. Len(c)
    <3>1. a[j - 1] = Nil /\ a[j] = Nil
      BY <1>1, <1>5, <2>1, <2>3 DEF At
    <3> QED
      BY <1>4, <3>1 DEF StepFrom
  <2> QED
    BY <2>2, <2>3
<1>6. a[1] = t.buckets[b]
  BY <1>2 DEF ChainOK
<1>7. a = [j \in 1 .. N |-> a[j]]
  OBVIOUS
<1> HIDE DEF a
<1>9. \A j \in 1 .. N : j # 1 => a[j] = StepFrom(t, a[j - 1], "next")
  BY <1>5
<1>8. LeadsAlong(t, t.buckets[b], N, "next", a)
  BY <1>6, <1>7, <1>9 DEF LeadsAlong
<1> QED
  BY <1>1, <1>2, <1>8, WalkIs DEF Chain, a, N

\* The search for a key ends, and finds the key's entry if there is one.
LEMMA SearchWorks ==
  ASSUME NEW t \in Tables, BucketsOK(t), NEW k \in Keys
  PROVE  /\ HasEntry(t, k) <=> k \in t.liveKeys
         /\ ~SearchFails(t, k) /\ Searched(t, k) = t
<1> DEFINE b == Hash[k]
           N == Cardinality(Keys) + 1
<1>1. b \in Buckets
  BY HashAssumption
<1>2. PICK c \in Seq(Keys) : ChainOK(t, b, c)
  BY <1>1 DEF BucketsOK
<1>3. /\ Cardinality(Keys) \in Nat /\ Len(c) \in Nat /\ Len(c) <= Cardinality(Keys)
      /\ Chain(t, b) = [j \in 1 .. N |-> At(c, j)]
  BY <1>1, <1>2, ChainIs
<1>4. N \in Nat /\ N > Len(c)
  BY <1>3
<1>5. \A j \in 1 .. Len(c) : j \in 1 .. N /\ At(c, j) = c[j]
  BY <1>3, <1>4 DEF At
<1>6. \A j \in 1 .. N : Chain(t, b)[j] = At(c, j)
  BY <1>3
<1>7. DOMAIN Chain(t, b) = 1 .. N
  BY <1>3
<1>8. Elems(c) = {m \in t.liveKeys : Hash[m] = b} /\ Elems(c) = {c[j] : j \in 1 .. Len(c)}
  BY <1>2 DEF ChainOK, Elems
<1>9. HasEntry(t, k) <=> \E j \in DOMAIN Chain(t, b) : Chain(t, b)[j] = k /\ k \in t.liveKeys
  BY DEF HasEntry
<1>11. SearchFails(t, k) => \/ Chain(t, b)[N] # Nil
                            \/ \E j \in DOMAIN Chain(t, b) : Chain(t, b)[j] # Nil /\ Chain(t, b)[j] \notin t.liveKeys
  BY DEF SearchFails
<1> HIDE DEF N
<1>12. k \in t.liveKeys => HasEntry(t, k)
  <2> HAVE k \in t.liveKeys
  <2>1. k \in Elems(c)
    BY <1>8
  <2>2. PICK j \in 1 .. Len(c) : c[j] = k
    BY <1>8, <2>1
  <2>3. j \in 1 .. N /\ Chain(t, b)[j] = k
    BY <1>5, <1>6, <2>2
  <2> QED
    BY <1>7, <1>9, <2>3
<1>13. ~SearchFails(t, k)
  <2>1. Chain(t, b)[N] = Nil
    <3>1. N \in 1 .. N /\ At(c, N) = Nil
      BY <1>3, <1>4 DEF At
    <3> QED
      BY <1>6, <3>1
  <2>2. \A j \in 1 .. N : At(c, j) = Nil \/ At(c, j) \in t.liveKeys
    <3> TAKE j \in 1 .. N
    <3>1. CASE j \in 1 .. Len(c)
      BY <1>5, <1>8, <3>1
    <3>2. CASE j \notin 1 .. Len(c)
      BY <3>2 DEF At
    <3> QED
      BY <3>1, <3>2
  <2> QED
    BY <1>6, <1>7, <1>11, <2>1, <2>2
<1> QED
  BY <1>9, <1>12, <1>13 DEF Searched

\* Walking the list from its head, or from its tail, comes to the items in order.
LEMMA WalkList ==
  ASSUME NEW t \in Tables, NEW s, ListOK(t, s), NEW n \in Nat, n <= Len(s)
  PROVE  /\ Walk(t, t.valListHead, n, "next") = [j \in 1 .. n |-> At(s, j)]
         /\ Walk(t, t.valListTail, n, "prev") = [j \in 1 .. n |-> At(s, Len(s) + 1 - j)]
<1>1. /\ s \in Seq(Entries) /\ Len(s) \in Nat
  BY DEF ListOK
<1>2. \A j \in 1 .. Len(s) : /\ At(s, j) \in t.liveVals /\ At(s, j) \in Entries /\ At(s, j) \notin t.liveKeys
                             /\ t.valEntry[At(s, j)].next = At(s, j + 1)
                             /\ t.valEntry[At(s, j)].prev = At(s, j - 1)
  <2> TAKE j \in 1 .. Len(s)
  <2>1. s[j] \in Elems(s) /\ s[j] \in Entries /\ At(s, j) = s[j]
    BY <1>1 DEF Elems, At
  <2>2. NextOf(t)[s[j]] = At(s, j + 1) /\ PrevOf(t)[s[j]] = At(s, j - 1)
    BY DEF ListOK, Chained
  <2>3. s[j] \notin t.liveKeys
    BY <2>1, EntriesAssumption DEF Tables
  <2> QED
    BY <2>1, <2>2, <2>3 DEF ListOK, NextOf, PrevOf
<1>3. Walk(t, t.valListHead, n, "next") = [j \in 1 .. n |-> At(s, j)]
  <2> DEFINE a == [j \in 1 .. n |-> At(s, j)]
  <2>1. ASSUME NEW j \in 1 .. n, j # 1 PROVE a[j] = StepFrom(t, a[j - 1], "next")
    <3>1. j - 1 \in 1 .. n /\ j - 1 \in 1 .. Len(s) /\ a[j] = At(s, j) /\ a[j - 1] = At(s, j - 1) /\ (j - 1) + 1 = j
      BY <1>1, <2>1
    <3>2. t.valEntry[At(s, j - 1)].next = At(s, j)
      BY <1>2, <3>1
    <3> QED
      BY <1>2, <3>1, <3>2 DEF StepFrom
  <2>2. n >= 1 => a[1] = t.valListHead
    BY DEF ListOK
  <2>3. a = [j \in 1 .. n |-> a[j]]
    OBVIOUS
  <2> HIDE DEF a
  <2>5. \A j \in 1 .. n : j # 1 => a[j] = StepFrom(t, a[j - 1], "next")
    BY <2>1
  <2>4. LeadsAlong(t, t.valListHead, n, "next", a)
    BY <2>2, <2>3, <2>5 DEF LeadsAlong
  <2> QED
    BY <2>4, WalkIs DEF a
<1>4. Walk(t, t.valListTail, n, "prev") = [j \in 1 .. n |-> At(s, Len(s) + 1 - j)]
  <2> DEFINE a == [j \in 1 .. n |-> At(s, Len(s) + 1 - j)]
  <2>1. ASSUME NEW j \in 1 .. n, j # 1 PROVE a[j] = StepFrom(t, a[j - 1], "prev")
    <3> DEFINE i == Len(s) + 1 - (j - 1)
    <3>1. /\ j - 1 \in 1 .. n /\ i \in 1 .. Len(s) /\ a[j] = At(s, Len(s) + 1 - j)
          /\ a[j - 1] = At(s, i) /\ i - 1 = Len(s) + 1 - j
      BY <1>1, <2>1
    <3> HIDE DEF i
    <3>2. t.valEntry[At(s, i)].prev = a[j]
      BY <1>2, <3>1
    <3> QED
      BY <1>2, <3>1, <3>2 DEF StepFrom
  <2>2. n >= 1 => a[1] = t.valListTail
    <3> HAVE n >= 1
    <3>1. 1 \in 1 .. n /\ Len(s) + 1 - 1 = Len(s)
      BY <1>1
    <3> QED
      BY <3>1 DEF ListOK
  <2>3. a = [j \in 1 .. n |-> a[j]]
    OBVIOUS
  <2> HIDE DEF a
  <2>5. \A j \in 1 .. n : j # 1 => a[j] = StepFrom(t, a[j - 1], "prev")
    BY <2>1
  <2>4. LeadsAlong(t, t.valListTail, n, "prev", a)
    BY <2>2, <2>3, <2>5 DEF LeadsAlong
  <2> QED
    BY <2>4, WalkIs DEF a
<1> QED
  BY <1>3, <1>4

\* An index is looked up from either end, and the same item found.
LEMMA EntryAtIs ==
  ASSUME NEW t \in Tables, NEW s, ListOK(t, s), NEW i \in Int
  PROVE  EntryAt(t, i) = At(s, i + 1) /\ ~WalkFails(t, i)
<1>1. s \in Seq(Entries) /\ Len(s) \in Nat /\ t.itemNum = Len(s)
  BY DEF ListOK
<1>2. \A m \in Int : EntryAt(t, m) = At(s, m + 1)
  <2> TAKE m \in Int
  <2>1. CASE m \notin 0 .. (t.itemNum - 1)
    BY <1>1, <2>1 DEF EntryAt, At
  <2>2. CASE m \in 0 .. (t.itemNum - 1)
    <3> DEFINE back == m >= t.itemNum \div 2
    <3>1. CASE back
      <4> DEFINE n == t.itemNum - 1 - m + 1
      <4>1. EntryAt(t, m) = Walk(t, t.valListTail, n, "prev")[n]
        BY <2>2, <3>1 DEF EntryAt
      <4>2. n \in Nat /\ n <= Len(s) /\ n \in 1 .. n /\ Len(s) + 1 - n = m + 1
        BY <1>1, <2>2
      <4> HIDE DEF n
      <4>3. Walk(t, t.valListTail, n, "prev") = [j \in 1 .. n |-> At(s, Len(s) + 1 - j)]
        BY <4>2, WalkList
      <4> QED
        BY <4>1, <4>2, <4>3
    <3>2. CASE ~back
      <4> DEFINE n == m + 1
      <4>1. EntryAt(t, m) = Walk(t, t.valListHead, n, "next")[n]
        BY <2>2, <3>2 DEF EntryAt
      <4>2. n \in Nat /\ n <= Len(s) /\ n \in 1 .. n
        BY <1>1, <2>2
      <4> HIDE DEF n
      <4>3. Walk(t, t.valListHead, n, "next") = [j \in 1 .. n |-> At(s, j)]
        BY <4>2, WalkList
      <4>4. EntryAt(t, m) = At(s, n)
        BY <4>1, <4>2, <4>3
      <4> QED
        BY <4>4 DEF n
    <3> QED
      BY <3>1, <3>2
  <2> QED
    BY <2>1, <2>2
<1>3. \A j \in 0 .. (t.itemNum - 1) : EntryAt(t, j) \in t.liveVals
  <2> TAKE j \in 0 .. (t.itemNum - 1)
  <2>1. j + 1 \in 1 .. Len(s) /\ j \in Int
    BY <1>1
  <2>2. EntryAt(t, j) = s[j + 1]
    BY <1>2, <2>1 DEF At
  <2>3. s[j + 1] \in Elems(s)
    BY <2>1 DEF Elems
  <2> QED
    BY <2>2, <2>3 DEF ListOK
<1> QED
  BY <1>2, <1>3 DEF WalkFails

-------------------------------------------------------------------------------
\* What keeps a table in order.

\* The chains are those of the buckets and key entries.
LEMMA BucketsSame ==
  ASSUME NEW t, NEW g, BucketsOK(t), SameKeys(g, t)
  PROVE  BucketsOK(g)
<1>1. KNextOf(g) = KNextOf(t) /\ KPrevOf(g) = KPrevOf(t)
  BY DEF KNextOf, KPrevOf, SameKeys
<1>2. \A b \in Buckets, c \in Seq(Keys) : ChainOK(t, b, c) => ChainOK(g, b, c)
  BY <1>1 DEF ChainOK, SameKeys
<1> QED
  BY <1>2 DEF BucketsOK

\* The list is that of the ends and links, and of entries that are not freed.
LEMMA ListSame ==
  ASSUME NEW t, NEW g, NEW s, ListOK(t, s), SameEnds(g, t), SameLinks(g, t),
         Elems(s) \subseteq g.liveVals
  PROVE  ListOK(g, s)
<1>1. NextOf(g) = NextOf(t) /\ PrevOf(g) = PrevOf(t)
  BY DEF NextOf, PrevOf, SameLinks
<1> QED
  BY <1>1 DEF ListOK, SameEnds

\* Keys find their items as long as the keys, and the data of items, are kept.
LEMMA KeyedSame ==
  ASSUME NEW t, NEW g \in Tables, Keyed(t), g.fault = t.fault, SameKeys(g, t), SameData(g, t),
         g.liveVals = t.liveVals
  PROVE  Keyed(g)
<1>1. BucketsOK(g)
  BY BucketsSame DEF Keyed
<1>2. \A e \in g.liveVals : g.valEntry[e].key = t.valEntry[e].key /\ g.valEntry[e].val = t.valEntry[e].val
  BY DEF SameData, Tables, Keyed
<1>3. KeysOK(g)
  BY <1>2 DEF KeysOK, SameKeys, Keyed
<1>4. ValsOK(g)
  BY <1>2 DEF ValsOK, Keyed
<1> QED
  BY <1>1, <1>3, <1>4 DEF Keyed

\* A new value entry is in no list and has no key.
LEMMA NewValKeeps ==
  ASSUME NEW t, NEW g, NEW e \in Entries, e \notin t.liveVals, NEW v \in Values, Keyed(t),
         NewValIs(g, t, e, v)
  PROVE  Keyed(g) /\ \A s : ListOK(t, s) => ListOK(g, s)
<1>1. t \in Tables /\ g \in Tables
  BY DEF Keyed, NewValIs
<1>2. \A m \in t.liveVals : m \in Entries \ {e} /\ m \in g.liveVals /\ g.valEntry[m] = t.valEntry[m]
  BY <1>1 DEF NewValIs, Tables
<1>3. g.liveVals = t.liveVals \cup {e} /\ g.valEntry[e].key = NoKey /\ g.valEntry[e].val = v
  BY DEF NewValIs
<1>4. BucketsOK(g)
  BY BucketsSame DEF Keyed, NewValIs
<1>5. KeysOK(g)
  BY <1>2, <1>3 DEF KeysOK, SameKeys, Keyed, NewValIs
<1>6. ValsOK(g)
  BY <1>2, <1>3 DEF ValsOK, Keyed
<1>7. ASSUME NEW s, ListOK(t, s) PROVE ListOK(g, s)
  <2>1. s \in Seq(Entries) /\ Elems(s) \subseteq t.liveVals /\ Chained(NextOf(t), PrevOf(t), s)
    BY <1>7 DEF ListOK
  <2>2. \A j \in 1 .. Len(s) : s[j] \in Elems(s) /\ s[j] \in Entries
    BY <2>1 DEF Elems
  <2>3. \A j \in 1 .. Len(s) : NextOf(g)[s[j]] = NextOf(t)[s[j]] /\ PrevOf(g)[s[j]] = PrevOf(t)[s[j]]
    BY <1>2, <2>1, <2>2 DEF NextOf, PrevOf
  <2>4. Chained(NextOf(g), PrevOf(g), s)
    BY <2>1, <2>3 DEF Chained
  <2> QED
    BY <1>3, <1>7, <2>1, <2>4 DEF ListOK, NewValIs, SameEnds
<1> QED
  BY <1>1, <1>4, <1>5, <1>6, <1>7 DEF Keyed, NewValIs

\* The value of an item is set.
LEMMA SetValKeeps ==
  ASSUME NEW t, NEW g, NEW e, NEW v \in Values, Keyed(t), ValIs(g, t, e, v)
  PROVE  Keyed(g) /\ \A s : ListOK(t, s) => ListOK(g, s)
<1>1. t \in Tables /\ g \in Tables /\ g.liveVals = t.liveVals /\ g.fault = t.fault
  BY DEF Keyed, ValIs, ValsOnly
<1>2. \A m \in t.liveVals : /\ g.valEntry[m].key = t.valEntry[m].key
                            /\ g.valEntry[m].val = IF m = e THEN v ELSE t.valEntry[m].val
  BY <1>1 DEF ValIs, Tables
<1>4. BucketsOK(g)
  BY BucketsSame DEF Keyed, ValIs, ValsOnly
<1>5. KeysOK(g)
  BY <1>1, <1>2 DEF KeysOK, SameKeys, Keyed, ValIs, ValsOnly
<1>6. ValsOK(g)
  BY <1>1, <1>2 DEF ValsOK, Keyed
<1>7. \A s : ListOK(t, s) => ListOK(g, s)
  <2> TAKE s
  <2> HAVE ListOK(t, s)
  <2>1. SameEnds(g, t) /\ SameLinks(g, t) /\ Elems(s) \subseteq g.liveVals
    BY <1>1 DEF ValIs, ValsOnly, ListOK
  <2> QED
    BY <2>1, ListSame
<1> QED
  BY <1>1, <1>4, <1>5, <1>6, <1>7 DEF Keyed

-------------------------------------------------------------------------------
\* An entry that is in no list is put at one of the ends.

\* g is t with e put in the list s at place p, all else being kept.
LinkedIn(g, t, s, p, e) ==
  /\ Keyed(g) /\ ListOK(g, Inserted(s, p, e)) /\ Elems(Inserted(s, p, e)) = Elems(s) \cup {e}
  /\ g.liveVals = t.liveVals /\ SameData(g, t) /\ SameKeys(g, t)

\* An entry that is chained in at place p, the ends of the list moved to match, is
\* in the list there.
LEMMA LinksIn ==
  ASSUME NEW t, NEW g \in Tables, NEW s, Keyed(t), ListOK(t, s), NEW e \in t.liveVals,
         e \notin Elems(s), NEW p \in 1 .. (Len(s) + 1), ChainedIn(NextOf(g), PrevOf(g), NextOf(t), PrevOf(t), s, p, e),
         g.fault = t.fault, SameKeys(g, t), SameData(g, t), g.liveVals = t.liveVals,
         g.itemNum = Len(s) + 1,
         g.valListHead = (IF p = 1 THEN e ELSE t.valListHead),
         g.valListTail = (IF p = Len(s) + 1 THEN e ELSE t.valListTail)
  PROVE  LinkedIn(g, t, s, p, e)
<1> DEFINE u == Inserted(s, p, e)
<1>1. s \in Seq(Entries) /\ Len(s) \in Nat /\ e \in Entries \ Elems(s) /\ Nil \notin Entries
  BY EntriesAssumption DEF ListOK, Keyed, Tables
<1>2. /\ u \in Seq(Entries) /\ Chained(NextOf(g), PrevOf(g), u)
      /\ Elems(u) = Elems(s) \cup {e} /\ Len(u) = Len(s) + 1
      /\ At(u, 1) = (IF p = 1 THEN e ELSE At(s, 1))
      /\ At(u, Len(s) + 1) = (IF p = Len(s) + 1 THEN e ELSE At(s, Len(s)))
  <2>1. Chained(NextOf(t), PrevOf(t), s)
    BY DEF ListOK
  <2>2. ChainedWith(Entries, NextOf(g), PrevOf(g), s, p, e)
    BY <1>1, <2>1, InsertedChained
  <2> QED
    BY <2>2 DEF ChainedWith
<1> HIDE DEF u
<1>3. ListOK(g, u)
  BY <1>2 DEF ListOK
<1>4. Keyed(g)
  BY KeyedSame
<1> QED
  BY <1>2, <1>3, <1>4 DEF LinkedIn, u

\* PushValEntry links an entry in as the last of the list.
LEMMA PushIs ==
  ASSUME NEW t, NEW s, Keyed(t), ListOK(t, s), NEW e \in t.liveVals, e \notin Elems(s),
         t.valEntry[e].next = Nil, t.valEntry[e].prev = Nil
  PROVE  LinkedIn(PushValEntry(t, e), t, s, Len(s) + 1, e)
<1> DEFINE tl == t.valListTail
           g1 == LinkVal(t, tl, "next", e)
           g2 == LinkVal(g1, e, "prev", tl)
           hd == IF t.valListHead = Nil THEN e ELSE t.valListHead
           g == PushValEntry(t, e)
<1>1. /\ s \in Seq(Entries) /\ Len(s) \in Nat /\ e \in Entries /\ e # Nil /\ t \in Tables
      /\ t.itemNum = Len(s) /\ t.valListHead = At(s, 1) /\ tl = At(s, Len(s)) /\ Nil \notin Entries
      /\ Elems(s) \subseteq t.liveVals
  BY EntriesAssumption DEF ListOK, Keyed, Tables
<1>2. /\ tl \in ValPlaces /\ (tl = Nil \/ tl \in t.liveVals) /\ tl # e /\ e \in ValPlaces
      /\ t.valListHead = Nil <=> Len(s) = 0
  <2>1. CASE Len(s) = 0
    BY <1>1, <2>1 DEF At, ValPlaces
  <2>2. CASE Len(s) # 0
    <3>1. Len(s) \in 1 .. Len(s) /\ 1 \in 1 .. Len(s)
      BY <1>1, <2>2
    <3>2. tl = s[Len(s)] /\ s[Len(s)] \in Elems(s) /\ t.valListHead = s[1] /\ s[1] \in Entries
      BY <1>1, <3>1 DEF At, Elems
    <3> QED
      BY <1>1, <2>2, <3>2 DEF ValPlaces
  <2> QED
    BY <2>1, <2>2
<1>3. NextIs(g1, t, tl, e)
  BY <1>1, <1>2, LinkNext
<1> HIDE DEF g1, tl
<1>4. PrevIs(g2, g1, e, tl)
  <2>1. g1 \in Tables /\ e \in g1.liveVals
    BY <1>3 DEF NextIs, ValsOnly
  <2> QED
    BY <1>2, <2>1, LinkPrev
<1>5. g = [g2 EXCEPT !.valListHead = hd, !.valListTail = e, !.itemNum = Len(s) + 1]
  <2>1. /\ g2 \in Tables /\ g2.valListHead = t.valListHead /\ g2.itemNum = Len(s)
    BY <1>1, <1>3, <1>4 DEF NextIs, PrevIs, ValsOnly, SameEnds
  <2>2. g = [g2 EXCEPT !.valListHead = IF g2.valListHead = Nil THEN e ELSE g2.valListHead,
                       !.valListTail = e, !.itemNum = g2.itemNum + 1]
    BY DEF PushValEntry, g1, tl
  <2> HIDE DEF g2, g
  <2> QED
    BY <2>1, <2>2
<1> HIDE DEF g2
<1>6. EndsAre(g, g2, hd, e, Len(s) + 1)
  <2>1. g2 \in Tables /\ hd \in ValPlaces /\ Len(s) + 1 \in Int
    BY <1>1, <1>2, <1>4 DEF PrevIs, ValsOnly, Tables
  <2> HIDE DEF hd, g
  <2> QED
    BY <1>2, <1>5, <2>1, MovedEnds
<1> HIDE DEF g
<1>7. /\ g \in Tables /\ g.fault = t.fault /\ SameKeys(g, t) /\ SameData(g, t) /\ g.liveVals = t.liveVals
      /\ g.itemNum = Len(s) + 1 /\ g.valListTail = e /\ g.valListHead = hd
      /\ \A m \in Entries : /\ g.valEntry[m].next = IF m = tl THEN e ELSE t.valEntry[m].next
                            /\ g.valEntry[m].prev = IF m = e THEN tl ELSE t.valEntry[m].prev
  BY <1>3, <1>4, <1>6 DEF NextIs, PrevIs, EndsAre, ValsOnly, SameKeys, SameData, SameVals
<1>8. Len(s) + 1 \in 1 .. (Len(s) + 1) /\ (Len(s) + 1) - 1 = Len(s) /\ At(s, Len(s) + 1) = Nil
  BY <1>1 DEF At
<1>9. ChainedIn(NextOf(g), PrevOf(g), NextOf(t), PrevOf(t), s, Len(s) + 1, e)
  <2>1. \A m \in Elems(s) : m \in Entries /\ m # Nil /\ m # e
    BY <1>1 DEF Elems
  <2> QED
    BY <1>1, <1>2, <1>7, <1>8, <2>1 DEF ChainedIn, NextOf, PrevOf
<1>10. hd = IF Len(s) + 1 = 1 THEN e ELSE t.valListHead
  BY <1>1, <1>2
<1> HIDE DEF hd
<1> QED
  BY <1>1, <1>7, <1>8, <1>9, <1>10, LinksIn DEF g

\* UnshiftValEntry links an entry in as the first of the list.
LEMMA UnshiftIs ==
  ASSUME NEW t, NEW s, Keyed(t), ListOK(t, s), NEW e \in t.liveVals, e \notin Elems(s),
         t.valEntry[e].next = Nil, t.valEntry[e].prev = Nil
  PROVE  LinkedIn(UnshiftValEntry(t, e), t, s, 1, e)
<1> DEFINE hd == t.valListHead
           g1 == LinkVal(t, hd, "prev", e)
           g2 == LinkVal(g1, e, "next", hd)
           tl == IF t.valListTail = Nil THEN e ELSE t.valListTail
           g == UnshiftValEntry(t, e)
<1>1. /\ s \in Seq(Entries) /\ Len(s) \in Nat /\ e \in Entries /\ e # Nil /\ t \in Tables
      /\ t.itemNum = Len(s) /\ hd = At(s, 1) /\ t.valListTail = At(s, Len(s)) /\ Nil \notin Entries
      /\ Elems(s) \subseteq t.liveVals
  BY EntriesAssumption DEF ListOK, Keyed, Tables
<1>2. /\ hd \in ValPlaces /\ (hd = Nil \/ hd \in t.liveVals) /\ hd # e /\ e \in ValPlaces
      /\ t.valListTail = Nil <=> Len(s) = 0
  <2>1. CASE Len(s) = 0
    BY <1>1, <2>1 DEF At, ValPlaces
  <2>2. CASE Len(s) # 0
    <3>1. Len(s) \in 1 .. Len(s) /\ 1 \in 1 .. Len(s)
      BY <1>1, <2>2
    <3>2. hd = s[1] /\ s[1] \in Elems(s) /\ t.valListTail = s[Len(s)] /\ s[Len(s)] \in Entries
      BY <1>1, <3>1 DEF At, Elems
    <3> QED
      BY <1>1, <2>2, <3>2 DEF ValPlaces
  <2> QED
    BY <2>1, <2>2
<1>3. PrevIs(g1, t, hd, e)
  BY <1>1, <1>2, LinkPrev
<1> HIDE DEF g1, hd
<1>4. NextIs(g2, g1, e, hd)
  <2>1. g1 \in Tables /\ e \in g1.liveVals
    BY <1>3 DEF PrevIs, ValsOnly
  <2> QED
    BY <1>2, <2>1, LinkNext
<1>5. g = [g2 EXCEPT !.valListHead = e, !.valListTail = tl, !.itemNum = Len(s) + 1]
  <2>1. /\ g2 \in Tables /\ g2.valListTail = t.valListTail /\ g2.itemNum = Len(s)
    BY <1>1, <1>3, <1>4 DEF NextIs, PrevIs, ValsOnly, SameEnds
  <2>2. g = [g2 EXCEPT !.valListTail = IF g2.valListTail = Nil THEN e ELSE g2.valListTail,
                       !.valListHead = e, !.itemNum = g2.itemNum + 1]
    BY DEF UnshiftValEntry, g1, hd
  <2> HIDE DEF g2, g
  <2> QED
    BY <2>1, <2>2
<1> HIDE DEF g2
<1>6. EndsAre(g, g2, e, tl, Len(s) + 1)
  <2>1. g2 \in Tables /\ tl \in ValPlaces /\ Len(s) + 1 \in Int
    BY <1>1, <1>2, <1>4 DEF NextIs, ValsOnly, Tables
  <2> HIDE DEF tl, g
  <2> QED
    BY <1>2, <1>5, <2>1, MovedEnds
<1> HIDE DEF g
<1>7. /\ g \in Tables /\ g.fault = t.fault /\ SameKeys(g, t) /\ SameData(g, t) /\ g.liveVals = t.liveVals
      /\ g.itemNum = Len(s) + 1 /\ g.valListTail = tl /\ g.valListHead = e
      /\ \A m \in Entries : /\ g.valEntry[m].prev = IF m = hd THEN e ELSE t.valEntry[m].prev
                            /\ g.valEntry[m].next = IF m = e THEN hd ELSE t.valEntry[m].next
  BY <1>3, <1>4, <1>6 DEF NextIs, PrevIs, EndsAre, ValsOnly, SameKeys, SameData, SameVals
<1>8. 1 \in 1 .. (Len(s) + 1) /\ At(s, 1 - 1) = Nil
  BY <1>1 DEF At
<1>9. ChainedIn(NextOf(g), PrevOf(g), NextOf(t), PrevOf(t), s, 1, e)
  <2>1. \A m \in Elems(s) : m \in Entries /\ m # Nil /\ m # e
    BY <1>1 DEF Elems
  <2> QED
    BY <1>1, <1>2, <1>7, <1>8, <2>1 DEF ChainedIn, NextOf, PrevOf
<1>10. tl = IF 1 = Len(s) + 1 THEN e ELSE t.valListTail
  BY <1>1, <1>2
<1> HIDE DEF tl
<1> QED
  BY <1>1, <1>7, <1>8, <1>9, <1>10, LinksIn DEF g

-------------------------------------------------------------------------------
\* Giving an item a key.

\* The chains are the same when the links of key entries are.
LEMMA BucketsLinks ==
  ASSUME NEW t, NEW g, BucketsOK(t), g.buckets = t.buckets, g.liveKeys = t.liveKeys,
         \A m \in Keys : /\ g.keyEntry[m].next = t.keyEntry[m].next
                         /\ g.keyEntry[m].prev = t.keyEntry[m].prev
  PROVE  BucketsOK(g)
<1>1. KNextOf(g) = KNextOf(t) /\ KPrevOf(g) = KPrevOf(t)
  BY DEF KNextOf, KPrevOf
<1>2. \A b \in Buckets, c \in Seq(Keys) : ChainOK(t, b, c) => ChainOK(g, b, c)
  BY <1>1 DEF ChainOK
<1> QED
  BY <1>2 DEF BucketsOK

\* k is put before the first key entry of its bucket.
FirstOf(g, t, k) ==
  /\ g.liveKeys = t.liveKeys \cup {k}
  /\ \A d \in Buckets : g.buckets[d] = IF d = Hash[k] THEN k ELSE t.buckets[d]
  /\ g.keyEntry[k].next = t.buckets[Hash[k]] /\ g.keyEntry[k].prev = Nil
  /\ \A m \in Keys \ {k} :
       /\ g.keyEntry[m].next = t.keyEntry[m].next
       /\ g.keyEntry[m].prev = IF m = t.buckets[Hash[k]] THEN k ELSE t.keyEntry[m].prev

\* The buckets stay in order when a key entry is put before the first of one.
LEMMA FirstKeeps ==
  ASSUME NEW t \in Tables, NEW g, BucketsOK(t), NEW k \in Keys, k \notin t.liveKeys, FirstOf(g, t, k)
  PROVE  BucketsOK(g)
<1> DEFINE B == Hash[k]
<1>1. B \in Buckets /\ Nil \notin Keys
  BY HashAssumption, EntriesAssumption
<1>2. PICK f \in Seq(Keys) : ChainOK(t, B, f)
  BY <1>1 DEF BucketsOK
<1>3. Elems(f) = {m \in t.liveKeys : Hash[m] = B} /\ t.buckets[B] = At(f, 1) /\ Len(f) \in Nat
  BY <1>2 DEF ChainOK
<1>4. At(f, 1) = Nil \/ At(f, 1) \in Elems(f)
  BY DEF At, Elems
<1>5. ASSUME NEW b \in Buckets, b # B PROVE \E c \in Seq(Keys) : ChainOK(g, b, c)
  <2>1. PICK c \in Seq(Keys) : ChainOK(t, b, c)
    BY DEF BucketsOK
  <2>2. /\ Elems(c) = {m \in t.liveKeys : Hash[m] = b} /\ t.buckets[b] = At(c, 1)
        /\ Chained(KNextOf(t), KPrevOf(t), c)
    BY <2>1 DEF ChainOK
  <2>3. Elems(c) = {m \in g.liveKeys : Hash[m] = b} /\ g.buckets[b] = At(c, 1)
    BY <1>5, <2>2 DEF FirstOf
  <2>4. \A j \in 1 .. Len(c) : /\ KNextOf(g)[c[j]] = KNextOf(t)[c[j]]
                               /\ KPrevOf(g)[c[j]] = KPrevOf(t)[c[j]]
    <3> TAKE j \in 1 .. Len(c)
    <3>1. c[j] \in Elems(c) /\ c[j] \in Keys
      BY DEF Elems
    <3>2. c[j] # k /\ c[j] # t.buckets[B]
      BY <1>1, <1>3, <1>4, <1>5, <2>2, <3>1
    <3> QED
      BY <3>1, <3>2 DEF FirstOf, KNextOf, KPrevOf
  <2>5. Chained(KNextOf(g), KPrevOf(g), c)
    BY <2>2, <2>4 DEF Chained
  <2> QED
    BY <2>3, <2>5 DEF ChainOK
<1>6. \E c \in Seq(Keys) : ChainOK(g, B, c)
  <2> DEFINE u == Inserted(f, 1, k)
  <2>1. k \in Keys \ Elems(f) /\ 1 \in 1 .. (Len(f) + 1) /\ At(f, 1 - 1) = Nil
    BY <1>3 DEF At
  <2>2. ChainedIn(KNextOf(g), KPrevOf(g), KNextOf(t), KPrevOf(t), f, 1, k)
    <3>1. \A m \in Elems(f) : m \in Keys /\ m # Nil /\ m # k
      BY <1>1, <1>3, <2>1 DEF Tables
    <3> QED
      BY <1>3, <2>1, <3>1 DEF ChainedIn, KNextOf, KPrevOf, FirstOf
  <2>3. Chained(KNextOf(t), KPrevOf(t), f)
    BY <1>2 DEF ChainOK
  <2>4. u \in Seq(Keys) /\ Chained(KNextOf(g), KPrevOf(g), u) /\ Elems(u) = Elems(f) \cup {k} /\ At(u, 1) = k
    <3>1. ChainedWith(Keys, KNextOf(g), KPrevOf(g), f, 1, k)
      BY <1>1, <2>1, <2>2, <2>3, InsertedChained
    <3> QED
      BY <3>1 DEF ChainedWith
  <2> HIDE DEF u
  <2>5. Elems(u) = {m \in g.liveKeys : Hash[m] = B} /\ g.buckets[B] = At(u, 1)
    BY <1>1, <1>3, <2>4 DEF FirstOf
  <2> QED
    BY <2>4, <2>5 DEF ChainOK
<1> QED
  BY <1>5, <1>6 DEF BucketsOK

\* g is t with the key k given to e, and taken from the item that had it.
Renamed(g, t, k, e) ==
  /\ g.liveVals = t.liveVals /\ SameEnds(g, t) /\ SameLinks(g, t)
  /\ \A m \in t.liveVals :
       /\ g.valEntry[m].val = t.valEntry[m].val
       /\ g.valEntry[m].key = IF m = e THEN k ELSE IF t.valEntry[m].key = k THEN NoKey ELSE t.valEntry[m].key

\* The key entries lead to the items they led to, and the one of k to e.
LeadTo(g, t, k, e) ==
  /\ g.liveKeys = t.liveKeys \cup {k}
  /\ \A m \in g.liveKeys : g.keyEntry[m].valEntry = IF m = k THEN e ELSE t.keyEntry[m].valEntry

\* Keys and items lead to each other when a key is given to an item that had none
\* or that one, is taken from the item that had it, and its entry leads to the
\* item it is given to.
LEMMA RenamedKeyed ==
  ASSUME NEW t, NEW g \in Tables, NEW k \in Keys, NEW e \in t.liveVals, Keyed(t),
         t.valEntry[e].key \in {NoKey, k}, Renamed(g, t, k, e), LeadTo(g, t, k, e),
         g.fault = t.fault, BucketsOK(g)
  PROVE  Keyed(g)
<1>1. NoKey \notin Keys /\ t.liveKeys \subseteq Keys /\ t.liveVals \subseteq Entries /\ g.liveVals = t.liveVals
  BY EntriesAssumption DEF Keyed, Tables, Renamed
<1>2. ASSUME NEW m \in g.liveVals, g.valEntry[m].key # NoKey
      PROVE  g.valEntry[m].key \in g.liveKeys /\ g.keyEntry[g.valEntry[m].key].valEntry = m
  <2>1. CASE m = e
    BY <1>1, <2>1 DEF Renamed, LeadTo
  <2>2. CASE m # e
    <3>1. g.valEntry[m].key = t.valEntry[m].key /\ t.valEntry[m].key # k
      BY <1>1, <1>2, <2>2 DEF Renamed
    <3>2. t.valEntry[m].key \in t.liveKeys /\ t.keyEntry[t.valEntry[m].key].valEntry = m
      BY <1>1, <1>2, <3>1 DEF Keyed, KeysOK
    <3> QED
      BY <3>1, <3>2 DEF LeadTo
  <2> QED
    BY <2>1, <2>2
<1>3. ASSUME NEW m \in g.liveKeys
      PROVE  g.keyEntry[m].valEntry \in g.liveVals /\ g.valEntry[g.keyEntry[m].valEntry].key = m
  <2>1. CASE m = k
    BY <1>1, <2>1 DEF Renamed, LeadTo
  <2>2. CASE m # k
    <3> DEFINE o == t.keyEntry[m].valEntry
    <3>1. m \in t.liveKeys /\ g.keyEntry[m].valEntry = o
      BY <2>2 DEF LeadTo
    <3>2. o \in t.liveVals /\ t.valEntry[o].key = m
      BY <3>1 DEF Keyed, KeysOK
    <3> HIDE DEF o
    <3>3. o # e
      BY <1>1, <2>2, <3>1, <3>2
    <3> QED
      BY <1>1, <2>2, <3>1, <3>2, <3>3 DEF Renamed
  <2> QED
    BY <2>1, <2>2
<1>4. KeysOK(g)
  BY <1>2, <1>3 DEF KeysOK
<1>5. ValsOK(g)
  BY <1>1 DEF Renamed, ValsOK, Keyed
<1> QED
  BY <1>4, <1>5 DEF Keyed

\* What is updated when the key has an entry: the item it led to loses the key,
\* which may be the item that is given it.
LEMMA UpdateIs ==
  ASSUME NEW t, NEW k \in t.liveKeys, NEW e \in t.liveVals, Keyed(t), NEW g,
         g = AddOrUpdateKeyEntry(t, k, e)
  PROVE  /\ g \in Tables /\ g.fault = t.fault /\ g.liveVals = t.liveVals /\ g.liveKeys = t.liveKeys
         /\ SameEnds(g, t) /\ SameLinks(g, t) /\ BucketsOK(g)
         /\ \A m \in Keys : g.keyEntry[m].valEntry = IF m = k THEN e ELSE t.keyEntry[m].valEntry
         /\ \A m \in Entries :
              /\ g.valEntry[m].val = t.valEntry[m].val
              /\ g.valEntry[m].key = IF m = t.keyEntry[k].valEntry THEN NoKey
                                     ELSE IF m = e THEN k ELSE t.valEntry[m].key
<1> DEFINE o == t.keyEntry[k].valEntry
           h == LinkVal(t, e, "key", k)
           l == LinkVal(h, o, "key", NoKey)
<1>1. k \in Keys /\ e \in Entries /\ o \in t.liveVals /\ o \in Entries /\ t \in Tables /\ ~t.fault /\ BucketsOK(t)
  BY DEF Keyed, KeysOK, Tables
<1>2. KeyIs(h, t, e, k)
  BY <1>1, LinkKeyOf DEF ValPlaces
<1> HIDE DEF h
<1>3. h \in Tables /\ BucketsOK(h) /\ k \in h.liveKeys /\ h.keyEntry = t.keyEntry /\ h.fault = t.fault /\ h.liveVals = t.liveVals
  <2>1. SameKeys(h, t) /\ h \in Tables
    BY <1>2 DEF KeyIs, ValsOnly
  <2>2. BucketsOK(h)
    BY <1>1, <2>1, BucketsSame
  <2> QED
    BY <1>2, <2>1, <2>2 DEF SameKeys, KeyIs, ValsOnly
<1>4. HasEntry(h, k) /\ Searched(h, k) = h
  BY <1>1, <1>3, SearchWorks
<1>5. g = [l EXCEPT !.keyEntry[k].valEntry = e]
  BY <1>1, <1>3, <1>4 DEF AddOrUpdateKeyEntry, h
<1>6. KeyIs(l, h, o, NoKey)
  BY <1>1, <1>3, LinkKeyOf DEF ValPlaces
<1> HIDE DEF l
<1>7. LeadsIs(g, l, k, e)
  <2>1. l \in Tables
    BY <1>6 DEF KeyIs, ValsOnly
  <2> QED
    BY <1>1, <1>5, <2>1, Leads
<1> HIDE DEF o
<1>8. /\ g \in Tables /\ g.fault = t.fault /\ g.liveVals = t.liveVals /\ g.liveKeys = t.liveKeys
      /\ SameEnds(g, t) /\ SameLinks(g, t) /\ g.buckets = t.buckets
  BY <1>2, <1>6, <1>7 DEF KeyIs, ValsOnly, LeadsIs, KeysOnly, SameEnds, SameKeys, SameVals, SameLinks
<1>9. \A m \in Keys : /\ g.keyEntry[m].valEntry = IF m = k THEN e ELSE t.keyEntry[m].valEntry
                      /\ g.keyEntry[m].next = t.keyEntry[m].next
                      /\ g.keyEntry[m].prev = t.keyEntry[m].prev
  BY <1>2, <1>6, <1>7 DEF KeyIs, ValsOnly, LeadsIs, SameKeys
<1>10. \A m \in Entries : /\ g.valEntry[m].val = t.valEntry[m].val
                          /\ g.valEntry[m].key = IF m = o THEN NoKey ELSE IF m = e THEN k ELSE t.valEntry[m].key
  BY <1>2, <1>6, <1>7 DEF KeyIs, LeadsIs, KeysOnly, SameVals
<1>11. BucketsOK(g)
  BY <1>1, <1>8, <1>9, BucketsLinks
<1> QED
  BY <1>8, <1>9, <1>10, <1>11 DEF o

\* The item that has the key, if there is one.
LEMMA OneHasKey ==
  ASSUME NEW t, Keyed(t), NEW k \in Keys, NEW m \in t.liveVals, t.valEntry[m].key = k
  PROVE  k \in t.liveKeys /\ t.keyEntry[k].valEntry = m
BY EntriesAssumption DEF Keyed, KeysOK

\* AddOrUpdateKeyEntry gives an item without a key the key k, if k has an entry or
\* its bucket is empty.
LEMMA AddOrUpdateIs ==
  ASSUME NEW t, NEW k \in Keys, NEW e \in t.liveVals, Keyed(t), t.valEntry[e].key = NoKey,
         k \in t.liveKeys \/ t.buckets[Hash[k]] = Nil, NEW g, g = AddOrUpdateKeyEntry(t, k, e)
  PROVE  Keyed(g) /\ Renamed(g, t, k, e)
<1>1. e \in Entries /\ t \in Tables /\ ~t.fault /\ BucketsOK(t) /\ t.liveVals \subseteq Entries /\ NoKey \notin Keys
  BY EntriesAssumption DEF Keyed, Tables
<1>2. CASE k \in t.liveKeys
  <2> DEFINE o == t.keyEntry[k].valEntry
  <2>1. /\ g \in Tables /\ g.fault = t.fault /\ g.liveVals = t.liveVals /\ g.liveKeys = t.liveKeys
        /\ SameEnds(g, t) /\ SameLinks(g, t) /\ BucketsOK(g)
        /\ \A m \in Keys : g.keyEntry[m].valEntry = IF m = k THEN e ELSE t.keyEntry[m].valEntry
        /\ \A m \in Entries :
             /\ g.valEntry[m].val = t.valEntry[m].val
             /\ g.valEntry[m].key = IF m = o THEN NoKey ELSE IF m = e THEN k ELSE t.valEntry[m].key
    BY <1>2, UpdateIs
  <2>2. o \in t.liveVals /\ t.valEntry[o].key = k /\ o # e
    BY <1>1, <1>2 DEF Keyed, KeysOK
  <2>3. \A m \in t.liveVals : t.valEntry[m].key = k => m = o
    BY OneHasKey
  <2> HIDE DEF o
  <2>4. Renamed(g, t, k, e)
    BY <1>1, <2>1, <2>2, <2>3 DEF Renamed
  <2>5. LeadTo(g, t, k, e)
    BY <1>1, <1>2, <2>1 DEF LeadTo, Tables
  <2> QED
    BY <2>1, <2>4, <2>5, RenamedKeyed
<1>3. CASE k \notin t.liveKeys
  <2> DEFINE h == LinkVal(t, e, "key", k)
             l == NewKeyEntry(h, k, e)
  <2>1. KeyIs(h, t, e, k)
    BY <1>1, LinkKeyOf DEF ValPlaces
  <2> HIDE DEF h
  <2>2. h \in Tables /\ SameKeys(h, t) /\ h.fault = t.fault
    BY <2>1 DEF KeyIs, ValsOnly
  <2>3. BucketsOK(h) /\ k \notin h.liveKeys /\ h.buckets[Hash[k]] = Nil
    BY <1>1, <1>3, <2>2, BucketsSame DEF SameKeys
  <2>4. ~HasEntry(h, k) /\ Searched(h, k) = h
    BY <2>2, <2>3, SearchWorks
  <2>5. g = [l EXCEPT !.buckets[Hash[k]] = k]
    BY <1>1, <2>2, <2>3, <2>4 DEF AddOrUpdateKeyEntry, LinkKey, h
  <2>6. NewKeyIs(l, h, k, e)
    BY <1>1, <2>2, NewKey
  <2> HIDE DEF l
  <2>7. BucketIs(g, l, Hash[k], k)
    <3>1. l \in Tables /\ k \in KeyPlaces /\ Hash[k] \in Buckets
      BY <2>6, HashAssumption DEF NewKeyIs, KeysOnly, KeyPlaces
    <3> QED
      BY <2>5, <3>1, SetBucket
  <2>8. /\ g \in Tables /\ g.fault = t.fault /\ g.liveVals = t.liveVals /\ g.liveKeys = t.liveKeys \cup {k}
        /\ SameEnds(g, t) /\ SameLinks(g, t)
    BY <2>1, <2>6, <2>7 DEF KeyIs, ValsOnly, NewKeyIs, BucketIs, KeysOnly, SameEnds, SameKeys, SameVals, SameLinks
  <2>9. /\ g.keyEntry[k].next = Nil /\ g.keyEntry[k].prev = Nil /\ g.keyEntry[k].valEntry = e
        /\ \A m \in Keys \ {k} : g.keyEntry[m] = t.keyEntry[m]
        /\ \A d \in Buckets : g.buckets[d] = IF d = Hash[k] THEN k ELSE t.buckets[d]
    BY <2>2, <2>6, <2>7 DEF NewKeyIs, BucketIs, SameKeys
  <2>10. FirstOf(g, t, k)
    <3>1. \A m \in Keys : m # Nil
      BY EntriesAssumption
    <3>2. t.buckets[Hash[k]] = Nil
      BY <1>3
    <3> QED
      BY <2>8, <2>9, <3>1, <3>2 DEF FirstOf
  <2>11. BucketsOK(g)
    BY <1>1, <1>3, <2>10, FirstKeeps
  <2>12. \A m \in Entries : /\ g.valEntry[m].val = t.valEntry[m].val
                            /\ g.valEntry[m].key = IF m = e THEN k ELSE t.valEntry[m].key
    BY <2>1, <2>6, <2>7 DEF KeyIs, NewKeyIs, BucketIs, KeysOnly, SameVals
  <2>13. \A m \in t.liveVals : t.valEntry[m].key # k
    BY <1>3, OneHasKey
  <2>14. Renamed(g, t, k, e)
    BY <1>1, <2>8, <2>12, <2>13 DEF Renamed
  <2>15. LeadTo(g, t, k, e)
    BY <1>1, <2>8, <2>9 DEF LeadTo, Tables
  <2> QED
    BY <2>8, <2>11, <2>14, <2>15, RenamedKeyed
<1> QED
  BY <1>2, <1>3

\* SetKey gives an item k, if the item has no key or has k already.
LEMMA SetKeyIs ==
  ASSUME NEW t, NEW k \in Keys, NEW e \in t.liveVals, Keyed(t), t.valEntry[e].key \in {NoKey, k},
         k \in t.liveKeys \/ t.buckets[Hash[k]] = Nil, NEW g, g = SetKey(t, e, k)
  PROVE  Keyed(g) /\ Renamed(g, t, k, e)
<1> DEFINE h == AddOrUpdateKeyEntry(t, k, e)
<1>1. e \in Entries /\ t \in Tables /\ ~t.fault /\ BucketsOK(t) /\ t.liveVals \subseteq Entries
  BY DEF Keyed, Tables
<1>2. g = LinkVal(h, e, "key", k)
  BY DEF SetKey
<1>3. CASE t.valEntry[e].key = NoKey
  <2> HIDE DEF h
  <2>1. Keyed(h) /\ Renamed(h, t, k, e)
    BY <1>3, AddOrUpdateIs DEF h
  <2>2. KeyIs(g, h, e, k)
    <3>1. h \in Tables /\ e \in h.liveVals
      BY <2>1 DEF Keyed, Renamed
    <3> QED
      BY <1>1, <1>2, <3>1, LinkKeyOf DEF ValPlaces
  <2>3. SameData(g, h)
    <3>1. h.valEntry[e].key = k
      BY <2>1 DEF Renamed
    <3> QED
      BY <2>2, <3>1 DEF KeyIs, SameData
  <2>4. g \in Tables /\ g.fault = h.fault /\ SameKeys(g, h) /\ g.liveVals = h.liveVals /\ SameEnds(g, h) /\ SameLinks(g, h)
    BY <2>2 DEF KeyIs, ValsOnly
  <2>5. Keyed(g)
    BY <2>1, <2>3, <2>4, KeyedSame
  <2>6. Renamed(g, t, k, e)
    BY <1>1, <2>1, <2>3, <2>4 DEF Renamed, SameEnds, SameLinks, SameData
  <2> QED
    BY <2>5, <2>6
<1>4. CASE t.valEntry[e].key = k
  <2>1. k \in t.liveKeys /\ t.keyEntry[k].valEntry = e
    BY <1>4, OneHasKey
  <2>2. /\ h \in Tables /\ h.fault = t.fault /\ h.liveVals = t.liveVals /\ h.liveKeys = t.liveKeys
        /\ SameEnds(h, t) /\ SameLinks(h, t) /\ BucketsOK(h)
        /\ \A m \in Keys : h.keyEntry[m].valEntry = IF m = k THEN e ELSE t.keyEntry[m].valEntry
        /\ \A m \in Entries :
             /\ h.valEntry[m].val = t.valEntry[m].val
             /\ h.valEntry[m].key = IF m = e THEN NoKey ELSE t.valEntry[m].key
    BY <2>1, UpdateIs
  <2> HIDE DEF h
  <2>3. KeyIs(g, h, e, k)
    BY <1>1, <1>2, <2>2, LinkKeyOf DEF ValPlaces
  <2>4. g \in Tables /\ g.fault = h.fault /\ SameKeys(g, h) /\ g.liveVals = h.liveVals /\ SameEnds(g, h) /\ SameLinks(g, h)
    BY <2>3 DEF KeyIs, ValsOnly
  <2>5. BucketsOK(g)
    BY <2>2, <2>4, BucketsSame
  <2>6. \A m \in t.liveVals : t.valEntry[m].key = k => m = e
    BY <2>1, OneHasKey
  <2>7. \A m \in Entries : /\ g.valEntry[m].val = t.valEntry[m].val
                           /\ g.valEntry[m].key = IF m = e THEN k ELSE t.valEntry[m].key
    BY <2>2, <2>3 DEF KeyIs
  <2>8. Renamed(g, t, k, e)
    BY <1>1, <2>2, <2>4, <2>6, <2>7 DEF Renamed, SameEnds, SameLinks
  <2>9. LeadTo(g, t, k, e)
    BY <1>1, <2>1, <2>2, <2>4 DEF LeadTo, SameKeys, Tables
  <2> QED
    BY <2>2, <2>4, <2>5, <2>8, <2>9, RenamedKeyed
<1> QED
  BY <1>3, <1>4

\* The first key entry of a bucket, if there is one.
LEMMA FirstLive ==
  ASSUME NEW t \in Tables, BucketsOK(t), NEW b \in Buckets
  PROVE  t.buckets[b] = Nil \/ (t.buckets[b] \in t.liveKeys /\ Hash[t.buckets[b]] = b)
<1>1. PICK c \in Seq(Keys) : ChainOK(t, b, c)
  BY DEF BucketsOK
<1>2. At(c, 1) = Nil \/ At(c, 1) \in Elems(c)
  BY DEF At, Elems
<1> QED
  BY <1>1, <1>2 DEF ChainOK

\* PutKv: a new key's entry comes before the first of its bucket.
WithFirst(t, k, e, first) ==
  [LinkVal(LinkKey(LinkKey(NewKeyEntry(t, k, e), first, "prev", k), k, "next", first),
           e, "key", k) EXCEPT !.buckets[Hash[k]] = k]

\* PutKv gives a new item a key that has no entry, whatever its bucket holds.
LEMMA AddFirstIs ==
  ASSUME NEW t, NEW k \in Keys, k \notin t.liveKeys, NEW e \in t.liveVals, Keyed(t),
         t.valEntry[e].key = NoKey, NEW first, first = t.buckets[Hash[k]], NEW g,
         g = WithFirst(t, k, e, first)
  PROVE  Keyed(g) /\ Renamed(g, t, k, e)
<1> DEFINE l1 == NewKeyEntry(t, k, e)
           l2 == LinkKey(l1, first, "prev", k)
           l3 == LinkKey(l2, k, "next", first)
           l4 == LinkVal(l3, e, "key", k)
<1>1. /\ e \in Entries /\ t \in Tables /\ ~t.fault /\ BucketsOK(t) /\ t.liveVals \subseteq Entries
      /\ NoKey \notin Keys /\ Hash[k] \in Buckets /\ Nil \notin Keys
  BY EntriesAssumption, HashAssumption DEF Keyed, Tables
<1>2. first = Nil \/ first \in t.liveKeys
  BY <1>1, FirstLive
<1>3. first \in KeyPlaces /\ k \in KeyPlaces /\ first # k
  BY <1>1, <1>2 DEF KeyPlaces, Tables
<1>4. NewKeyIs(l1, t, k, e)
  BY <1>1, NewKey
<1> HIDE DEF l1
<1>5. KPrevIs(l2, l1, first, k)
  <2>1. l1 \in Tables /\ (first = Nil \/ first \in l1.liveKeys)
    BY <1>2, <1>4 DEF NewKeyIs, KeysOnly
  <2> QED
    BY <1>3, <2>1, LinkKPrev
<1> HIDE DEF l2
<1>6. KNextIs(l3, l2, k, first)
  <2>1. l2 \in Tables /\ k \in l2.liveKeys
    BY <1>4, <1>5 DEF NewKeyIs, KPrevIs, KeysOnly
  <2> QED
    BY <1>3, <2>1, LinkKNext
<1> HIDE DEF l3
<1>7. KeyIs(l4, l3, e, k)
  <2>1. l3 \in Tables /\ e \in l3.liveVals
    BY <1>4, <1>5, <1>6 DEF NewKeyIs, KPrevIs, KNextIs, KeysOnly, SameVals
  <2> QED
    BY <1>1, <2>1, LinkKeyOf DEF ValPlaces
<1>8. g = [l4 EXCEPT !.buckets[Hash[k]] = k]
  BY DEF WithFirst, l4, l3, l2, l1
<1> HIDE DEF l4
<1>9. BucketIs(g, l4, Hash[k], k)
  <2>1. l4 \in Tables
    BY <1>7 DEF KeyIs, ValsOnly
  <2> QED
    BY <1>1, <1>3, <1>8, <2>1, SetBucket
<1>10. /\ g \in Tables /\ g.fault = t.fault /\ g.liveVals = t.liveVals /\ g.liveKeys = t.liveKeys \cup {k}
       /\ SameEnds(g, t) /\ SameLinks(g, t)
  BY <1>4, <1>5, <1>6, <1>7, <1>9
     DEF NewKeyIs, KPrevIs, KNextIs, KeyIs, ValsOnly, BucketIs, KeysOnly, SameEnds, SameKeys, SameVals, SameLinks
<1>11. /\ g.keyEntry[k].next = first /\ g.keyEntry[k].prev = Nil /\ g.keyEntry[k].valEntry = e
       /\ \A m \in Keys \ {k} : /\ g.keyEntry[m].next = t.keyEntry[m].next
                                /\ g.keyEntry[m].prev = IF m = first THEN k ELSE t.keyEntry[m].prev
                                /\ g.keyEntry[m].valEntry = t.keyEntry[m].valEntry
       /\ \A d \in Buckets : g.buckets[d] = IF d = Hash[k] THEN k ELSE t.buckets[d]
  BY <1>3, <1>4, <1>5, <1>6, <1>7, <1>9 DEF NewKeyIs, KPrevIs, KNextIs, KeyIs, ValsOnly, BucketIs, SameKeys
<1>12. \A m \in Entries : /\ g.valEntry[m].val = t.valEntry[m].val
                          /\ g.valEntry[m].key = IF m = e THEN k ELSE t.valEntry[m].key
  BY <1>4, <1>5, <1>6, <1>7, <1>9 DEF NewKeyIs, KPrevIs, KNextIs, KeyIs, BucketIs, KeysOnly, SameVals
<1>13. FirstOf(g, t, k)
  BY <1>10, <1>11 DEF FirstOf
<1>14. BucketsOK(g)
  BY <1>1, <1>13, FirstKeeps
<1>15. \A m \in t.liveVals : t.valEntry[m].key # k
  BY OneHasKey
<1>16. Renamed(g, t, k, e)
  BY <1>1, <1>10, <1>12, <1>15 DEF Renamed
<1>17. LeadTo(g, t, k, e)
  BY <1>1, <1>10, <1>11 DEF LeadTo, Tables
<1> QED
  BY <1>10, <1>14, <1>16, <1>17, RenamedKeyed

-------------------------------------------------------------------------------
\* Deleting.

\* A key's entry is unlinked on either side, and freed.
LEMMA DelKeyIs ==
  ASSUME NEW t \in Tables, BucketsOK(t), NEW k \in t.liveKeys, NEW g, g = DelKeyEntry(t, k)
  PROVE  /\ KeysOnly(g, t) /\ BucketsOK(g) /\ g.liveKeys = t.liveKeys \ {k}
         /\ \A m \in Keys \ {k} : g.keyEntry[m].valEntry = t.keyEntry[m].valEntry
<1> DEFINE B == Hash[k]
           pv == t.keyEntry[k].prev
           nx == t.keyEntry[k].next
           l1 == IF t.buckets[B] = k THEN [t EXCEPT !.buckets[B] = nx] ELSE t
           x == IF t.buckets[B] = k THEN nx ELSE t.buckets[B]
           l2 == LinkKey(l1, nx, "prev", pv)
           l3 == LinkKey(l2, pv, "next", nx)
<1>1. k \in Keys /\ B \in Buckets /\ Nil \notin Keys /\ pv \in KeyPlaces /\ nx \in KeyPlaces /\ t.liveKeys \subseteq Keys
  BY HashAssumption, EntriesAssumption DEF Tables, KeyCells
<1>2. g = FreeKey(l3, k)
  BY DEF DelKeyEntry
<1>3. PICK c \in Seq(Keys) : ChainOK(t, B, c)
  BY <1>1 DEF BucketsOK
<1>4. /\ Elems(c) = {m \in t.liveKeys : Hash[m] = B} /\ t.buckets[B] = At(c, 1) /\ Len(c) \in Nat
      /\ Chained(KNextOf(t), KPrevOf(t), c)
  BY <1>3 DEF ChainOK
<1>5. PICK j \in 1 .. Len(c) : c[j] = k
  BY <1>4 DEF Elems
<1>6. nx = At(c, j + 1) /\ pv = At(c, j - 1)
  <2>1. KNextOf(t)[c[j]] = At(c, j + 1) /\ KPrevOf(t)[c[j]] = At(c, j - 1)
    BY <1>4 DEF Chained
  <2> QED
    BY <1>1, <1>5, <2>1 DEF KNextOf, KPrevOf
<1>7. /\ nx = Nil \/ nx \in Elems(c)
      /\ pv = Nil \/ pv \in Elems(c)
  BY <1>6 DEF At, Elems
<1>8. t.buckets[B] = k <=> j = 1
  BY <1>4, <1>5 DEF At, Chained
<1>9. BucketIs(l1, t, B, x)
  <2>1. CASE t.buckets[B] = k
    BY <1>1, <2>1, SetBucket
  <2>2. CASE t.buckets[B] # k
    BY <1>1, <2>2 DEF BucketIs, KeysOnly, SameEnds, SameVals
  <2> QED
    BY <2>1, <2>2
<1> HIDE DEF l1, x, pv, nx
<1>10. KPrevIs(l2, l1, nx, pv)
  <2>1. l1 \in Tables /\ (nx = Nil \/ nx \in l1.liveKeys)
    BY <1>4, <1>7, <1>9 DEF BucketIs, KeysOnly
  <2> QED
    BY <1>1, <2>1, LinkKPrev
<1> HIDE DEF l2
<1>11. KNextIs(l3, l2, pv, nx)
  <2>1. l2 \in Tables /\ (pv = Nil \/ pv \in l2.liveKeys)
    BY <1>4, <1>7, <1>9, <1>10 DEF BucketIs, KPrevIs, KeysOnly
  <2> QED
    BY <1>1, <2>1, LinkKNext
<1> HIDE DEF l3
<1>12. FreeKeyIs(g, l3, k)
  <2>1. l3 \in Tables /\ k \in l3.liveKeys
    BY <1>9, <1>10, <1>11 DEF BucketIs, KPrevIs, KNextIs, KeysOnly
  <2> QED
    BY <1>2, <2>1, FreeKeys
<1>13. KeysOnly(g, t) /\ g.liveKeys = t.liveKeys \ {k}
  BY <1>9, <1>10, <1>11, <1>12 DEF BucketIs, KPrevIs, KNextIs, FreeKeyIs, KeysOnly, SameEnds, SameVals
<1>14. /\ \A m \in Keys \ {k} : /\ g.keyEntry[m].valEntry = t.keyEntry[m].valEntry
                                /\ g.keyEntry[m].next = IF m = pv THEN nx ELSE t.keyEntry[m].next
                                /\ g.keyEntry[m].prev = IF m = nx THEN pv ELSE t.keyEntry[m].prev
       /\ \A d \in Buckets : g.buckets[d] = IF d = B THEN x ELSE t.buckets[d]
  BY <1>9, <1>10, <1>11, <1>12 DEF BucketIs, KPrevIs, KNextIs, FreeKeyIs
<1>15. ASSUME NEW b \in Buckets, b # B PROVE \E d \in Seq(Keys) : ChainOK(g, b, d)
  <2>1. PICK d \in Seq(Keys) : ChainOK(t, b, d)
    BY DEF BucketsOK
  <2>2. /\ Elems(d) = {m \in t.liveKeys : Hash[m] = b} /\ t.buckets[b] = At(d, 1)
        /\ Chained(KNextOf(t), KPrevOf(t), d)
    BY <2>1 DEF ChainOK
  <2>3. Elems(d) = {m \in g.liveKeys : Hash[m] = b} /\ g.buckets[b] = At(d, 1)
    BY <1>13, <1>14, <1>15, <2>2
  <2>4. \A i \in 1 .. Len(d) : /\ KNextOf(g)[d[i]] = KNextOf(t)[d[i]]
                               /\ KPrevOf(g)[d[i]] = KPrevOf(t)[d[i]]
    <3> TAKE i \in 1 .. Len(d)
    <3>1. d[i] \in Elems(d) /\ d[i] \in Keys
      BY DEF Elems
    <3>2. d[i] # k /\ d[i] # pv /\ d[i] # nx
      BY <1>1, <1>4, <1>7, <1>15, <2>2, <3>1
    <3> QED
      BY <1>14, <3>1, <3>2 DEF KNextOf, KPrevOf
  <2>5. Chained(KNextOf(g), KPrevOf(g), d)
    BY <2>2, <2>4 DEF Chained
  <2> QED
    BY <2>3, <2>5 DEF ChainOK
<1>16. \E d \in Seq(Keys) : ChainOK(g, B, d)
  <2> DEFINE u == Dropped(c, j)
  <2>1. ChainedOut(KNextOf(g), KPrevOf(g), KNextOf(t), KPrevOf(t), c, j)
    <3>1. \A m \in Elems(c) \ {c[j]} : m \in Keys \ {k}
      BY <1>1, <1>4, <1>5
    <3> QED
      BY <1>6, <1>14, <3>1 DEF ChainedOut, KNextOf, KPrevOf
  <2>2. /\ u \in Seq(Keys) /\ Chained(KNextOf(g), KPrevOf(g), u)
        /\ Elems(u) = Elems(c) \ {c[j]} /\ Len(u) = Len(c) - 1
        /\ At(u, 1) = (IF j = 1 THEN At(c, 2) ELSE At(c, 1))
        /\ At(u, Len(c) - 1) = (IF j = Len(c) THEN At(c, j - 1) ELSE At(c, Len(c)))
    <3>1. ChainedWithout(Keys, KNextOf(g), KPrevOf(g), c, j)
      BY <1>1, <1>4, <2>1, DroppedChained
    <3> QED
      BY <3>1 DEF ChainedWithout
  <2> HIDE DEF u
  <2>3. Elems(u) = {m \in g.liveKeys : Hash[m] = B}
    BY <1>4, <1>5, <1>13, <2>2
  <2>4. g.buckets[B] = At(u, 1)
    <3>1. g.buckets[B] = x
      BY <1>1, <1>14
    <3>2. j = 1 => j + 1 = 2
      OBVIOUS
    <3> QED
      BY <1>4, <1>6, <1>8, <2>2, <3>1, <3>2 DEF x
  <2> QED
    BY <2>2, <2>3, <2>4 DEF ChainOK
<1>17. BucketsOK(g)
  BY <1>15, <1>16 DEF BucketsOK
<1> QED
  BY <1>13, <1>14, <1>17

\* g is t without the j-th item of s and its key.
Deleted(g, t, s, j) ==
  /\ TableIs(g, Dropped(s, j))
  /\ \A m \in g.liveVals : /\ g.valEntry[m].key = t.valEntry[m].key
                           /\ g.valEntry[m].val = t.valEntry[m].val

\* The j-th item of s is freed with its key and its neighbours are linked; the
\* ends of the list are as they were.
Unlinked(g, t, s, j) ==
  /\ Keyed(g) /\ g.liveVals = t.liveVals \ {s[j]} /\ g.itemNum = Len(s) - 1
  /\ g.valListHead = t.valListHead /\ g.valListTail = t.valListTail
  /\ ChainedOut(NextOf(g), PrevOf(g), NextOf(t), PrevOf(t), s, j)
  /\ \A m \in g.liveVals : /\ g.valEntry[m].key = t.valEntry[m].key
                           /\ g.valEntry[m].val = t.valEntry[m].val

\* What deleting any item does.
LEMMA UnlinkIs ==
  ASSUME NEW t, NEW s, TableIs(t, s), NEW j \in 1 .. Len(s)
  PROVE  Unlinked(DelValEntry(t, s[j]), t, s, j)
<1> DEFINE e == s[j]
           k == t.valEntry[e].key
           l0 == IF k = NoKey THEN t ELSE DelKeyEntry(t, k)
           pv == t.valEntry[e].prev
           nx == t.valEntry[e].next
           l1 == LinkVal(l0, pv, "next", nx)
           l2 == LinkVal(l1, nx, "prev", pv)
           l3 == FreeVal(l2, e)
           n == Len(s) - 1
           g == DelValEntry(t, e)
<1>1. /\ t \in Tables /\ ~t.fault /\ BucketsOK(t) /\ KeysOK(t) /\ ValsOK(t) /\ ListOK(t, s)
      /\ t.liveVals = Elems(s) /\ t.liveVals \subseteq Entries /\ t.liveKeys \subseteq Keys
      /\ Nil \notin Entries /\ NoKey \notin Keys
  BY EntriesAssumption DEF TableIs, Keyed, Tables
<1>2. /\ s \in Seq(Entries) /\ Len(s) \in Nat /\ t.itemNum = Len(s) /\ t.valListHead = At(s, 1)
      /\ t.valListTail = At(s, Len(s)) /\ Chained(NextOf(t), PrevOf(t), s)
  BY <1>1 DEF ListOK
<1>3. e \in Elems(s) /\ e \in Entries /\ e \in t.liveVals /\ e # Nil
  BY <1>1, <1>2 DEF Elems
<1>4. nx = At(s, j + 1) /\ pv = At(s, j - 1)
  <2>1. NextOf(t)[s[j]] = At(s, j + 1) /\ PrevOf(t)[s[j]] = At(s, j - 1)
    BY <1>2 DEF Chained
  <2> QED
    BY <1>3, <2>1 DEF NextOf, PrevOf
<1>5. /\ nx = Nil \/ nx \in Elems(s)
      /\ pv = Nil \/ pv \in Elems(s)
  BY <1>4 DEF At, Elems
<1>6. k # NoKey => k \in t.liveKeys /\ HasEntry(t, k) /\ Searched(t, k) = t
  <2> HAVE k # NoKey
  <2>1. k \in t.liveKeys
    BY <1>1, <1>3 DEF KeysOK
  <2> QED
    BY <1>1, <2>1, SearchWorks
<1>7. g = [l3 EXCEPT !.itemNum = l3.itemNum - 1]
  <2>1. CASE k = NoKey
    BY <2>1 DEF DelValEntry
  <2>2. CASE k # NoKey
    BY <1>1, <1>6, <2>2 DEF DelValEntry
  <2> QED
    BY <2>1, <2>2
<1>8. /\ KeysOnly(l0, t) /\ BucketsOK(l0) /\ l0.liveKeys = t.liveKeys \ {k}
      /\ \A m \in Keys \ {k} : l0.keyEntry[m].valEntry = t.keyEntry[m].valEntry
  <2>1. CASE k = NoKey
    <3>1. t.liveKeys \ {k} = t.liveKeys
      BY <1>1, <2>1
    <3> QED
      BY <1>1, <2>1, <3>1 DEF KeysOnly, SameEnds, SameVals
  <2>2. CASE k # NoKey
    <3>1. k \in t.liveKeys /\ l0 = DelKeyEntry(t, k)
      BY <1>6, <2>2
    <3> HIDE DEF l0, k
    <3> QED
      BY <1>1, <3>1, DelKeyIs
  <2> QED
    BY <2>1, <2>2
<1> HIDE DEF l0, pv, nx, k
<1>9. NextIs(l1, l0, pv, nx)
  <2>1. l0 \in Tables /\ (pv = Nil \/ pv \in l0.liveVals) /\ pv \in ValPlaces /\ nx \in ValPlaces
    BY <1>1, <1>5, <1>8 DEF KeysOnly, SameVals, ValPlaces
  <2> QED
    BY <2>1, LinkNext
<1> HIDE DEF l1
<1>10. PrevIs(l2, l1, nx, pv)
  <2>1. l1 \in Tables /\ (nx = Nil \/ nx \in l1.liveVals) /\ pv \in ValPlaces /\ nx \in ValPlaces
    BY <1>1, <1>5, <1>8, <1>9 DEF KeysOnly, SameVals, ValPlaces, NextIs, ValsOnly
  <2> QED
    BY <2>1, LinkPrev
<1> HIDE DEF l2
<1>11. FreeValIs(l3, l2, e)
  <2>1. l2 \in Tables /\ e \in l2.liveVals
    BY <1>3, <1>8, <1>9, <1>10 DEF KeysOnly, SameVals, NextIs, PrevIs, ValsOnly
  <2> QED
    BY <2>1, FreeVals
<1> HIDE DEF l3
<1>12. EndsAre(g, l3, t.valListHead, t.valListTail, n)
  <2>1. /\ l3 \in Tables /\ l3.itemNum - 1 = n /\ n \in Int
        /\ l3.valListHead = t.valListHead /\ l3.valListTail = t.valListTail
    BY <1>2, <1>8, <1>9, <1>10, <1>11 DEF KeysOnly, SameEnds, NextIs, PrevIs, ValsOnly, FreeValIs
  <2>2. g = [l3 EXCEPT !.itemNum = n]
    BY <1>7, <2>1
  <2> HIDE DEF g, n
  <2> QED
    BY <2>1, <2>2 DEF EndsAre, Tables, SameKeys, SameVals
<1> HIDE DEF g
<1>13. /\ g \in Tables /\ g.fault = t.fault /\ g.liveVals = t.liveVals \ {e} /\ SameKeys(g, l0)
       /\ g.itemNum = n /\ g.valListHead = t.valListHead /\ g.valListTail = t.valListTail
  BY <1>8, <1>9, <1>10, <1>11, <1>12
     DEF KeysOnly, NextIs, PrevIs, ValsOnly, FreeValIs, EndsAre, SameKeys, SameVals
<1>14. \A m \in Entries \ {e} :
         /\ g.valEntry[m].next = IF m = pv THEN nx ELSE t.valEntry[m].next
         /\ g.valEntry[m].prev = IF m = nx THEN pv ELSE t.valEntry[m].prev
         /\ g.valEntry[m].key = t.valEntry[m].key /\ g.valEntry[m].val = t.valEntry[m].val
  BY <1>8, <1>9, <1>10, <1>11, <1>12
     DEF KeysOnly, NextIs, PrevIs, FreeValIs, EndsAre, SameVals, SameData
<1>15. BucketsOK(g)
  BY <1>8, <1>13, BucketsSame
<1>16. \A m \in g.liveVals : /\ m \in t.liveVals /\ m # e /\ g.valEntry[m].key = t.valEntry[m].key
                             /\ g.valEntry[m].val = t.valEntry[m].val
  BY <1>1, <1>13, <1>14
<1>17. g.liveKeys = t.liveKeys \ {k} /\ \A m \in g.liveKeys : g.keyEntry[m].valEntry = t.keyEntry[m].valEntry
  BY <1>1, <1>8, <1>13 DEF SameKeys
<1>18. k # NoKey => t.keyEntry[k].valEntry = e
  BY <1>1, <1>3 DEF KeysOK, k
<1>19. KeysOK(g)
  <2>1. ASSUME NEW m \in g.liveVals, g.valEntry[m].key # NoKey
        PROVE  g.valEntry[m].key \in g.liveKeys /\ g.keyEntry[g.valEntry[m].key].valEntry = m
    <3>1. t.valEntry[m].key \in t.liveKeys /\ t.keyEntry[t.valEntry[m].key].valEntry = m
      BY <1>1, <1>16, <2>1 DEF KeysOK
    <3>2. t.valEntry[m].key # k
      BY <1>16, <1>18, <2>1, <3>1
    <3> QED
      BY <1>16, <1>17, <3>1, <3>2
  <2>2. ASSUME NEW m \in g.liveKeys
        PROVE  g.keyEntry[m].valEntry \in g.liveVals /\ g.valEntry[g.keyEntry[m].valEntry].key = m
    <3> DEFINE o == t.keyEntry[m].valEntry
    <3>1. o \in t.liveVals /\ t.valEntry[o].key = m /\ m # k
      BY <1>1, <1>17 DEF KeysOK
    <3> HIDE DEF o
    <3>2. o # e
      BY <3>1 DEF k
    <3>3. o \in g.liveVals
      BY <1>13, <3>1, <3>2
    <3> QED
      BY <1>16, <1>17, <3>1, <3>3 DEF o
  <2> QED
    BY <2>1, <2>2 DEF KeysOK
<1>20. ValsOK(g)
  BY <1>1, <1>16 DEF ValsOK
<1>21. ChainedOut(NextOf(g), PrevOf(g), NextOf(t), PrevOf(t), s, j)
  <2>1. \A m \in Elems(s) \ {s[j]} : m \in Entries \ {e}
    BY <1>1
  <2> QED
    BY <1>4, <1>14, <2>1 DEF ChainedOut, NextOf, PrevOf
<1>22. Keyed(g)
  BY <1>1, <1>13, <1>15, <1>19, <1>20 DEF Keyed
<1> QED
  BY <1>13, <1>16, <1>21, <1>22 DEF Unlinked, g

\* An item between others is deleted with its key.
LEMMA DelValIs ==
  ASSUME NEW t, NEW s, TableIs(t, s), NEW j \in 1 .. Len(s), j # 1, j # Len(s)
  PROVE  Deleted(DelValEntry(t, s[j]), t, s, j)
<1> DEFINE g == DelValEntry(t, s[j])
           u == Dropped(s, j)
<1>1. ListOK(t, s) /\ t.liveVals = Elems(s) /\ Nil \notin Entries
  BY EntriesAssumption DEF TableIs
<1>2. /\ s \in Seq(Entries) /\ Len(s) \in Nat /\ t.valListHead = At(s, 1)
      /\ t.valListTail = At(s, Len(s)) /\ Chained(NextOf(t), PrevOf(t), s)
  BY <1>1 DEF ListOK
<1>3. Unlinked(g, t, s, j)
  BY UnlinkIs
<1> HIDE DEF g
<1>4. ChainedWithout(Entries, NextOf(g), PrevOf(g), s, j)
  BY <1>1, <1>2, <1>3, DroppedChained DEF Unlinked
<1>5. /\ u \in Seq(Entries) /\ Chained(NextOf(g), PrevOf(g), u)
      /\ Elems(u) = Elems(s) \ {s[j]} /\ Len(u) = Len(s) - 1
      /\ At(u, 1) = At(s, 1) /\ At(u, Len(s) - 1) = At(s, Len(s))
  BY <1>4 DEF ChainedWithout
<1> HIDE DEF u
<1>6. /\ Elems(u) = g.liveVals /\ g.itemNum = Len(u) /\ g.valListHead = At(u, 1)
      /\ g.valListTail = At(u, Len(u))
  BY <1>1, <1>2, <1>3, <1>5 DEF Unlinked
<1>7. ListOK(g, u) /\ Keyed(g)
  BY <1>3, <1>5, <1>6 DEF ListOK, Unlinked
<1> QED
  BY <1>3, <1>6, <1>7 DEF Deleted, TableIs, Unlinked, u, g

-------------------------------------------------------------------------------
\* The items a table stands for.

Cell(k, v) == [key |-> k, val |-> v]

CellOf(t, e) == Cell(t.valEntry[e].key, t.valEntry[e].val)

ItemsOf(t, s) == [j \in 1 .. Len(s) |-> CellOf(t, s[j])]

Cells == [key : Keys \cup {NoKey}, val : Values]

\* The items once k is no more theirs.
Stripped(i, k) ==
  [j \in DOMAIN i |-> IF k # NoKey /\ i[j].key = k THEN [i[j] EXCEPT !.key = NoKey] ELSE i[j]]

\* t is in good order, and stands for the items i.
Stands(t, i) == \E u : TableIs(t, u) /\ ItemsOf(t, u) = i

\* The places of a list in good order.
LEMMA ListPlaces ==
  ASSUME NEW t, NEW s, Keyed(t), ListOK(t, s)
  PROVE  /\ s \in Seq(Entries) /\ Len(s) \in Nat /\ t.itemNum = Len(s)
         /\ \A j \in 1 .. Len(s) : s[j] \in Elems(s) /\ s[j] \in t.liveVals /\ s[j] \in Entries
         /\ \A i, j \in 1 .. Len(s) : s[i] = s[j] => i = j
         /\ \A m \in Elems(s) : \E j \in 1 .. Len(s) : m = s[j]
BY DEF ListOK, Elems, Chained

\* The items are a sequence, as long as the list.
LEMMA ItemsType ==
  ASSUME NEW t, NEW s, Keyed(t), ListOK(t, s)
  PROVE  /\ ItemsOf(t, s) \in Seq(Cells) /\ Len(ItemsOf(t, s)) = Len(s) /\ DOMAIN ItemsOf(t, s) = 1 .. Len(s)
         /\ \A j \in 1 .. Len(s) : ItemsOf(t, s)[j] = CellOf(t, s[j])
<1>1. /\ s \in Seq(Entries) /\ Len(s) \in Nat
      /\ \A j \in 1 .. Len(s) : s[j] \in t.liveVals /\ s[j] \in Entries
  BY ListPlaces
<1>2. \A j \in 1 .. Len(s) : CellOf(t, s[j]) \in Cells
  <2> TAKE j \in 1 .. Len(s)
  <2>1. t.valEntry[s[j]] \in ValCells /\ t.valEntry[s[j]].val \in Values
    BY <1>1 DEF Keyed, ValsOK, Tables
  <2>2. t.valEntry[s[j]].key \in Keys \cup {NoKey}
    BY <2>1 DEF ValCells
  <2> QED
    BY <2>1, <2>2 DEF CellOf, Cell, Cells
<1>3. ItemsOf(t, s) = [j \in 1 .. Len(s) |-> CellOf(t, s[j])]
  BY DEF ItemsOf
<1> QED
  BY <1>1, <1>2, <1>3

\* No two items have the same key.
LEMMA KeysDiffer ==
  ASSUME NEW t, NEW s, Keyed(t), ListOK(t, s), NEW i \in 1 .. Len(s), NEW j \in 1 .. Len(s),
         t.valEntry[s[i]].key = t.valEntry[s[j]].key, t.valEntry[s[i]].key # NoKey
  PROVE  i = j
<1>1. /\ s[i] \in t.liveVals /\ s[j] \in t.liveVals
      /\ \A p, q \in 1 .. Len(s) : s[p] = s[q] => p = q
  BY ListPlaces
<1>2. s[i] = s[j]
  BY <1>1 DEF Keyed, KeysOK
<1> QED
  BY <1>1, <1>2

\* An item put in the list is put among the items.
LEMMA PutInIs ==
  ASSUME NEW h, NEW g, NEW s, NEW e \in h.liveVals, NEW p \in 1 .. (Len(s) + 1), Keyed(h), ListOK(h, s),
         h.liveVals = Elems(s) \cup {e}, e \notin Elems(s), LinkedIn(g, h, s, p, e)
  PROVE  Stands(g, Inserted(ItemsOf(h, s), p, CellOf(h, e)))
<1> DEFINE u == Inserted(s, p, e)
           i == ItemsOf(h, s)
           c == CellOf(h, e)
           v == Inserted(i, p, c)
<1>0. h.liveVals \subseteq Entries
  BY DEF Keyed, Tables
<1>1. /\ s \in Seq(Entries) /\ Len(s) \in Nat /\ e \in Entries
      /\ \A j \in 1 .. Len(s) : s[j] \in Entries
  BY <1>0, ListPlaces
<1>2. /\ u \in Seq(Entries) /\ Len(u) = Len(s) + 1
      /\ \A m \in 1 .. (Len(s) + 1) : u[m] = IF m < p THEN s[m] ELSE IF m = p THEN e ELSE s[m - 1]
  BY <1>1, InsertedPlaces
<1>3. Elems(u) = Elems(s) \cup {e}
  BY DEF LinkedIn
<1>4. TableIs(g, u)
  BY <1>3 DEF TableIs, LinkedIn
<1>5. /\ i \in Seq(Cells) /\ Len(i) = Len(s) /\ \A j \in 1 .. Len(s) : i[j] = CellOf(h, s[j])
  BY ItemsType
<1>6. c \in Cells
  <2>1. h.valEntry[e] \in ValCells /\ h.valEntry[e].val \in Values
    BY <1>1 DEF Keyed, ValsOK, Tables
  <2>2. h.valEntry[e].key \in Keys \cup {NoKey}
    BY <2>1 DEF ValCells
  <2> QED
    BY <2>1, <2>2 DEF CellOf, Cell, Cells
<1>7. \A m \in Entries : CellOf(g, m) = CellOf(h, m)
  BY DEF LinkedIn, SameData, CellOf
<1>9. ItemsOf(g, u) \in Seq(Cells) /\ Len(ItemsOf(g, u)) = Len(u) /\ \A j \in 1 .. Len(u) : ItemsOf(g, u)[j] = CellOf(g, u[j])
  <2>1. Keyed(g) /\ ListOK(g, u)
    BY <1>4 DEF TableIs
  <2> HIDE DEF u
  <2> QED
    BY <2>1, ItemsType
<1> HIDE DEF i, c, u
<1>8. /\ v \in Seq(Cells) /\ Len(v) = Len(s) + 1
      /\ \A m \in 1 .. (Len(s) + 1) : v[m] = IF m < p THEN i[m] ELSE IF m = p THEN c ELSE i[m - 1]
  <2>1. p \in 1 .. (Len(i) + 1)
    BY <1>5
  <2> QED
    BY <1>5, <1>6, <2>1, InsertedPlaces
<1>10. ASSUME NEW m \in 1 .. (Len(s) + 1) PROVE ItemsOf(g, u)[m] = v[m]
  <2>1. m \in Int /\ p \in Int /\ m \in 1 .. Len(u)
    BY <1>1, <1>2
  <2>2. CASE m < p
    <3>1. m \in 1 .. Len(s)
      BY <1>1, <2>1, <2>2
    <3> QED
      BY <1>1, <1>2, <1>5, <1>7, <1>8, <1>9, <2>1, <2>2, <3>1
  <2>3. CASE m = p
    BY <1>1, <1>2, <1>7, <1>8, <1>9, <2>1, <2>3 DEF c
  <2>4. CASE m > p
    <3>1. m - 1 \in 1 .. Len(s) /\ ~(m < p) /\ m # p
      BY <1>1, <2>1, <2>4
    <3>2. u[m] = s[m - 1] /\ v[m] = i[m - 1]
      BY <1>2, <1>8, <3>1
    <3>3. i[m - 1] = CellOf(h, s[m - 1]) /\ s[m - 1] \in Entries
      BY <1>1, <1>5, <3>1
    <3> QED
      BY <1>7, <1>9, <2>1, <3>2, <3>3
  <2> QED
    BY <2>1, <2>2, <2>3, <2>4
<1> HIDE DEF v
<1>11. ItemsOf(g, u) = v
  BY <1>2, <1>8, <1>9, <1>10, SeqEqual
<1> QED
  BY <1>4, <1>11 DEF Stands, v, i, c

\* h is a table whose items are i, with an entry e that is not linked in yet.
Fresh(h, i, s, e, c) ==
  /\ Keyed(h) /\ ListOK(h, s) /\ e \notin Elems(s) /\ h.liveVals = Elems(s) \cup {e}
  /\ h.valEntry[e].next = Nil /\ h.valEntry[e].prev = Nil
  /\ ItemsOf(h, s) = i /\ CellOf(h, e) = c

\* A new value entry leaves the items as they are.
LEMMA FreshIs ==
  ASSUME NEW t, NEW s, TableIs(t, s), NEW e \in Entries, e \notin t.liveVals, NEW v \in Values
  PROVE  Fresh(NewValEntry(t, e, v), ItemsOf(t, s), s, e, Cell(NoKey, v))
<1> DEFINE h == NewValEntry(t, e, v)
<1>1. Keyed(t) /\ ListOK(t, s) /\ t.liveVals = Elems(s) /\ t \in Tables
  BY DEF TableIs, Keyed
<1>2. NewValIs(h, t, e, v)
  BY <1>1, NewVal
<1> HIDE DEF h
<1>3. Keyed(h) /\ ListOK(h, s)
  BY <1>1, <1>2, NewValKeeps
<1>4. ItemsOf(h, s) = ItemsOf(t, s)
  <2>1. \A j \in 1 .. Len(s) : s[j] \in Entries \ {e}
    BY <1>1, ListPlaces
  <2>2. \A j \in 1 .. Len(s) : CellOf(h, s[j]) = CellOf(t, s[j])
    BY <1>2, <2>1 DEF NewValIs, CellOf
  <2> QED
    BY <2>2 DEF ItemsOf
<1>5. CellOf(h, e) = Cell(NoKey, v)
  BY <1>2 DEF NewValIs, CellOf
<1> QED
  BY <1>1, <1>2, <1>3, <1>4, <1>5 DEF Fresh, NewValIs, h

\* Stripping the items of a key, place by place.
LEMMA StrippedPlaces ==
  ASSUME NEW t, NEW s, Keyed(t), ListOK(t, s), NEW k
  PROVE  /\ DOMAIN Stripped(ItemsOf(t, s), k) = 1 .. Len(s)
         /\ \A j \in 1 .. Len(s) :
              Stripped(ItemsOf(t, s), k)[j] =
                Cell(IF k # NoKey /\ t.valEntry[s[j]].key = k THEN NoKey ELSE t.valEntry[s[j]].key,
                     t.valEntry[s[j]].val)
<1>1. DOMAIN ItemsOf(t, s) = 1 .. Len(s) /\ \A j \in 1 .. Len(s) : ItemsOf(t, s)[j] = CellOf(t, s[j])
  BY ItemsType
<1>2. \A j \in 1 .. Len(s) :
        /\ CellOf(t, s[j]).key = t.valEntry[s[j]].key
        /\ [CellOf(t, s[j]) EXCEPT !.key = NoKey] = Cell(NoKey, t.valEntry[s[j]].val)
  BY DEF CellOf, Cell
<1>3. \A j \in 1 .. Len(s) :
        Stripped(ItemsOf(t, s), k)[j] =
          IF k # NoKey /\ CellOf(t, s[j]).key = k THEN [CellOf(t, s[j]) EXCEPT !.key = NoKey] ELSE CellOf(t, s[j])
  BY <1>1 DEF Stripped
<1>4. DOMAIN Stripped(ItemsOf(t, s), k) = 1 .. Len(s)
  BY <1>1 DEF Stripped
<1>5. ASSUME NEW j \in 1 .. Len(s)
      PROVE  Stripped(ItemsOf(t, s), k)[j] =
               Cell(IF k # NoKey /\ t.valEntry[s[j]].key = k THEN NoKey ELSE t.valEntry[s[j]].key,
                    t.valEntry[s[j]].val)
  <2>1. CASE k # NoKey /\ t.valEntry[s[j]].key = k
    BY <1>2, <1>3, <2>1
  <2>2. CASE ~(k # NoKey /\ t.valEntry[s[j]].key = k)
    <3>1. Stripped(ItemsOf(t, s), k)[j] = CellOf(t, s[j])
      BY <1>2, <1>3, <2>2
    <3> QED
      BY <2>2, <3>1 DEF CellOf
  <2> QED
    BY <2>1, <2>2
<1> QED
  BY <1>4, <1>5

\* The new entry is given a key.
LEMMA FreshKeyed ==
  ASSUME NEW h, NEW i, NEW s, NEW e, NEW v, NEW k \in Keys, NEW g,
         Fresh(h, i, s, e, Cell(NoKey, v)), Keyed(g), Renamed(g, h, k, e)
  PROVE  Fresh(g, Stripped(i, k), s, e, Cell(k, v))
<1>1. /\ Keyed(h) /\ ListOK(h, s) /\ e \notin Elems(s) /\ h.liveVals = Elems(s) \cup {e} /\ ItemsOf(h, s) = i
      /\ h.valEntry[e].next = Nil /\ h.valEntry[e].prev = Nil /\ CellOf(h, e) = Cell(NoKey, v)
  BY DEF Fresh
<1>2. e \in Entries /\ k # NoKey /\ h.valEntry[e].val = v
  <2>1. CellOf(h, e).val = Cell(NoKey, v).val
    BY <1>1
  <2> QED
    BY <1>1, <2>1, EntriesAssumption DEF Keyed, Tables, CellOf, Cell
<1>3. ListOK(g, s)
  <2>1. SameEnds(g, h) /\ SameLinks(g, h) /\ Elems(s) \subseteq g.liveVals
    BY <1>1 DEF Renamed
  <2> QED
    BY <1>1, <2>1, ListSame
<1>4. ItemsOf(g, s) = Stripped(i, k)
  <2>1. \A j \in 1 .. Len(s) : s[j] \in h.liveVals /\ s[j] # e
    BY <1>1, ListPlaces
  <2>2. /\ DOMAIN Stripped(i, k) = 1 .. Len(s)
        /\ \A j \in 1 .. Len(s) :
             Stripped(i, k)[j] =
               Cell(IF k # NoKey /\ h.valEntry[s[j]].key = k THEN NoKey ELSE h.valEntry[s[j]].key,
                    h.valEntry[s[j]].val)
    BY <1>1, StrippedPlaces
  <2>3. \A j \in 1 .. Len(s) : CellOf(g, s[j]) = Stripped(i, k)[j]
    <3> TAKE j \in 1 .. Len(s)
    <3>1. /\ g.valEntry[s[j]].val = h.valEntry[s[j]].val
          /\ g.valEntry[s[j]].key = IF h.valEntry[s[j]].key = k THEN NoKey ELSE h.valEntry[s[j]].key
      BY <2>1 DEF Renamed
    <3> QED
      BY <1>2, <2>2, <3>1 DEF CellOf
  <2>4. Stripped(i, k) = [j \in 1 .. Len(s) |-> Stripped(i, k)[j]]
    BY <2>2 DEF Stripped
  <2> QED
    BY <2>3, <2>4 DEF ItemsOf
<1>5. CellOf(g, e) = Cell(k, v)
  BY <1>1, <1>2 DEF Renamed, CellOf
<1>6. g.liveVals = h.liveVals /\ g.valEntry[e].next = Nil /\ g.valEntry[e].prev = Nil
  BY <1>1, <1>2 DEF Renamed, SameLinks
<1> QED
  BY <1>1, <1>3, <1>4, <1>5, <1>6 DEF Fresh

\* The new entry becomes the last item, or the first.
LEMMA FreshPut ==
  ASSUME NEW h, NEW i, NEW s, NEW e, NEW c, Fresh(h, i, s, e, c)
  PROVE  /\ Stands(PushValEntry(h, e), Append(i, c)) /\ PushValEntry(h, e).liveVals = h.liveVals
         /\ Stands(UnshiftValEntry(h, e), <<c>> \o i)
<1>1. /\ Keyed(h) /\ ListOK(h, s) /\ e \notin Elems(s) /\ h.liveVals = Elems(s) \cup {e} /\ ItemsOf(h, s) = i
      /\ h.valEntry[e].next = Nil /\ h.valEntry[e].prev = Nil /\ CellOf(h, e) = c /\ e \in h.liveVals
  BY DEF Fresh
<1>2. i \in Seq(Cells) /\ Len(i) = Len(s) /\ Len(s) \in Nat
  BY <1>1, ItemsType, ListPlaces
<1>3. c \in Cells
  <2>1. h.valEntry[e] \in ValCells /\ h.valEntry[e].val \in Values
    BY <1>1 DEF Keyed, ValsOK, Tables
  <2>2. h.valEntry[e].key \in Keys \cup {NoKey}
    BY <2>1 DEF ValCells
  <2> QED
    BY <1>1, <2>1, <2>2 DEF CellOf, Cell, Cells
<1>4. Stands(PushValEntry(h, e), Inserted(i, Len(s) + 1, c)) /\ PushValEntry(h, e).liveVals = h.liveVals
  <2>1. LinkedIn(PushValEntry(h, e), h, s, Len(s) + 1, e)
    BY <1>1, PushIs
  <2>2. Len(s) + 1 \in 1 .. (Len(s) + 1)
    BY <1>2
  <2> QED
    BY <1>1, <2>1, <2>2, PutInIs DEF LinkedIn
<1>5. Stands(UnshiftValEntry(h, e), Inserted(i, 1, c))
  <2>1. LinkedIn(UnshiftValEntry(h, e), h, s, 1, e)
    BY <1>1, UnshiftIs
  <2>2. 1 \in 1 .. (Len(s) + 1)
    BY <1>2
  <2> QED
    BY <1>1, <2>1, <2>2, PutInIs
<1>6. Inserted(i, Len(s) + 1, c) = Append(i, c) /\ Inserted(i, 1, c) = <<c>> \o i
  BY <1>2, <1>3, InsertedSeq
<1> QED
  BY <1>4, <1>5, <1>6

\* An item is given a key.
LEMMA RenameItem ==
  ASSUME NEW t, NEW s, TableIs(t, s), NEW j \in 1 .. Len(s), NEW k \in Keys, NEW g,
         Keyed(g), Renamed(g, t, k, s[j])
  PROVE  /\ TableIs(g, s)
         /\ ItemsOf(g, s) = [Stripped(ItemsOf(t, s), k) EXCEPT ![j] = Cell(k, t.valEntry[s[j]].val)]
<1>1. Keyed(t) /\ ListOK(t, s) /\ t.liveVals = Elems(s) /\ k # NoKey
  BY EntriesAssumption DEF TableIs
<1>2. ListOK(g, s)
  <2>1. SameEnds(g, t) /\ SameLinks(g, t) /\ Elems(s) \subseteq g.liveVals
    BY <1>1 DEF Renamed
  <2> QED
    BY <1>1, <2>1, ListSame
<1>3. TableIs(g, s)
  BY <1>1, <1>2 DEF TableIs, Renamed
<1> DEFINE i == Stripped(ItemsOf(t, s), k)
           c == Cell(k, t.valEntry[s[j]].val)
<1>4. /\ DOMAIN i = 1 .. Len(s)
      /\ \A m \in 1 .. Len(s) :
           i[m] = Cell(IF k # NoKey /\ t.valEntry[s[m]].key = k THEN NoKey ELSE t.valEntry[s[m]].key,
                       t.valEntry[s[m]].val)
  BY <1>1, StrippedPlaces
<1>5. \A m \in 1 .. Len(s) : s[m] \in t.liveVals /\ (s[m] = s[j] => m = j)
  BY <1>1, ListPlaces
<1> HIDE DEF i
<1>6. \A m \in 1 .. Len(s) : CellOf(g, s[m]) = IF m = j THEN c ELSE i[m]
  <2> TAKE m \in 1 .. Len(s)
  <2>1. /\ g.valEntry[s[m]].val = t.valEntry[s[m]].val
        /\ g.valEntry[s[m]].key = IF m = j THEN k
                                  ELSE IF t.valEntry[s[m]].key = k THEN NoKey ELSE t.valEntry[s[m]].key
    BY <1>5 DEF Renamed
  <2>2. CASE m = j
    BY <2>1, <2>2 DEF CellOf
  <2>3. CASE m # j
    BY <1>1, <1>4, <2>1, <2>3 DEF CellOf
  <2> QED
    BY <2>2, <2>3
<1> HIDE DEF c
<1>7. [i EXCEPT ![j] = c] = [m \in 1 .. Len(s) |-> IF m = j THEN c ELSE i[m]]
  BY <1>4
<1>8. ItemsOf(g, s) = [i EXCEPT ![j] = c]
  BY <1>6, <1>7 DEF ItemsOf
<1> QED
  BY <1>3, <1>8 DEF i, c

\* An item is given a value.
LEMMA RevalueItem ==
  ASSUME NEW t, NEW s, TableIs(t, s), NEW j \in 1 .. Len(s), NEW v \in Values, NEW g,
         ValIs(g, t, s[j], v)
  PROVE  /\ TableIs(g, s)
         /\ ItemsOf(g, s) = [ItemsOf(t, s) EXCEPT ![j] = Cell(t.valEntry[s[j]].key, v)]
         /\ ItemsOf(g, s) = [Stripped(ItemsOf(t, s), t.valEntry[s[j]].key)
                               EXCEPT ![j] = Cell(t.valEntry[s[j]].key, v)]
<1> DEFINE k == t.valEntry[s[j]].key
           c == Cell(k, v)
           a == ItemsOf(t, s)
           i == Stripped(a, k)
<1>1. Keyed(t) /\ ListOK(t, s) /\ t.liveVals = Elems(s)
  BY DEF TableIs
<1>2. Keyed(g) /\ ListOK(g, s)
  BY <1>1, SetValKeeps
<1>3. TableIs(g, s)
  BY <1>1, <1>2 DEF TableIs, ValIs, ValsOnly
<1>4. /\ DOMAIN i = 1 .. Len(s)
      /\ \A m \in 1 .. Len(s) :
           i[m] = Cell(IF k # NoKey /\ t.valEntry[s[m]].key = k THEN NoKey ELSE t.valEntry[s[m]].key,
                       t.valEntry[s[m]].val)
  BY <1>1, StrippedPlaces
<1>5. DOMAIN a = 1 .. Len(s) /\ \A m \in 1 .. Len(s) : a[m] = CellOf(t, s[m])
  BY <1>1, ItemsType
<1>6. \A m \in 1 .. Len(s) : s[m] \in Entries /\ (s[m] = s[j] => m = j)
  BY <1>1, ListPlaces
<1>7. \A m \in 1 .. Len(s) : m # j => ~(k # NoKey /\ t.valEntry[s[m]].key = k)
  BY <1>1, KeysDiffer
<1> HIDE DEF a, i, k
<1>8. \A m \in 1 .. Len(s) : m # j => i[m] = a[m]
  BY <1>4, <1>5, <1>7 DEF CellOf
<1>9. \A m \in 1 .. Len(s) : CellOf(g, s[m]) = IF m = j THEN c ELSE a[m]
  <2> TAKE m \in 1 .. Len(s)
  <2>1. /\ g.valEntry[s[m]].key = t.valEntry[s[m]].key
        /\ g.valEntry[s[m]].val = IF m = j THEN v ELSE t.valEntry[s[m]].val
    BY <1>6 DEF ValIs
  <2>2. CASE m = j
    BY <2>1, <2>2 DEF CellOf, k
  <2>3. CASE m # j
    BY <1>5, <2>1, <2>3 DEF CellOf
  <2> QED
    BY <2>2, <2>3
<1> HIDE DEF c
<1>10. [a EXCEPT ![j] = c] = [m \in 1 .. Len(s) |-> IF m = j THEN c ELSE a[m]]
  <2>1. a = [m \in 1 .. Len(s) |-> a[m]]
    BY <1>5 DEF a, ItemsOf
  <2> QED
    BY <2>1
<1>11. [i EXCEPT ![j] = c] = [m \in 1 .. Len(s) |-> IF m = j THEN c ELSE a[m]]
  <2>1. i = [m \in 1 .. Len(s) |-> i[m]]
    BY <1>4 DEF i, Stripped
  <2>2. [i EXCEPT ![j] = c] = [m \in 1 .. Len(s) |-> IF m = j THEN c ELSE i[m]]
    BY <2>1
  <2> QED
    BY <1>8, <2>2
<1>12. ItemsOf(g, s) = [m \in 1 .. Len(s) |-> IF m = j THEN c ELSE a[m]]
  BY <1>9 DEF ItemsOf
<1> QED
  BY <1>3, <1>10, <1>11, <1>12 DEF a, i, k, c

-------------------------------------------------------------------------------
\* The empty table, and a clone that is made item by item.

\* The empty table is in good order, and has no items.
LEMMA EmptyIs == Stands(EmptyTable, <<>>)
<1> DEFINE t == EmptyTable
<1>1. t \in Tables
  <2>1. BlankKey \in KeyCells /\ BlankVal \in ValCells
    BY DEF BlankKey, BlankVal, KeyCells, ValCells, KeyPlaces, ValPlaces
  <2>2. /\ [k \in Keys |-> BlankKey] \in [Keys -> KeyCells]
        /\ [e \in Entries |-> BlankVal] \in [Entries -> ValCells]
        /\ [b \in Buckets |-> Nil] \in [Buckets -> KeyPlaces]
    BY <2>1 DEF KeyPlaces
  <2> QED
    BY <2>2 DEF EmptyTable, Tables, ValPlaces
<1>2. /\ ~t.fault /\ t.liveKeys = {} /\ t.liveVals = {} /\ t.itemNum = 0 /\ t.valListHead = Nil
      /\ t.valListTail = Nil /\ \A b \in Buckets : t.buckets[b] = Nil
  BY DEF EmptyTable
<1> HIDE DEF t
<1>3. Len(<<>>) = 0 /\ <<>> \in Seq(Keys) /\ <<>> \in Seq(Entries) /\ 1 .. Len(<<>>) = {}
  OBVIOUS
<1>4. /\ Elems(<<>>) = {} /\ At(<<>>, 1) = Nil /\ At(<<>>, Len(<<>>)) = Nil
      /\ \A nx, pv : Chained(nx, pv, <<>>)
  BY <1>3 DEF Elems, At, Chained
<1>5. \A b \in Buckets : ChainOK(t, b, <<>>)
  BY <1>2, <1>3, <1>4 DEF ChainOK
<1>6. BucketsOK(t)
  BY <1>3, <1>5 DEF BucketsOK
<1>7. KeysOK(t) /\ ValsOK(t)
  BY <1>2 DEF KeysOK, ValsOK
<1>8. ListOK(t, <<>>)
  BY <1>2, <1>3, <1>4 DEF ListOK
<1>9. TableIs(t, <<>>)
  BY <1>1, <1>2, <1>4, <1>6, <1>7, <1>8 DEF TableIs, Keyed
<1>10. ItemsOf(t, <<>>) = <<>>
  <2>1. ItemsOf(t, <<>>) \in Seq(Cells) /\ Len(ItemsOf(t, <<>>)) = 0
    BY <1>3, <1>9, ItemsType DEF TableIs
  <2> QED
    BY <2>1
<1> QED
  BY <1>9, <1>10 DEF Stands, t

\* An item of t is pushed on a table g.
CopyOf(t, g, e) ==
  IF e \notin t.liveVals THEN Fault(g)
  ELSE LET v == NewValEntry(g, e, t.valEntry[e].val)
       IN  PushValEntry(IF t.valEntry[e].key = NoKey THEN v
                        ELSE AddOrUpdateKeyEntry(v, t.valEntry[e].key, e), e)

\* f holds the tables that come of copying none, one, ... n of the items s of t.
IsMade(f, t, s, n) ==
  f = [j \in 0 .. n |-> IF j = 0 THEN EmptyTable ELSE CopyOf(t, f[j - 1], s[j])]

\* The tables a clone is made by, one by one.
LEMMA MadePlaces ==
  ASSUME NEW f, NEW t, NEW s, NEW n \in Nat, IsMade(f, t, s, n)
  PROVE  f[0] = EmptyTable /\ \A j \in 1 .. n : f[j] = CopyOf(t, f[j - 1], s[j])
<1>1. \A j \in 0 .. n : f[j] = IF j = 0 THEN EmptyTable ELSE CopyOf(t, f[j - 1], s[j])
  BY DEF IsMade
<1>2. 0 \in 0 .. n /\ \A j \in 1 .. n : j \in 0 .. n /\ j # 0
  OBVIOUS
<1> QED
  BY <1>1, <1>2

\* There are such tables, by induction on how many items are copied.
LEMMA MadeExists ==
  ASSUME NEW t, NEW s, NEW n \in Nat
  PROVE  \E f : IsMade(f, t, s, n)
<1> DEFINE S == {m \in Nat : \E f : IsMade(f, t, s, m)}
<1>1. 0 \in S
  <2> DEFINE f == [j \in 0 .. 0 |-> EmptyTable]
  <2>1. \A j \in 0 .. 0 : j = 0
    OBVIOUS
  <2>2. f = [j \in 0 .. 0 |-> IF j = 0 THEN EmptyTable ELSE CopyOf(t, f[j - 1], s[j])]
    BY <2>1
  <2> HIDE DEF f
  <2>3. IsMade(f, t, s, 0)
    BY <2>2 DEF IsMade
  <2> QED
    BY <2>3
<1>2. ASSUME NEW m \in Nat, m \in S PROVE m + 1 \in S
  <2>1. PICK f : IsMade(f, t, s, m)
    BY <1>2
  <2>2. f[0] = EmptyTable /\ \A j \in 1 .. m : f[j] = CopyOf(t, f[j - 1], s[j])
    BY <2>1, MadePlaces
  <2> DEFINE x == CopyOf(t, f[m], s[m + 1])
             g == [j \in 0 .. (m + 1) |-> IF j = m + 1 THEN x ELSE f[j]]
  <2>3. g[0] = EmptyTable
    BY <2>2
  <2>4. ASSUME NEW j \in 0 .. (m + 1), j # 0 PROVE g[j] = CopyOf(t, g[j - 1], s[j])
    <3>1. j - 1 \in 0 .. (m + 1) /\ j - 1 # m + 1
      BY <2>4
    <3>2. g[j - 1] = f[j - 1]
      BY <3>1
    <3>3. CASE j = m + 1
      <4>1. j - 1 = m /\ g[j] = x
        BY <3>3
      <4> HIDE DEF g
      <4> QED
        BY <3>2, <3>3, <4>1
    <3>4. CASE j # m + 1
      <4>1. j \in 1 .. m /\ g[j] = f[j]
        BY <2>4, <3>4
      <4> HIDE DEF g
      <4> QED
        BY <2>2, <3>2, <4>1
    <3> QED
      BY <3>3, <3>4
  <2>5. g = [j \in 0 .. (m + 1) |-> g[j]]
    OBVIOUS
  <2> HIDE DEF g
  <2>6. g = [j \in 0 .. (m + 1) |-> IF j = 0 THEN EmptyTable ELSE CopyOf(t, g[j - 1], s[j])]
    <3>1. \A j \in 0 .. (m + 1) : g[j] = IF j = 0 THEN EmptyTable ELSE CopyOf(t, g[j - 1], s[j])
      BY <2>3, <2>4
    <3> QED
      BY <2>5, <3>1
  <2>7. IsMade(g, t, s, m + 1)
    BY <2>6 DEF IsMade
  <2> QED
    BY <2>7
<1>3. Nat \subseteq S
  <2> HIDE DEF S
  <2> QED
    BY <1>1, <1>2, SetInduction
<1> QED
  BY <1>3

\* No two keys of items share a bucket.
Apart(t) ==
  \A p, q \in t.liveVals :
    /\ t.valEntry[p].key # NoKey /\ t.valEntry[q].key # NoKey
    /\ Hash[t.valEntry[p].key] = Hash[t.valEntry[q].key]
    => t.valEntry[p].key = t.valEntry[q].key

\* g has copies of the first j of the items s of t.
Copied(g, t, s, j) ==
  Stands(g, SubSeq(ItemsOf(t, s), 1, j)) /\ g.liveVals = {s[m] : m \in 1 .. j}

\* A further item of t, copied to a table of the ones before it.
LEMMA CopyIs ==
  ASSUME NEW t, NEW s, TableIs(t, s), Apart(t), NEW j \in Nat, j < Len(s), NEW g, Copied(g, t, s, j)
  PROVE  Copied(CopyOf(t, g, s[j + 1]), t, s, j + 1)
<1> DEFINE e == s[j + 1]
           k == t.valEntry[e].key
           v == t.valEntry[e].val
           a == ItemsOf(t, s)
           i == SubSeq(a, 1, j)
           h == NewValEntry(g, e, v)
           l == IF k = NoKey THEN h ELSE AddOrUpdateKeyEntry(h, k, e)
           x == CopyOf(t, g, e)
<1>1. Keyed(t) /\ ListOK(t, s) /\ t.liveVals = Elems(s)
  BY DEF TableIs
<1>2. /\ j + 1 \in 1 .. Len(s) /\ Len(s) \in Nat
      /\ \A m \in 1 .. Len(s) : s[m] \in t.liveVals /\ s[m] \in Entries
      /\ \A m, p \in 1 .. Len(s) : s[m] = s[p] => m = p
  BY <1>1, ListPlaces
<1>3. e \in t.liveVals /\ e \in Entries /\ v \in Values /\ (k # NoKey => k \in Keys)
  <2>1. e \in t.liveVals /\ e \in Entries
    BY <1>2
  <2> QED
    BY <1>1, <2>1 DEF Keyed, ValsOK, KeysOK, Tables
<1>4. e \notin g.liveVals
  BY <1>2 DEF Copied
<1>5. a \in Seq(Cells) /\ Len(a) = Len(s) /\ \A m \in 1 .. Len(s) : a[m] = CellOf(t, s[m])
  BY <1>1, ItemsType
<1> HIDE DEF a
<1>6. i \in Seq(Cells) /\ Len(i) = j /\ \A m \in 1 .. j : i[m] = a[m]
  BY <1>2, <1>5
<1> HIDE DEF i
<1>7. PICK u : TableIs(g, u) /\ ItemsOf(g, u) = i
  BY DEF Copied, Stands, i, a
<1>8. /\ Keyed(g) /\ ListOK(g, u) /\ g.liveVals = Elems(u)
      /\ \A m \in 1 .. Len(u) : u[m] \in g.liveVals /\ i[m] = CellOf(g, u[m]) /\ m \in 1 .. j
      /\ \A m \in g.liveVals : \E p \in 1 .. Len(u) : m = u[p]
  <2>1. Keyed(g) /\ ListOK(g, u) /\ g.liveVals = Elems(u)
    BY <1>7 DEF TableIs
  <2>2. Len(i) = Len(u) /\ \A m \in 1 .. Len(u) : i[m] = CellOf(g, u[m])
    BY <1>7, <2>1, ItemsType
  <2>3. /\ \A m \in 1 .. Len(u) : u[m] \in g.liveVals
        /\ \A m \in Elems(u) : \E p \in 1 .. Len(u) : m = u[p]
    BY <2>1, ListPlaces
  <2> QED
    BY <1>6, <2>1, <2>2, <2>3
\* The items of g are the first of t.
<1>9. \A m \in 1 .. Len(u) : /\ g.valEntry[u[m]].key = t.valEntry[s[m]].key
                             /\ m \in 1 .. Len(s) /\ m # j + 1
  <2> TAKE m \in 1 .. Len(u)
  <2>1. m \in 1 .. j /\ m \in 1 .. Len(s) /\ m # j + 1
    BY <1>2, <1>8
  <2>2. CellOf(g, u[m]).key = CellOf(t, s[m]).key
    BY <1>5, <1>6, <1>8, <2>1
  <2> QED
    BY <2>1, <2>2 DEF CellOf, Cell
<1>10. Fresh(h, i, u, e, Cell(NoKey, v))
  BY <1>3, <1>4, <1>7, FreshIs
<1>11. h.liveVals = g.liveVals \cup {e} /\ SameKeys(h, g)
  <2>1. NewValIs(h, g, e, v)
    BY <1>3, <1>8, NewVal DEF Keyed
  <2> QED
    BY <2>1 DEF NewValIs
<1> HIDE DEF h
<1>12. Fresh(l, i, u, e, Cell(k, v)) /\ l.liveVals = h.liveVals
  <2>1. CASE k = NoKey
    BY <1>10, <2>1
  <2>2. CASE k # NoKey
    <3>1. k \in g.liveKeys \/ g.buckets[Hash[k]] = Nil
      <4> SUFFICES ASSUME g.buckets[Hash[k]] # Nil PROVE k \in g.liveKeys
        OBVIOUS
      <4> DEFINE q == g.buckets[Hash[k]]
      <4>1. q \in g.liveKeys /\ Hash[q] = Hash[k]
        BY <1>3, <1>8, <2>2, FirstLive, HashAssumption DEF Keyed
      <4> HIDE DEF q
      <4>2. PICK m \in g.liveVals : g.valEntry[m].key = q
        BY <1>8, <4>1 DEF Keyed, KeysOK
      <4>3. PICK p \in 1 .. Len(u) : m = u[p]
        BY <1>8
      <4>4. t.valEntry[s[p]].key = q /\ s[p] \in t.liveVals
        BY <1>2, <1>9, <4>2, <4>3
      <4>5. q # NoKey
        BY <1>8, <4>1, EntriesAssumption DEF Keyed, Tables
      <4>6. q = k
        BY <1>3, <2>2, <4>1, <4>4, <4>5 DEF Apart
      <4> QED
        BY <4>1, <4>6
    <3>2. Keyed(h) /\ e \in h.liveVals /\ h.valEntry[e].key = NoKey
      <4>1. CellOf(h, e).key = Cell(NoKey, v).key
        BY <1>10 DEF Fresh
      <4> QED
        BY <1>10, <4>1 DEF Fresh, CellOf, Cell
    <3>3. l = AddOrUpdateKeyEntry(h, k, e) /\ k \in Keys
      BY <1>3, <2>2
    <3>4. k \in h.liveKeys \/ h.buckets[Hash[k]] = Nil
      BY <1>11, <3>1 DEF SameKeys
    <3> HIDE DEF l, k
    <3>5. Keyed(l) /\ Renamed(l, h, k, e)
      BY <3>2, <3>3, <3>4, AddOrUpdateIs
    <3>6. Fresh(l, Stripped(i, k), u, e, Cell(k, v))
      BY <1>10, <3>3, <3>5, FreshKeyed
    <3>7. Stripped(i, k) = i
      <4>1. \A m \in 1 .. j : i[m].key # k
        <5> TAKE m \in 1 .. j
        <5>1. m \in 1 .. Len(s) /\ m # j + 1
          BY <1>2
        <5>2. i[m].key = t.valEntry[s[m]].key
          <6>1. i[m] = CellOf(t, s[m])
            BY <1>5, <1>6, <5>1
          <6> QED
            BY <6>1 DEF CellOf, Cell
        <5>3. t.valEntry[s[j + 1]].key # NoKey
          BY <2>2 DEF k
        <5>4. t.valEntry[s[m]].key # t.valEntry[s[j + 1]].key
          BY <1>1, <1>2, <5>1, <5>3, KeysDiffer
        <5> QED
          BY <5>2, <5>4 DEF k
      <4>2. DOMAIN i = 1 .. j /\ i = [m \in 1 .. j |-> i[m]]
        BY <1>6
      <4> QED
        BY <4>1, <4>2 DEF Stripped
    <3> QED
      BY <3>5, <3>6, <3>7 DEF Renamed
  <2> QED
    BY <2>1, <2>2
<1>13. x = PushValEntry(l, e)
  BY <1>3 DEF CopyOf, h
<1> HIDE DEF l, x
<1>14. Stands(x, Append(i, Cell(k, v))) /\ x.liveVals = l.liveVals
  <2> DEFINE c == Cell(k, v)
  <2>1. Fresh(l, i, u, e, c)
    BY <1>12
  <2> HIDE DEF c
  <2>2. Stands(PushValEntry(l, e), Append(i, c)) /\ PushValEntry(l, e).liveVals = l.liveVals
    BY <2>1, FreshPut
  <2> QED
    BY <1>13, <2>2 DEF c
<1>15. Append(i, Cell(k, v)) = SubSeq(a, 1, j + 1)
  <2>1. a[j + 1] = Cell(k, v)
    BY <1>2, <1>5 DEF CellOf
  <2>2. SubSeq(a, 1, j + 1) = Append(SubSeq(a, 1, j), a[j + 1])
    BY <1>2, <1>5
  <2> QED
    BY <2>1, <2>2 DEF i
<1>16. x.liveVals = {s[m] : m \in 1 .. (j + 1)}
  <2>1. x.liveVals = {s[m] : m \in 1 .. j} \cup {s[j + 1]}
    BY <1>11, <1>12, <1>14 DEF Copied
  <2>2. \A m \in 1 .. (j + 1) : m \in 1 .. j \/ m = j + 1
    OBVIOUS
  <2>3. j + 1 \in 1 .. (j + 1) /\ \A m \in 1 .. j : m \in 1 .. (j + 1)
    OBVIOUS
  <2> QED
    BY <2>1, <2>2, <2>3
<1> QED
  BY <1>14, <1>15, <1>16 DEF Copied, a, x

\* The clone has the items of the table.
LEMMA CloneIs ==
  ASSUME NEW t, NEW s, TableIs(t, s), Apart(t), NEW f, IsMade(f, t, s, Len(s))
  PROVE  Stands(f[Len(s)], ItemsOf(t, s))
<1> DEFINE a == ItemsOf(t, s)
           S == {j \in Nat : j <= Len(s) => Copied(f[j], t, s, j)}
<1>1. Len(s) \in Nat
  BY ListPlaces DEF TableIs
<1>2. f[0] = EmptyTable /\ \A j \in 1 .. Len(s) : f[j] = CopyOf(t, f[j - 1], s[j])
  BY <1>1, MadePlaces
<1>3. a \in Seq(Cells) /\ Len(a) = Len(s)
  BY ItemsType DEF TableIs
<1> HIDE DEF a
<1>4. 0 \in S
  <2>1. SubSeq(a, 1, 0) = <<>>
    BY <1>3
  <2>2. EmptyTable.liveVals = {} /\ {s[m] : m \in 1 .. 0} = {}
    BY DEF EmptyTable
  <2> QED
    BY <1>2, <2>1, <2>2, EmptyIs DEF Copied, a
<1>5. ASSUME NEW j \in Nat, j \in S PROVE j + 1 \in S
  <2> SUFFICES ASSUME j + 1 <= Len(s) PROVE Copied(f[j + 1], t, s, j + 1)
    OBVIOUS
  <2>1. Copied(f[j], t, s, j) /\ j < Len(s) /\ f[j + 1] = CopyOf(t, f[j], s[j + 1])
    <3>1. j + 1 \in 1 .. Len(s) /\ (j + 1) - 1 = j /\ j <= Len(s) /\ j < Len(s)
      BY <1>1
    <3> QED
      BY <1>2, <1>5, <3>1
  <2> QED
    BY <2>1, CopyIs
<1>6. Nat \subseteq S
  <2> HIDE DEF S
  <2> QED
    BY <1>4, <1>5, SetInduction
<1>7. SubSeq(a, 1, Len(s)) = a
  BY <1>3
<1>8. Copied(f[Len(s)], t, s, Len(s))
  BY <1>1, <1>6
<1> QED
  BY <1>7, <1>8 DEF Copied, a

-------------------------------------------------------------------------------
\* The calls.

\* The key is an item's if it has an entry.
LEMMA HasItem ==
  ASSUME NEW t, NEW s, TableIs(t, s), NEW k \in Keys
  PROVE  /\ HasEntry(t, k) <=> k \in t.liveKeys
         /\ ~SearchFails(t, k) /\ Searched(t, k) = t
         /\ k \in t.liveKeys => \E j \in 1 .. Len(s) : t.keyEntry[k].valEntry = s[j] /\ ItemsOf(t, s)[j].key = k
         /\ \A j \in 1 .. Len(s) : ItemsOf(t, s)[j].key = k => k \in t.liveKeys /\ t.keyEntry[k].valEntry = s[j]
<1>1. Keyed(t) /\ ListOK(t, s) /\ t.liveVals = Elems(s) /\ t \in Tables /\ BucketsOK(t)
  BY DEF TableIs, Keyed
<1>2. HasEntry(t, k) <=> k \in t.liveKeys
  BY <1>1, SearchWorks
<1>3. ~SearchFails(t, k) /\ Searched(t, k) = t
  BY <1>1, SearchWorks
<1>4. /\ \A j \in 1 .. Len(s) : s[j] \in t.liveVals
      /\ \A m \in Elems(s) : \E j \in 1 .. Len(s) : m = s[j]
  BY <1>1, ListPlaces
<1>5. \A j \in 1 .. Len(s) : ItemsOf(t, s)[j].key = t.valEntry[s[j]].key
  <2> TAKE j \in 1 .. Len(s)
  <2>1. ItemsOf(t, s)[j] = CellOf(t, s[j])
    BY <1>1, ItemsType
  <2> QED
    BY <2>1 DEF CellOf, Cell
<1>6. ASSUME k \in t.liveKeys
      PROVE  \E j \in 1 .. Len(s) : t.keyEntry[k].valEntry = s[j] /\ ItemsOf(t, s)[j].key = k
  <2>1. t.keyEntry[k].valEntry \in Elems(s) /\ t.valEntry[t.keyEntry[k].valEntry].key = k
    BY <1>1, <1>6 DEF Keyed, KeysOK
  <2>2. PICK j \in 1 .. Len(s) : t.keyEntry[k].valEntry = s[j]
    BY <1>4, <2>1
  <2> QED
    BY <1>5, <2>1, <2>2
<1>7. ASSUME NEW j \in 1 .. Len(s), ItemsOf(t, s)[j].key = k
      PROVE  k \in t.liveKeys /\ t.keyEntry[k].valEntry = s[j]
  <2>1. t.valEntry[s[j]].key = k /\ s[j] \in t.liveVals
    BY <1>4, <1>5, <1>7
  <2> QED
    BY <1>1, <2>1, OneHasKey
<1> QED
  BY <1>2, <1>3, <1>6, <1>7

\* A key that no item has is stripped from none.
LEMMA StrippedNone ==
  ASSUME NEW t, NEW s, TableIs(t, s), NEW k \in Keys, k \notin t.liveKeys
  PROVE  Stripped(ItemsOf(t, s), k) = ItemsOf(t, s)
<1> DEFINE a == ItemsOf(t, s)
<1>1. DOMAIN a = 1 .. Len(s) /\ a = [j \in 1 .. Len(s) |-> a[j]]
  BY ItemsType DEF TableIs, ItemsOf
<1>2. \A j \in 1 .. Len(s) : a[j].key # k
  BY HasItem
<1> HIDE DEF a
<1>3. Stripped(a, k) = a
  BY <1>1, <1>2 DEF Stripped
<1> QED
  BY <1>3 DEF a

\* What PutKv makes of the items.
PutInto(i, k, v) ==
  IF \E m \in DOMAIN i : i[m].key = k
  THEN [m \in DOMAIN i |-> IF i[m].key = k THEN Cell(k, v) ELSE i[m]]
  ELSE Append(i, Cell(k, v))

\* PutKv of a key that an item has sets that item's value.
LEMMA PutOld ==
  ASSUME NEW t, NEW s, TableIs(t, s), NEW k \in t.liveKeys, NEW v \in Values, NEW g,
         g = LinkVal(LinkVal(t, t.keyEntry[k].valEntry, "val", v), t.keyEntry[k].valEntry, "key", k)
  PROVE  Stands(g, PutInto(ItemsOf(t, s), k, v))
<1> DEFINE e == t.keyEntry[k].valEntry
           h == LinkVal(t, e, "val", v)
           a == ItemsOf(t, s)
<1>1. Keyed(t) /\ ListOK(t, s) /\ t.liveVals = Elems(s) /\ t \in Tables /\ k \in Keys /\ NoKey \notin Keys
  BY EntriesAssumption DEF TableIs, Keyed, Tables
<1>2. PICK j \in 1 .. Len(s) : e = s[j] /\ a[j].key = k
  BY <1>1, HasItem
<1>3. e \in t.liveVals /\ e \in ValPlaces /\ e \in Entries
  BY <1>1, <1>2, ListPlaces DEF ValPlaces
<1>4. ValIs(h, t, e, v)
  BY <1>1, <1>3, LinkValOf
<1>5. g = LinkVal(h, e, "key", k)
  OBVIOUS
<1>6. DOMAIN a = 1 .. Len(s) /\ a = [m \in 1 .. Len(s) |-> a[m]] /\ \A m \in 1 .. Len(s) : a[m] = CellOf(t, s[m])
  BY <1>1, ItemsType DEF ItemsOf
<1> HIDE DEF h, e, a
<1>7. a[j].key = t.valEntry[s[j]].key
  BY <1>6 DEF CellOf, Cell
<1>8. TableIs(h, s) /\ ItemsOf(h, s) = [a EXCEPT ![j] = Cell(k, v)]
  <2>1. ValIs(h, t, s[j], v)
    BY <1>2, <1>4
  <2>2. TableIs(h, s) /\ ItemsOf(h, s) = [a EXCEPT ![j] = Cell(t.valEntry[s[j]].key, v)]
    BY <2>1, RevalueItem DEF a
  <2> QED
    BY <1>2, <1>7, <2>2
<1>9. KeyIs(g, h, e, k)
  <2>1. h \in Tables /\ e \in h.liveVals
    BY <1>3, <1>4 DEF ValIs, ValsOnly
  <2> QED
    BY <1>1, <1>3, <1>5, <2>1, LinkKeyOf
<1>10. h.valEntry[e].key = k
  BY <1>2, <1>3, <1>4, <1>7 DEF ValIs
<1>11. SameData(g, h)
  BY <1>9, <1>10 DEF KeyIs, SameData
<1>12. /\ g \in Tables /\ g.fault = h.fault /\ g.liveVals = h.liveVals /\ SameKeys(g, h) /\ SameEnds(g, h)
       /\ SameLinks(g, h)
  BY <1>9 DEF KeyIs, ValsOnly
<1>13. TableIs(g, s)
  <2>1. Keyed(h) /\ ListOK(h, s) /\ h.liveVals = Elems(s)
    BY <1>8 DEF TableIs
  <2>2. Keyed(g)
    BY <1>11, <1>12, <2>1, KeyedSame
  <2>3. ListOK(g, s)
    BY <1>12, <2>1, ListSame
  <2> QED
    BY <1>12, <2>1, <2>2, <2>3 DEF TableIs
<1>14. ItemsOf(g, s) = ItemsOf(h, s)
  <2>1. \A m \in 1 .. Len(s) : s[m] \in Entries
    BY <1>1, ListPlaces
  <2> QED
    BY <1>11, <2>1 DEF SameData, ItemsOf, CellOf
<1>15. \A m \in 1 .. Len(s) : a[m].key = k <=> m = j
  <2>1. \A m \in 1 .. Len(s) : a[m].key = t.valEntry[s[m]].key
    BY <1>6 DEF CellOf, Cell
  <2> QED
    BY <1>1, <1>2, <2>1, KeysDiffer
<1>16. PutInto(a, k, v) = [a EXCEPT ![j] = Cell(k, v)]
  <2> DEFINE c == Cell(k, v)
  <2>1. PutInto(a, k, v) = [m \in 1 .. Len(s) |-> IF a[m].key = k THEN c ELSE a[m]]
    BY <1>6, <1>15 DEF PutInto
  <2> HIDE DEF c
  <2>2. [a EXCEPT ![j] = c] = [m \in 1 .. Len(s) |-> IF m = j THEN c ELSE a[m]]
    BY <1>6
  <2>3. PutInto(a, k, v) = [a EXCEPT ![j] = c]
    BY <1>15, <2>1, <2>2
  <2> QED
    BY <2>3 DEF c
<1> QED
  BY <1>8, <1>13, <1>14, <1>16 DEF Stands, a

\* PutKv of a key that no item has adds an item.
LEMMA PutNew ==
  ASSUME NEW t, NEW s, TableIs(t, s), NEW k \in Keys, k \notin t.liveKeys, NEW v \in Values,
         NEW e \in Entries, e \notin t.liveVals, NEW g,
         g = PushValEntry(WithFirst(NewValEntry(t, e, v), k, e, t.buckets[Hash[k]]), e)
  PROVE  Stands(g, PutInto(ItemsOf(t, s), k, v))
<1> DEFINE h == NewValEntry(t, e, v)
           l == WithFirst(h, k, e, t.buckets[Hash[k]])
           a == ItemsOf(t, s)
<1>1. t \in Tables /\ NoKey # k
  BY EntriesAssumption DEF TableIs, Keyed
<1>2. Fresh(h, a, s, e, Cell(NoKey, v))
  BY FreshIs
<1>3. NewValIs(h, t, e, v)
  BY <1>1, NewVal
<1>4. DOMAIN a = 1 .. Len(s)
  BY ItemsType DEF TableIs
<1>9. \A j \in 1 .. Len(s) : a[j].key # k
  BY HasItem
<1>5. Stripped(a, k) = a
  BY StrippedNone
<1> HIDE DEF h, a
<1>6. Keyed(l) /\ Renamed(l, h, k, e)
  <2>1. Keyed(h) /\ e \in h.liveVals
    BY <1>2 DEF Fresh
  <2>2. k \notin h.liveKeys /\ h.buckets = t.buckets /\ h.valEntry[e].key = NoKey
    BY <1>3 DEF NewValIs, SameKeys
  <2> HIDE DEF l
  <2>3. l = WithFirst(h, k, e, h.buckets[Hash[k]])
    BY <2>2 DEF l
  <2> QED
    BY <2>1, <2>2, <2>3, AddFirstIs
<1> HIDE DEF l
<1>7. Fresh(l, a, s, e, Cell(k, v))
  BY <1>2, <1>5, <1>6, FreshKeyed
<1>8. Stands(g, Append(a, Cell(k, v)))
  <2>1. g = PushValEntry(l, e)
    BY DEF l, h
  <2> DEFINE c == Cell(k, v)
  <2>2. Fresh(l, a, s, e, c)
    BY <1>7
  <2> HIDE DEF c
  <2>3. Stands(PushValEntry(l, e), Append(a, c))
    BY <2>2, FreshPut
  <2> QED
    BY <2>1, <2>3 DEF c
<1> QED
  BY <1>4, <1>8, <1>9 DEF PutInto, a

\* A new item with a key, at the end or at the front.
LEMMA AddKv ==
  ASSUME NEW t, NEW s, TableIs(t, s), NEW k \in Keys, k \in t.liveKeys \/ t.buckets[Hash[k]] = Nil,
         NEW v \in Values, NEW e \in Entries, e \notin t.liveVals, NEW g,
         g = AddOrUpdateKeyEntry(NewValEntry(t, e, v), k, e)
  PROVE  /\ Stands(PushValEntry(g, e), Append(Stripped(ItemsOf(t, s), k), Cell(k, v)))
         /\ Stands(UnshiftValEntry(g, e), <<Cell(k, v)>> \o Stripped(ItemsOf(t, s), k))
<1> DEFINE h == NewValEntry(t, e, v)
           a == ItemsOf(t, s)
           c == Cell(k, v)
           i == Stripped(a, k)
<1>1. t \in Tables
  BY DEF TableIs, Keyed
<1>2. Fresh(h, a, s, e, Cell(NoKey, v))
  BY FreshIs
<1>3. NewValIs(h, t, e, v)
  BY <1>1, NewVal
<1> HIDE DEF h, a
<1>4. Keyed(g) /\ Renamed(g, h, k, e)
  <2>1. Keyed(h) /\ e \in h.liveVals
    BY <1>2 DEF Fresh
  <2>2. (k \in h.liveKeys \/ h.buckets[Hash[k]] = Nil) /\ h.valEntry[e].key = NoKey
    BY <1>3 DEF NewValIs, SameKeys
  <2>3. g = AddOrUpdateKeyEntry(h, k, e)
    BY DEF h
  <2> QED
    BY <2>1, <2>2, <2>3, AddOrUpdateIs
<1>5. Fresh(g, i, s, e, c)
  BY <1>2, <1>4, FreshKeyed
<1> HIDE DEF i, c
<1>6. Stands(PushValEntry(g, e), Append(i, c)) /\ Stands(UnshiftValEntry(g, e), <<c>> \o i)
  BY <1>5, FreshPut
<1> QED
  BY <1>6 DEF i, c, a

\* An item is renamed in place, its value set or not.
Replaced(i, j, k, v) == [Stripped(i, k) EXCEPT ![j] = Cell(k, v)]

\* An item is given a key by SetKey.
LEMMA SetKeyAt ==
  ASSUME NEW t, NEW s, TableIs(t, s), NEW j \in 1 .. Len(s), NEW k \in Keys,
         k \in t.liveKeys \/ t.buckets[Hash[k]] = Nil, t.valEntry[s[j]].key \in {NoKey, k}
  PROVE  /\ Stands(SetKey(t, s[j], k), Replaced(ItemsOf(t, s), j, k, t.valEntry[s[j]].val))
         /\ t.valEntry[s[j]].val \in Values
<1> DEFINE e == s[j]
           g == SetKey(t, e, k)
<1>1. Keyed(t) /\ e \in t.liveVals
  BY ListPlaces DEF TableIs
<1>2. t.valEntry[e].val \in Values
  BY <1>1 DEF Keyed, ValsOK
<1>3. Keyed(g) /\ Renamed(g, t, k, e)
  <2> HIDE DEF e, g
  <2>1. t.valEntry[e].key \in {NoKey, k} /\ g = SetKey(t, e, k)
    BY DEF e, g
  <2> QED
    BY <1>1, <2>1, SetKeyIs
<1> HIDE DEF g
<1>4. TableIs(g, s) /\ ItemsOf(g, s) = Replaced(ItemsOf(t, s), j, k, t.valEntry[e].val)
  BY <1>3, RenameItem DEF Replaced
<1> QED
  BY <1>2, <1>4 DEF Stands, g

\* An item is given a value; its key, and all key entries, stay.
LEMMA SetValAt ==
  ASSUME NEW t, NEW s, TableIs(t, s), NEW j \in 1 .. Len(s), NEW v \in Values
  PROVE  /\ TableIs(LinkVal(t, s[j], "val", v), s)
         /\ ItemsOf(LinkVal(t, s[j], "val", v), s) = Replaced(ItemsOf(t, s), j, t.valEntry[s[j]].key, v)
         /\ ItemsOf(LinkVal(t, s[j], "val", v), s) = [ItemsOf(t, s) EXCEPT ![j] = Cell(t.valEntry[s[j]].key, v)]
         /\ t.valEntry[s[j]].key \in Keys \cup {NoKey}
         /\ SameKeys(LinkVal(t, s[j], "val", v), t)
         /\ LinkVal(t, s[j], "val", v).valEntry[s[j]].key = t.valEntry[s[j]].key
         /\ LinkVal(t, s[j], "val", v).valEntry[s[j]].val = v
<1> DEFINE e == s[j]
           g == LinkVal(t, e, "val", v)
<1>1. t \in Tables /\ e \in t.liveVals /\ e \in Entries
  BY ListPlaces DEF TableIs, Keyed
<1>2. ValIs(g, t, e, v)
  BY <1>1, LinkValOf DEF ValPlaces
<1>3. t.valEntry[e].key \in Keys \cup {NoKey}
  BY <1>1 DEF Tables, ValCells
<1> HIDE DEF g
<1>4. /\ TableIs(g, s)
      /\ ItemsOf(g, s) = [ItemsOf(t, s) EXCEPT ![j] = Cell(t.valEntry[e].key, v)]
      /\ ItemsOf(g, s) = Replaced(ItemsOf(t, s), j, t.valEntry[e].key, v)
  BY <1>2, RevalueItem DEF Replaced
<1>5. SameKeys(g, t) /\ g.valEntry[e].key = t.valEntry[e].key /\ g.valEntry[e].val = v
  BY <1>1, <1>2 DEF ValIs, ValsOnly
<1> QED
  BY <1>3, <1>4, <1>5 DEF g

\* An item is given a value and then a key.
LEMMA SetKvAt ==
  ASSUME NEW t, NEW s, TableIs(t, s), NEW j \in 1 .. Len(s), NEW k \in Keys, NEW v \in Values,
         k \in t.liveKeys \/ t.buckets[Hash[k]] = Nil, t.valEntry[s[j]].key \in {NoKey, k}
  PROVE  Stands(SetKey(LinkVal(t, s[j], "val", v), s[j], k), Replaced(ItemsOf(t, s), j, k, v))
<1> DEFINE h == LinkVal(t, s[j], "val", v)
           a == ItemsOf(t, s)
           c == Cell(t.valEntry[s[j]].key, v)
<1>1. /\ TableIs(h, s) /\ ItemsOf(h, s) = [a EXCEPT ![j] = c] /\ SameKeys(h, t)
      /\ h.valEntry[s[j]].key = t.valEntry[s[j]].key /\ h.valEntry[s[j]].val = v
  BY SetValAt
<1>2. a = [m \in 1 .. Len(s) |-> a[m]]
  BY DEF ItemsOf
<1> HIDE DEF h, a, c
<1>3. Stands(SetKey(h, s[j], k), Replaced(ItemsOf(h, s), j, k, v))
  <2>1. k \in h.liveKeys \/ h.buckets[Hash[k]] = Nil
    BY <1>1 DEF SameKeys
  <2> QED
    BY <1>1, <2>1, SetKeyAt
<1>4. Replaced([a EXCEPT ![j] = c], j, k, v) = Replaced(a, j, k, v)
  <2> DEFINE b == [a EXCEPT ![j] = c]
  <2>1. DOMAIN a = 1 .. Len(s) /\ DOMAIN b = 1 .. Len(s) /\ \A m \in 1 .. Len(s) : m # j => b[m] = a[m]
    BY <1>2
  <2> HIDE DEF b
  <2>2. \A m \in 1 .. Len(s) : m # j => Stripped(b, k)[m] = Stripped(a, k)[m]
    BY <2>1 DEF Stripped
  <2>3. DOMAIN Stripped(b, k) = 1 .. Len(s) /\ DOMAIN Stripped(a, k) = 1 .. Len(s)
    BY <2>1 DEF Stripped
  <2>4. /\ Stripped(b, k) = [m \in 1 .. Len(s) |-> Stripped(b, k)[m]]
        /\ Stripped(a, k) = [m \in 1 .. Len(s) |-> Stripped(a, k)[m]]
    BY <2>1 DEF Stripped
  <2> DEFINE p == Stripped(b, k)
             q == Stripped(a, k)
             d == Cell(k, v)
  <2> HIDE DEF p, q, d
  <2>5. [p EXCEPT ![j] = d] = [q EXCEPT ![j] = d]
    <3>1. /\ p = [m \in 1 .. Len(s) |-> p[m]] /\ q = [m \in 1 .. Len(s) |-> q[m]]
          /\ \A m \in 1 .. Len(s) : m # j => p[m] = q[m]
      BY <2>2, <2>4 DEF p, q
    <3>2. [p EXCEPT ![j] = d] = [m \in 1 .. Len(s) |-> IF m = j THEN d ELSE p[m]]
      BY <3>1
    <3>3. [q EXCEPT ![j] = d] = [m \in 1 .. Len(s) |-> IF m = j THEN d ELSE q[m]]
      BY <3>1
    <3> QED
      BY <3>1, <3>2, <3>3
  <2> QED
    BY <2>5 DEF p, q, d, b, Replaced
<1> QED
  BY <1>1, <1>3, <1>4 DEF h, a

\* An item that is not at an end is deleted.
LEMMA DelAt ==
  ASSUME NEW t, NEW s, TableIs(t, s), NEW j \in 1 .. Len(s), s[j] \notin {t.valListHead, t.valListTail}
  PROVE  /\ Stands(DelValEntry(t, s[j]),
                   SubSeq(ItemsOf(t, s), 1, j - 1) \o SubSeq(ItemsOf(t, s), j + 1, Len(ItemsOf(t, s))))
         /\ Stands(DelValEntry(t, s[j]), Dropped(ItemsOf(t, s), j))
<1> DEFINE g == DelValEntry(t, s[j])
           u == Dropped(s, j)
           a == ItemsOf(t, s)
<1>1. Keyed(t) /\ ListOK(t, s) /\ t.liveVals = Elems(s)
  BY DEF TableIs
<1>2. /\ Len(s) \in Nat /\ s \in Seq(Entries)
      /\ \A m \in 1 .. Len(s) : s[m] \in t.liveVals
  BY <1>1, ListPlaces
<1>3. j # 1 /\ j # Len(s)
  <2>1. t.valListHead = At(s, 1) /\ t.valListTail = At(s, Len(s))
    BY <1>1 DEF ListOK
  <2> QED
    BY <1>2, <2>1 DEF At
<1>4. Deleted(g, t, s, j)
  BY <1>3, DelValIs
<1> HIDE DEF g
<1>5. TableIs(g, u)
  BY <1>4 DEF Deleted
<1>6. /\ u \in Seq(Entries) /\ Len(u) = Len(s) - 1
      /\ \A m \in 1 .. (Len(s) - 1) : u[m] = IF m < j THEN s[m] ELSE s[m + 1]
  BY <1>2, DroppedPlaces
<1>7. /\ a \in Seq(Cells) /\ Len(a) = Len(s) /\ \A m \in 1 .. Len(s) : a[m] = CellOf(t, s[m])
  BY <1>1, ItemsType
<1> HIDE DEF u, a
<1>8. /\ ItemsOf(g, u) \in Seq(Cells) /\ Len(ItemsOf(g, u)) = Len(u)
      /\ \A m \in 1 .. Len(u) : ItemsOf(g, u)[m] = CellOf(g, u[m]) /\ u[m] \in g.liveVals
  <2>1. Keyed(g) /\ ListOK(g, u)
    BY <1>5 DEF TableIs
  <2> QED
    BY <2>1, ItemsType, ListPlaces
<1>9. /\ Dropped(a, j) \in Seq(Cells) /\ Len(Dropped(a, j)) = Len(a) - 1
      /\ \A m \in 1 .. (Len(a) - 1) : Dropped(a, j)[m] = IF m < j THEN a[m] ELSE a[m + 1]
  BY <1>7, DroppedPlaces
<1>10. ASSUME NEW m \in 1 .. Len(u) PROVE ItemsOf(g, u)[m] = Dropped(a, j)[m]
  <2>1. m \in 1 .. (Len(s) - 1) /\ m \in 1 .. Len(s) /\ m + 1 \in 1 .. Len(s)
    BY <1>2, <1>6
  <2>2. ItemsOf(g, u)[m] = CellOf(t, u[m])
    BY <1>4, <1>8 DEF Deleted, CellOf
  <2>3. CASE m < j
    BY <1>6, <1>7, <1>9, <2>1, <2>2, <2>3
  <2>4. CASE ~(m < j)
    <3>1. u[m] = s[m + 1] /\ Dropped(a, j)[m] = a[m + 1]
      BY <1>6, <1>7, <1>9, <2>1, <2>4
    <3> QED
      BY <1>7, <2>1, <2>2, <3>1
  <2> QED
    BY <2>3, <2>4
<1>11. ItemsOf(g, u) = Dropped(a, j)
  BY <1>6, <1>7, <1>8, <1>9, <1>10, SeqEqual
<1>12. Dropped(a, j) = SubSeq(a, 1, j - 1) \o SubSeq(a, j + 1, Len(a))
  BY <1>7, DroppedSeq
<1> QED
  BY <1>5, <1>11, <1>12 DEF Stands, a, g

-------------------------------------------------------------------------------
\* What is read off a table.

OrderIn(t) == Walk(t, t.valListHead, t.itemNum, "next")

\* The items of t, as Items reads them.
ItemsIn(t) ==
  [j \in 1 .. t.itemNum |->
     IF OrderIn(t)[j] \in t.liveVals THEN CellOf(t, OrderIn(t)[j]) ELSE Cell(NoKey, Undef)]

\* Read from the head, the items of a table in good order are those of its list.
LEMMA ItemsRead ==
  ASSUME NEW t, NEW s, TableIs(t, s)
  PROVE  OrderIn(t) = s /\ ItemsIn(t) = ItemsOf(t, s)
<1>1. Keyed(t) /\ ListOK(t, s) /\ t \in Tables
  BY DEF TableIs, Keyed
<1>2. /\ s \in Seq(Entries) /\ Len(s) \in Nat /\ t.itemNum = Len(s)
      /\ \A j \in 1 .. Len(s) : s[j] \in t.liveVals
  BY <1>1, ListPlaces
<1>3. Walk(t, t.valListHead, Len(s), "next") = [j \in 1 .. Len(s) |-> At(s, j)]
  <2>1. Len(s) \in Nat /\ Len(s) <= Len(s)
    BY <1>2
  <2> QED
    BY <1>1, <2>1, WalkList
<1>4. [j \in 1 .. Len(s) |-> At(s, j)] = s
  BY <1>2 DEF At
<1>5. OrderIn(t) = s
  <2>1. OrderIn(t) = Walk(t, t.valListHead, Len(s), "next")
    BY <1>2 DEF OrderIn
  <2> QED
    BY <1>3, <1>4, <2>1
<1> QED
  BY <1>2, <1>5 DEF ItemsIn, ItemsOf

\* The table is in good order.
Good == \E s : TableIs(table, s)

\* Items is what is read of the table, now and next.
LEMMA ItemsNow ==
  Items = ItemsIn(table) /\ Items' = ItemsIn(table') /\ Order = OrderIn(table)
BY DEF Items, Order, ItemsIn, OrderIn, CellOf, Cell

\* What the items are.
LEMMA ItemsAre ==
  ASSUME NEW s, TableIs(table, s)
  PROVE  /\ Items = ItemsOf(table, s) /\ Order = s
         /\ Items \in Seq(Cells) /\ Len(Items) = Len(s) /\ DOMAIN Items = 1 .. Len(s)
         /\ \A j \in 1 .. Len(s) : /\ Items[j] = CellOf(table, s[j])
                                   /\ Items[j].key = table.valEntry[s[j]].key
                                   /\ Items[j].val = table.valEntry[s[j]].val
<1>1. Items = ItemsOf(table, s) /\ Order = s
  BY ItemsNow, ItemsRead
<1>2. Keyed(table) /\ ListOK(table, s)
  BY DEF TableIs
<1>3. /\ ItemsOf(table, s) \in Seq(Cells) /\ Len(ItemsOf(table, s)) = Len(s)
      /\ DOMAIN ItemsOf(table, s) = 1 .. Len(s)
      /\ \A j \in 1 .. Len(s) : ItemsOf(table, s)[j] = CellOf(table, s[j])
  BY <1>2, ItemsType
<1>4. ASSUME NEW j \in 1 .. Len(s)
      PROVE  /\ Items[j] = CellOf(table, s[j])
             /\ Items[j].key = table.valEntry[s[j]].key
             /\ Items[j].val = table.valEntry[s[j]].val
  <2>1. Items[j] = CellOf(table, s[j])
    BY <1>1, <1>3
  <2> QED
    BY <2>1 DEF CellOf, Cell
<1> QED
  BY <1>1, <1>3, <1>4

\* What they become.
LEMMA Turned ==
  ASSUME NEW i, Stands(table', i)
  PROVE  Good' /\ Items' = i
<1>1. PICK u : TableIs(table', u) /\ ItemsOf(table', u) = i
  BY DEF Stands
<1>2. ItemsIn(table') = ItemsOf(table', u)
  BY <1>1, ItemsRead
<1>3. Good'
  BY <1>1 DEF Good
<1> QED
  BY <1>1, <1>2, <1>3, ItemsNow

\* A call that leaves the table as it is.
LEMMA Kept ==
  ASSUME Good, table' = table
  PROVE  Good' /\ Items' = Items
<1>1. Good'
  BY DEF Good
<1> QED
  BY <1>1, ItemsNow

-------------------------------------------------------------------------------
\* The invariants, in a table in good order.

\* Both walks are the list, there and back.
LEMMA GoodEnds ==
  ASSUME Good
  PROVE  EndsAgree /\ NoFault
<1>1. PICK s : TableIs(table, s)
  BY DEF Good
<1>2. Keyed(table) /\ ListOK(table, s) /\ table.liveVals = Elems(s) /\ table \in Tables /\ ~table.fault
  BY <1>1 DEF TableIs, Keyed
<1>3. s \in Seq(Entries) /\ Len(s) \in Nat /\ table.itemNum = Len(s)
  BY <1>2, ListPlaces
<1>4. Order = s
  BY <1>1, ItemsAre
<1>5. table.liveVals = {Order[j] : j \in DOMAIN Order}
  BY <1>2, <1>3, <1>4 DEF Elems
<1>6. Walk(table, table.valListTail, table.itemNum, "prev") = [j \in 1 .. Len(s) |-> At(s, Len(s) + 1 - j)]
  <2>1. Walk(table, table.valListTail, Len(s), "prev") = [j \in 1 .. Len(s) |-> At(s, Len(s) + 1 - j)]
    <3>1. Len(s) \in Nat /\ Len(s) <= Len(s)
      BY <1>3
    <3> QED
      BY <1>2, <3>1, WalkList
  <2>2. table.itemNum = Len(s)
    BY <1>3
  <2> QED
    BY <2>1, <2>2, Zenon
<1>7. Reverse([j \in 1 .. table.itemNum |-> Order[j]]) = [j \in 1 .. Len(s) |-> At(s, Len(s) + 1 - j)]
  <2>1. [j \in 1 .. table.itemNum |-> Order[j]] = s
    BY <1>3, <1>4
  <2>2. Reverse(s) = [j \in 1 .. Len(s) |-> s[Len(s) - j + 1]]
    BY DEF Reverse
  <2>3. \A j \in 1 .. Len(s) : s[Len(s) - j + 1] = At(s, Len(s) + 1 - j)
    BY <1>3 DEF At
  <2> QED
    BY <2>1, <2>2, <2>3
<1> QED
  BY <1>2, <1>5, <1>6, <1>7 DEF EndsAgree, NoFault

\* Keys find their items.
LEMMA GoodKeys ==
  ASSUME Good
  PROVE  KeysFindItems
<1>1. PICK s : TableIs(table, s)
  BY DEF Good
<1>2. KeysOK(table) /\ table \in Tables /\ BucketsOK(table)
  BY <1>1 DEF TableIs, Keyed
<1>3. \A k \in Keys : HasEntry(table, k) <=> k \in table.liveKeys
  BY <1>2, SearchWorks
<1>4. table.liveKeys \subseteq Keys
  BY <1>2 DEF Tables
<1> QED
  BY <1>2, <1>3, <1>4 DEF KeysFindItems, KeysOK

-------------------------------------------------------------------------------
\* The steps of AbstractTable, told of the items.

\* The items without a key are the same in both modules.
LEMMA WithoutIs ==
  ASSUME NEW k
  PROVE  Contents!Without(k) = Stripped(Items, k)
BY DEF Contents!Without, Stripped

\* Adding an item at the end.
LEMMA PushStep ==
  ASSUME NEW k, NEW v, Items' = Append(Stripped(Items, k), Cell(k, v)), returned' = Undef
  PROVE  Contents!Push(k, v)
BY WithoutIs DEF Contents!Push, Contents!Item, Cell

\* Adding an item at the front.
LEMMA UnshiftStep ==
  ASSUME NEW k, NEW v, Items' = <<Cell(k, v)>> \o Stripped(Items, k), returned' = Undef
  PROVE  Contents!Unshift(k, v)
BY WithoutIs DEF Contents!Unshift, Contents!Item, Cell

\* Setting the value of the key's item, or adding one.
LEMMA PutStep ==
  ASSUME NEW k, NEW v, Items' = PutInto(Items, k, v), returned' = Undef
  PROVE  Contents!Put(k, v)
BY DEF Contents!Put, Contents!Item, Cell, PutInto

\* Replacing an item.
LEMMA ReplaceStep ==
  ASSUME NEW i, NEW k, NEW v, Items' = Replaced(Items, i, k, v), returned' = Undef
  PROVE  Contents!Replace(i, k, v)
BY WithoutIs DEF Contents!Replace, Contents!Item, Cell, Replaced

\* Taking an item out.
LEMMA DeleteStep ==
  ASSUME NEW i, Items' = SubSeq(Items, 1, i - 1) \o SubSeq(Items, i + 1, Len(Items)), returned' = Undef
  PROVE  Contents!Delete(i)
BY DEF Contents!Delete, Contents!Dropped

\* Changing nothing.
LEMMA KeepStep ==
  ASSUME Items' = Items, returned' = Undef
  PROVE  Contents!Keep
BY DEF Contents!Keep

\* No key is stripped when none is given.
LEMMA StrippedNo ==
  ASSUME NEW s, TableIs(table, s)
  PROVE  Stripped(Items, NoKey) = Items
<1>1. Items = [j \in DOMAIN Items |-> Items[j]]
  BY ItemsAre
<1> QED
  BY <1>1 DEF Stripped

-------------------------------------------------------------------------------
\* The calls, one by one.

\* PushVal and UnshiftVal add an item without a key.
LEMMA PushValStep ==
  ASSUME NEW s, TableIs(table, s), NEW v \in Values, PushVal(v) \/ UnshiftVal(v)
  PROVE  /\ Good'
         /\ Contents!Push(NoKey, v) \/ Contents!Unshift(NoKey, v)
<1> DEFINE a == ItemsOf(table, s)
           c == Cell(NoKey, v)
<1>1. PICK e \in Free : \/ Becomes(PushValEntry(NewValEntry(table, e, v), e))
                        \/ Becomes(UnshiftValEntry(NewValEntry(table, e, v), e))
  BY DEF PushVal, UnshiftVal
<1>2. e \in Entries /\ e \notin table.liveVals
  BY DEF Free
<1> DEFINE h == NewValEntry(table, e, v)
<1>3. Fresh(h, a, s, e, c)
  BY <1>2, FreshIs
<1>4. a = Items /\ Stripped(Items, NoKey) = a
  BY ItemsAre, StrippedNo
<1>5. Becomes(PushValEntry(h, e)) \/ Becomes(UnshiftValEntry(h, e))
  BY <1>1
<1> HIDE DEF h, a, c
<1>6. Stands(PushValEntry(h, e), Append(a, c)) /\ Stands(UnshiftValEntry(h, e), <<c>> \o a)
  BY <1>3, FreshPut
<1>7. returned' = Undef /\ (Stands(table', Append(a, c)) \/ Stands(table', <<c>> \o a))
  BY <1>5, <1>6 DEF Becomes
<1>8. CASE Stands(table', Append(a, c))
  <2>1. Good' /\ Items' = Append(a, c)
    BY <1>8, Turned
  <2> QED
    BY <1>4, <1>7, <2>1, PushStep DEF c
<1>9. CASE Stands(table', <<c>> \o a)
  <2>1. Good' /\ Items' = <<c>> \o a
    BY <1>9, Turned
  <2> QED
    BY <1>4, <1>7, <2>1, UnshiftStep DEF c
<1> QED
  BY <1>7, <1>8, <1>9

\* Whether a key may be added, and whether an item may be given it.
LEMMA MayAddIs ==
  ASSUME NEW s, TableIs(table, s), NEW k \in Keys, MayAdd(k)
  PROVE  k \in table.liveKeys \/ table.buckets[Hash[k]] = Nil
BY HasItem DEF MayAdd

\* PushKv and UnshiftKv add an item and take the key from the one that had it.
LEMMA PushKvStep ==
  ASSUME NEW s, TableIs(table, s), NEW k \in Keys, NEW v \in Values, MayAdd(k),
         PushKv(k, v) \/ UnshiftKv(k, v)
  PROVE  /\ Good'
         /\ Contents!Push(k, v) \/ Contents!Unshift(k, v)
<1> DEFINE a == Stripped(ItemsOf(table, s), k)
           c == Cell(k, v)
<1>1. PICK e \in Free :
        \/ Becomes(PushValEntry(AddOrUpdateKeyEntry(NewValEntry(table, e, v), k, e), e))
        \/ Becomes(UnshiftValEntry(AddOrUpdateKeyEntry(NewValEntry(table, e, v), k, e), e))
  BY DEF PushKv, UnshiftKv
<1>2. e \in Entries /\ e \notin table.liveVals
  BY DEF Free
<1> DEFINE h == AddOrUpdateKeyEntry(NewValEntry(table, e, v), k, e)
<1>3. k \in table.liveKeys \/ table.buckets[Hash[k]] = Nil
  BY MayAddIs
<1>4. Becomes(PushValEntry(h, e)) \/ Becomes(UnshiftValEntry(h, e))
  BY <1>1
<1>5. h = AddOrUpdateKeyEntry(NewValEntry(table, e, v), k, e)
  OBVIOUS
<1> HIDE DEF h
<1>6. Stands(PushValEntry(h, e), Append(a, c)) /\ Stands(UnshiftValEntry(h, e), <<c>> \o a)
  BY <1>2, <1>3, <1>5, AddKv
<1>7. a = Stripped(Items, k)
  BY ItemsAre
<1> HIDE DEF a, c
<1>8. returned' = Undef /\ (Stands(table', Append(a, c)) \/ Stands(table', <<c>> \o a))
  BY <1>4, <1>6 DEF Becomes
<1>9. CASE Stands(table', Append(a, c))
  <2>1. Good' /\ Items' = Append(a, c)
    BY <1>9, Turned
  <2> QED
    BY <1>7, <1>8, <2>1, PushStep DEF c
<1>10. CASE Stands(table', <<c>> \o a)
  <2>1. Good' /\ Items' = <<c>> \o a
    BY <1>10, Turned
  <2> QED
    BY <1>7, <1>8, <2>1, UnshiftStep DEF c
<1> QED
  BY <1>8, <1>9, <1>10

\* PutKv puts.
LEMMA PutKvStep ==
  ASSUME NEW s, TableIs(table, s), NEW k \in Keys, NEW v \in Values, PutKv(k, v)
  PROVE  Good' /\ Contents!Put(k, v)
<1> DEFINE i == PutInto(ItemsOf(table, s), k, v)
<1>1. (HasEntry(table, k) <=> k \in table.liveKeys) /\ Searched(table, k) = table
  BY HasItem
<1>2. Stands(table', i) /\ returned' = Undef
  <2>1. CASE HasEntry(table, k)
    <3> DEFINE e == table.keyEntry[k].valEntry
               g == LinkVal(LinkVal(table, e, "val", v), e, "key", k)
    <3>1. Becomes(g)
      BY <2>1 DEF PutKv
    <3>2. g = LinkVal(LinkVal(table, e, "val", v), e, "key", k)
      OBVIOUS
    <3> HIDE DEF g
    <3>3. Stands(g, i)
      BY <1>1, <2>1, <3>2, PutOld
    <3> HIDE DEF i
    <3> QED
      BY <3>1, <3>3 DEF Becomes
  <2>2. CASE ~HasEntry(table, k)
    <3> DEFINE first == table.buckets[Hash[k]]
    <3>1. PICK e \in Free :
            Becomes(PushValEntry(WithFirst(NewValEntry(Searched(table, k), e, v), k, e, first), e))
      BY <2>2 DEF PutKv, WithFirst
    <3>2. e \in Entries /\ e \notin table.liveVals
      BY DEF Free
    <3> DEFINE g == PushValEntry(WithFirst(NewValEntry(table, e, v), k, e, table.buckets[Hash[k]]), e)
    <3>3. Becomes(g)
      BY <1>1, <3>1
    <3>4. g = PushValEntry(WithFirst(NewValEntry(table, e, v), k, e, table.buckets[Hash[k]]), e)
      OBVIOUS
    <3> HIDE DEF g
    <3>5. Stands(g, i)
      BY <1>1, <2>2, <3>2, <3>4, PutNew
    <3> HIDE DEF i
    <3> QED
      BY <3>3, <3>5 DEF Becomes
  <2> QED
    BY <2>1, <2>2
<1>3. i = PutInto(Items, k, v)
  BY ItemsAre
<1> HIDE DEF i
<1>4. Good' /\ Items' = i
  BY <1>2, Turned
<1> QED
  BY <1>2, <1>3, <1>4, PutStep

\* The entry an index finds, or none.
LEMMA IndexIs ==
  ASSUME NEW s, TableIs(table, s), NEW i \in Indices
  PROVE  /\ ~WalkFails(table, i)
         /\ i + 1 \in 1 .. Len(s) =>
              /\ EntryAt(table, i) = s[i + 1] /\ EntryAt(table, i) # Nil
              /\ EntryAt(table, i) \in table.liveVals
         /\ i + 1 \notin 1 .. Len(s) => EntryAt(table, i) = Nil /\ EntryAt(table, i) \notin table.liveVals
         /\ i \in Int
<1>1. Keyed(table) /\ ListOK(table, s) /\ table \in Tables /\ Nil \notin Entries
  BY EntriesAssumption DEF TableIs, Keyed
<1>2. Cardinality(Entries) \in Nat
  BY EntriesAssumption, FS_CardinalityType
<1>3. i \in Int
  BY <1>2 DEF Indices
<1>4. EntryAt(table, i) = At(s, i + 1) /\ ~WalkFails(table, i)
  BY <1>1, <1>3, EntryAtIs
<1>5. /\ \A j \in 1 .. Len(s) : s[j] \in table.liveVals /\ s[j] \in Entries
      /\ table.liveVals \subseteq Entries
  BY <1>1, ListPlaces DEF Tables
<1> QED
  BY <1>1, <1>3, <1>4, <1>5 DEF At

\* A call that finds no item to change.
LEMMA NoItemStep ==
  ASSUME NEW s, TableIs(table, s), Becomes(table)
  PROVE  Good' /\ Contents!Keep
<1>1. Good /\ table' = table /\ returned' = Undef
  BY DEF Good, Becomes
<1> QED
  BY <1>1, Kept, KeepStep

\* An item that is replaced.
Replaces(k) ==
  \E j \in DOMAIN Items, v \in Values : Contents!Replace(j, k, v)

\* A table that stands for the items with one replaced.
LEMMA ReplacedStep ==
  ASSUME NEW s, TableIs(table, s), NEW j \in 1 .. Len(s), NEW k, NEW v \in Values,
         Stands(table', Replaced(ItemsOf(table, s), j, k, v)), returned' = Undef
  PROVE  Good' /\ Replaces(k) /\ Contents!Replace(j, k, v)
<1> DEFINE i == Replaced(ItemsOf(table, s), j, k, v)
<1>1. i = Replaced(Items, j, k, v) /\ j \in DOMAIN Items
  BY ItemsAre
<1> HIDE DEF i
<1>2. Stands(table', i)
  BY DEF i
<1>3. Good' /\ Items' = i
  BY <1>2, Turned
<1>4. Contents!Replace(j, k, v)
  BY <1>1, <1>3, ReplaceStep
<1> QED
  BY <1>1, <1>3, <1>4 DEF Replaces

\* An item is given a key.
LEMMA SetKeyStep ==
  ASSUME NEW s, TableIs(table, s), NEW e \in table.liveVals, NEW k \in Keys, MayRename(e, k),
         Becomes(SetKey(table, e, k))
  PROVE  Good' /\ Replaces(k)
<1>1. Keyed(table) /\ ListOK(table, s) /\ table.liveVals = Elems(s)
  BY DEF TableIs
<1>2. PICK j \in 1 .. Len(s) : e = s[j]
  BY <1>1, ListPlaces
<1>3. (k \in table.liveKeys \/ table.buckets[Hash[k]] = Nil) /\ table.valEntry[s[j]].key \in {NoKey, k}
  BY <1>2, MayAddIs DEF MayRename
<1> DEFINE g == SetKey(table, e, k)
           v == table.valEntry[s[j]].val
<1>4. Stands(g, Replaced(ItemsOf(table, s), j, k, v)) /\ v \in Values
  BY <1>2, <1>3, SetKeyAt
<1>5. table' = g /\ returned' = Undef
  BY DEF Becomes
<1> HIDE DEF g, v
<1>6. Stands(table', Replaced(ItemsOf(table, s), j, k, v))
  BY <1>4, <1>5
<1> QED
  BY <1>4, <1>5, <1>6, ReplacedStep

\* An item is given a value, and keeps its key.
LEMMA SetValStep ==
  ASSUME NEW s, TableIs(table, s), NEW e \in table.liveVals, NEW v \in Values,
         Becomes(LinkVal(table, e, "val", v))
  PROVE  Good' /\ \E j \in DOMAIN Items : /\ Items[j].key \in Keys \cup {NoKey}
                                          /\ Contents!Replace(j, Items[j].key, v)
<1>1. Keyed(table) /\ ListOK(table, s) /\ table.liveVals = Elems(s)
  BY DEF TableIs
<1>2. PICK j \in 1 .. Len(s) : e = s[j]
  BY <1>1, ListPlaces
<1> DEFINE g == LinkVal(table, s[j], "val", v)
           k == table.valEntry[s[j]].key
<1>3. TableIs(g, s) /\ ItemsOf(g, s) = Replaced(ItemsOf(table, s), j, k, v) /\ k \in Keys \cup {NoKey}
  <2>1. table \in Tables /\ s[j] \in table.liveVals /\ s[j] \in ValPlaces
    BY <1>1, ListPlaces DEF Keyed, ValPlaces
  <2>2. ValIs(g, table, s[j], v)
    BY <2>1, LinkValOf
  <2>3. k \in Keys \cup {NoKey}
    BY SetValAt
  <2> HIDE DEF g
  <2>4. TableIs(g, s) /\ ItemsOf(g, s) = Replaced(ItemsOf(table, s), j, k, v)
    BY <2>2, RevalueItem DEF Replaced
  <2> QED
    BY <2>3, <2>4
<1>4. table' = g /\ returned' = Undef
  BY <1>2 DEF Becomes
<1>5. j \in DOMAIN Items /\ Items[j].key = k
  BY ItemsAre
<1> HIDE DEF g, k
<1>6. Stands(table', Replaced(ItemsOf(table, s), j, k, v))
  BY <1>3, <1>4 DEF Stands
<1>7. Good' /\ Contents!Replace(j, k, v)
  BY <1>4, <1>6, ReplacedStep
<1> QED
  BY <1>3, <1>5, <1>7

\* An item is given a value and a key.
LEMMA SetKvStep ==
  ASSUME NEW s, TableIs(table, s), NEW e \in table.liveVals, NEW k \in Keys, NEW v \in Values,
         MayRename(e, k), Becomes(SetKey(LinkVal(table, e, "val", v), e, k))
  PROVE  Good' /\ Replaces(k)
<1>1. Keyed(table) /\ ListOK(table, s) /\ table.liveVals = Elems(s)
  BY DEF TableIs
<1>2. PICK j \in 1 .. Len(s) : e = s[j]
  BY <1>1, ListPlaces
<1>3. (k \in table.liveKeys \/ table.buckets[Hash[k]] = Nil) /\ table.valEntry[s[j]].key \in {NoKey, k}
  BY <1>2, MayAddIs DEF MayRename
<1> DEFINE g == SetKey(LinkVal(table, s[j], "val", v), s[j], k)
<1>4. Stands(g, Replaced(ItemsOf(table, s), j, k, v))
  BY <1>3, SetKvAt
<1>5. table' = g /\ returned' = Undef
  BY <1>2 DEF Becomes
<1> HIDE DEF g
<1>6. Stands(table', Replaced(ItemsOf(table, s), j, k, v))
  BY <1>4, <1>5
<1> QED
  BY <1>5, <1>6, ReplacedStep

\* An item between others is deleted.
LEMMA DelStep ==
  ASSUME NEW s, TableIs(table, s), NEW j \in 1 .. Len(s), MayDelete(s[j]),
         Becomes(DelValEntry(table, s[j]))
  PROVE  /\ Good' /\ j \in DOMAIN Items /\ Contents!Delete(j)
         /\ Items' = Dropped(Items, j)
<1> DEFINE g == DelValEntry(table, s[j])
           a == ItemsOf(table, s)
           b == SubSeq(a, 1, j - 1) \o SubSeq(a, j + 1, Len(a))
<1>1. Stands(g, b) /\ Stands(g, Dropped(a, j))
  BY DelAt DEF MayDelete
<1>2. table' = g /\ returned' = Undef
  BY DEF Becomes
<1>3. a = Items /\ j \in DOMAIN Items
  BY ItemsAre
<1> HIDE DEF g, a
<1>4. b = SubSeq(Items, 1, j - 1) \o SubSeq(Items, j + 1, Len(Items))
  BY <1>3
<1> HIDE DEF b
<1>5. Stands(table', b) /\ Stands(table', Dropped(a, j))
  BY <1>1, <1>2
<1>6. Good' /\ Items' = b /\ Items' = Dropped(a, j)
  BY <1>5, Turned
<1> QED
  BY <1>2, <1>3, <1>4, <1>6, DeleteStep

\* A deletion that leaves the table in good order was not of an end of the
\* list: the head and the tail are not moved, and would be of a freed entry.
LEMMA NotAtAnEnd ==
  ASSUME NEW s, TableIs(table, s), NEW j \in 1 .. Len(s), Becomes(DelValEntry(table, s[j])), Good'
  PROVE  MayDelete(s[j])
<1> DEFINE g == DelValEntry(table, s[j])
<1>1. Unlinked(g, table, s, j) /\ table' = g
  BY UnlinkIs DEF Becomes
<1> HIDE DEF g
<1>2. PICK u : TableIs(g, u)
  BY <1>1 DEF Good
<1>3. /\ g.valListHead = At(u, 1) /\ g.valListTail = At(u, Len(u)) /\ g.liveVals = Elems(u)
      /\ u \in Seq(Entries)
  BY <1>2 DEF TableIs, ListOK
<1>4. At(u, 1) \in Elems(u) \cup {Nil} /\ At(u, Len(u)) \in Elems(u) \cup {Nil}
  BY <1>3 DEF At, Elems
<1>5. s[j] \notin g.liveVals /\ g.valListHead = table.valListHead /\ g.valListTail = table.valListTail
  BY <1>1 DEF Unlinked
<1>6. s[j] # Nil
  BY ListPlaces, EntriesAssumption DEF TableIs
<1> QED
  BY <1>3, <1>4, <1>5, <1>6 DEF MayDelete

\* An item is looked up by index, and deleted.
LEMMA DelByIndexStep ==
  ASSUME NEW s, TableIs(table, s), NEW i \in Indices, MayDelete(EntryAt(table, i)), DelByIndex(i)
  PROVE  /\ Good'
         /\ IF i + 1 \in DOMAIN Items THEN Contents!Delete(i + 1) ELSE Contents!Keep
<1>1. DOMAIN Items = 1 .. Len(s)
  BY ItemsAre
<1>2. CASE i + 1 \in 1 .. Len(s)
  <2>1. EntryAt(table, i) = s[i + 1] /\ EntryAt(table, i) # Nil /\ ~WalkFails(table, i)
    BY <1>2, IndexIs
  <2>2. Becomes(DelValEntry(table, s[i + 1])) /\ MayDelete(s[i + 1])
    BY <2>1 DEF DelByIndex
  <2> QED
    BY <1>1, <1>2, <2>2, DelStep
<1>3. CASE i + 1 \notin 1 .. Len(s)
  <2>1. EntryAt(table, i) = Nil /\ ~WalkFails(table, i)
    BY <1>3, IndexIs
  <2>2. Becomes(table)
    BY <2>1 DEF DelByIndex
  <2> QED
    BY <1>1, <1>3, <2>2, NoItemStep
<1> QED
  BY <1>2, <1>3

\* The same of a call that is not known to be a careful one.
LEMMA DelByIndexAnyway ==
  ASSUME Good, Good', NEW i \in Indices, DelByIndex(i)
  PROVE  IF i + 1 \in DOMAIN Items THEN Contents!Delete(i + 1) ELSE Contents!Keep
<1>1. PICK s : TableIs(table, s)
  BY DEF Good
<1>2. DOMAIN Items = 1 .. Len(s)
  BY <1>1, ItemsAre
<1>3. CASE i + 1 \in 1 .. Len(s)
  <2>1. EntryAt(table, i) = s[i + 1] /\ EntryAt(table, i) # Nil /\ ~WalkFails(table, i)
    BY <1>1, <1>3, IndexIs
  <2>2. Becomes(DelValEntry(table, s[i + 1]))
    BY <2>1 DEF DelByIndex
  <2>3. MayDelete(s[i + 1])
    BY <1>1, <1>3, <2>2, NotAtAnEnd
  <2> QED
    BY <1>1, <2>1, <2>3, DelByIndexStep
<1>4. CASE i + 1 \notin 1 .. Len(s)
  <2>1. EntryAt(table, i) = Nil /\ ~WalkFails(table, i)
    BY <1>1, <1>4, IndexIs
  <2>2. Becomes(table)
    BY <2>1 DEF DelByIndex
  <2>3. Contents!Keep
    BY <1>1, <2>2, NoItemStep
  <2> QED
    BY <1>2, <1>4, <2>3
<1> QED
  BY <1>3, <1>4

\* The item a key finds.
LEMMA FoundIs ==
  ASSUME NEW s, TableIs(table, s), NEW k \in Keys
  PROVE  /\ ~SearchFails(table, k)
         /\ HasEntry(table, k) => \E j \in 1 .. Len(s) : /\ table.keyEntry[k].valEntry = s[j]
                                                         /\ s[j] \in table.liveVals /\ Items[j].key = k
         /\ ~HasEntry(table, k) => \A j \in 1 .. Len(s) : Items[j].key # k
<1>1. Keyed(table) /\ ListOK(table, s)
  BY DEF TableIs
<1>2. Items = ItemsOf(table, s)
  BY ItemsAre
<1>3. \A j \in 1 .. Len(s) : s[j] \in table.liveVals
  BY <1>1, ListPlaces
<1>4. HasEntry(table, k) => \E j \in 1 .. Len(s) : table.keyEntry[k].valEntry = s[j] /\ Items[j].key = k
  BY <1>2, HasItem
<1>5. ~HasEntry(table, k) => \A j \in 1 .. Len(s) : Items[j].key # k
  BY <1>2, HasItem
<1>6. ~SearchFails(table, k)
  BY HasItem
<1> QED
  BY <1>3, <1>4, <1>5, <1>6

\* No other item has the key of the one that is dropped.
LEMMA KeyDropped ==
  ASSUME NEW s, TableIs(table, s), NEW k \in Keys, NEW j \in 1 .. Len(s), Items[j].key = k
  PROVE  \A m \in DOMAIN Dropped(Items, j) : Dropped(Items, j)[m].key # k
<1>1. Keyed(table) /\ ListOK(table, s) /\ NoKey # k
  BY EntriesAssumption DEF TableIs
<1>2. /\ Items \in Seq(Cells) /\ Len(Items) = Len(s)
      /\ \A m \in 1 .. Len(s) : Items[m].key = table.valEntry[s[m]].key
  BY ItemsAre
<1>3. \A m \in 1 .. Len(s) : Items[m].key = k => m = j
  BY <1>1, <1>2, KeysDiffer
<1>4. Len(s) \in Nat
  BY <1>1, ListPlaces
<1>5. /\ Dropped(Items, j) \in Seq(Cells) /\ Len(Dropped(Items, j)) = Len(s) - 1
      /\ \A m \in 1 .. (Len(s) - 1) : Dropped(Items, j)[m] = IF m < j THEN Items[m] ELSE Items[m + 1]
  BY <1>2, DroppedPlaces
<1> DEFINE b == Dropped(Items, j)
<1> HIDE DEF b
<1>6. DOMAIN b = 1 .. (Len(s) - 1)
  BY <1>5 DEF b
<1>7. ASSUME NEW m \in 1 .. (Len(s) - 1) PROVE b[m].key # k
  <2>1. m \in 1 .. Len(s) /\ m + 1 \in 1 .. Len(s)
    BY <1>4
  <2>2. CASE m < j
    BY <1>3, <1>5, <2>1, <2>2 DEF b
  <2>3. CASE ~(m < j)
    <3>1. b[m] = Items[m + 1] /\ m + 1 # j
      BY <1>4, <1>5, <2>3 DEF b
    <3> QED
      BY <1>3, <2>1, <3>1
  <2> QED
    BY <2>2, <2>3
<1> QED
  BY <1>6, <1>7 DEF b

\* No item has the key any more.
Forgotten(k) == ~\E j \in DOMAIN Items' : Items'[j].key = k

\* An item is looked up by key, and deleted: no other has the key.
LEMMA DelByKeyStep ==
  ASSUME NEW s, TableIs(table, s), NEW k \in Keys, DelByKey(k),
         HasEntry(table, k) => MayDelete(table.keyEntry[k].valEntry)
  PROVE  /\ Good' /\ Forgotten(k)
         /\ Contents!Keep \/ \E j \in DOMAIN Items : Contents!Delete(j)
<1>1. ~SearchFails(table, k)
  BY FoundIs
<1>2. CASE HasEntry(table, k)
  <2>1. PICK j \in 1 .. Len(s) : table.keyEntry[k].valEntry = s[j] /\ s[j] \in table.liveVals /\ Items[j].key = k
    BY <1>2, FoundIs
  <2>2. Becomes(DelValEntry(table, s[j])) /\ MayDelete(s[j])
    BY <1>1, <1>2, <2>1 DEF DelByKey
  <2>3. Good' /\ j \in DOMAIN Items /\ Contents!Delete(j) /\ Items' = Dropped(Items, j)
    BY <2>2, DelStep
  <2>4. \A m \in DOMAIN Dropped(Items, j) : Dropped(Items, j)[m].key # k
    BY <2>1, KeyDropped
  <2>5. Forgotten(k)
    BY <2>3, <2>4 DEF Forgotten
  <2> QED
    BY <2>3, <2>5
<1>3. CASE ~HasEntry(table, k)
  <2>1. Becomes(table)
    BY <1>1, <1>3 DEF DelByKey
  <2>2. Good' /\ Contents!Keep
    BY <2>1, NoItemStep
  <2>3. \A j \in 1 .. Len(s) : Items[j].key # k
    BY <1>3, FoundIs
  <2>4. DOMAIN Items = 1 .. Len(s) /\ Items' = Items
    BY <2>2, ItemsAre DEF Contents!Keep
  <2> QED
    BY <2>2, <2>3, <2>4 DEF Forgotten
<1> QED
  BY <1>2, <1>3

\* The same of a call that is not known to be a careful one.
LEMMA DelByKeyAnyway ==
  ASSUME Good, Good', NEW k \in Keys, DelByKey(k)
  PROVE  Forgotten(k)
<1>1. PICK s : TableIs(table, s)
  BY DEF Good
<1>2. ASSUME HasEntry(table, k) PROVE MayDelete(table.keyEntry[k].valEntry)
  <2>1. PICK j \in 1 .. Len(s) : table.keyEntry[k].valEntry = s[j] /\ s[j] \in table.liveVals
    BY <1>1, <1>2, FoundIs
  <2>2. ~SearchFails(table, k)
    BY <1>1, FoundIs
  <2>3. Becomes(DelValEntry(table, s[j]))
    BY <1>2, <2>1, <2>2 DEF DelByKey
  <2> QED
    BY <1>1, <2>1, <2>3, NotAtAnEnd
<1> QED
  BY <1>1, <1>2, DelByKeyStep

\* Every bucket comes to its end by way of entries that lead to items.
LEMMA ClearStep ==
  ASSUME NEW s, TableIs(table, s), Clear
  PROVE  Good' /\ Contents!Empty
<1> DEFINE N == Cardinality(Keys) + 1
           fails(b) ==
             \/ Chain(table, b)[N] # Nil
             \/ \E j \in DOMAIN Chain(table, b) :
                  /\ Chain(table, b)[j] # Nil
                  /\ \/ Chain(table, b)[j] \notin table.liveKeys
                     \/ table.keyEntry[Chain(table, b)[j]].valEntry \notin table.liveVals
<1>1. table \in Tables /\ BucketsOK(table) /\ KeysOK(table)
  BY DEF TableIs, Keyed
<1>2. ASSUME NEW b \in Buckets PROVE ~fails(b)
  <2>1. PICK c \in Seq(Keys) : ChainOK(table, b, c)
    BY <1>1 DEF BucketsOK
  <2>2. /\ Cardinality(Keys) \in Nat /\ Len(c) \in Nat /\ Len(c) <= Cardinality(Keys)
        /\ Chain(table, b) = [j \in 1 .. N |-> At(c, j)]
    BY <1>1, <2>1, ChainIs
  <2>3. N \in 1 .. N /\ N \notin 1 .. Len(c)
    BY <2>2
  <2> HIDE DEF N
  <2>4. Chain(table, b)[N] = Nil /\ DOMAIN Chain(table, b) = 1 .. N
    BY <2>2, <2>3 DEF At
  <2>5. ASSUME NEW j \in 1 .. N, Chain(table, b)[j] # Nil
        PROVE  /\ Chain(table, b)[j] \in table.liveKeys
               /\ table.keyEntry[Chain(table, b)[j]].valEntry \in table.liveVals
    <3>1. Chain(table, b)[j] = c[j] /\ j \in 1 .. Len(c)
      BY <2>2, <2>5 DEF At
    <3>2. c[j] \in table.liveKeys
      BY <2>1, <3>1 DEF ChainOK, Elems
    <3> QED
      BY <1>1, <3>1, <3>2 DEF KeysOK
  <2> QED
    BY <2>4, <2>5
<1>3. Becomes(EmptyTable)
  <2>1. Becomes(IF \E b \in Buckets : fails(b) THEN Fault(table) ELSE EmptyTable)
    BY DEF Clear
  <2> HIDE DEF fails
  <2> QED
    BY <1>2, <2>1
<1>4. Stands(table', <<>>) /\ returned' = Undef
  BY <1>3, EmptyIs DEF Becomes
<1>5. Good' /\ Items' = <<>>
  BY <1>4, Turned
<1> QED
  BY <1>4, <1>5 DEF Contents!Empty

\* The clone has the items of the table, in order.
LEMMA CloneStep ==
  ASSUME NEW s, TableIs(table, s), MayClone, ShadowClone
  PROVE  Good' /\ Contents!Keep
<1> DEFINE order == Walk(table, table.valListHead, table.itemNum, "next")
           copy(t, e) ==
             IF e \notin table.liveVals THEN Fault(t)
             ELSE LET v == NewValEntry(t, e, table.valEntry[e].val)
                  IN  PushValEntry(IF table.valEntry[e].key = NoKey THEN v
                                   ELSE AddOrUpdateKeyEntry(v, table.valEntry[e].key, e), e)
           Made(f) == f = [j \in 0 .. table.itemNum |-> IF j = 0 THEN EmptyTable ELSE copy(f[j - 1], order[j])]
<1>1. Becomes((CHOOSE f : Made(f))[table.itemNum])
  BY Zenon DEF ShadowClone
<1>2. \A t, e : copy(t, e) = CopyOf(table, t, e)
  BY DEF CopyOf
<1>3. order = s /\ table.itemNum = Len(s) /\ Len(s) \in Nat
  BY ItemsRead, ListPlaces DEF TableIs, OrderIn
<1> HIDE DEF order, copy
<1>4. \A f : Made(f) <=> IsMade(f, table, s, Len(s))
  BY <1>2, <1>3 DEF IsMade
<1> HIDE DEF Made
<1>5. \E f : Made(f)
  BY <1>3, <1>4, MadeExists
<1> DEFINE f == CHOOSE f : Made(f)
<1>6. IsMade(f, table, s, Len(s))
  BY <1>4, <1>5
<1>7. table' = f[Len(s)] /\ returned' = Undef
  BY <1>1, <1>3 DEF Becomes
<1> HIDE DEF f
<1>8. Apart(table)
  BY DEF MayClone, Apart
<1>9. Stands(table', ItemsOf(table, s))
  BY <1>6, <1>7, <1>8, CloneIs
<1>10. Good' /\ Items' = Items
  BY <1>9, ItemsAre, Turned
<1> QED
  BY <1>7, <1>10, KeepStep

-------------------------------------------------------------------------------
\* What is read.

\* A key is looked up: the value is the one of the only item that has it.
LEMMA AtKeyStep ==
  ASSUME NEW s, TableIs(table, s), NEW k \in Keys, AtKey(k)
  PROVE  Good' /\ Contents!AtKey(k)
<1>1. Good /\ ~SearchFails(table, k)
  BY FoundIs DEF Good
<1>2. /\ DOMAIN Items = 1 .. Len(s)
      /\ \A j \in 1 .. Len(s) : Items[j].val = table.valEntry[s[j]].val
  BY ItemsAre
<1>3. CASE HasEntry(table, k)
  <2>1. PICK j \in 1 .. Len(s) : table.keyEntry[k].valEntry = s[j] /\ s[j] \in table.liveVals /\ Items[j].key = k
    BY <1>3, FoundIs
  <2> DEFINE m == CHOOSE m \in DOMAIN Items : Items[m].key = k
  <2>2. m \in 1 .. Len(s) /\ Items[m].key = k
    BY <1>2, <2>1
  <2> HIDE DEF m
  <2>3. m = j
    <3>1. \A i \in 1 .. Len(s) : Items[i].key = table.valEntry[s[i]].key
      BY ItemsAre
    <3>2. Keyed(table) /\ ListOK(table, s) /\ k # NoKey
      BY EntriesAssumption DEF TableIs
    <3> QED
      BY <2>1, <2>2, <3>1, <3>2, KeysDiffer
  <2>4. returned' = Items[m].val /\ table' = table
    BY <1>1, <1>2, <1>3, <2>1, <2>3 DEF AtKey
  <2>5. Good' /\ Items' = Items
    BY <1>1, <2>4, Kept
  <2> QED
    BY <1>2, <2>1, <2>4, <2>5 DEF Contents!AtKey, m
<1>4. CASE ~HasEntry(table, k)
  <2>1. \A j \in 1 .. Len(s) : Items[j].key # k
    BY <1>4, FoundIs
  <2>2. returned' = Undef /\ table' = table
    BY <1>1, <1>4 DEF AtKey
  <2>3. Good' /\ Items' = Items
    BY <1>1, <2>2, Kept
  <2> QED
    BY <1>2, <2>1, <2>2, <2>3 DEF Contents!AtKey
<1> QED
  BY <1>3, <1>4

\* An index is looked up, from either end.
LEMMA AtIndexStep ==
  ASSUME NEW s, TableIs(table, s), NEW i \in Indices
  PROVE  /\ ValAtIndex(i) => Good' /\ Contents!ValAt(i)
         /\ KeyAtIndex(i) => Good' /\ Contents!KeyAt(i)
<1>1. Good
  BY DEF Good
<1>2. /\ Len(Items) = Len(s)
      /\ \A j \in 1 .. Len(s) : /\ Items[j].key = table.valEntry[s[j]].key
                                /\ Items[j].val = table.valEntry[s[j]].val
  BY ItemsAre
<1>3. /\ ~WalkFails(table, i) /\ i \in Int
      /\ i + 1 \in 1 .. Len(s) => EntryAt(table, i) = s[i + 1] /\ EntryAt(table, i) \in table.liveVals
      /\ i + 1 \notin 1 .. Len(s) => EntryAt(table, i) \notin table.liveVals
  BY IndexIs
<1>4. Len(s) \in Nat
  BY ListPlaces DEF TableIs
<1>5. i + 1 \in 1 .. Len(s) <=> i \in 0 .. (Len(Items) - 1)
  BY <1>2, <1>3, <1>4
<1>6. ASSUME ValAtIndex(i) PROVE Good' /\ Contents!ValAt(i)
  <2>1. table' = table
    BY <1>3, <1>6 DEF ValAtIndex
  <2>2. Good' /\ Items' = Items
    BY <1>1, <2>1, Kept
  <2>3. returned' = IF i \in 0 .. (Len(Items) - 1) THEN Items[i + 1].val ELSE Undef
    BY <1>2, <1>3, <1>5, <1>6 DEF ValAtIndex
  <2> QED
    BY <2>2, <2>3 DEF Contents!ValAt
<1>7. ASSUME KeyAtIndex(i) PROVE Good' /\ Contents!KeyAt(i)
  <2>1. table' = table
    BY <1>3, <1>7 DEF KeyAtIndex
  <2>2. Good' /\ Items' = Items
    BY <1>1, <2>1, Kept
  <2>3. returned' = IF i \in 0 .. (Len(Items) - 1) THEN Items[i + 1].key ELSE NoKey
    BY <1>2, <1>3, <1>5, <1>7 DEF KeyAtIndex
  <2> QED
    BY <2>2, <2>3 DEF Contents!KeyAt
<1> QED
  BY <1>6, <1>7

\* The ends of a table that is not empty are its first and its last item.
LEMMA EndStep ==
  ASSUME NEW s, TableIs(table, s), table.itemNum > 0, FirstVal \/ LastVal
  PROVE  Good' /\ \E i \in Indices : Contents!ValAt(i)
<1>1. Keyed(table) /\ ListOK(table, s) /\ Good
  BY DEF TableIs, Good
<1>2. /\ s \in Seq(Entries) /\ Len(s) \in Nat /\ Len(s) > 0
      /\ \A j \in 1 .. Len(s) : s[j] \in table.liveVals
      /\ \A i, j \in 1 .. Len(s) : s[i] = s[j] => i = j
  BY <1>1, ListPlaces
<1>3. Cardinality(Entries) \in Nat /\ Len(s) <= Cardinality(Entries)
  BY <1>2, EntriesAssumption, SeqFits
<1>4. table.valListHead = s[1] /\ table.valListTail = s[Len(s)]
  <2>1. table.valListHead = At(s, 1) /\ table.valListTail = At(s, Len(s))
    BY <1>1 DEF ListOK
  <2> QED
    BY <1>2, <2>1 DEF At
<1>5. Len(Items) = Len(s) /\ \A j \in 1 .. Len(s) : Items[j].val = table.valEntry[s[j]].val
  BY ItemsAre
<1>6. ASSUME NEW j \in 1 .. Len(s), EndVal(s[j])
      PROVE  Good' /\ \E i \in Indices : Contents!ValAt(i)
  <2>1. table' = table /\ returned' = Items[j].val
    BY <1>2, <1>5, <1>6 DEF EndVal
  <2>2. Good' /\ Items' = Items
    BY <1>1, <2>1, Kept
  <2>3. j - 1 \in Indices /\ j - 1 \in 0 .. (Len(Items) - 1) /\ (j - 1) + 1 = j
    BY <1>2, <1>3, <1>5 DEF Indices
  <2>4. Contents!ValAt(j - 1)
    BY <2>1, <2>2, <2>3 DEF Contents!ValAt
  <2> QED
    BY <2>2, <2>3, <2>4
<1>7. 1 \in 1 .. Len(s) /\ Len(s) \in 1 .. Len(s)
  BY <1>2
<1>8. EndVal(s[1]) \/ EndVal(s[Len(s)])
  BY <1>4 DEF FirstVal, LastVal
<1> QED
  BY <1>6, <1>7, <1>8

-------------------------------------------------------------------------------
\* Every call.

\* The steps of AbstractTable that the calls come to.
LEMMA AbstractNext ==
  /\ \A k \in Keys \cup {NoKey}, v \in Values :
       Contents!Push(k, v) \/ Contents!Unshift(k, v) => Contents!Next
  /\ \A k \in Keys, v \in Values : Contents!Put(k, v) => Contents!Next
  /\ \A k \in Keys : Replaces(k) => Contents!Next
  /\ \A j \in DOMAIN Items, v \in Values :
       Items[j].key \in Keys \cup {NoKey} /\ Contents!Replace(j, Items[j].key, v) => Contents!Next
  /\ \A j \in DOMAIN Items : Contents!Delete(j) => Contents!Next
  /\ Contents!Keep \/ Contents!Empty => Contents!Next
  /\ \A k \in Keys : Contents!AtKey(k) => Contents!Next
  /\ \A i \in Indices : Contents!ValAt(i) \/ Contents!KeyAt(i) => Contents!Next
BY DEF Contents!Next, Replaces

\* The calls that are right whatever the table holds.
LEMMA SafeStep ==
  ASSUME Good, SafeNext
  PROVE  Good' /\ Contents!Next
<1>1. PICK s : TableIs(table, s)
  BY DEF Good
<1>2. CASE \E v \in Values : PushVal(v) \/ UnshiftVal(v)
  BY <1>1, <1>2, PushValStep, AbstractNext
<1>3. CASE \E k \in Keys, v \in Values : PutKv(k, v)
  BY <1>1, <1>3, PutKvStep, AbstractNext
<1>4. CASE \E i \in Indices, v \in Values : SetValAtIndex(i, v)
  <2>1. PICK i \in Indices, v \in Values : SetValAtIndex(i, v)
    BY <1>4
  <2>2. CASE i + 1 \in 1 .. Len(s)
    <3> DEFINE e == EntryAt(table, i)
    <3>1. ~WalkFails(table, i) /\ e \in table.liveVals
      BY <1>1, <2>2, IndexIs
    <3>2. Becomes(LinkVal(table, e, "val", v))
      BY <2>1, <3>1 DEF SetValAtIndex
    <3> HIDE DEF e
    <3> QED
      BY <1>1, <3>1, <3>2, SetValStep, AbstractNext
  <2>3. CASE i + 1 \notin 1 .. Len(s)
    <3>1. ~WalkFails(table, i) /\ EntryAt(table, i) = Nil
      BY <1>1, <2>3, IndexIs
    <3>2. Becomes(table)
      BY <2>1, <3>1 DEF SetValAtIndex, LinkVal
    <3> QED
      BY <1>1, <3>2, NoItemStep, AbstractNext
  <2> QED
    BY <2>2, <2>3
<1>5. CASE \E e \in table.liveVals, v \in Values : IterSetVal(e, v)
  <2>1. PICK e \in table.liveVals, v \in Values : Becomes(LinkVal(table, e, "val", v))
    BY <1>5 DEF IterSetVal
  <2> QED
    BY <1>1, <2>1, SetValStep, AbstractNext
<1>6. CASE Clear
  BY <1>1, <1>6, ClearStep, AbstractNext
<1>7. CASE \E k \in Keys : AtKey(k)
  BY <1>1, <1>7, AtKeyStep, AbstractNext
<1>8. CASE \E i \in Indices : ValAtIndex(i) \/ KeyAtIndex(i)
  BY <1>1, <1>8, AtIndexStep, AbstractNext
<1> QED
  BY <1>2, <1>3, <1>4, <1>5, <1>6, <1>7, <1>8 DEF SafeNext

\* The calls that are right with care.
LEMMA CarefulStep ==
  ASSUME Good, CarefulNext
  PROVE  Good' /\ Contents!Next
<1>1. PICK s : TableIs(table, s)
  BY DEF Good
<1>2. CASE \E k \in Keys, v \in Values : MayAdd(k) /\ (PushKv(k, v) \/ UnshiftKv(k, v))
  BY <1>1, <1>2, PushKvStep, AbstractNext
<1>3. CASE \E i \in Indices, k \in Keys :
             /\ MayRename(EntryAt(table, i), k)
             /\ SetKeyAtIndex(i, k) \/ \E v \in Values : SetKvAtIndex(i, k, v)
  <2>1. PICK i \in Indices, k \in Keys :
          /\ MayRename(EntryAt(table, i), k)
          /\ SetKeyAtIndex(i, k) \/ \E v \in Values : SetKvAtIndex(i, k, v)
    BY <1>3
  <2> DEFINE e == EntryAt(table, i)
  <2>2. CASE i + 1 \in 1 .. Len(s)
    <3>1. ~WalkFails(table, i) /\ e \in table.liveVals /\ e # Nil
      BY <1>1, <2>2, IndexIs
    <3>2. \/ Becomes(SetKey(table, e, k))
          \/ \E v \in Values : Becomes(SetKey(LinkVal(table, e, "val", v), e, k))
      BY <2>1, <3>1 DEF SetKeyAtIndex, SetKvAtIndex
    <3>3. MayRename(e, k)
      BY <2>1
    <3> HIDE DEF e
    <3>4. Good' /\ Replaces(k)
      BY <1>1, <3>1, <3>2, <3>3, SetKeyStep, SetKvStep
    <3> QED
      BY <3>4, AbstractNext
  <2>3. CASE i + 1 \notin 1 .. Len(s)
    <3>1. ~WalkFails(table, i) /\ e = Nil
      BY <1>1, <2>3, IndexIs
    <3>2. Becomes(table)
      BY <2>1, <3>1 DEF SetKeyAtIndex, SetKvAtIndex
    <3> QED
      BY <1>1, <3>2, NoItemStep, AbstractNext
  <2> QED
    BY <2>2, <2>3
<1>4. CASE \E e \in table.liveVals, k \in Keys : MayRename(e, k) /\ IterSetKey(e, k)
  <2>1. PICK e \in table.liveVals, k \in Keys : MayRename(e, k) /\ Becomes(SetKey(table, e, k))
    BY <1>4 DEF IterSetKey
  <2> QED
    BY <1>1, <2>1, SetKeyStep, AbstractNext
<1>5. CASE \E i \in Indices : MayDelete(EntryAt(table, i)) /\ DelByIndex(i)
  BY <1>1, <1>5, DelByIndexStep, AbstractNext
<1>6. CASE \E e \in table.liveVals : MayDelete(e) /\ DelByIter(e)
  <2>1. PICK e \in table.liveVals : MayDelete(e) /\ Becomes(DelValEntry(table, e))
    BY <1>6 DEF DelByIter
  <2>2. Keyed(table) /\ ListOK(table, s) /\ table.liveVals = Elems(s)
    BY <1>1 DEF TableIs
  <2>3. PICK j \in 1 .. Len(s) : e = s[j]
    BY <2>2, ListPlaces
  <2>4. MayDelete(s[j]) /\ Becomes(DelValEntry(table, s[j]))
    BY <2>1, <2>3
  <2> QED
    BY <1>1, <2>4, DelStep, AbstractNext
<1>7. CASE \E k \in Keys : (HasEntry(table, k) => MayDelete(table.keyEntry[k].valEntry)) /\ DelByKey(k)
  BY <1>1, <1>7, DelByKeyStep, AbstractNext
<1>8. CASE MayClone /\ ShadowClone
  BY <1>1, <1>8, CloneStep, AbstractNext
<1>9. CASE table.itemNum > 0 /\ (FirstVal \/ LastVal)
  BY <1>1, <1>9, EndStep, AbstractNext
<1> QED
  BY <1>2, <1>3, <1>4, <1>5, <1>6, <1>7, <1>8, <1>9 DEF CarefulNext

\* Any step.
LEMMA AnyStep ==
  ASSUME Good, [~table.fault /\ (SafeNext \/ CarefulNext)]_vars
  PROVE  Good' /\ [Contents!Next]_(Contents!vars)
<1>1. CASE SafeNext \/ CarefulNext
  BY <1>1, SafeStep, CarefulStep
<1>2. CASE UNCHANGED vars
  BY <1>2, Kept DEF vars, Contents!vars
<1> QED
  BY <1>1, <1>2

\* The table starts in good order, without items.
LEMMA GoodInit ==
  ASSUME Init
  PROVE  Good /\ Contents!Init
<1>1. Stands(table, <<>>) /\ returned = Undef
  BY EmptyIs DEF Init
<1>2. PICK s : TableIs(table, s) /\ ItemsOf(table, s) = <<>>
  BY <1>1 DEF Stands
<1>3. Items = <<>>
  BY <1>2, ItemsAre
<1> QED
  BY <1>1, <1>2, <1>3 DEF Good, Contents!Init

-------------------------------------------------------------------------------
\* Used with care, a table is in good order: there is one sequence of entries
\* that its links are, both ways, the keys of a bucket are another, and keys
\* and items lead to each other.
THEOREM GoodOrder ==
  CarefulSpec => []Good
<1>1. Init => Good
  BY GoodInit
<1>2. Good /\ [~table.fault /\ (SafeNext \/ CarefulNext)]_vars => Good'
  BY AnyStep
<1> QED
  BY <1>1, <1>2, PTL DEF CarefulSpec

\* No call follows a pointer to a freed entry, or goes round a bucket for ever
\* (kx_hashtable.c:104-260).
THEOREM NeverFaults ==
  CarefulSpec => []NoFault
<1>1. Good => NoFault
  BY GoodEnds
<1> QED
  BY <1>1, GoodOrder, PTL

\* From the head and from the tail the same items are met, as many as itemNum
\* says, and they are the ones that are not deleted (kx_hashtable.c:225-260).
THEOREM EndsMeet ==
  CarefulSpec => []EndsAgree
<1>1. Good => EndsAgree
  BY GoodEnds
<1> QED
  BY <1>1, GoodOrder, PTL

\* A key finds the item that carries it and no other; each key entry is found
\* in its bucket (kx_hashtable.c:104-222).
THEOREM KeysAreFound ==
  CarefulSpec => []KeysFindItems
<1>1. Good => KeysFindItems
  BY GoodKeys
<1> QED
  BY <1>1, GoodOrder, PTL

\* The table is a sequence of items whose keys find them: every call is a step
\* of AbstractTable.
THEOREM TableIsSequence ==
  CarefulSpec => IsTable
<1>1. Init => Good /\ Contents!Init
  BY GoodInit
<1>2. Good /\ [~table.fault /\ (SafeNext \/ CarefulNext)]_vars
        => Good' /\ [Contents!Next]_(Contents!vars)
  BY AnyStep
<1> QED
  BY <1>1, <1>2, PTL DEF CarefulSpec, IsTable, Contents!Spec

\* What CallsMatch says of one step.
Answered ==
  /\ \A k \in Keys :
       /\ \A v \in Values : PutKv(k, v) => Contents!Put(k, v)
       /\ AtKey(k) => Contents!AtKey(k)
       /\ DelByKey(k) => ~\E j \in DOMAIN Items' : Items'[j].key = k
  /\ \A i \in Indices :
       /\ ValAtIndex(i) => Contents!ValAt(i)
       /\ DelByIndex(i) => IF i + 1 \in DOMAIN Items THEN Contents!Delete(i + 1)
                           ELSE Contents!Keep

\* Between two tables in good order each call answers as it should.
LEMMA EachAnswered ==
  ASSUME Good, Good'
  PROVE  Answered
<1>1. PICK s : TableIs(table, s)
  BY DEF Good
<1>2. ASSUME NEW k \in Keys, NEW v \in Values, PutKv(k, v) PROVE Contents!Put(k, v)
  BY <1>1, <1>2, PutKvStep
<1>3. ASSUME NEW k \in Keys, AtKey(k) PROVE Contents!AtKey(k)
  BY <1>1, <1>3, AtKeyStep
<1>4. ASSUME NEW k \in Keys, DelByKey(k) PROVE ~\E j \in DOMAIN Items' : Items'[j].key = k
  BY <1>4, DelByKeyAnyway DEF Forgotten
<1>5. ASSUME NEW i \in Indices, ValAtIndex(i) PROVE Contents!ValAt(i)
  BY <1>1, <1>5, AtIndexStep
<1>6. ASSUME NEW i \in Indices, DelByIndex(i)
      PROVE  IF i + 1 \in DOMAIN Items THEN Contents!Delete(i + 1) ELSE Contents!Keep
  BY <1>6, DelByIndexAnyway
<1> QED
  BY <1>2, <1>3, <1>4, <1>5, <1>6 DEF Answered

\* Calls by key and by index are the abstract steps they are named for
\* (kx_hashtable.c:225-675).
THEOREM TableCallsAnswered ==
  CarefulSpec => CallsMatch
<1>1. Good /\ Good' => Answered
  BY EachAnswered
<1>2. CallsMatch <=> [][Answered]_vars
  BY DEF CallsMatch, Answered
<1> QED
  BY <1>1, <1>2, GoodOrder, PTL

===============================================================================
