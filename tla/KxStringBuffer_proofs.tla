------------------------- MODULE KxStringBuffer_proofs -------------------------
(***************************************************************************)
(* A string buffer holds its text, its head and a zero, and reads as what  *)
(* was added to it, whatever the lengths it grows by; one without a head   *)
(* is never written to past its end, printing included.                    *)
(***************************************************************************)
EXTENDS KxStringBuffer, TLAPS

\* Head, text and zero are in the buffer.
Sized(b) ==
  /\ b.length \in Nat /\ b.headOffset \in Nat /\ b.buffSize \in Nat
  /\ b = [length |-> b.length, headOffset |-> b.headOffset, buffSize |-> b.buffSize,
          bytes |-> b.bytes]
  /\ b.bytes = [i \in 0 .. (b.buffSize - 1) |-> b.bytes[i]]
  /\ b.headOffset + b.length + 1 <= b.buffSize

\* Its text is c.
Holds(b, c) ==
  /\ c \in Seq(Chars) /\ b.length = Len(c)
  /\ \A k \in 1 .. Len(c) : b.bytes[b.headOffset + k - 1] = c[k]

Ended(b) == b.bytes[b.headOffset + b.length] = Zero

-----------------------------------------------------------------------------
\* Rounding a number up to whole steps does not make it less.
LEMMA WholeSteps ==
  ASSUME NEW m \in Nat, NEW step \in Nat \ {0}
  PROVE  ((m \div step) + 1) * step \in Nat /\ ((m \div step) + 1) * step >= m
<1> DEFINE q == m \div step
<1>1. q \in Nat /\ m = q * step + (m % step) /\ m % step < step
  OBVIOUS
<1> HIDE DEF q
<1>2. q * step \in Nat /\ (q + 1) * step = q * step + step
  BY <1>1
<1>3. m % step \in Nat
  OBVIOUS
<1>4. (q + 1) * step \in Nat /\ (q + 1) * step >= m
  BY <1>1, <1>2, <1>3
<1> QED
  BY <1>4 DEF q

\* A buffer whose text ends in a zero reads as its text.
LEMMA ReadsText ==
  ASSUME NEW b, Sized(b), NEW c, Holds(b, c), Ended(b)
  PROVE  Cstr(b) = c
<1> DEFINE zeros == {i \in DOMAIN b.bytes : i >= b.headOffset /\ b.bytes[i] = Zero}
           end == b.headOffset + b.length
<1>1. DOMAIN b.bytes = 0 .. (b.buffSize - 1)
  BY DEF Sized
<1>2. end \in zeros
  BY <1>1 DEF Sized, Ended
<1>3. ASSUME NEW j \in zeros
      PROVE  end <= j
  <2>1. j \in Int /\ j >= b.headOffset /\ b.bytes[j] = Zero
    BY <1>1
  <2>2. CASE j < end
    <3>1. /\ j - b.headOffset + 1 \in 1 .. Len(c)
          /\ b.headOffset + (j - b.headOffset + 1) - 1 = j
      BY <2>1, <2>2 DEF Sized, Holds
    <3>2. b.bytes[j] = c[j - b.headOffset + 1]
      BY <3>1 DEF Holds
    <3>3. c[j - b.headOffset + 1] \in Chars
      BY <3>1 DEF Holds
    <3> QED
      BY <2>1, <3>2, <3>3 DEF Chars
  <2> QED
    BY <2>1, <2>2 DEF Sized
<1>4. \A i \in zeros : (\A j \in zeros : i <= j) => i = end
  <2> TAKE i \in zeros
  <2>1. i \in Int /\ end \in Int
    BY <1>1 DEF Sized
  <2> HIDE DEF zeros, end
  <2> QED
    BY <1>2, <1>3, <2>1
<1>5. (IF zeros = {} THEN b.buffSize ELSE CHOOSE i \in zeros : \A j \in zeros : i <= j) = end
  <2> HIDE DEF zeros, end
  <2> QED
    BY <1>2, <1>3, <1>4
<1>6. Cstr(b) = [i \in 1 .. (end - b.headOffset) |-> b.bytes[b.headOffset + i - 1]]
  <2> HIDE DEF end
  <2> QED
    BY <1>5 DEF Cstr
<1>7. end - b.headOffset = Len(c) /\ Len(c) \in Nat
  BY DEF Sized, Holds
<1>8. Cstr(b) = [i \in 1 .. Len(c) |-> c[i]]
  BY <1>6, <1>7 DEF Holds
<1> QED
  BY <1>8 DEF Holds

\* Growing leaves what there is where it is, and makes the room asked for.
LEMMA Expands ==
  ASSUME NEW b, Sized(b), NEW n \in Nat
  PROVE  /\ Sized(Expand(b, n))
         /\ Expand(b, n).length = b.length /\ Expand(b, n).headOffset = b.headOffset
         /\ b.headOffset + b.length + n + 1 <= Expand(b, n).buffSize
         /\ \A i \in 0 .. (b.buffSize - 1) : Expand(b, n).bytes[i] = b.bytes[i]
<1>1. CASE Missing(b, n) <= 0
  BY <1>1 DEF Expand, Missing, Sized
<1>2. CASE ~(Missing(b, n) <= 0)
  <2> DEFINE m == Missing(b, n)
             e == Expand(b, n)
  <2>1. m \in Nat /\ m = n + 1 - (b.buffSize - b.headOffset - b.length)
    BY <1>2 DEF Missing, Sized
  <2>2. Step(b, n) \in Nat \ {0}
    BY BufferAssumption DEF Step
  <2>3. GrownSize(b, n) \in Nat /\ GrownSize(b, n) >= b.buffSize + m
    <3> DEFINE d == ((m \div Step(b, n)) + 1) * Step(b, n)
    <3>1. d \in Nat /\ d >= m
      <4> HIDE DEF m
      <4> QED
        BY <2>1, <2>2, WholeSteps
    <3>2. GrownSize(b, n) = b.buffSize + d
      BY DEF GrownSize
    <3> HIDE DEF d, m
    <3> QED
      BY <2>1, <3>1, <3>2 DEF Sized
  <2> HIDE DEF m
  <2>4. e = [b EXCEPT !.buffSize = GrownSize(b, n),
                 !.bytes = [i \in 0 .. (GrownSize(b, n) - 1) |->
                              IF i < b.buffSize THEN b.bytes[i]
                              ELSE IF i < b.buffSize + b.headOffset THEN Junk ELSE Zero]]
    BY <1>2 DEF Expand
  <2> HIDE DEF e
  <2>5. /\ e.length = b.length /\ e.headOffset = b.headOffset /\ e.buffSize = GrownSize(b, n)
        /\ e.bytes = [i \in 0 .. (GrownSize(b, n) - 1) |->
                        IF i < b.buffSize THEN b.bytes[i]
                        ELSE IF i < b.buffSize + b.headOffset THEN Junk ELSE Zero]
        /\ e = [length |-> e.length, headOffset |-> e.headOffset, buffSize |-> e.buffSize,
                bytes |-> e.bytes]
    BY <2>4 DEF Sized
  <2>6. b.headOffset + b.length + n + 1 <= e.buffSize
    BY <2>1, <2>3, <2>5 DEF Sized
  <2>7. Sized(e)
    <3>1. e.bytes = [i \in 0 .. (e.buffSize - 1) |-> e.bytes[i]]
      BY <2>5
    <3>2. e.length \in Nat /\ e.headOffset \in Nat /\ e.buffSize \in Nat
          /\ e.headOffset + e.length + 1 <= e.buffSize
      <4>1. b.length \in Nat /\ b.headOffset \in Nat
        BY DEF Sized
      <4>2. e.length = b.length /\ e.headOffset = b.headOffset /\ e.buffSize \in Nat
        BY <2>3, <2>5
      <4> QED
        BY <2>6, <4>1, <4>2
    <3>3. e = [length |-> e.length, headOffset |-> e.headOffset, buffSize |-> e.buffSize,
               bytes |-> e.bytes]
      BY <2>5
    <3> QED
      BY <3>1, <3>2, <3>3 DEF Sized
  <2>8. \A i \in 0 .. (b.buffSize - 1) : e.bytes[i] = b.bytes[i]
    BY <2>1, <2>3, <2>5 DEF Sized
  <2> QED
    BY <2>5, <2>6, <2>7, <2>8 DEF e
<1> QED
  BY <1>1, <1>2

\* Writing a text and a zero after the text of a buffer that has the room appends.
LEMMA Writes ==
  ASSUME NEW b, Sized(b), NEW c, Holds(b, c), NEW s \in Seq(Chars), NEW a,
         b.headOffset + b.length + Len(s) + 1 <= b.buffSize,
         a = [b EXCEPT !.bytes = Put(@, b.headOffset + b.length, Append(s, Zero)),
                       !.length = @ + Len(s)]
  PROVE  Sized(a) /\ Holds(a, c \o s) /\ Ended(a) /\ a.headOffset = b.headOffset
<1> DEFINE p == b.headOffset + b.length
<1>1. PICK L \in Nat, H \in Nat, B \in Nat, n \in Nat :
        /\ L = b.length /\ H = b.headOffset /\ B = b.buffSize /\ n = Len(s)
        /\ H + L + n + 1 <= B
  <2>1. b.length \in Nat /\ b.headOffset \in Nat /\ b.buffSize \in Nat
    BY DEF Sized
  <2>2. Len(s) \in Nat
    OBVIOUS
  <2> HIDE DEF p
  <2> QED
    BY <2>1, <2>2
<1>2. H + L + n + 1 <= B
  BY <1>1
<1>3. /\ a.length = b.length + Len(s) /\ a.headOffset = b.headOffset /\ a.buffSize = b.buffSize
      /\ a.bytes = Put(b.bytes, p, Append(s, Zero))
      /\ a = [length |-> a.length, headOffset |-> a.headOffset, buffSize |-> a.buffSize,
              bytes |-> a.bytes]
  BY DEF Sized
<1> DEFINE q == H + L
<1>4. /\ a.length = L + n /\ a.headOffset = H /\ a.buffSize = B /\ q \in Nat /\ p = q
      /\ DOMAIN b.bytes = 0 .. (B - 1) /\ Len(c) = L /\ Len(Append(s, Zero)) = n + 1
  BY <1>1, <1>3 DEF Sized, Holds
<1>5. a.bytes = [i \in 0 .. (B - 1) |->
                   IF i >= q /\ i < q + (n + 1) THEN Append(s, Zero)[i - q + 1] ELSE b.bytes[i]]
  <2> HIDE DEF q, p
  <2> QED
    BY <1>3, <1>4 DEF Put
<1>6. Sized(a)
  <2>1. a.bytes = [i \in 0 .. (a.buffSize - 1) |-> a.bytes[i]]
    BY <1>4, <1>5
  <2>2. a.length \in Nat /\ a.headOffset \in Nat /\ a.buffSize \in Nat
        /\ a.headOffset + a.length + 1 <= a.buffSize
    <3>1. L + n \in Nat /\ H + (L + n) + 1 <= B
      BY ONLY <1>2
    <3> QED
      BY <1>4, <3>1
  <2> QED
    BY <1>3, <2>1, <2>2 DEF Sized
<1>7. Ended(a)
  <2>1. /\ H + (L + n) = q + n /\ q + n \in 0 .. (B - 1) /\ q + n >= q /\ q + n < q + (n + 1)
        /\ (q + n) - q + 1 = n + 1
    BY ONLY <1>2
  <2>2. Append(s, Zero)[n + 1] = Zero
    BY <1>1
  <2> HIDE DEF q
  <2>3. a.bytes[q + n] = Zero
    BY <1>5, <2>1, <2>2
  <2> QED
    BY <1>4, <2>1, <2>3 DEF Ended
<1>8. ASSUME NEW k \in 1 .. Len(c \o s)
      PROVE  a.bytes[a.headOffset + k - 1] = (c \o s)[k]
  <2>1. k \in 1 .. (L + n)
    BY <1>1, <1>4 DEF Holds
  <2>2. H + k - 1 \in 0 .. (B - 1)
    BY ONLY <1>2, <2>1
  <2>3. CASE k <= L
    <3>1. ~(H + k - 1 >= q) /\ k \in 1 .. L
      BY ONLY <1>2, <2>1, <2>3
    <3> HIDE DEF q
    <3>2. a.bytes[H + k - 1] = b.bytes[H + k - 1]
      BY <1>5, <2>2, <3>1
    <3>3. (c \o s)[k] = c[k]
      BY <1>4, <3>1 DEF Holds
    <3>4. b.bytes[H + k - 1] = c[k]
      BY <1>1, <1>4, <3>1 DEF Holds
    <3> QED
      BY <1>4, <3>2, <3>3, <3>4
  <2>4. CASE ~(k <= L)
    <3>1. /\ H + k - 1 >= q /\ H + k - 1 < q + (n + 1) /\ (H + k - 1) - q + 1 = k - L
          /\ k - L \in 1 .. n
      BY ONLY <1>2, <2>1, <2>4
    <3> HIDE DEF q
    <3>2. a.bytes[H + k - 1] = Append(s, Zero)[k - L]
      BY <1>5, <2>2, <3>1
    <3>3. Append(s, Zero)[k - L] = s[k - L]
      BY <1>1, <3>1
    <3>4. (c \o s)[k] = s[k - L]
      BY <1>1, <1>4, <2>1, <2>4 DEF Holds
    <3> QED
      BY <1>4, <3>2, <3>3, <3>4
  <2> QED
    BY <2>3, <2>4
<1>9. Holds(a, c \o s)
  <2>1. c \o s \in Seq(Chars) /\ Len(c \o s) = L + n
    BY <1>1, <1>4 DEF Holds
  <2> QED
    BY <1>4, <1>8, <2>1 DEF Holds
<1> QED
  BY <1>3, <1>6, <1>7, <1>9

\* A grown buffer has the text it had.
LEMMA ExpandHolds ==
  ASSUME NEW b, Sized(b), NEW c, Holds(b, c), NEW n \in Nat
  PROVE  Holds(Expand(b, n), c)
<1> DEFINE e == Expand(b, n)
<1>1. /\ e.length = b.length /\ e.headOffset = b.headOffset
      /\ \A i \in 0 .. (b.buffSize - 1) : e.bytes[i] = b.bytes[i]
  BY Expands
<1>2. \A k \in 1 .. Len(c) : b.headOffset + k - 1 \in 0 .. (b.buffSize - 1)
  <2>1. PICK L \in Nat, H \in Nat, B \in Nat :
          L = b.length /\ H = b.headOffset /\ B = b.buffSize /\ H + L + 1 <= B
    BY DEF Sized
  <2>2. H + L + 1 <= B
    BY <2>1
  <2>3. \A k \in 1 .. L : H + k - 1 \in 0 .. (B - 1)
    BY ONLY <2>2
  <2> QED
    BY <2>1, <2>3 DEF Holds
<1> HIDE DEF e
<1> QED
  BY <1>1, <1>2 DEF Holds, e

\* Appending appends.
LEMMA Appends ==
  ASSUME NEW b, Sized(b), NEW c, Holds(b, c), NEW s \in Seq(Chars)
  PROVE  LET a == Appended(b, s)
         IN  Sized(a) /\ Holds(a, c \o s) /\ Ended(a) /\ a.headOffset = b.headOffset
<1> DEFINE e == Expand(b, Len(s))
           a == Appended(b, s)
<1>1. Len(s) \in Nat
  OBVIOUS
<1>2. /\ Sized(e) /\ Holds(e, c) /\ e.length = b.length /\ e.headOffset = b.headOffset
      /\ b.headOffset + b.length + Len(s) + 1 <= e.buffSize
  BY <1>1, Expands, ExpandHolds
<1>3. a = [e EXCEPT !.bytes = Put(@, e.headOffset + e.length, Append(s, Zero)),
                    !.length = @ + Len(s)]
  BY DEF Appended
<1>4. e.headOffset + e.length + Len(s) + 1 <= e.buffSize
  BY <1>2
<1> HIDE DEF e, a
<1>5. Sized(a) /\ Holds(a, c \o s) /\ Ended(a) /\ a.headOffset = e.headOffset
  BY <1>2, <1>3, <1>4, Writes
<1> QED
  BY <1>2, <1>5 DEF a

\* Prepending prepends, and does not move the head up.
LEMMA Prepends ==
  ASSUME NEW b, Sized(b), NEW c, Holds(b, c), Ended(b), NEW s \in Seq(Chars)
  PROVE  LET a == Prepended(b, s)
         IN  Sized(a) /\ Holds(a, s \o c) /\ Ended(a) /\ a.headOffset <= b.headOffset
<1> DEFINE a == Prepended(b, s)
           n == Len(s)
<1>1. /\ b.length \in Nat /\ b.headOffset \in Nat /\ b.buffSize \in Nat
      /\ b.headOffset + b.length + 1 <= b.buffSize /\ DOMAIN b.bytes = 0 .. (b.buffSize - 1)
      /\ b.bytes = [i \in 0 .. (b.buffSize - 1) |-> b.bytes[i]]
  BY DEF Sized
<1>2. n \in Nat /\ Len(c) = b.length /\ c \in Seq(Chars) /\ Len(s \o c) = n + b.length
  BY DEF Holds
<1>3. CASE b.headOffset >= n
  <2> DEFINE p == b.headOffset - n
  <2>1. a = [b EXCEPT !.bytes = Put(@, p, s), !.headOffset = @ - n, !.length = @ + n]
    BY <1>3 DEF Prepended
  <2> HIDE DEF a
  <2>2. /\ a.length = b.length + n /\ a.headOffset = p /\ a.buffSize = b.buffSize
        /\ a.bytes = Put(b.bytes, p, s)
        /\ a = [length |-> a.length, headOffset |-> a.headOffset, buffSize |-> a.buffSize,
                bytes |-> a.bytes]
    BY <2>1 DEF Sized
  <2>3. p \in Nat /\ p + n = b.headOffset
    BY <1>1, <1>2, <1>3
  <2> HIDE DEF p, n
  <2>30. /\ b.length \in Nat /\ b.headOffset \in Nat /\ b.buffSize \in Nat /\ n \in Nat
         /\ b.headOffset + b.length + 1 <= b.buffSize /\ p \in Nat /\ p + n = b.headOffset
         /\ a.length = b.length + n /\ a.headOffset = p /\ a.buffSize = b.buffSize
    BY <1>1, <1>2, <2>2, <2>3
  <2>4. a.bytes = [i \in 0 .. (b.buffSize - 1) |->
                     IF i >= p /\ i < p + n THEN s[i - p + 1] ELSE b.bytes[i]]
    BY <1>1, <2>2 DEF Put, n
  <2>5. Sized(a)
    <3>1. a.bytes = [i \in 0 .. (a.buffSize - 1) |-> a.bytes[i]]
      BY <2>2, <2>4
    <3>2. a.length \in Nat /\ a.headOffset \in Nat /\ a.buffSize \in Nat
          /\ a.headOffset + a.length + 1 <= a.buffSize
      BY <2>30
    <3> QED
      BY <2>2, <3>1, <3>2 DEF Sized
  <2>6. Ended(a)
    <3>1. /\ a.headOffset + a.length = b.headOffset + b.length
          /\ b.headOffset + b.length \in 0 .. (b.buffSize - 1)
          /\ ~(b.headOffset + b.length < p + n)
      BY <2>30
    <3> QED
      BY <2>4, <3>1 DEF Ended
  <2>7. ASSUME NEW k \in 1 .. Len(s \o c)
        PROVE  a.bytes[a.headOffset + k - 1] = (s \o c)[k]
    <3>0. k \in 1 .. (n + b.length)
      BY <1>2
    <3>1. k \in 1 .. (n + b.length) /\ p + k - 1 \in 0 .. (b.buffSize - 1)
      BY <2>30, <3>0
    <3>2. CASE k <= n
      <4>1. p + k - 1 >= p /\ p + k - 1 < p + n /\ (p + k - 1) - p + 1 = k /\ k \in 1 .. Len(s)
        BY <1>2, <2>3, <3>1, <3>2 DEF n
      <4>2. (s \o c)[k] = s[k]
        BY <1>2, <4>1
      <4> QED
        BY <2>2, <2>4, <3>1, <4>1, <4>2
    <3>3. CASE ~(k <= n)
      <4>1. /\ ~(p + k - 1 < p + n) /\ p + k - 1 = b.headOffset + (k - n) - 1
            /\ k - n \in 1 .. b.length
        BY <2>30, <3>1, <3>3
      <4>2. (s \o c)[k] = c[k - n]
        BY <1>2, <3>1, <3>3 DEF n
      <4>3. b.bytes[b.headOffset + (k - n) - 1] = c[k - n]
        BY <1>2, <4>1 DEF Holds
      <4> QED
        BY <2>2, <2>4, <3>1, <4>1, <4>2, <4>3
    <3> QED
      BY <3>2, <3>3
  <2>8. Holds(a, s \o c)
    BY <1>2, <2>2, <2>7 DEF Holds
  <2> QED
    BY <1>1, <1>2, <2>2, <2>3, <2>5, <2>6, <2>8 DEF a
<1>4. CASE ~(b.headOffset >= n)
  <2> DEFINE size == PrependedSize(b, n)
             t == s \o c
  <2>1. size \in Nat /\ n + b.length + 1 <= size
    <3> DEFINE m == MissingAtHead(b, n)
               d == ((m \div StepLength) + 1) * StepLength
    <3>1. m \in Int /\ m = n + 1 - (b.buffSize - b.headOffset - b.length)
      BY <1>1, <1>2 DEF MissingAtHead
    <3>2. size = IF m <= 0 THEN b.buffSize
                 ELSE IF b.buffSize < FirstStepLength /\ m + b.buffSize < FirstStepLength
                 THEN b.buffSize + FirstStepLength ELSE b.buffSize + d
      BY DEF PrependedSize
    <3>3. m > 0 => d \in Nat /\ d >= m
      <4> HIDE DEF m
      <4>1. m > 0 => m \in Nat
        BY <3>1
      <4> QED
        BY <4>1, WholeSteps, BufferAssumption
    <3>4. PICK L \in Nat, H \in Nat, B \in Nat, N \in Nat, M \in Int, F \in Nat :
            /\ L = b.length /\ H = b.headOffset /\ B = b.buffSize /\ N = n /\ M = m
            /\ F = FirstStepLength /\ H + L + 1 <= B /\ M = N + 1 - (B - H - L)
      <4> HIDE DEF m, n
      <4> QED
        BY <1>1, <1>2, <3>1, BufferAssumption
    <3>4a. H + L + 1 <= B /\ M = N + 1 - (B - H - L)
      BY <3>4
    <3> HIDE DEF m, d, size, n
    <3>5. CASE M <= 0
      <4>1. size = B
        BY <3>2, <3>4, <3>5
      <4>2. N + L + 1 <= B
        BY <3>4a, <3>5
      <4> QED
        BY <3>4, <4>1, <4>2
    <3>6. CASE M > 0 /\ B < F /\ M + B < F
      <4>1. size = B + F
        BY <3>2, <3>4, <3>6
      <4>2. B + F \in Nat /\ N + L + 1 <= B + F
        BY <3>4a, <3>6
      <4> QED
        BY <3>4, <4>1, <4>2
    <3>7. CASE M > 0 /\ ~(B < F /\ M + B < F)
      <4>1. size = B + d /\ d \in Nat /\ d >= M
        BY <3>2, <3>3, <3>4, <3>7
      <4>2. B + d \in Nat /\ N + L + 1 <= B + d
        BY <3>4a, <4>1
      <4> QED
        BY <3>4, <4>1, <4>2
    <3> QED
      BY <3>4, <3>5, <3>6, <3>7
  <2>2. a = [length |-> b.length + n, headOffset |-> 0, buffSize |-> size,
             bytes |-> Put([i \in 0 .. (size - 1) |-> Zero], 0, s \o Cstr(b))]
    BY <1>4 DEF Prepended
  <2>3. s \o Cstr(b) = t
    BY ReadsText
  <2> HIDE DEF a, size, n
  <2>4. t \in Seq(Chars) /\ Len(t) = n + b.length
    BY <1>2
  <2> HIDE DEF t
  <2>5. /\ a.length = b.length + n /\ a.headOffset = 0 /\ a.buffSize = size
        /\ a.bytes = [i \in 0 .. (size - 1) |-> IF i >= 0 /\ i < 0 + Len(t) THEN t[i - 0 + 1] ELSE Zero]
    BY <2>2, <2>3 DEF Put
  <2>6. Sized(a)
    <3>1. a.bytes = [i \in 0 .. (a.buffSize - 1) |-> a.bytes[i]]
      BY <2>5
    <3>2. a.length \in Nat /\ a.headOffset \in Nat /\ a.buffSize \in Nat
          /\ a.headOffset + a.length + 1 <= a.buffSize
      BY <1>1, <1>2, <2>1, <2>5
    <3>3. a = [length |-> a.length, headOffset |-> a.headOffset, buffSize |-> a.buffSize,
               bytes |-> a.bytes]
      BY <2>2
    <3> QED
      BY <3>1, <3>2, <3>3 DEF Sized
  <2>7. Ended(a)
    <3>1. a.headOffset + a.length = Len(t) /\ Len(t) \in 0 .. (size - 1) /\ ~(Len(t) < 0 + Len(t))
      BY <1>1, <1>2, <2>1, <2>4, <2>5
    <3> QED
      BY <2>5, <3>1 DEF Ended
  <2>8. ASSUME NEW k \in 1 .. Len(t)
        PROVE  a.bytes[a.headOffset + k - 1] = t[k]
    <3>1. /\ a.headOffset + k - 1 = k - 1 /\ k - 1 \in 0 .. (size - 1) /\ k - 1 >= 0
          /\ k - 1 < 0 + Len(t) /\ (k - 1) - 0 + 1 = k
      BY <1>1, <1>2, <2>1, <2>4, <2>5
    <3> QED
      BY <2>5, <3>1
  <2>9. Holds(a, t)
    BY <1>1, <1>2, <2>4, <2>5, <2>8 DEF Holds
  <2> QED
    BY <1>1, <2>5, <2>6, <2>7, <2>9 DEF a, t
<1> QED
  BY <1>1, <1>2, <1>3, <1>4

\* Clearing empties.
LEMMA Clears ==
  ASSUME NEW b, Sized(b)
  PROVE  LET a == Cleared(b)
         IN  Sized(a) /\ Holds(a, <<>>) /\ Ended(a) /\ a.headOffset = 0
<1> DEFINE a == Cleared(b)
<1>1. /\ a.length = 0 /\ a.headOffset = 0 /\ a.buffSize = b.buffSize
      /\ a.bytes = [i \in 0 .. (b.buffSize - 1) |-> Zero]
      /\ a = [length |-> a.length, headOffset |-> a.headOffset, buffSize |-> a.buffSize,
              bytes |-> a.bytes]
  <2>1. DOMAIN b.bytes = 0 .. (b.buffSize - 1)
    BY DEF Sized
  <2>2. a = [b EXCEPT !.length = 0, !.headOffset = 0,
                      !.bytes = [i \in DOMAIN b.bytes |-> Zero]]
    BY DEF Cleared
  <2>3. b = [length |-> b.length, headOffset |-> b.headOffset, buffSize |-> b.buffSize,
             bytes |-> b.bytes]
    BY DEF Sized
  <2> HIDE DEF a
  <2> QED
    BY <2>1, <2>2, <2>3
<1> HIDE DEF a
<1>2. b.buffSize \in Nat /\ 1 <= b.buffSize
  BY DEF Sized
<1>3. a.bytes = [i \in 0 .. (a.buffSize - 1) |-> a.bytes[i]]
  BY <1>1
<1>4. Sized(a) /\ Holds(a, <<>>) /\ Ended(a)
  BY <1>1, <1>2, <1>3 DEF Sized, Holds, Ended
<1> QED
  BY <1>1, <1>4 DEF a

\* A new buffer is empty, and its head as long as the reserve.
LEMMA IsNew ==
  Sized(New) /\ Holds(New, <<>>) /\ Ended(New) /\ New.headOffset = InitLeftReserve
<1>1. InitLeftReserve \in 0 .. (DefaultCapacity - 1) /\ DefaultCapacity \in Nat
  BY BufferAssumption
<1> QED
  BY <1>1, BufferAssumption DEF New, Sized, Holds, Ended

-----------------------------------------------------------------------------
\* A full buffer that a text was cut short in still holds what it held.
LEMMA CutShort ==
  ASSUME NEW b, Sized(b), NEW c, Holds(b, c), NEW s \in Seq(Chars),
         ~(Len(s) < b.buffSize - b.length)
  PROVE  Sized(Printed(b, s)) /\ Holds(Printed(b, s), c)
         /\ Printed(b, s).headOffset = b.headOffset
<1> DEFINE a == Printed(b, s)
           t == Append(SubSeq(s, 1, b.buffSize - b.length - 1), Zero)
           q == b.headOffset + b.length
<1>1. a = [b EXCEPT !.bytes = Put(@, q, t), !.length = @]
  BY DEF Printed
<1> HIDE DEF a, t
<1>2. /\ a.length = b.length /\ a.headOffset = b.headOffset /\ a.buffSize = b.buffSize
      /\ a.bytes = Put(b.bytes, q, t)
      /\ a = [length |-> a.length, headOffset |-> a.headOffset, buffSize |-> a.buffSize,
              bytes |-> a.bytes]
  BY <1>1 DEF Sized
<1>3. DOMAIN b.bytes = 0 .. (b.buffSize - 1)
  BY DEF Sized
<1> HIDE DEF q
<1>4. a.bytes = [i \in 0 .. (b.buffSize - 1) |->
                   IF i >= q /\ i < q + Len(t) THEN t[i - q + 1] ELSE b.bytes[i]]
  BY <1>2, <1>3 DEF Put
<1>5. Sized(a)
  <2>1. a.bytes = [i \in 0 .. (a.buffSize - 1) |-> a.bytes[i]]
    BY <1>2, <1>4
  <2> QED
    BY <1>2, <2>1 DEF Sized
<1>6. ASSUME NEW k \in 1 .. Len(c)
      PROVE  a.bytes[a.headOffset + k - 1] = c[k]
  <2>1. PICK L \in Nat, H \in Nat, B \in Nat :
          L = b.length /\ H = b.headOffset /\ B = b.buffSize /\ H + L + 1 <= B
    BY DEF Sized
  <2>2. H + L + 1 <= B /\ k \in 1 .. L
    BY <2>1 DEF Holds
  <2>3. H + k - 1 \in 0 .. (B - 1) /\ ~(H + k - 1 >= H + L)
    BY ONLY <2>2
  <2>4. q = H + L
    BY <2>1 DEF q
  <2>5. a.bytes[H + k - 1] = b.bytes[H + k - 1]
    BY <1>4, <2>1, <2>3, <2>4
  <2> QED
    BY <1>2, <2>1, <2>5 DEF Holds
<1>7. Holds(a, c)
  BY <1>2, <1>6 DEF Holds
<1> QED
  BY <1>2, <1>5, <1>7 DEF a

\* Where there is room for n more and a zero they are written inside.
LEMMA NoWritePast ==
  ASSUME NEW b, Sized(b), NEW n \in Nat, b.headOffset + b.length + n + 1 <= b.buffSize
  PROVE  PastOfWrite(b, n) = 0
<1>1. PICK L \in Nat, H \in Nat, B \in Nat :
        L = b.length /\ H = b.headOffset /\ B = b.buffSize /\ H + L + n + 1 <= B
  BY DEF Sized
<1>2. H + L + n + 1 <= B
  BY <1>1
<1>3. Greater(0, H + L + n + 1 - B) = 0
  BY ONLY <1>2 DEF Greater
<1> QED
  BY <1>1, <1>3 DEF PastOfWrite

\* What growing writes past the end is no longer than the head.
LEMMA PastByHead ==
  ASSUME NEW b, Sized(b), NEW n \in Nat
  PROVE  PastOfExpand(b, n) \in {0, b.headOffset}
BY DEF PastOfExpand

\* What an append writes past the end is what growing writes there.
LEMMA PastOfAppend ==
  ASSUME NEW b, Sized(b), NEW n \in Nat
  PROVE  Greater(PastOfExpand(b, n), PastOfWrite(Expand(b, n), n)) \in {0, b.headOffset}
<1>1. PastOfWrite(Expand(b, n), n) = 0
  <2> DEFINE e == Expand(b, n)
  <2>1. /\ Sized(e) /\ e.length = b.length /\ e.headOffset = b.headOffset
        /\ b.headOffset + b.length + n + 1 <= e.buffSize
    BY Expands
  <2>2. e.headOffset + e.length + n + 1 <= e.buffSize
    BY <2>1
  <2> HIDE DEF e
  <2>3. PastOfWrite(e, n) = 0
    BY <2>1, <2>2, NoWritePast
  <2> QED
    BY <2>3 DEF e
<1>2. b.headOffset \in Nat
  BY DEF Sized
<1> QED
  BY <1>1, <1>2, PastByHead DEF Greater

\* Nor does a buffer that fits its text and zero reach past its end.
LEMMA NothingPast ==
  ASSUME NEW b, Sized(b)
  PROVE  Greater(0, b.headOffset + b.length + 1 - b.buffSize) = 0
<1>1. PICK L \in Nat, H \in Nat, B \in Nat :
        L = b.length /\ H = b.headOffset /\ B = b.buffSize /\ H + L + 1 <= B
  BY DEF Sized
<1>2. H + L + 1 <= B
  BY <1>1
<1>3. Greater(0, H + L + 1 - B) = 0
  BY ONLY <1>2 DEF Greater
<1> QED
  BY <1>1, <1>3

-----------------------------------------------------------------------------
\* The invariant: the last call wrote no further past the end than its head is
\* long, and only a buffer without a head is printed to.
BufferOK ==
  /\ Sized(buf) /\ Holds(buf, content) /\ past \in 0 .. buf.headOffset
  /\ formatting \in {<<>>} \cup {<<s>> : s \in Strings}
  /\ IF formatting = <<>> THEN Ended(buf) ELSE buf.headOffset = 0

\* Every step preserves it.
LEMMA StepOK ==
  ASSUME BufferOK, Next
  PROVE  BufferOK'
<1>0. /\ Sized(buf) /\ Holds(buf, content) /\ past \in 0 .. buf.headOffset
      /\ formatting \in {<<>>} \cup {<<s>> : s \in Strings}
      /\ formatting # <<>> => buf.headOffset = 0
  BY DEF BufferOK
<1>1. CASE AppendCstr
  <2>1. PICK s \in Strings :
          /\ MayAdd(s) /\ buf' = Appended(buf, s) /\ content' = content \o s
          /\ past' = Greater(PastOfExpand(buf, Len(s)), PastOfWrite(Expand(buf, Len(s)), Len(s)))
          /\ formatting' = formatting
    BY <1>1 DEF AppendCstr
  <2>2. s \in Seq(Chars) /\ Len(s) \in Nat
    BY StringsAssumption
  <2>3. Sized(buf') /\ Holds(buf', content') /\ Ended(buf') /\ buf'.headOffset = buf.headOffset
    BY <1>0, <2>1, <2>2, Appends
  <2>4. past' \in {0, buf.headOffset}
    BY <1>0, <2>1, <2>2, PastOfAppend
  <2>5. past' \in 0 .. buf'.headOffset
    BY <2>3, <2>4 DEF Sized
  <2>6. formatting' = <<>>
    BY <2>1 DEF MayAdd
  <2> QED
    BY <2>3, <2>5, <2>6 DEF BufferOK
<1>2. CASE PrependCstr
  <2>1. PICK s \in Strings :
          /\ MayAdd(s) /\ buf' = Prepended(buf, s) /\ content' = s \o content
          /\ past' = Greater(0, buf'.headOffset + buf'.length + 1 - buf'.buffSize)
          /\ formatting' = formatting
    BY <1>2 DEF PrependCstr
  <2>2. s \in Seq(Chars) /\ Ended(buf)
    BY <2>1, StringsAssumption DEF BufferOK, MayAdd
  <2>3. Sized(buf') /\ Holds(buf', content') /\ Ended(buf') /\ buf'.headOffset <= buf.headOffset
    BY <1>0, <2>1, <2>2, Prepends
  <2>4. past' = 0
    BY <2>1, <2>3, NothingPast
  <2>5. past' \in 0 .. buf'.headOffset
    BY <2>3, <2>4 DEF Sized
  <2>6. formatting' = <<>>
    BY <2>1 DEF MayAdd
  <2> QED
    BY <2>3, <2>5, <2>6 DEF BufferOK
<1>3. CASE Clear
  <2>1. buf' = Cleared(buf) /\ content' = <<>> /\ past' = 0 /\ formatting' = <<>>
    BY <1>3 DEF Clear
  <2>2. Sized(buf') /\ Holds(buf', content') /\ Ended(buf') /\ buf'.headOffset = 0
    BY <1>0, <2>1, Clears
  <2> QED
    BY <2>1, <2>2 DEF BufferOK
<1>4. CASE buf.headOffset = 0 /\ AppendCstrWithFormat
  <2>1. PICK s \in Strings : formatting' = <<s>> /\ UNCHANGED <<buf, content, past>>
    BY <1>4 DEF AppendCstrWithFormat
  <2>2. formatting' # <<>>
    BY <2>1
  <2> QED
    BY <1>0, <1>4, <2>1, <2>2 DEF BufferOK
<1>5. ASSUME formatting # <<>>
      PROVE  /\ formatting[1] \in Seq(Chars) /\ formatting = <<formatting[1]>>
             /\ Len(formatting[1]) \in Nat
  <2>1. PICK s \in Strings : formatting = <<s>>
    BY <1>0, <1>5
  <2> QED
    BY <2>1, StringsAssumption
<1>6. CASE FormatFits
  <2> DEFINE s == formatting[1]
  <2>1. /\ formatting # <<>> /\ Len(s) < buf.buffSize - buf.length /\ buf' = Printed(buf, s)
        /\ content' = content \o s /\ past' = PastOfWrite(buf, Len(s)) /\ formatting' = <<>>
    BY <1>6 DEF FormatFits
  <2>2. s \in Seq(Chars) /\ Len(s) \in Nat
    BY <1>5, <2>1
  <2> HIDE DEF s
  <2>0. buf.headOffset = 0 /\ past = 0
    BY <1>0, <2>1
  <2>3. buf.headOffset + buf.length + Len(s) + 1 <= buf.buffSize
    <3>1. PICK L \in Nat, B \in Nat : L = buf.length /\ B = buf.buffSize
      BY <1>0 DEF Sized
    <3>2. Len(s) < B - L
      BY <2>1, <3>1
    <3>3. 0 + L + Len(s) + 1 <= B
      BY ONLY <2>2, <3>2
    <3> QED
      BY <2>0, <3>1, <3>3
  <2>4. buf' = [buf EXCEPT !.bytes = Put(@, buf.headOffset + buf.length, Append(s, Zero)),
                           !.length = @ + Len(s)]
    BY <2>1 DEF Printed
  <2>5. Sized(buf') /\ Holds(buf', content') /\ Ended(buf') /\ buf'.headOffset = buf.headOffset
    BY <1>0, <2>1, <2>2, <2>3, <2>4, Writes
  <2>6. past' = 0
    BY <1>0, <2>1, <2>2, <2>3, NoWritePast
  <2> QED
    BY <2>0, <2>1, <2>5, <2>6 DEF BufferOK
<1>7. CASE FormatExpands
  <2> DEFINE s == formatting[1]
             n == buf.buffSize - buf.length
             missing == Len(s) - n
             b == Printed(buf, s)
  <2>1. /\ formatting # <<>> /\ missing >= 0 /\ buf' = Expand(b, missing)
        /\ past' = Greater(PastOfExpand(buf, missing), PastOfWrite(buf, n - 1))
        /\ content' = content /\ formatting' = formatting
    BY <1>7 DEF FormatExpands
  <2>2. s \in Seq(Chars) /\ Len(s) \in Nat
    BY <1>5, <2>1
  <2> HIDE DEF s
  <2>0. buf.headOffset = 0 /\ past = 0
    BY <1>0, <2>1
  <2>3. missing \in Nat /\ n - 1 \in Nat /\ ~(Len(s) < n)
        /\ buf.headOffset + buf.length + (n - 1) + 1 <= buf.buffSize
    <3>1. PICK L \in Nat, B \in Nat : L = buf.length /\ B = buf.buffSize /\ 0 + L + 1 <= B
      BY <1>0 DEF Sized
    <3>2. Len(s) - (B - L) >= 0 /\ 0 + L + 1 <= B
      BY <2>1, <3>1
    <3>3. /\ Len(s) - (B - L) \in Nat /\ (B - L) - 1 \in Nat /\ ~(Len(s) < B - L)
          /\ 0 + L + ((B - L) - 1) + 1 <= B
      BY ONLY <2>2, <3>2
    <3> QED
      BY <2>0, <3>1, <3>3
  <2>4. Sized(b) /\ Holds(b, content) /\ b.headOffset = 0
    BY <1>0, <2>0, <2>2, <2>3, CutShort
  <2> HIDE DEF b, missing, n
  <2>5. Sized(buf') /\ Holds(buf', content') /\ buf'.headOffset = 0
    BY <2>1, <2>3, <2>4, Expands, ExpandHolds
  <2>6. PastOfExpand(buf, missing) = 0
    BY <1>0, <2>0, <2>3, PastByHead
  <2>7. PastOfWrite(buf, n - 1) = 0
    BY <1>0, <2>3, NoWritePast
  <2>8. past' = 0
    BY <2>1, <2>6, <2>7 DEF Greater
  <2> QED
    BY <1>0, <2>1, <2>5, <2>8 DEF BufferOK
<1> QED
  BY <1>1, <1>2, <1>3, <1>4, <1>6, <1>7 DEF Next

-----------------------------------------------------------------------------
\* The invariant holds always.
LEMMA Invariance == Spec => []BufferOK
<1>1. Init => BufferOK
  <2> SUFFICES ASSUME Init
               PROVE  BufferOK
    OBVIOUS
  <2>1. Sized(New) /\ Holds(New, <<>>) /\ Ended(New)
    BY IsNew
  <2>2. Sized(Cleared(New)) /\ Holds(Cleared(New), <<>>) /\ Ended(Cleared(New))
    BY <2>1, Clears
  <2>3. buf.headOffset \in Nat
    BY <2>1, <2>2 DEF Init, Sized
  <2> QED
    BY <2>1, <2>2, <2>3 DEF Init, BufferOK
<1>2. BufferOK /\ [Next]_vars => BufferOK'
  <2>1. CASE UNCHANGED vars
    BY <2>1 DEF vars, BufferOK, Sized, Holds, Ended
  <2> QED
    BY <2>1, StepOK
<1> QED
  BY <1>1, <1>2, PTL DEF Spec

\* Whatever lengths a buffer grows by, its head, text and zero fit in it.
THEOREM BufferFits == Spec => []FitsWithZero
<1>1. BufferOK => FitsWithZero
  BY DEF BufferOK, Sized, FitsWithZero
<1> QED
  BY <1>1, Invariance, PTL

\* A buffer reads as what was added to it, printed text included.
THEOREM BufferReads == Spec => []ReadsContent
<1>1. BufferOK => ReadsContent
  BY ReadsText DEF BufferOK, ReadsContent, Holds
<1> QED
  BY <1>1, Invariance, PTL

\* The zeros that growing puts too far on are never more than the head is long,
\* and a buffer without a head is never written to past its end.
THEOREM PastBounded == Spec => []PastAtMostHead
<1>1. BufferOK => PastAtMostHead
  BY DEF BufferOK, Sized, PastAtMostHead
<1> QED
  BY <1>1, Invariance, PTL
================================================================================
