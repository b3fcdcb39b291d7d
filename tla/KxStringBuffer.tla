---------------------------- MODULE KxStringBuffer ----------------------------
(***************************************************************************)
(* core/string/kx_stringbuffer.c: text in a buffer of buffSize bytes, from *)
(* headOffset on, with a zero after it.  A new buffer leaves a few bytes   *)
(* at its head for what is prepended, a cleared one leaves none.           *)
(*                                                                         *)
(* `bytes' is the buffer, `past' how many bytes the last call wrote beyond *)
(* its end, and `content' what the buffer should say: the characters       *)
(* appended and prepended so far.                                          *)
(***************************************************************************)
EXTENDS Integers, Sequences

CONSTANTS DefaultCapacity,  \* DEFAULT_CAPACITY
          FirstStepLength,  \* FIRST_STEP_LENGTH
          StepLength,       \* STEP_LENGTH
          InitLeftReserve,  \* INIT_LEFT_RESERVE
          Strings,          \* what is appended and prepended
          MaxLength         \* bound: a text this long is not added to

Zero == "zero"
Junk == "junk"        \* bytes that tb_ralloc added and nothing was written to
Chars == STRING \ {Zero, Junk}

ASSUME BufferAssumption ==
  /\ DefaultCapacity \in Nat /\ InitLeftReserve \in Nat
  /\ InitLeftReserve < DefaultCapacity
  /\ FirstStepLength \in Nat \ {0} /\ StepLength \in Nat \ {0}
  /\ MaxLength \in Nat

ASSUME StringsAssumption == Strings \subseteq Seq(Chars)

VARIABLES buf, content, past,
          formatting  \* in AppendCstrWithFormat, <<s>> while s is to be appended

vars == <<buf, content, past, formatting>>

Greater(a, b) == IF a > b THEN a ELSE b

\* s at position p of the bytes, as far as they go.
Put(bytes, p, s) ==
  [i \in DOMAIN bytes |-> IF i >= p /\ i < p + Len(s) THEN s[i - p + 1] ELSE bytes[i]]

\* The characters from the start of the text to the first zero.
Cstr(b) ==
  LET zeros == {i \in DOMAIN b.bytes : i >= b.headOffset /\ b.bytes[i] = Zero}
      end == IF zeros = {} THEN b.buffSize ELSE CHOOSE i \in zeros : \A j \in zeros : i <= j
  IN  [i \in 1 .. (end - b.headOffset) |-> b.bytes[b.headOffset + i - 1]]

(***************************************************************************)
(* Growing.                                                                *)
(***************************************************************************)
\* A mutant: the zero is not counted.
MissingButZero(b, n) == n - (b.buffSize - b.headOffset - b.length)

\* How many bytes are missing for n more and the zero.
Missing(b, n) == n + 1 - (b.buffSize - b.headOffset - b.length)

Step(b, n) ==
  IF b.buffSize < FirstStepLength /\ Missing(b, n) + b.buffSize < FirstStepLength
  THEN FirstStepLength ELSE StepLength

GrownSize(b, n) == b.buffSize + ((Missing(b, n) \div Step(b, n)) + 1) * Step(b, n)

\* tb_ralloc, then zeros for the bytes added, set headOffset bytes too far on.
Expand(b, n) ==
  IF Missing(b, n) <= 0 THEN b
  ELSE [b EXCEPT !.buffSize = GrownSize(b, n),
                 !.bytes = [i \in 0 .. (GrownSize(b, n) - 1) |->
                              IF i < b.buffSize THEN b.bytes[i]
                              ELSE IF i < b.buffSize + b.headOffset THEN Junk ELSE Zero]]

\* A mutant: as many zeros as the new buffer has bytes.
PastOfExpandAll(b, n) == IF Missing(b, n) <= 0 THEN 0 ELSE b.headOffset + b.buffSize

PastOfExpand(b, n) == IF Missing(b, n) <= 0 THEN 0 ELSE b.headOffset

-------------------------------------------------------------------------------
New ==
  [length |-> 0, headOffset |-> InitLeftReserve, buffSize |-> DefaultCapacity,
   bytes |-> [i \in 0 .. (DefaultCapacity - 1) |-> Zero]]

Cleared(b) ==
  [b EXCEPT !.length = 0, !.headOffset = 0, !.bytes = [i \in DOMAIN @ |-> Zero]]

\* NAppendCstr, NAppendChar and AppendStringBuffer.
Appended(b, s) ==
  LET e == Expand(b, Len(s))
  IN  [e EXCEPT !.bytes = Put(@, e.headOffset + e.length, Append(s, Zero)),
                !.length = @ + Len(s)]

\* NPrependCstr: into the head, or into a new buffer without one.
MissingAtHead(b, n) == n + 1 - (b.buffSize - b.headOffset - b.length)

PrependedSize(b, n) ==
  LET min == MissingAtHead(b, n)
  IN  IF min <= 0 THEN b.buffSize
      ELSE IF b.buffSize < FirstStepLength /\ min + b.buffSize < FirstStepLength
      THEN b.buffSize + FirstStepLength
      ELSE b.buffSize + ((min \div StepLength) + 1) * StepLength

Prepended(b, s) ==
  IF b.headOffset >= Len(s)
  THEN [b EXCEPT !.bytes = Put(@, b.headOffset - Len(s), s),
                 !.headOffset = @ - Len(s), !.length = @ + Len(s)]
  ELSE LET size == PrependedSize(b, Len(s))
       IN  [length |-> b.length + Len(s), headOffset |-> 0, buffSize |-> size,
            bytes |-> Put([i \in 0 .. (size - 1) |-> Zero], 0, s \o Cstr(b))]

\* The bytes past the end that writing n characters and a zero takes.
PastOfWrite(b, n) == Greater(0, b.headOffset + b.length + n + 1 - b.buffSize)

(***************************************************************************)
(* The calls.                                                              *)
(***************************************************************************)
MayAdd(s) == formatting = <<>> /\ buf.length + Len(s) <= MaxLength

AppendCstr ==
  \E s \in Strings :
    /\ MayAdd(s)
    /\ buf' = Appended(buf, s)
    /\ content' = content \o s
    /\ past' = Greater(PastOfExpand(buf, Len(s)), PastOfWrite(Expand(buf, Len(s)), Len(s)))
    /\ UNCHANGED formatting

PrependCstr ==
  \E s \in Strings :
    /\ MayAdd(s)
    /\ buf' = Prepended(buf, s)
    /\ content' = s \o content
    /\ past' = Greater(0, buf'.headOffset + buf'.length + 1 - buf'.buffSize)
    /\ UNCHANGED formatting

Clear ==
  /\ formatting = <<>>
  /\ buf' = Cleared(buf)
  /\ content' = <<>>
  /\ past' = 0
  /\ UNCHANGED formatting

\* AppendCstrWithFormat is a loop: the text is printed into the room there is,
\* and when it was cut short the buffer is grown and the text printed again.
\* The room is taken to be the whole buffer but for the text, the head included.
AppendCstrWithFormat ==
  \E s \in Strings :
    /\ MayAdd(s)
    /\ formatting' = <<s>>
    /\ UNCHANGED <<buf, content, past>>

\* A mutant: a text cut short is counted too.
PrintedAnyway(b, s) ==
  LET n == b.buffSize - b.length
      taken == IF Len(s) < n THEN s ELSE SubSeq(s, 1, n - 1)
  IN  [b EXCEPT !.bytes = Put(@, b.headOffset + b.length, Append(taken, Zero)),
                !.length = @ + Len(taken)]

Printed(b, s) ==
  LET n == b.buffSize - b.length
      taken == IF Len(s) < n THEN s ELSE SubSeq(s, 1, n - 1)
  IN  [b EXCEPT !.bytes = Put(@, b.headOffset + b.length, Append(taken, Zero)),
                !.length = IF Len(s) < n THEN @ + Len(s) ELSE @]

FormatFits ==
  /\ formatting # <<>> /\ Len(formatting[1]) < buf.buffSize - buf.length
  /\ buf' = Printed(buf, formatting[1])
  /\ content' = content \o formatting[1]
  /\ past' = PastOfWrite(buf, Len(formatting[1]))
  /\ formatting' = <<>>

FormatExpands ==
  LET n == buf.buffSize - buf.length
      missing == Len(formatting[1]) - n
  IN  /\ formatting # <<>> /\ missing >= 0
      /\ buf' = Expand(Printed(buf, formatting[1]), missing)
      /\ past' = Greater(PastOfExpand(buf, missing), PastOfWrite(buf, n - 1))
      /\ UNCHANGED <<content, formatting>>

\* A new buffer, or one that is cleared before its first use, as the
\* tokenizer's are.
Init ==
  /\ buf \in {New, Cleared(New)}
  /\ content = <<>>
  /\ past = 0
  /\ formatting = <<>>

\* Text is printed to a buffer without a head: to one with a head the room
\* would be less than AppendCstrWithFormat takes it to be.
Next ==
  \/ AppendCstr \/ PrependCstr \/ Clear
  \/ buf.headOffset = 0 /\ AppendCstrWithFormat
  \/ FormatFits \/ FormatExpands

Spec == Init /\ [][Next]_vars

-------------------------------------------------------------------------------
(***************************************************************************)
(* Properties.                                                             *)
(***************************************************************************)
\* Head, text and zero fit in the buffer, however the calls grew it.
FitsWithZero == buf.headOffset + buf.length + 1 <= buf.buffSize

\* The buffer reads as the characters added to it, and length counts them.
ReadsContent ==
  formatting = <<>> => Cstr(buf) = content /\ buf.length = Len(content)

\* What a call writes past the end of the buffer is no more than the bytes of
\* its head: nothing, once the head has been used up or cleared
\* (kx_stringbuffer.c:47, 119, 145).
PastAtMostHead == past <= buf.headOffset
================================================================================
