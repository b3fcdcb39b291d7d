-------------------------- MODULE KonSpelling_proofs --------------------------
(***************************************************************************)
(* The tokenizer never reads past the end of a text but for the character  *)
(* after a `<' or `>' that ends it, and a token takes text, whatever the   *)
(* text: so a text has no more tokens than characters.                     *)
(***************************************************************************)
EXTENDS KonSpelling, WellFoundedInduction, TLAPS

\* The cursor stands in the text or at its end.
CursorInText == IsText(text) /\ cursor \in 0 .. Len(text)

\* The character after the last one, a `<' or `>', was asked for.
AskedAfterEnd == cursor + 1 = Len(text) /\ text[cursor + 1] \in {"<", ">"}

\* What a turn does to the text and the cursor.
Turned ==
  /\ text' = text /\ cursor' \in cursor .. Len(text)
  /\ fault' => cursor' = cursor /\ AskedAfterEnd
  /\ calling /\ ~calling' /\ token' # Eof => cursor' > cursor
  /\ calling /\ calling' /\ ~fault' => cursor' > cursor \/ UNCHANGED vars

-----------------------------------------------------------------------------
\* A set of natural numbers that is not empty has a least element.
LEMMA LeastExists ==
  ASSUME NEW T \in SUBSET Nat, T # {}
  PROVE  \E x \in T : \A y \in T : x <= y
<1>1. PICK x \in T : \A y \in T : ~(<<y, x>> \in OpToRel(<, Nat))
  BY WFMin, NatLessThanWellFounded
<1>2. \A y \in T : ~(y < x)
  BY <1>1 DEF OpToRel
<1> QED
  BY <1>2

\* What Min returns.
LEMMA MinOf ==
  ASSUME NEW T \in SUBSET Nat, T # {}
  PROVE  Min(T) \in T /\ \A y \in T : Min(T) <= y
BY LeastExists DEF Min

\* Characters are taken to a stop or to the end of the text.
LEMMA UntilStops ==
  ASSUME CursorInText, NEW from \in Nat, NEW stops
  PROVE  Until(from, stops) \in (from .. Len(text)) \cup {Len(text) + 1}
<1> DEFINE at == {i \in from .. Len(text) : text[i] \in stops}
<1>1. at \in SUBSET Nat /\ Len(text) \in Nat
  BY DEF CursorInText
<1>2. at # {} => Min(at) \in at
  BY <1>1, MinOf
<1> QED
  BY <1>2 DEF Until

\* What an answer leaves behind: the cursor is on a token's last character, and
\* a token that is not EOF takes at least the one the turn looked at.
LEMMA AnswerTurns ==
  ASSUME CursorInText, ~fault, NEW kind, NEW content, NEW to \in Nat, to >= cursor,
         Answer(kind, content, to),
         Token(kind, content) # Eof => Peek(1) /\ to > cursor
  PROVE  Turned
<1>1. Len(text) \in Nat /\ cursor \in Nat /\ cursor <= Len(text)
  BY DEF CursorInText
<1>2. Min({to, Len(text)}) \in {to, Len(text)} /\ Min({to, Len(text)}) <= to
        /\ Min({to, Len(text)}) <= Len(text)
  <2>1. {to, Len(text)} \in SUBSET Nat /\ {to, Len(text)} # {}
    BY <1>1
  <2> QED
    BY <2>1, MinOf
<1>3. /\ cursor' = Min({to, Len(text)}) /\ token' = Token(kind, content) /\ calling' = FALSE
      /\ text' = text /\ fault' = fault
  BY DEF Answer
<1>4. cursor' \in cursor .. Len(text)
  BY <1>1, <1>2, <1>3
<1>5. ASSUME token' # Eof
      PROVE  cursor' > cursor
  BY <1>1, <1>2, <1>3, <1>5 DEF Peek
<1> QED
  BY <1>3, <1>4, <1>5 DEF Turned

\* A turn that has a character answers a token.
LEMMA TokenTurns ==
  ASSUME CursorInText, ~fault, Peek(1), NEW kind, NEW content, NEW to \in Nat, to > cursor,
         Answer(kind, content, to)
  PROVE  Turned
<1>1. to >= cursor
  BY DEF CursorInText
<1> QED
  BY <1>1, AnswerTurns

\* The loop is left with no token.
LEMMA BreakTurns ==
  ASSUME CursorInText, ~fault, Break
  PROVE  Turned
<1>1. cursor \in Nat /\ cursor >= cursor
  BY DEF CursorInText
<1>2. Answer("EOF", <<>>, cursor) /\ Token("EOF", <<>>) = Eof
  BY DEF Break, Eof
<1> QED
  BY <1>1, <1>2, AnswerTurns

\* A symbol of one or more characters,
LEMMA SymbolTurns ==
  ASSUME CursorInText, ~fault, Peek(1), NEW kind, NEW n \in Nat \ {0}, Symbol(kind, n)
  PROVE  Turned
<1>1. cursor + n \in Nat /\ cursor + n > cursor
  BY DEF CursorInText
<1> QED
  BY <1>1, TokenTurns DEF Symbol

\* the longest word that starts here,
LEMMA WordTurns ==
  ASSUME CursorInText, ~fault, Peek(1), NEW n \in Nat \ {0}, Word(n)
  PROVE  Turned
<1>1. cursor + n \in Nat /\ cursor + n > cursor
  BY DEF CursorInText
<1> QED
  BY <1>1, TokenTurns DEF Word

\* One that is taken to a stop from its second character on.
LEMMA UntilTurns ==
  ASSUME CursorInText, ~fault, Peek(1), NEW n \in Nat \ {0, 1}, NEW stops, NEW kind, NEW content,
         NEW back \in {0, 1}, Answer(kind, content, Until(cursor + n, stops) - back)
  PROVE  Turned
<1>1. Len(text) \in Nat /\ cursor \in Nat /\ cursor + 1 <= Len(text) /\ cursor + n \in Nat
  BY DEF CursorInText, Peek
<1>2. Until(cursor + n, stops) \in ((cursor + n) .. Len(text)) \cup {Len(text) + 1}
  BY <1>1, UntilStops
<1>3. /\ Until(cursor + n, stops) - back \in Nat
      /\ Until(cursor + n, stops) - back > cursor
  BY <1>1, <1>2
<1> QED
  BY <1>3, TokenTurns

\* a name after its prefix,
LEMMA IdentifierTurns ==
  ASSUME CursorInText, ~fault, Peek(1), NEW kind, NEW n \in Nat, Identifier(kind, n)
  PROVE  Turned
<1>1. n + 2 \in Nat \ {0, 1} /\ cursor + (n + 2) = cursor + n + 2
  BY DEF CursorInText
<1> QED
  BY <1>1, UntilTurns DEF Identifier

\* a number,
LEMMA NumberTurns ==
  ASSUME CursorInText, ~fault, Peek(1), ParseNumber
  PROVE  Turned
BY UntilTurns DEF ParseNumber

\* a string up to its quote,
LEMMA QuotedTurns ==
  ASSUME CursorInText, ~fault, Peek(1), NEW kind, NEW n \in Nat, NEW quote, Quoted(kind, n, quote)
  PROVE  Turned
<1> DEFINE end == Until(cursor + (n + 2), {quote})
<1>1. n + 2 \in Nat \ {0, 1} /\ cursor + (n + 2) = cursor + n + 2
  BY DEF CursorInText
<1>2. Len(text) \in Nat /\ cursor \in Nat /\ cursor + (n + 2) \in Nat
  BY DEF CursorInText
<1>3. end \in Int
  BY <1>2, UntilStops
<1>4. end - 0 = end
  BY <1>3
<1>5. Answer(kind, SubSeq(text, cursor + n + 2, end - 1), end - 0)
  BY <1>1, <1>4 DEF Quoted
<1> QED
  BY <1>1, <1>5, UntilTurns

\* a comment up to the end of its line,
LEMMA NewlineTurns ==
  ASSUME CursorInText, ~fault, Peek(1), NEW kind, ToNewline(kind)
  PROVE  Turned
BY UntilTurns DEF ToNewline

\* and one up to its end, each leaves the call as it should be.
LEMMA MultiLineTurns ==
  ASSUME CursorInText, ~fault, Peek(1), ParseMultiLineComment
  PROVE  Turned
<1> DEFINE ends == {i \in (cursor + 4) .. Len(text) : text[i - 1] = "*" /\ text[i] = "bq"}
           to == IF ends = {} THEN Len(text) ELSE Min(ends)
<1>1. ends \in SUBSET Nat /\ Len(text) \in Nat /\ cursor \in Nat /\ cursor + 1 <= Len(text)
  BY DEF CursorInText, Peek
<1>2. ends # {} => Min(ends) \in ends
  BY <1>1, MinOf
<1>3. to \in Nat /\ to > cursor
  BY <1>1, <1>2
<1>4. Answer("COMMENT_MULTI_LINE", <<>>, to)
  BY DEF ParseMultiLineComment
<1> QED
  BY <1>3, <1>4, TokenTurns

-----------------------------------------------------------------------------
(***************************************************************************)
(* The turns, by the characters they look at.                              *)
(***************************************************************************)
\* A turn that takes nothing and is taken again.
LEMMA StallTurns ==
  ASSUME CursorInText, ~fault, Stall
  PROVE  Turned
<1>1. cursor \in cursor .. Len(text)
  BY DEF CursorInText
<1>2. text' = text /\ cursor' = cursor /\ calling' = calling /\ fault' = fault /\ UNCHANGED vars
  BY DEF Stall, vars
<1> QED
  BY <1>1, <1>2 DEF Turned

\* So does a blank,
LEMMA SpaceTurns ==
  ASSUME CursorInText, SkipWhiteSpaces
  PROVE  Turned
<1>1. Peek(1) /\ ~fault /\ cursor' = cursor + 1 /\ UNCHANGED <<text, calling, token, fault>>
  BY DEF SkipWhiteSpaces, Turn
<1>2. cursor' \in cursor .. Len(text) /\ cursor' > cursor
  BY <1>1 DEF CursorInText, Peek
<1> QED
  BY <1>1, <1>2 DEF Turned

\* each of the two comparisons,
LEMMA CompareTurns ==
  ASSUME CursorInText, NEW c \in {"<", ">"}, NEW kind, NEW content, NEW ACTION alone,
         alone => Answer(kind, content, cursor + 1), Compare(c, alone)
  PROVE  Turned
<1>1. ~fault /\ Peek(1) /\ text[cursor + 1] = c
  BY DEF Compare, Turn, Char
<1>2. Len(text) \in Nat /\ cursor \in Nat /\ cursor + 1 <= Len(text)
  BY <1>1 DEF CursorInText, Peek
<1>3. CASE ~Peek(2)
  <2>1. fault' = TRUE /\ UNCHANGED <<text, cursor, calling, token>>
    BY <1>3 DEF Compare, NullRead
  <2>2. cursor + 1 = Len(text)
    BY <1>2, <1>3 DEF Peek
  <2>3. AskedAfterEnd
    BY <1>1, <2>2 DEF AskedAfterEnd
  <2>4. cursor \in cursor .. Len(text)
    BY <1>2
  <2> QED
    BY <2>1, <2>3, <2>4 DEF Turned
<1>4. CASE Peek(2)
  <2>1. Word(2) \/ alone \/ Break
    BY <1>4 DEF Compare
  <2>2. cursor + 1 \in Nat /\ cursor + 1 > cursor
    BY <1>2
  <2> QED
    BY <1>1, <2>1, <2>2, WordTurns, TokenTurns, BreakTurns
<1> QED
  BY <1>3, <1>4

\* < and its combinations,
LEMMA LessTurns ==
  ASSUME CursorInText, Less
  PROVE  Turned
BY CompareTurns DEF Less, Word

\* > and its combinations,
LEMMA GreaterTurns ==
  ASSUME CursorInText, Greater
  PROVE  Turned
BY CompareTurns DEF Greater, Symbol

\* a sign, of a number or alone,
LEMMA SignTurns ==
  ASSUME CursorInText, Minus \/ Plus
  PROVE  Turned
<1>1. ~fault /\ Peek(1)
  BY DEF Minus, Plus, Turn
<1>2. Break \/ Word(1) \/ ParseNumber \/ Identifier("SYM_WORD", 0) \/ Stall
  BY DEF Minus, Plus
<1> QED
  BY <1>1, <1>2, BreakTurns, WordTurns, NumberTurns, IdentifierTurns, StallTurns

\* The lengths the atoms are forwarded over by.
LEMMA AtomLengths == \A k \in DOMAIN Atoms : Atoms[k][2] \in Nat \ {0}
<1> SUFFICES ASSUME NEW k \in DOMAIN Atoms
             PROVE  Atoms[k][2] \in Nat \ {0}
  OBVIOUS
<1>1. k \in {<<"n", "i">>, <<"u", "n">>, <<"u", "k">>, <<"t", ";">>, <<"f", ";">>}
  BY DEF Atoms
<1>2. Atoms[k] \in {<<"NIL", 5>>, <<"UNDEF", 7>>, <<"UKN", 5>>, <<"TRUE", 3>>, <<"FALSE", 3>>}
  BY <1>1, Zenon DEF Atoms
<1> QED
  BY <1>2

\* a hash,
LEMMA HashTurns ==
  ASSUME CursorInText, Hash
  PROVE  Turned
<1>1. ~fault /\ Peek(1)
  BY DEF Hash, Turn
<1>2. \/ Break \/ ToNewline("UNIX_SCRIPT_FIST_LINE") \/ Symbol(AfterHash[Char(2)], 2) \/ Stall
      \/ /\ <<Char(2), Char(3)>> \in DOMAIN Atoms
         /\ Symbol(Atoms[<<Char(2), Char(3)>>][1], Atoms[<<Char(2), Char(3)>>][2])
  BY DEF Hash
<1> QED
  BY <1>1, <1>2, BreakTurns, NewlineTurns, SymbolTurns, StallTurns, AtomLengths

\* a colon,
LEMMA ColonTurns ==
  ASSUME CursorInText, Colon
  PROVE  Turned
<1>1. ~fault /\ Peek(1)
  BY DEF Colon, Turn
<1>2. Break \/ Symbol("ASSIGN", 2) \/ Symbol("KV_PAIR_TAG", 1)
  BY DEF Colon
<1> QED
  BY <1>1, <1>2, BreakTurns, SymbolTurns

\* a prefix before dots, a bracket or a name,
LEMMA PrefixedTurns ==
  ASSUME CursorInText, ~fault, Peek(1), NEW dots, NEW brackets, NEW ACTION name, name => Turned,
         Prefixed(dots, brackets, name)
  PROVE  Turned
<1>1. \/ Break \/ Symbol(dots.dot, 2) \/ Symbol(dots.percent, 3) \/ Symbol(dots.tilde, 3)
      \/ Symbol(brackets[Char(2)], 1) \/ name
  BY DEF Prefixed
<1> QED
  BY <1>1, BreakTurns, SymbolTurns

\* a dollar,
LEMMA DollarTurns ==
  ASSUME CursorInText, Dollar
  PROVE  Turned
<1> DEFINE name ==
      IF Char(2) = "sq" THEN Quoted("SYM_STRING", 1, "sq") ELSE Identifier("SYM_IDENTIFIER", 1)
<1>1. ~fault /\ Peek(1) /\ Prefixed(DollarDot, AfterDollar, name)
  BY DEF Dollar, Turn
<1>2. name => Turned
  BY <1>1, QuotedTurns, IdentifierTurns
<1> QED
  BY <1>1, <1>2, PrefixedTurns

\* an at sign,
LEMMA AtTurns ==
  ASSUME CursorInText, At
  PROVE  Turned
<1>1. ~fault /\ Peek(1) /\ Prefixed(AtDot, AfterAt, Identifier("SYM_VARIABLE", 1))
  BY DEF At, Turn
<1>2. Identifier("SYM_VARIABLE", 1) => Turned
  BY <1>1, IdentifierTurns
<1> QED
  BY <1>1, <1>2, PrefixedTurns

\* a backquote,
LEMMA BackquoteTurns ==
  ASSUME CursorInText, Backquote
  PROVE  Turned
<1>1. ~fault /\ Peek(1)
  BY DEF Backquote, Turn
<1>2. \/ Break \/ ToNewline("COMMENT_SINGLE_LINE") \/ ParseMultiLineComment
      \/ Answer("EOF", <<>>, cursor + 1)
  BY DEF Backquote
<1>3. cursor + 1 \in Nat /\ cursor + 1 > cursor
  BY DEF CursorInText
<1> QED
  BY <1>1, <1>2, <1>3, BreakTurns, NewlineTurns, MultiLineTurns, TokenTurns

\* a slash,
LEMMA SlashTurns ==
  ASSUME CursorInText, Slash
  PROVE  Turned
<1>1. ~fault /\ Peek(1)
  BY DEF Slash, Turn
<1>2. Break \/ Word(1) \/ Symbol("GET_SLOT", 1)
  BY DEF Slash
<1> QED
  BY <1>1, <1>2, BreakTurns, WordTurns, SymbolTurns

\* Turns that look at one character only.
LEMMA PlainTurns ==
  ASSUME CursorInText,
         \/ FileEnd \/ OneChar \/ Star \/ Number \/ String \/ RawString \/ PrefixWord
         \/ SuffixWord \/ Name \/ Unknown
  PROVE  Turned
<1>1. CASE FileEnd \/ Unknown
  BY <1>1, BreakTurns DEF FileEnd, Unknown
<1>2. CASE OneChar
  BY <1>2, SymbolTurns DEF OneChar, Turn
<1>3. CASE Star
  BY <1>3, WordTurns DEF Star, Turn
<1>4. CASE Number
  BY <1>4, NumberTurns DEF Number, Turn
<1>5. CASE String \/ RawString
  BY <1>5, QuotedTurns DEF String, RawString, Turn
<1>6. CASE PrefixWord \/ SuffixWord \/ Name
  BY <1>6, IdentifierTurns DEF PrefixWord, SuffixWord, Name, Turn
<1> QED
  BY <1>1, <1>2, <1>3, <1>4, <1>5, <1>6

\* A call begins.
LEMMA CallTurns ==
  ASSUME CursorInText, Call
  PROVE  Turned
<1>1. cursor \in cursor .. Len(text)
  BY DEF CursorInText
<1> QED
  BY <1>1 DEF Call, Turned

\* and so every step.
LEMMA NextTurns ==
  ASSUME CursorInText, Next
  PROVE  Turned
BY CallTurns, PlainTurns, SpaceTurns, LessTurns, GreaterTurns, SignTurns, HashTurns, ColonTurns,
   DollarTurns, AtTurns, BackquoteTurns, SlashTurns DEF Next

-----------------------------------------------------------------------------
(***************************************************************************)
(* The theorems.  The invariant: the cursor is in the text, a null was     *)
(* read only past its end, and each token answered has taken a character.  *)
(***************************************************************************)
\* A token answered has taken a character, but for the EOF that ends the text.
TokensPaid ==
  /\ IsText(given)
  /\ Len(given) <= cursor + (IF Ended THEN 1 ELSE 0)

Inv == CursorInText /\ (fault => AskedAfterEnd) /\ TokensPaid

\* A text has no more tokens than characters, and its EOF.
TokensFitText == Len(given) <= Len(text) + 1

\* A sequence of anything is a text.
LEMMA SequencesAreTexts ==
  ASSUME NEW S, NEW t \in Seq(S)
  PROVE  IsText(t)
<1>1. \A i \in 1 .. Len(t) : t[i] \in Range(t)
  BY DEF Range
<1> QED
  BY <1>1 DEF IsText

\* Texts one after the other are a text.
LEMMA TextsJoin ==
  ASSUME NEW s, NEW t, IsText(s), IsText(t)
  PROVE  IsText(s \o t)
<1> DEFINE S == Range(s) \cup Range(t)
<1>1. s \in Seq(S) /\ t \in Seq(S)
  BY DEF IsText
<1> HIDE DEF S
<1>2. s \o t \in Seq(S)
  BY <1>1
<1> QED
  BY <1>2, SequencesAreTexts

\* The characters around a text, and between phrases, are texts.
LEMMA ShortTexts ==
  ASSUME NEW a, NEW b
  PROVE  IsText(<<>>) /\ IsText(<<a>>) /\ IsText(<<a, b>>)
<1>1. <<>> \in Seq({a, b}) /\ <<a>> \in Seq({a, b}) /\ <<a, b>> \in Seq({a, b})
  OBVIOUS
<1> QED
  BY <1>1, SequencesAreTexts

\* The invariant holds in the initial states,
LEMMA InitInv ==
  ASSUME PhraseInit \/ TextInit
  PROVE  Inv
<1>1. IsText(text)
  <2>1. CASE PhraseInit
    <3>1. PICK p \in Phrases, q \in Phrases, apart \in BOOLEAN :
            text = InFile(p.chars \o (IF apart THEN <<" ">> ELSE <<>>) \o q.chars)
      BY <2>1 DEF PhraseInit
    <3> DEFINE gap == IF apart THEN <<" ">> ELSE <<>>
    <3>2. IsText(p.chars) /\ IsText(q.chars)
      BY TextsAssumption DEF TextsAssumption
    <3>3. IsText(gap)
      BY ShortTexts
    <3> HIDE DEF gap
    <3>4. IsText(p.chars \o gap \o q.chars)
      BY <3>2, <3>3, TextsJoin
    <3>5. IsText(<<"[">> \o (p.chars \o gap \o q.chars))
      BY <3>4, ShortTexts, TextsJoin
    <3>6. IsText(<<"[">> \o (p.chars \o gap \o q.chars) \o <<"\n", "]">>)
      BY <3>5, ShortTexts, TextsJoin
    <3> QED
      BY <3>1, <3>6 DEF gap, InFile
  <2>2. CASE TextInit
    BY <2>2, TextsAssumption DEF TextInit, TextsAssumption
  <2> QED
    BY <2>1, <2>2
<1>2. cursor = 0 /\ ~fault /\ given = <<>>
  BY DEF PhraseInit, TextInit, Start
<1>3. TokensPaid
  <2>1. IsText(given)
    BY <1>2, ShortTexts
  <2>2. Len(given) = 0
    BY <1>2
  <2>3. (IF Ended THEN 1 ELSE 0) \in {0, 1}
    OBVIOUS
  <2> QED
    BY <1>2, <2>1, <2>2, <2>3 DEF TokensPaid
<1>4. Len(text) \in Nat
  BY <1>1 DEF IsText
<1> QED
  BY <1>1, <1>2, <1>3, <1>4 DEF Inv, CursorInText

\* A turn is taken in a call, and a call before EOF is answered.
LEMMA NextGoesOn ==
  ASSUME Next
  PROVE  ~Ended /\ ~fault
<1>1. calling \/ token # Eof
  BY DEF Next, Call, FileEnd, SkipWhiteSpaces, OneChar, Star, Less, Greater, Compare, Minus, Plus,
         Number, Hash, Colon, String, RawString, Dollar, At, PrefixWord, SuffixWord, Name,
         Backquote, Slash, Unknown, Turn
<1>2. ~fault
  BY DEF Next, Call, FileEnd, SkipWhiteSpaces, OneChar, Star, Less, Greater, Compare, Minus, Plus,
         Number, Hash, Colon, String, RawString, Dollar, At, PrefixWord, SuffixWord, Name,
         Backquote, Slash, Unknown, Turn
<1> QED
  BY <1>1, <1>2 DEF Ended

\* Where a turn that changes nothing is taken.
AtPlusOrHash ==
  /\ calling /\ Peek(2)
  /\ \/ Char(1) = "+" /\ Char(2) \notin Spaces \cup Digits
     \/ Char(1) = "#" /\ Char(2) \notin DOMAIN AfterHash \cup {"!"}

\* A call that answers, and a read past the end, change something.
LEMMA AnswerChanges ==
  ASSUME calling, ~fault, NEW kind, NEW content, NEW to, Answer(kind, content, to) \/ NullRead
  PROVE  ~UNCHANGED vars
<1> SUFFICES ASSUME UNCHANGED vars PROVE FALSE
  OBVIOUS
<1>1. calling' = calling /\ fault' = fault
  BY DEF vars
<1>2. CASE Answer(kind, content, to)
  <2>1. calling' = FALSE
    BY <1>2 DEF Answer
  <2>2. calling = FALSE
    BY <1>1, <2>1
  <2> QED
    BY <2>2
<1>3. CASE NullRead
  <2>1. fault' = TRUE
    BY <1>3 DEF NullRead
  <2>2. fault = TRUE
    BY <1>1, <2>1
  <2> QED
    BY <2>2
<1> QED
  BY <1>2, <1>3

\* Every turn but those of a plus and a hash changes something.
LEMMA OthersChange ==
  ASSUME CursorInText,
         \/ Call \/ FileEnd \/ SkipWhiteSpaces \/ OneChar \/ Star \/ Less \/ Greater \/ Minus
         \/ Number \/ Colon \/ String \/ RawString \/ Dollar \/ At \/ PrefixWord \/ SuffixWord
         \/ Name \/ Backquote \/ Slash \/ Unknown
  PROVE  ~UNCHANGED vars
<1>1. CASE Call
  BY <1>1 DEF Call, vars
<1>2. CASE SkipWhiteSpaces
  BY <1>2 DEF SkipWhiteSpaces, CursorInText, vars
<1>3. CASE FileEnd \/ OneChar \/ Star \/ Number \/ Unknown \/ Slash \/ Colon
  BY <1>3, AnswerChanges
     DEF FileEnd, OneChar, Star, Number, Unknown, Slash, Colon, Turn, Break, Symbol, Word, ParseNumber
<1>4. CASE Less \/ Greater
  BY <1>4, AnswerChanges DEF Less, Greater, Compare, Turn, Break, Symbol, Word
<1>5. CASE Minus \/ PrefixWord \/ SuffixWord \/ Name
  BY <1>5, AnswerChanges
     DEF Minus, PrefixWord, SuffixWord, Name, Turn, Break, Word, ParseNumber, Identifier
<1>6. CASE String \/ RawString
  BY <1>6, AnswerChanges DEF String, RawString, Turn, Quoted
<1>7. CASE Dollar
  BY <1>7, AnswerChanges DEF Dollar, Prefixed, Turn, Break, Symbol, Quoted, Identifier
<1>8. CASE At
  BY <1>8, AnswerChanges DEF At, Prefixed, Turn, Break, Symbol, Identifier
<1>9. CASE Backquote
  BY <1>9, AnswerChanges DEF Backquote, Turn, Break, ToNewline, ParseMultiLineComment
<1> QED
  BY <1>1, <1>2, <1>3, <1>4, <1>5, <1>6, <1>7, <1>8, <1>9

\* A turn of the loop that leaves everything as it was, and is taken again, is at a
\* plus without a number, or at a hash with none of the characters known after it.
THEOREM StallsAtPlusOrHash ==
  ASSUME CursorInText, Next, UNCHANGED vars
  PROVE  AtPlusOrHash
<1>1. Plus \/ Hash
  BY OthersChange DEF Next
<1>2. CASE Plus
  BY <1>2, AnswerChanges DEF Plus, Turn, Break, Word, ParseNumber, AtPlusOrHash
<1>3. CASE Hash
  <2>1. Peek(3) => Peek(2)
    BY DEF Peek, CursorInText
  <2>2. calling /\ ~fault /\ Char(1) = "#"
    BY <1>3 DEF Hash, Turn
  <2>3. Peek(3) /\ Char(2) \notin DOMAIN AfterHash \cup {"!"}
    BY <1>3, <2>2, AnswerChanges DEF Hash, Break, ToNewline, Symbol
  <2> QED
    BY <2>1, <2>2, <2>3 DEF AtPlusOrHash
<1> QED
  BY <1>1, <1>2, <1>3

\* A sequence stays one when an element is added.
LEMMA TextsGrow ==
  ASSUME NEW s, NEW e, IsText(s)
  PROVE  IsText(Append(s, e)) /\ Len(Append(s, e)) = Len(s) + 1
<1> DEFINE S == Range(s) \cup {e}
<1>1. s \in Seq(S) /\ e \in S
  BY DEF IsText
<1> HIDE DEF S
<1>2. Append(s, e) \in Seq(S) /\ Len(Append(s, e)) = Len(s) + 1
  BY <1>1
<1> QED
  BY <1>2, SequencesAreTexts

\* and every step keeps it and takes text for each token.
LEMMA NextInv ==
  ASSUME Inv, [ParseNext]_allVars
  PROVE  Inv' /\ (calling /\ ~calling' /\ token' # Eof => cursor' > cursor)
<1>1. CASE UNCHANGED allVars
  BY <1>1 DEF Inv, CursorInText, AskedAfterEnd, TokensPaid, Ended, allVars, vars
<1>2. CASE ParseNext
  <2>1. Next /\ given' = (IF calling /\ ~calling' THEN Append(given, token') ELSE given)
    BY <1>2 DEF ParseNext
  <2>2. Turned /\ ~Ended /\ ~fault
    BY <2>1, NextTurns, NextGoesOn DEF Inv
  <2>3. CursorInText'
    BY <2>2 DEF Inv, CursorInText, Turned
  <2>4. fault' => AskedAfterEnd'
    BY <2>2 DEF Turned, AskedAfterEnd
  <2>5. IsText(given) /\ Len(given) <= cursor
    BY <2>2 DEF Inv, TokensPaid, CursorInText
  <2>6. Len(given) \in Nat /\ cursor \in Nat /\ cursor' \in Nat /\ cursor' >= cursor
    BY <2>2, <2>5 DEF Inv, CursorInText, Turned
  <2>7. TokensPaid'
    <3>1. CASE calling /\ ~calling'
      <4>1. /\ IsText(given')
            /\ Len(given') = Len(given) + 1
        BY <2>1, <2>5, <3>1, TextsGrow
      <4>2. CASE token' = Eof
        BY <2>5, <2>6, <3>1, <4>1, <4>2 DEF TokensPaid, Ended, Eof, Token
      <4>3. CASE token' # Eof
        <5>1. cursor' > cursor
          BY <2>2, <3>1, <4>3 DEF Turned
        <5>2. Len(given') <= cursor'
          BY <2>5, <2>6, <4>1, <5>1
        <5>3. ~Ended'
          BY <4>3 DEF Ended, Eof, Token
        <5> QED
          BY <4>1, <5>2, <5>3, <2>6 DEF TokensPaid
      <4> QED
        BY <4>2, <4>3
    <3>2. CASE ~(calling /\ ~calling')
      BY <2>1, <2>5, <2>6, <3>2 DEF TokensPaid
    <3> QED
      BY <3>1, <3>2
  <2> QED
    BY <2>2, <2>3, <2>4, <2>7 DEF Inv, Turned
<1> QED
  BY <1>1, <1>2

\* Whatever the text, every character looked at is one PeekChars gave, but for
\* the one after a `<' or `>' that ends the text.
THEOREM NullReadAtEnd == Spec => []NullOnlyAtEnd
<1>1. Inv => NullOnlyAtEnd
  BY DEF Inv, AskedAfterEnd, NullOnlyAtEnd, Last
<1> QED
  BY <1>1, InitInv, NextInv, PTL DEF Spec

\* Whatever the text, a call that answers a token has read a character of it.
THEOREM CallsTakeText == Spec => TokensTakeText
<1>1. Inv /\ [ParseNext]_allVars
        => [calling /\ ~calling' /\ token' # Eof => cursor' > cursor]_allVars
  BY NextInv
<1> QED
  BY <1>1, InitInv, NextInv, PTL DEF Spec, TokensTakeText

\* The loop of KSON_Parse is given no more tokens than the text has characters,
\* and EOF.
THEOREM TextBoundsTokens == Spec => []TokensFitText
<1>1. Inv => TokensFitText
  <2> SUFFICES ASSUME Inv
               PROVE  TokensFitText
    OBVIOUS
  <2>1. Len(given) \in Nat /\ Len(text) \in Nat /\ cursor \in 0 .. Len(text)
    BY DEF Inv, TokensPaid, CursorInText
  <2> QED
    BY <2>1 DEF Inv, TokensPaid, TokensFitText
<1> QED
  BY <1>1, InitInv, NextInv, PTL DEF Spec

\* The turns and calls still to come, but for turns that change nothing.
TurnsLeft ==
  2 * (Len(text) - cursor) + (IF fault THEN 0 ELSE IF calling THEN 1 ELSE IF token # Eof THEN 2 ELSE 0)

\* Each turn and each call that changes anything brings the end nearer.
TurnsDwindle ==
  [][TurnsLeft' < TurnsLeft /\ TurnsLeft' \in Nat /\ TurnsLeft \in Nat]_allVars

\* The arithmetic of it.
LEMMA Dwindles ==
  ASSUME NEW n \in Nat, NEW c \in 0 .. n, NEW d \in c .. n, NEW r \in 0 .. 2, NEW s \in 0 .. 2,
         s < r \/ (d > c /\ s <= r + 1)
  PROVE  2 * (n - c) + r \in Nat /\ 2 * (n - d) + s \in Nat /\ 2 * (n - d) + s < 2 * (n - c) + r
OBVIOUS

\* No text keeps KSON_Parse going for more than twice as many turns as it has
\* characters, and two, but for turns that change nothing (StallsAtPlusOrHash).
THEOREM TurnsBounded == Spec => TurnsDwindle
<1>1. ASSUME Inv, [ParseNext]_allVars
      PROVE  [TurnsLeft' < TurnsLeft /\ TurnsLeft' \in Nat /\ TurnsLeft \in Nat]_allVars
  <2> SUFFICES ASSUME ParseNext, ~UNCHANGED allVars
               PROVE  TurnsLeft \in Nat /\ TurnsLeft' \in Nat /\ TurnsLeft' < TurnsLeft
    BY <1>1
  <2>1. Next /\ Turned /\ ~Ended /\ ~fault /\ written' = written
        /\ given' = (IF calling /\ ~calling' THEN Append(given, token') ELSE given)
    BY <1>1, NextTurns, NextGoesOn DEF ParseNext, Inv
  <2>2. /\ cursor \in Nat /\ cursor' \in Nat /\ Len(text) \in Nat /\ cursor <= Len(text)
        /\ cursor <= cursor' /\ cursor' <= Len(text) /\ text' = text
    BY <1>1, <2>1 DEF Inv, CursorInText, Turned
  <2> DEFINE rank == IF fault THEN 0 ELSE IF calling THEN 1 ELSE IF token # Eof THEN 2 ELSE 0
  <2>3. rank = IF calling THEN 1 ELSE 2
    BY <2>1 DEF Ended
  <2>4. rank' \in {0, 1, 2}
    OBVIOUS
  <2>5. (rank' < rank) \/ (cursor' > cursor /\ rank' <= rank + 1)
    <3>1. CASE ~calling
      <4>1. calling' = TRUE
        BY <2>1, <3>1 DEF Next, Call, FileEnd, SkipWhiteSpaces, OneChar, Star, Less, Greater,
           Compare, Minus, Plus, Number, Hash, Colon, String, RawString, Dollar, At, PrefixWord,
           SuffixWord, Name, Backquote, Slash, Unknown, Turn
      <4> QED
        BY <2>3, <3>1, <4>1
    <3>2. CASE calling /\ calling'
      <4>1. ~UNCHANGED vars
        BY <2>1, <3>2 DEF allVars
      <4> QED
        BY <2>1, <2>3, <3>2, <4>1 DEF Turned
    <3>3. CASE calling /\ ~calling'
      BY <2>1, <2>3, <2>4, <3>3 DEF Turned
    <3> QED
      BY <3>1, <3>2, <3>3
  <2>6. TurnsLeft = 2 * (Len(text) - cursor) + rank /\ TurnsLeft' = 2 * (Len(text) - cursor') + rank'
    BY <2>2 DEF TurnsLeft
  <2>7. cursor \in 0 .. Len(text) /\ cursor' \in cursor .. Len(text) /\ rank \in 0 .. 2 /\ rank' \in 0 .. 2
    BY <2>2, <2>4
  <2> HIDE DEF rank
  <2> QED
    BY <2>2, <2>5, <2>6, <2>7, Dwindles
<1> QED
  BY <1>1, InitInv, NextInv, PTL DEF Spec, TurnsDwindle
=============================================================================
