----------------------------- MODULE KonTokenizer -----------------------------
(***************************************************************************)
(* core/kson/tokenizer.c: KSON_TokenizerNext, called by KSON_Parse until   *)
(* it answers EOF.  An action is one turn of its loop: it looks at the     *)
(* next character and at up to two after it, and takes a token, or a       *)
(* space, or nothing.  A turn that takes nothing ends the call with EOF    *)
(* where the code breaks, and is taken again where it does not.            *)
(*                                                                         *)
(* Letters and digits stand for the ones that are told apart; a quote, a   *)
(* double quote and a backquote are "sq", "dq" and "bq".  Rows, columns    *)
(* and the parts of a number are left out.                                 *)
(***************************************************************************)
EXTENDS Integers, SequencesExt

VARIABLES text,     \* codeString, a sequence of characters
          cursor,   \* readCursor
          calling,  \* in a call of KSON_TokenizerNext
          token,    \* tokenKind and content
          fault     \* a null pointer was read

vars == <<text, cursor, calling, token, fault>>

Spaces == {" ", "\n"}
Digits == {"0", "1"}
Letters == {"a", "e", "f", "i", "k", "l", "n", "t", "u", "_"}
StopWords ==
  {"=", ":", "%", ".", "/", "|", "!", "#", "$", "@", "<", ">", "[", "]", "(", ")", "{", "}", ";"}
NumberStops == {":", "%", "|", "!", "[", "]", "(", ")", "{", "}", "<", ">", ";"}

Token(kind, content) == [kind |-> kind, content |-> content]
Eof == Token("EOF", <<>>)

\* Characters that are a token whatever follows.
Alone ==
  ("(" :> "PARAM_START") @@ (")" :> "TABLE_END") @@ ("[" :> "LIST_START") @@
  ("]" :> "LIST_END") @@ ("{" :> "CELL_START") @@ ("}" :> "CELL_END") @@ ("%" :> "APPLY") @@
  ("=" :> "EQUAL") @@ ("." :> "MSG_SIGNAL") @@ ("|" :> "PROC_PIPE") @@ (";" :> "CLAUSE_END")

AfterHash == ("<" :> "VECTOR_START") @@ ("[" :> "BLOCK_START") @@ ("(" :> "TABLE_START") @@
             ("{" :> "MAP_START")

\* #nil; #undef; #ukn; #t; #f; are told by their first characters, and forwarded
\* over by their length.
Atoms ==
  [k \in {<<"n", "i">>, <<"u", "n">>, <<"u", "k">>, <<"t", ";">>, <<"f", ";">>} |->
     CASE k = <<"n", "i">> -> <<"NIL", 5>>
       [] k = <<"u", "n">> -> <<"UNDEF", 7>>
       [] k = <<"u", "k">> -> <<"UKN", 5>>
       [] k = <<"t", ";">> -> <<"TRUE", 3>>
       [] k = <<"f", ";">> -> <<"FALSE", 3>>]

AfterDollar == ("{" :> "QUOTE_CELL") @@ ("[" :> "QUOTE_LIST")
AfterAt == ("{" :> "QUASI_CELL") @@ ("[" :> "QUASI_LIST")
DollarDot == [dot |-> "UNQUOTE_REPLACE", percent |-> "UNQUOTE_KV", tilde |-> "UNQUOTE_SEQ"]
AtDot == [dot |-> "EXPAND_REPLACE", percent |-> "EXPAND_KV", tilde |-> "EXPAND_SEQ"]

(***************************************************************************)
(* Peeking and forwarding.                                                 *)
(***************************************************************************)
\* PeekChars(n) is not null.
Peek(n) == cursor + n <= Len(text)
Char(n) == text[cursor + n]

\* Where the characters from a position on meet one of the stops, or the end.
Until(from, stops) ==
  LET at == {i \in from .. Len(text) : text[i] \in stops}
  IN  IF at = {} THEN Len(text) + 1 ELSE Min(at)

Turn(c) == calling /\ ~fault /\ Peek(1) /\ Char(1) = c

\* The call answers a token, the characters up to `to' read.
Answer(kind, content, to) ==
  /\ token' = Token(kind, content)
  /\ cursor' = Min({to, Len(text)})
  /\ calling' = FALSE
  /\ UNCHANGED <<text, fault>>

\* A mutant: the characters are only peeked at.
SymbolPeeked(kind, n) == Answer(kind, <<>>, cursor)

Symbol(kind, n) == Answer(kind, <<>>, cursor + n)
Word(n) == Answer("SYM_WORD", SubSeq(text, cursor + 1, cursor + n), cursor + n)

\* ParseIdentifier, n characters on: the first character is taken whatever it is.
Identifier(kind, n) ==
  LET end == Until(cursor + n + 2, Spaces \cup StopWords)
  IN  Answer(kind, SubSeq(text, cursor + n + 1, end - 1), end - 1)

\* A mutant: a number stops at a dot, as an identifier does.
ParseNumberToStop ==
  LET end == Until(cursor + 2, Spaces \cup StopWords)
  IN  Answer("NUMBER", SubSeq(text, cursor + 1, end - 1), end - 1)

ParseNumber ==
  LET end == Until(cursor + 2, Spaces \cup NumberStops)
  IN  Answer("NUMBER", SubSeq(text, cursor + 1, end - 1), end - 1)

\* ParseString and ParseRawString, n characters on.
Quoted(kind, n, quote) ==
  LET end == Until(cursor + n + 2, {quote})
  IN  Answer(kind, SubSeq(text, cursor + n + 2, end - 1), end)

\* SkipUnixScriptFistLine and ParseSingleLineComment leave the newline.
ToNewline(kind) ==
  LET end == Until(cursor + 3, {"\n"})
  IN  Answer(kind, <<>>, end - 1)

ParseMultiLineComment ==
  LET ends == {i \in (cursor + 4) .. Len(text) : text[i - 1] = "*" /\ text[i] = "bq"}
  IN  Answer("COMMENT_MULTI_LINE", <<>>, IF ends = {} THEN Len(text) ELSE Min(ends))

\* The loop is left with no token; a turn changed nothing; a null was read.
Break == Answer("EOF", <<>>, cursor)
Stall == UNCHANGED vars
NullRead == fault' = TRUE /\ UNCHANGED <<text, cursor, calling, token>>

-------------------------------------------------------------------------------
(***************************************************************************)
(* The turns.                                                              *)
(***************************************************************************)
Call ==
  /\ ~calling /\ ~fault /\ token # Eof
  /\ calling' = TRUE /\ token' = Eof
  /\ UNCHANGED <<text, cursor, fault>>

FileEnd == calling /\ ~fault /\ ~Peek(1) /\ Break

SkipWhiteSpaces ==
  \E c \in Spaces :
    /\ Turn(c)
    /\ cursor' = cursor + 1
    /\ UNCHANGED <<text, calling, token, fault>>

OneChar == \E c \in DOMAIN Alone : Turn(c) /\ Symbol(Alone[c], 1)
Star == Turn("*") /\ Word(1)

Compare(c, alone) ==
  /\ Turn(c)
  /\ IF ~Peek(2) THEN NullRead
     ELSE CASE Char(2) = "=" -> Word(2)
            [] Char(2) \in (Spaces \cup StopWords) \ {"="} -> alone
            [] OTHER -> Break

Less == Compare("<", Word(1))
Greater == Compare(">", Symbol("VECTOR_END", 1))

\* A mutant: the null is not tested for.
MinusUntested ==
  /\ Turn("-")
  /\ CASE ~Peek(2) -> NullRead
       [] Peek(2) /\ Char(2) \in Spaces -> Word(1)
       [] Peek(2) /\ Char(2) \in Digits -> ParseNumber
       [] OTHER -> Identifier("SYM_WORD", 0)

Minus ==
  /\ Turn("-")
  /\ CASE ~Peek(2) -> Break
       [] Peek(2) /\ Char(2) \in Spaces -> Word(1)
       [] Peek(2) /\ Char(2) \in Digits -> ParseNumber
       [] OTHER -> Identifier("SYM_WORD", 0)

Plus ==
  /\ Turn("+")
  /\ CASE ~Peek(2) -> Break
       [] Peek(2) /\ Char(2) \in Spaces -> Word(1)
       [] Peek(2) /\ Char(2) \in Digits -> ParseNumber
       [] OTHER -> Stall

Number == \E c \in Digits : Turn(c) /\ ParseNumber

Hash ==
  /\ Turn("#")
  /\ CASE ~Peek(3) -> Break
       [] Peek(3) /\ Char(2) = "!" -> ToNewline("UNIX_SCRIPT_FIST_LINE")
       [] Peek(3) /\ Char(2) \in DOMAIN AfterHash -> Symbol(AfterHash[Char(2)], 2)
       [] Peek(3) /\ <<Char(2), Char(3)>> \in DOMAIN Atoms ->
            Symbol(Atoms[<<Char(2), Char(3)>>][1], Atoms[<<Char(2), Char(3)>>][2])
       [] OTHER -> Stall

Colon ==
  /\ Turn(":")
  /\ CASE ~Peek(3) -> Break
       [] Peek(3) /\ Char(2) = "=" -> Symbol("ASSIGN", 2)
       [] OTHER -> Symbol("KV_PAIR_TAG", 1)

String == Turn("dq") /\ Quoted("STRING", 0, "dq")
RawString == Turn("sq") /\ Quoted("RAW_STRING", 0, "sq")

\* $ and @ before a dot, before %. or ~., before a bracket, or before a name.
Prefixed(dots, brackets, name) ==
  CASE ~Peek(3) -> Break
    [] Peek(3) /\ Char(2) = "." -> Symbol(dots.dot, 2)
    [] Peek(3) /\ Char(2) = "%" /\ Char(3) = "." -> Symbol(dots.percent, 3)
    [] Peek(3) /\ Char(2) = "~" /\ Char(3) = "." -> Symbol(dots.tilde, 3)
    [] Peek(3) /\ Char(2) \in DOMAIN brackets -> Symbol(brackets[Char(2)], 1)
    [] OTHER -> name

Dollar ==
  /\ Turn("$")
  /\ Prefixed(DollarDot, AfterDollar,
              IF Char(2) = "sq" THEN Quoted("SYM_STRING", 1, "sq") ELSE Identifier("SYM_IDENTIFIER", 1))

At == Turn("@") /\ Prefixed(AtDot, AfterAt, Identifier("SYM_VARIABLE", 1))

PrefixWord == Turn("!") /\ Identifier("SYM_PREFIX_WORD", 1)
SuffixWord == Turn("^") /\ Identifier("SYM_SUFFIX_WORD", 1)
Name == \E c \in Letters : Turn(c) /\ Identifier("SYM_WORD", 0)

\* A mutant: a lone backquote is not forwarded over, and the turn taken again.
BackquoteAgain ==
  /\ Turn("bq")
  /\ CASE ~Peek(3) -> Break
       [] Peek(3) /\ Char(2) = "bq" -> ToNewline("COMMENT_SINGLE_LINE")
       [] Peek(3) /\ Char(2) = "*" -> ParseMultiLineComment
       [] OTHER -> Stall

Backquote ==
  /\ Turn("bq")
  /\ CASE ~Peek(3) -> Break
       [] Peek(3) /\ Char(2) = "bq" -> ToNewline("COMMENT_SINGLE_LINE")
       [] Peek(3) /\ Char(2) = "*" -> ParseMultiLineComment
       [] OTHER -> Answer("EOF", <<>>, cursor + 1)

Slash ==
  /\ Turn("/")
  /\ CASE ~Peek(3) -> Break
       [] Peek(3) /\ Char(2) \in Spaces -> Word(1)
       [] OTHER -> Symbol("GET_SLOT", 1)

Known == Spaces \cup DOMAIN Alone \cup Digits \cup Letters \cup
  {"*", "<", ">", "-", "+", "#", ":", "dq", "sq", "$", "@", "!", "^", "bq", "/"}

Unknown == calling /\ ~fault /\ Peek(1) /\ Char(1) \notin Known /\ Break

Next ==
  \/ Call \/ FileEnd \/ SkipWhiteSpaces \/ OneChar \/ Star \/ Less \/ Greater
  \/ Minus \/ Plus \/ Number \/ Hash \/ Colon \/ String \/ RawString \/ Dollar \/ At
  \/ PrefixWord \/ SuffixWord \/ Name \/ Backquote \/ Slash \/ Unknown

\* KSON_TokenizerInit and KSON_TokenizerBegin.
Start ==
  /\ cursor = 0
  /\ calling = FALSE
  /\ token = Token("NONE", <<>>)
  /\ fault = FALSE
================================================================================
