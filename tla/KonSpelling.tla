------------------------------ MODULE KonSpelling ------------------------------
(***************************************************************************)
(* How the tokens of kson/tokenizer.h are spelled, and what is then to     *)
(* come of a text: the tokens that were spelled.  A phrase is a few        *)
(* characters and the tokens they spell, most often one.  KSON_Parse calls *)
(* the tokenizer until it answers EOF; `given' are its answers.            *)
(***************************************************************************)
EXTENDS KonTokenizer

CONSTANTS Phrases,  \* what texts are spelled with
          Texts     \* texts of any characters

IsText(t) == t \in Seq(Range(t))

ASSUME TextsAssumption ==
  /\ \A p \in Phrases : IsText(p.chars)
  /\ \A t \in Texts : IsText(t)

VARIABLES written,  \* the tokens the text spells
          given     \* the tokens answered so far

allVars == <<vars, written, given>>

Phrase(chars, tokens) == [chars |-> chars, tokens |-> tokens]

\* A phrase of one token without content.
Mark(chars, kind) == Phrase(chars, <<Token(kind, <<>>)>>)

\* A word, a number and a closing bracket end where such a phrase begins.
Glues(p, q) ==
  LET last == Last(p.tokens).kind
      first == Head(q.chars)
  IN  \/ last \in {"SYM_WORD", "SYM_IDENTIFIER", "SYM_VARIABLE", "SYM_PREFIX_WORD"}
         /\ Head(p.chars) \in Letters \cup {"$", "@", "!"} /\ first \in StopWords
      \/ last = "NUMBER" /\ first \in NumberStops
      \/ last \in {"LIST_START", "LIST_END", "TABLE_END", "CELL_END"}

\* KSON_ReaderFromFile puts a file in brackets, the last on a line of its own: of
\* the two characters it has for the head, NPrependCstr is told to take one.
InFile(chars) == <<"[">> \o chars \o <<"\n", "]">>

FileTokens(tokens) == <<Token("LIST_START", <<>>)>> \o tokens \o <<Token("LIST_END", <<>>)>>

\* A comment is a token, and the reader's to skip.
PhraseInit ==
  /\ \E p \in Phrases, q \in Phrases, apart \in BOOLEAN :
       /\ ~apart => Glues(p, q)
       /\ text = InFile(p.chars \o (IF apart THEN <<" ">> ELSE <<>>) \o q.chars)
       /\ written = FileTokens(p.tokens \o q.tokens)
  /\ given = <<>>
  /\ Start

TextInit == text \in Texts /\ written = <<>> /\ given = <<>> /\ Start

ParseNext ==
  /\ Next
  /\ given' = IF calling /\ ~calling' THEN Append(given, token') ELSE given
  /\ UNCHANGED written

\* The loop of the call is never left alone, and neither is that of KSON_Parse.
Spec == (PhraseInit \/ TextInit) /\ [][ParseNext]_allVars /\ WF_allVars(ParseNext)

-------------------------------------------------------------------------------
(***************************************************************************)
(* Properties.                                                             *)
(***************************************************************************)
\* No character is looked at that PeekChars did not give, but for the one after
\* a `<' or `>' that ends the text; a file ends in its bracket.
NullOnlyAtEnd == fault => Last(text) \in {"<", ">"}

Ended == ~calling /\ token = Eof

\* The tokens answered are the ones written, in their order, all of them.
TokensReadBack ==
  written # <<>> =>
    /\ IsPrefix(given, written \o <<Eof>>)
    /\ Ended => given = written \o <<Eof>>

\* A token takes at least a character, so a text has no more tokens than that.
TokensTakeText == [][calling /\ ~calling' /\ token' # Eof => cursor' > cursor]_allVars

\* Every text that is spelled comes to its EOF, and no text hangs the reader but
\* at a plus without a number, or at a hash without one of the brackets or
\* letters known to come after it.
HangsOnlyAtPlusOrHash ==
  \/ <>Ended
  \/ /\ written = <<>>
     /\ \/ <>fault
        \/ <>[](/\ calling /\ Peek(2)
                /\ \/ Char(1) = "+" /\ Char(2) \notin Spaces \cup Digits
                   \/ Char(1) = "#" /\ Char(2) \notin DOMAIN AfterHash \cup {"!"})
================================================================================
