---------------------------- MODULE MCKonTokenizer ----------------------------
(***************************************************************************)
(* The texts KonTokenizer is checked on: two phrases, apart or together,   *)
(* and any three characters, in the brackets of a file.                    *)
(***************************************************************************)
EXTENDS KonSpelling

Named(chars, kind, content) == Phrase(chars, <<Token(kind, content)>>)

Words ==
  {Named(w, "SYM_WORD", w) : w \in {<<"a">>, <<"a", "-", "1">>, <<"+">>, <<"-">>, <<"*">>, <<"/">>,
                                    <<"<">>, <<"<", "=">>, <<">", "=">>, <<"-", "a">>}} \cup
  {Named(<<"$", "a">>, "SYM_IDENTIFIER", <<"a">>), Named(<<"@", "a">>, "SYM_VARIABLE", <<"a">>),
   Named(<<"!", "a">>, "SYM_PREFIX_WORD", <<"a">>), Named(<<"^", "a">>, "SYM_SUFFIX_WORD", <<"a">>),
   Named(<<"$", "sq", "a", " ", "sq">>, "SYM_STRING", <<"a", " ">>)}

Literals ==
  {Named(n, "NUMBER", n) : n \in {<<"1">>, <<"-", "1">>, <<"+", "1", "0">>, <<"1", ".", "0">>}} \cup
  {Named(<<"dq", "]", "dq">>, "STRING", <<"]">>), Named(<<"sq", "sq">>, "RAW_STRING", <<>>),
   Mark(<<"#", "n", "i", "l", ";">>, "NIL"), Mark(<<"#", "u", "n", "e", "e", "f", ";">>, "UNDEF"),
   Mark(<<"#", "u", "k", "n", ";">>, "UKN"), Mark(<<"#", "t", ";">>, "TRUE"),
   Mark(<<"#", "f", ";">>, "FALSE")}

Marks ==
  {Mark(<<c>>, Alone[c]) : c \in DOMAIN Alone} \cup
  {Mark(<<"#", c>>, AfterHash[c]) : c \in DOMAIN AfterHash} \cup
  {Mark(<<">">>, "VECTOR_END"), Mark(<<":">>, "KV_PAIR_TAG"), Mark(<<":", "=">>, "ASSIGN"),
   Mark(<<"$", ".">>, "UNQUOTE_REPLACE"), Mark(<<"$", "%", ".">>, "UNQUOTE_KV"),
   Mark(<<"$", "~", ".">>, "UNQUOTE_SEQ"), Mark(<<"@", ".">>, "EXPAND_REPLACE"),
   Mark(<<"@", "%", ".">>, "EXPAND_KV"), Mark(<<"@", "~", ".">>, "EXPAND_SEQ"),
   Mark(<<"bq", "bq", "]", "\n">>, "COMMENT_SINGLE_LINE"),
   Mark(<<"bq", "*", "]", "*", "bq">>, "COMMENT_MULTI_LINE"),
   Mark(<<"#", "!", "]", "\n">>, "UNIX_SCRIPT_FIST_LINE")}

Both(chars, kinds) == Phrase(chars, [i \in DOMAIN kinds |-> Token(kinds[i], <<>>)])

Quotes ==
  {Both(<<"$", "[">>, <<"QUOTE_LIST", "LIST_START">>), Both(<<"$", "{">>, <<"QUOTE_CELL", "CELL_START">>),
   Both(<<"@", "[">>, <<"QUASI_LIST", "LIST_START">>), Both(<<"@", "{">>, <<"QUASI_CELL", "CELL_START">>),
   Phrase(<<"/", "a">>, <<Token("GET_SLOT", <<>>), Token("SYM_WORD", <<"a">>)>>)}

AllPhrases == Words \cup Literals \cup Marks \cup Quotes

AnyChars ==
  {" ", "a", "1", "[", "]", "<", "=", "#", "+", "-", ":", "$", "@", "!", "sq", "bq", "*", "/", "?", "~"}

\* In a file, or as KSON_ReaderFromCstr is given them.
AnyTexts ==
  {InFile(chars) : chars \in [1 .. 3 -> AnyChars]} \cup UNION {[1 .. n -> AnyChars] : n \in 1 .. 2}
================================================================================
