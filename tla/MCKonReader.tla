----------------------------- MODULE MCKonReader -----------------------------
(***************************************************************************)
(* The files KonReader is checked on: every one container holding two      *)
(* small ones, and cells of up to four parts; every run of up to four      *)
(* brackets, words and comments, matching or not; and every run of up to   *)
(* five brackets of cells and tables with words and tags.                  *)
(***************************************************************************)
EXTENDS KonGrammar

Container(tag, items) == Node(tag, "", items)
Key(form, name, items) == Node(form, name, items)
A == Word("a")

Atoms == {A, Nil}

Small ==
  Atoms \cup
  {Container(tag, items) : tag \in {"LIST", "BLOCK", "VECTOR"}, items \in {<<>>, <<A>>}} \cup
  {Container("PARAM", items) : items \in {<<>>, <<A>>, <<Key("PLAIN", "k", <<A>>)>>}} \cup
  {Container("TABLE", <<Key("EQUALS", "k", <<A>>)>>)} \cup
  {Container("MAP", items) : items \in {<<>>, <<Key("PLAIN", "k", <<A>>)>>, <<Key("TAG", "k", <<>>)>>}} \cup
  {Container("CELL", items) :
     items \in {<<>>, <<A>>, <<Key("TAG", "k", <<>>)>>, <<A, Container("PARAM", <<A>>)>>}} \cup
  {Container("UNQUOTE", <<A>>), Container("QUOTE", <<Container("LIST", <<A>>)>>),
   Container("EXPAND", <<Container("BLOCK", <<A>>)>>),
   Container("QUASIQUOTE", <<Container("CELL", <<A>>)>>)}

\* A few parts of a cell, for the longer cells.
Few ==
  {A, Container("PARAM", <<A>>), Container("BLOCK", <<A>>), Container("BLOCK", <<>>),
   Container("UNQUOTE", <<A>>)}

UpTo(n, parts) == UNION {[1 .. m -> parts] : m \in 0 .. n}

\* Each pair gets a key of its own.
Named(parts) ==
  [i \in DOMAIN parts |->
     IF parts[i].tag \in PairForms
     THEN [parts[i] EXCEPT !.name = <<"k1", "k2", "k3", "k4">>[i]] ELSE parts[i]]

Pairs(forms, values) ==
  {Key(form, "", <<v>>) : form \in forms \ {"TAG"}, v \in values} \cup
  {Key(form, "", <<>>) : form \in forms \cap {"TAG"}}

Tables ==
  {Container(tag, Named(parts)) : tag \in {"TABLE", "PARAM"},
     parts \in UpTo(2, Few \cup Pairs({"PLAIN", "EQUALS"}, Few))}

Lists == {Container(tag, parts) : tag \in {"LIST", "VECTOR", "BLOCK"}, parts \in UpTo(2, Small)}

\* The value of a pair of a map is a container only after `='.
AnyMaps ==
  {Container("MAP", Named(parts)) :
     parts \in UpTo(2, Pairs({"EQUALS"}, Small) \cup Pairs({"PLAIN"}, Atoms) \cup Pairs({"TAG"}, {}))}

\* In a cell :a 1 is a pair, so a tag does not come before a word.
TagsEnd(parts) ==
  \A i \in DOMAIN parts : parts[i].tag = "TAG" /\ i < Len(parts) => parts[i + 1] \notin Atoms

AnyCells ==
  {Container("CELL", Named(parts)) :
     parts \in {p \in UpTo(2, Small \cup Pairs({"EQUALS"}, Small) \cup Pairs({"TAG"}, {})) \cup
                      UpTo(4, Few \cup Pairs({"PLAIN"}, {A}) \cup Pairs({"TAG"}, {})) : TagsEnd(p)}}

IsPair(n) == n.tag \in PairForms

\* The first pair of a cell comes before its first container.
PairsFirst(n) ==
  \A i \in DOMAIN n.items : ~IsPair(n.items[i]) /\ n.items[i] \notin Atoms =>
    \/ \E j \in 1 .. (i - 1) : IsPair(n.items[j])
    \/ \A j \in DOMAIN n.items : j > i => ~IsPair(n.items[j])

\* A tag is the last thing in a map.
TagsLast(n) == \A i \in DOMAIN n.items : n.items[i].tag = "TAG" => i = Len(n.items)

CarefulTrees ==
  Lists \cup Tables \cup {n \in AnyMaps : TagsLast(n)} \cup {n \in AnyCells : PairsFirst(n)}

\* Brackets that need not match, with a word or two, in the brackets of the file.
BracketTokens ==
  {Token(kind, "") : kind \in {"LIST_START", "BLOCK_START", "VECTOR_START", "CELL_START",
                               "UNQUOTE_REPLACE", "LIST_END", "VECTOR_END", "CELL_END"}} \cup
  {Token("SYM_WORD", "a"), Token("COMMENT_SINGLE_LINE", ""), Token("COMMENT_MULTI_LINE", "")}

BracketTexts ==
  {<<Token("LIST_START", "")>> \o t \o <<Token("LIST_END", "")>> : t \in UpTo(4, BracketTokens)}

\* Pairs that are left without key or value, or get two; but no tag where a key
\* is due (CarefulNext).  Words differ, and so do the keys they become.
PairTokens ==
  {Token(kind, "") : kind \in {"CELL_START", "TABLE_START", "KV_PAIR_TAG", "LIST_END", "CELL_END"}}
    \cup {Token("SYM_WORD", "a")}

NamedWords(t) ==
  [i \in DOMAIN t |-> IF t[i].kind = "SYM_WORD"
                      THEN Token("SYM_WORD", <<"k1", "k2", "k3", "k4", "k5">>[i]) ELSE t[i]]

PairTexts ==
  {<<Token("LIST_START", "")>> \o NamedWords(t) \o <<Token("LIST_END", "")>> :
     t \in {u \in UpTo(5, PairTokens) :
              \A i \in 2 .. Len(u) : u[i].kind = "KV_PAIR_TAG" => u[i - 1].kind # "KV_PAIR_TAG"}}

AnyTexts == BracketTexts \cup PairTexts
================================================================================
