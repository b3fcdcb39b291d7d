------------------------------ MODULE KonGrammar ------------------------------
(***************************************************************************)
(* The language KonReader reads, said without stacks or states: what text  *)
(* a tree is written as, and what the program is to get for it.  A source  *)
(* tree is a node of KonReader whose pairs still say how they are written: *)
(*    PLAIN  :a 1        EQUALS  :a = 1        TAG  :a                     *)
(***************************************************************************)
EXTENDS KonReader

CONSTANT Trees     \* what is written in the files read

VARIABLE tree      \* what is written in the file being read

Word(name) == Node("SYM_WORD", name, <<>>)
PairForms == {"PLAIN", "EQUALS", "TAG"}

Bracket ==
  [LIST |-> <<"LIST_START", "LIST_END">>, BLOCK |-> <<"BLOCK_START", "LIST_END">>,
   VECTOR |-> <<"VECTOR_START", "VECTOR_END">>, TABLE |-> <<"TABLE_START", "TABLE_END">>,
   PARAM |-> <<"PARAM_START", "TABLE_END">>, MAP |-> <<"MAP_START", "CELL_END">>,
   CELL |-> <<"CELL_START", "CELL_END">>]

Prefix(n) ==
  CASE n.tag = "UNQUOTE" -> "UNQUOTE_REPLACE"
    [] n.tag = "EXPAND" -> "EXPAND_REPLACE"
    [] n.tag = "QUOTE" -> IF n.items[1].tag = "LIST" THEN "QUOTE_LIST" ELSE "QUOTE_CELL"
    [] n.tag = "QUASIQUOTE" -> IF n.items[1].tag = "LIST" THEN "QUASI_LIST" ELSE "QUASI_CELL"

RECURSIVE Written(_)
Written(n) ==
  LET inside == FlattenSeq([i \in DOMAIN n.items |-> Written(n.items[i])])
      key == <<Token("KV_PAIR_TAG", ""), Token("SYM_WORD", n.name)>>
  IN  CASE n.tag \in DOMAIN Bracket ->
             <<Token(Bracket[n.tag][1], "")>> \o inside \o <<Token(Bracket[n.tag][2], "")>>
        [] n.tag \in Wrappers -> <<Token(Prefix(n), "")>> \o inside
        [] n.tag = "EQUALS" -> key \o <<Token("EQUAL", "")>> \o inside
        [] n.tag \in {"PLAIN", "TAG"} -> key \o inside
        [] OTHER -> <<Token(n.tag, n.name)>>

\* A cell is cut into sections before each part that is to come no later in a
\* section than the part before it: a core, then a table, then a list.
Rank(n) == CASE n.tag = "PARAM" -> 2 [] n.tag = "BLOCK" -> 3 [] OTHER -> 1

Cut(parts, i) ==
  LET earlier == {j \in 1 .. (i - 1) : parts[j].tag \notin PairForms}
  IN  /\ parts[i].tag \notin PairForms
      /\ earlier # {} /\ Rank(parts[i]) <= Rank(parts[Max(earlier)])

SectionOf(parts, i) == 1 + Cardinality({j \in 1 .. i : Cut(parts, j)})

\* The tree the program gets for n.
RECURSIVE Meaning(_)
Meaning(n) ==
  LET inside == [i \in DOMAIN n.items |-> Meaning(n.items[i])]
      parts(k) == {i \in DOMAIN n.items : SectionOf(n.items, i) = k}
      pairs(k) == {i \in parts(k) : n.items[i].tag \in PairForms}
      field(k, rank) == {inside[i] : i \in {j \in parts(k) \ pairs(k) : Rank(n.items[j]) = rank}}
      only(values) == IF values = {} THEN Undef ELSE CHOOSE v \in values : TRUE
      map(k) == IF pairs(k) = {} THEN Undef
                ELSE Node("MAP", "", [j \in 1 .. Cardinality(pairs(k)) |->
                                        inside[SetToSortSeq(pairs(k), <)[j]]])
      sections == IF n.items = <<>> THEN 1 ELSE SectionOf(n.items, Len(n.items))
  IN  CASE n.tag = "TAG" -> Pair(n.name, Ukn)
        [] n.tag \in {"PLAIN", "EQUALS"} -> Pair(n.name, inside[1])
        [] n.tag \in {"LIST", "BLOCK"} /\ n.items = <<>> -> Nil
        [] n.tag = "CELL" ->
             Node("CELL", "", [k \in 1 .. sections |->
               Node("SECTION", "", <<only(field(k, 1)), only(field(k, 2)),
                                     only(field(k, 3)), map(k)>>)])
        [] OTHER -> Node(n.tag, n.name, inside)

\* KSON_ReaderFromFile puts a file in brackets.
File(n) == Node("LIST", "", <<n>>)

\* The files of the trees; and any texts, of which no tree is known.
WrittenInit ==
  /\ tree \in Trees
  /\ text = Written(File(tree))
  /\ Start

AnyInit == Init /\ tree = Nil

Spec == (WrittenInit \/ AnyInit) /\ [][Next /\ UNCHANGED tree]_<<vars, tree>>

-------------------------------------------------------------------------------
(***************************************************************************)
(* Properties.                                                             *)
(***************************************************************************)
\* How many names a tree holds; a `>' that closes nothing is read as a word.
RECURSIVE Names(_)
Names(n) ==
  (IF n.name \notin {"", ">"} THEN 1 ELSE 0) + FoldLeft(LAMBDA sum, m : sum + Names(m), 0, n.items)

\* Nothing read is lost, whatever the brackets, but the key of a pair that is
\* closed without its value: until the file's own bracket is closed, every name
\* read stays in a builder or goes into the root, and only the token read adds
\* one (the keys of a tree are all different).
Held(r) ==
  FoldLeft(LAMBDA sum, b : sum + Names(Node("", b.key, b.items)), Names(r.root), r.builderStack)


\* For a tree, no assertion of the reader fails and nothing is read that is not
\* there.  Brackets that do not match, with pairs in cells and tables, do no
\* worse than is known: nothing is left below, a key is no word, or the value
\* that a pair of a cell never got is looked at (reader.c:494).
FaultsOutside == [][reader'.fault => tree = Nil /\ FaultsKnown]_vars

\* A tree read to its end left no builder and only the root state, and the root
\* is what the tree means.
ReadsBack ==
  tree # Nil /\ cursor = Len(text) =>
    /\ reader.root = Meaning(File(tree))
    /\ reader.builderStack = <<>> /\ reader.stateStack = <<"ROOT">>
================================================================================
