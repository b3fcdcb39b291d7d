------------------------------- MODULE KonReader -------------------------------
(***************************************************************************)
(* core/kson/reader.c with value_builder.c and state_stack.c: KSON_Parse   *)
(* takes the tokens of a text one by one and builds the tree they write,   *)
(* on two stacks, one of the builders of the containers still open and one *)
(* of what may come next in them.  The two are pushed and popped at        *)
(* different places, and most of the difficulty is in keeping them in step.*)
(*                                                                         *)
(* An assertion that fails and an access to what is not there are a        *)
(* `fault'.  The containers a builder fills are in modules of their own; a *)
(* table is here the sequence of its entries.  wordAsIdentifier is written *)
(* but never read and is left out, as are rows, columns and spellings.     *)
(***************************************************************************)
EXTENDS Integers, SequencesExt

CONSTANTS Texts    \* the token sequences read

ASSUME TextsAssumption == \A t \in Texts : t \in Seq(Range(t))

VARIABLES text,    \* the tokens of the text being read
          cursor,  \* how many of them are read
          reader   \* the stacks and the root of the KonReader

vars == <<text, cursor, reader>>

(***************************************************************************)
(* Trees: a word, a list or a pair is a node with the nodes under it.      *)
(***************************************************************************)
Node(tag, name, items) == [tag |-> tag, name |-> name, items |-> items]
Plain(tag) == Node(tag, "", <<>>)
Nil == Plain("NIL")
Ukn == Plain("UKN")
Undef == Plain("UNDEF")
Uninitialized == Plain("UNINITIALIZED")

\* What a value that no branch has set can be: nothing that could be looked at,
\* or what was left in its place, taken for any kind of value there is a test of.
Leftovers ==
  {Uninitialized} \cup {Plain(tag) : tag \in {"PARAM", "BLOCK", "SYM_WORD", "UNDEF", "UKN"}}

Token(kind, content) == [kind |-> kind, content |-> content]

\* The container each start token opens, the wrapper each prefix is.
Started ==
  [LIST_START |-> "LIST", BLOCK_START |-> "BLOCK", VECTOR_START |-> "VECTOR",
   TABLE_START |-> "TABLE", PARAM_START |-> "PARAM", MAP_START |-> "MAP", CELL_START |-> "CELL"]

Wrapped ==
  [QUOTE_LIST |-> "QUOTE", QUOTE_CELL |-> "QUOTE", QUASI_LIST |-> "QUASIQUOTE",
   QUASI_CELL |-> "QUASIQUOTE", EXPAND_REPLACE |-> "EXPAND", UNQUOTE_REPLACE |-> "UNQUOTE"]

Wrappers == {Wrapped[k] : k \in DOMAIN Wrapped}

\* The state pushed with the builder of each kind.
FirstState(type) ==
  CASE type = "MAP" -> "MAP_PAIR_KEY" [] type = "CELL" -> "CELL_CORE" [] OTHER -> type

SkipTokens == {"NONE", "WHITESPACE", "COMMENT_SINGLE_LINE"}
ContainerEndTokens == {"LIST_END", "VECTOR_END", "TABLE_END", "CELL_END"}
SyntaxTokens == {"APPLY", "EQUAL", "ASSIGN", "PROC_PIPE", "MSG_SIGNAL", "GET_SLOT", "CLAUSE_END"}
SymbolTokens == {"SYM_PREFIX_WORD", "SYM_WORD", "SYM_VARIABLE", "SYM_IDENTIFIER", "SYM_STRING"}
LiteralTokens == {"NIL", "UNDEF", "UKN", "TRUE", "FALSE", "NUMBER", "STRING"}
ValueTokens == SyntaxTokens \cup SymbolTokens \cup LiteralTokens
IgnoredTokens == {"SYM_SUFFIX_WORD", "COMMENT_MULTI_LINE", "UNIX_SCRIPT_FIST_LINE"}

(***************************************************************************)
(* The stacks.                                                             *)
(***************************************************************************)
Builder(type) == [type |-> type, key |-> "",
                  items |-> IF type = "CELL"
                            THEN <<Node("SECTION", "", <<Undef, Undef, Undef, Undef>>)>>
                            ELSE <<>>]

Fault(r) == [r EXCEPT !.fault = TRUE]

\* A mutant: the branch of vectors, which is one of its own, pushes no state.
OpenVectorStateless(r, type, state) ==
  [r EXCEPT !.builderStack = Append(@, Builder(type)),
            !.stateStack = IF type = "VECTOR" THEN @ ELSE Append(@, state)]

Open(r, type, state) ==
  [r EXCEPT !.builderStack = Append(@, Builder(type)), !.stateStack = Append(@, state)]

SetTopState(r, state) == [r EXCEPT !.stateStack = Append(Front(@), state)]
PopState(r) == IF r.stateStack = <<>> THEN Fault(r) ELSE [r EXCEPT !.stateStack = Front(@)]
SetTopBuilder(r, b) == [r EXCEPT !.builderStack = Append(Front(@), b)]
PopBuilder(r) == [r EXCEPT !.builderStack = Front(@)]

AddItem(b, v) == [b EXCEPT !.items = Append(@, v)]

(***************************************************************************)
(* The builders.  A section of a cell is its core, table, list and map.    *)
(***************************************************************************)
Pair(key, v) == Node("PAIR", key, <<v>>)

\* KxHashTable_PutKv: a key has one value.
PutKv(entries, key, v) ==
  IF \E i \in DOMAIN entries : entries[i].name = key
  THEN [i \in DOMAIN entries |-> IF entries[i].name = key THEN Pair(key, v) ELSE entries[i]]
  ELSE Append(entries, Pair(key, v))


\* v in the field, in a new section if the last one has a field of `taken'.
CellBuilderSet(b, field, taken, v) ==
  LET full == \E f \in taken : Last(b.items).items[f] # Undef
      opened == IF full THEN AddItem(b, Builder("CELL").items[1]) ELSE b
  IN  [opened EXCEPT !.items[Len(opened.items)].items[field] = v]

CellBuilderSetCore(b, v) == CellBuilderSet(b, 1, {1, 2, 3}, v)
\* A mutant: a table may come after the list of its section.
CellBuilderSetTableLate(b, v) == CellBuilderSet(b, 2, {2}, v)

CellBuilderSetTable(b, v) == CellBuilderSet(b, 2, {2, 3}, v)
CellBuilderSetList(b, v) == CellBuilderSet(b, 3, {3}, v)

CellBuilderAddPair(b, key, v) ==
  [b EXCEPT !.items[Len(b.items)].items[4] = Node("MAP", "", PutKv(@.items, key, v))]

\* What the builder of a container or wrapper makes: an empty list or block is nil.
\* No branch is for a pair, whose value is what is left over.
Made(b, leftover) ==
  CASE b.type = "KV_PAIR" -> leftover
    [] b.type \in {"LIST", "BLOCK"} /\ b.items = <<>> -> Nil
    [] b.type \in Wrappers /\ b.items = <<>> -> Node(b.type, "", <<Undef>>)
    [] OTHER -> Node(b.type, "", b.items)

(***************************************************************************)
(* AddValueToTopBuilder, on a pair: its key, or the value that ends it.    *)
(***************************************************************************)
SetPairKey(r, v, next) ==
  IF v.tag \in {"SYM_WORD", "SYM_IDENTIFIER", "SYM_STRING"}
  THEN SetTopState(SetTopBuilder(r, [Last(r.builderStack) EXCEPT !.key = v.name]), next)
  ELSE Fault(r)

\* A mutant: no pairs in parameters.
AddTablePairNoParam(r, v) ==
  LET key == Last(r.builderStack).key
      below == PopBuilder(r)
      table == Last(below.builderStack)
  IN  IF below.builderStack = <<>> THEN Fault(r)
      ELSE IF table.type = "TABLE"
      THEN PopState(SetTopBuilder(below, AddItem(table, Pair(key, v))))
      ELSE below

AddTablePair(r, v) ==
  LET key == Last(r.builderStack).key
      below == PopBuilder(r)
      table == Last(below.builderStack)
  IN  IF below.builderStack = <<>> THEN Fault(r)
      ELSE IF table.type \in {"TABLE", "PARAM"}
      THEN PopState(SetTopBuilder(below, AddItem(table, Pair(key, v))))
      ELSE below

AddMapPair(r, v) ==
  LET key == Last(r.builderStack).key
      below == PopBuilder(r)
      map == Last(below.builderStack)
  IN  IF below.builderStack = <<>> \/ map.type \notin {"CELL", "MAP", "TABLE", "PARAM"}
      THEN Fault(r)
      ELSE IF map.type # "CELL"
      THEN SetTopState(SetTopBuilder(below, [map EXCEPT !.items = PutKv(@, key, v)]),
                       "MAP_PAIR_KEY")
      ELSE IF Len(r.stateStack) < 2 THEN Fault(r)
      ELSE SetTopState(PopState(SetTopBuilder(below, CellBuilderAddPair(map, key, v))),
                       "CELL_MAP_PAIR")

AddToPair(r, v) ==
  LET state == Last(r.stateStack)
  IN  CASE state = "TABLE_PAIR_KEY" -> SetPairKey(r, v, "TABLE_PAIR_EQ")
        [] state = "MAP_PAIR_KEY" -> SetPairKey(r, v, "MAP_PAIR_EQ_OR_TAG")
        [] state \in {"TABLE_PAIR_EQ", "TABLE_PAIR_VAL"} -> AddTablePair(r, v)
        [] state \in {"MAP_PAIR_EQ_OR_TAG", "MAP_PAIR_VAL"} -> AddMapPair(r, v)
        [] OTHER -> r

\* On a cell, whose part the value's kind tells.
AddToCell(r, v) ==
  LET b == Last(r.builderStack)
  IN  IF v = Uninitialized THEN Fault(r)
      ELSE SetTopBuilder(r, CASE v.tag = "PARAM" -> CellBuilderSetTable(b, v)
                              [] v.tag = "BLOCK" -> CellBuilderSetList(b, v)
                              [] OTHER -> CellBuilderSetCore(b, v))

(***************************************************************************)
(* A wrapper takes one value and is then itself a value of what is below:  *)
(* AddValueToTopBuilder and ExitTopBuilder call each other until what is   *)
(* at the top is no wrapper.  A block in a cell is its list even when      *)
(* empty; a map takes only pairs and drops what else it is given.          *)
(***************************************************************************)
AddToContainer(r, v) ==
  LET b == Last(r.builderStack)
  IN  IF r.builderStack = <<>> THEN [r EXCEPT !.root = v]
      ELSE CASE b.type = "KV_PAIR" -> AddToPair(r, v)
             [] b.type = "CELL" -> AddToCell(r, v)
             [] b.type = "MAP" -> r
             [] OTHER -> SetTopBuilder(r, AddItem(b, v))

\* How many builders there are below the wrappers at the top, the value of those
\* wrappers, the one at the top around v, and the stacks without them.
Under(r) == Max({0} \cup {i \in DOMAIN r.builderStack : r.builderStack[i].type \notin Wrappers})

WrappedIn(r, v) ==
  LET Wrap(b, inner) == Node(b.type, "", <<inner>>)
      wrappers == SubSeq(r.builderStack, Under(r) + 1, Len(r.builderStack))
  IN  IF wrappers = <<>> THEN v
      ELSE Wrap(Head(wrappers), FoldRight(Wrap, Tail(wrappers), v))

ExitWrappers(r) ==
  [r EXCEPT !.builderStack = SubSeq(@, 1, Under(r)),
            !.stateStack = SubSeq(@, 1, Len(@) - (Len(r.builderStack) - Under(r)))]

AddValueToTopBuilder(r, v) ==
  IF Len(r.stateStack) <= Len(r.builderStack) - Under(r) THEN Fault(r)
  ELSE AddToContainer(ExitWrappers(r), WrappedIn(r, v))

ExitTopBuilder(r, leftover) ==
  LET b == Last(r.builderStack)
      below == PopState(PopBuilder(r))
      next == Last(below.builderStack)
  IN  IF r.stateStack = <<>> \/ r.builderStack = <<>> THEN Fault(r)
      ELSE IF b.type = "BLOCK" /\ below.builderStack = <<>> THEN Fault(r)
      ELSE IF b.type = "BLOCK" /\ next.type = "CELL"
      THEN SetTopBuilder(below, CellBuilderSetList(next, Made(b, leftover)))
      ELSE AddValueToTopBuilder(below, Made(b, leftover))

-------------------------------------------------------------------------------
(***************************************************************************)
(* The branches of the loop of KSON_Parse, for a token and the state at    *)
(* the top of the stack.                                                   *)
(***************************************************************************)
\* A container inside a cell, and one after the key of a tag: {a :b ()}.
BeforeContainer(r) ==
  CASE Last(r.stateStack) = "CELL_CORE" -> SetTopState(r, "CELL_INNER_CONTAINER")
    [] Last(r.stateStack) = "MAP_PAIR_EQ_OR_TAG" -> AddValueToTopBuilder(r, Ukn)
    [] OTHER -> r

StartContainer(r, kind) ==
  LET before == BeforeContainer(r)
      type == IF kind \in DOMAIN Started THEN Started[kind] ELSE Wrapped[kind]
  IN  IF before.fault THEN before ELSE Open(before, type, FirstState(type))

OpenPair(r, state) == Open(r, "KV_PAIR", state)

StartPair(r) ==
  LET state == Last(r.stateStack)
      tagged == AddValueToTopBuilder(r, Ukn)
  IN  CASE state \in {"TABLE", "PARAM"} -> OpenPair(r, "TABLE_PAIR_KEY")
        [] state = "MAP_PAIR_KEY" -> [r EXCEPT !.builderStack = Append(@, Builder("KV_PAIR"))]
        [] state \in {"CELL_CORE", "CELL_MAP_PAIR"} -> OpenPair(r, "MAP_PAIR_KEY")
        [] state \in {"MAP_PAIR_EQ_OR_TAG", "MAP_PAIR_VAL"} ->
             IF tagged.fault THEN tagged ELSE OpenPair(tagged, "MAP_PAIR_KEY")
        [] OTHER -> r

PairEqual == [MAP_PAIR_EQ_OR_TAG |-> "MAP_PAIR_VAL", TABLE_PAIR_EQ |-> "TABLE_PAIR_VAL"]

Close(r, kind, leftover) ==
  LET tagged == kind = "CELL_END" /\ Last(r.stateStack) \in {"MAP_PAIR_EQ_OR_TAG", "MAP_PAIR_VAL"}
      closed == IF tagged THEN AddValueToTopBuilder(r, Ukn) ELSE r
  IN  IF closed.fault THEN closed
      ELSE IF kind = "VECTOR_END" /\ Last(r.builderStack).type # "VECTOR"
      THEN AddValueToTopBuilder(r, Node("SYM_WORD", ">", <<>>))
      ELSE ExitTopBuilder(closed, leftover)

\* The next token is of one of the kinds; every token but a skipped one needs
\* a state, and what is no container or pair an open builder.
NextIs(kinds) == cursor < Len(text) /\ ~reader.fault /\ text[cursor + 1].kind \in kinds

Took(r) == cursor' = cursor + 1 /\ reader' = r /\ UNCHANGED text
NeedsState(r) == IF reader.stateStack = <<>> THEN Fault(reader) ELSE r
NeedsBuilder(r) == NeedsState(IF reader.builderStack = <<>> THEN Fault(reader) ELSE r)

Skip == NextIs(SkipTokens) /\ Took(reader)

ContainerStart ==
  /\ NextIs(DOMAIN Started \cup DOMAIN Wrapped)
  /\ Took(NeedsState(StartContainer(reader, text[cursor + 1].kind)))

KvPairTag == NextIs({"KV_PAIR_TAG"}) /\ Took(NeedsState(StartPair(reader)))

Equal ==
  /\ NextIs({"EQUAL"})
  /\ reader.stateStack # <<>> => Last(reader.stateStack) \in DOMAIN PairEqual
  /\ Took(NeedsState(SetTopState(reader, PairEqual[Last(reader.stateStack)])))

Value ==
  /\ NextIs(ValueTokens)
  /\ text[cursor + 1].kind = "EQUAL" =>
       reader.stateStack # <<>> /\ Last(reader.stateStack) \notin DOMAIN PairEqual
  /\ LET t == text[cursor + 1]
     IN  Took(NeedsBuilder(AddValueToTopBuilder(reader, Node(t.kind, t.content, <<>>))))

ContainerEnd ==
  /\ NextIs(ContainerEndTokens)
  /\ \E leftover \in Leftovers :
       Took(NeedsBuilder(Close(reader, text[cursor + 1].kind, leftover)))

Ignore == NextIs(IgnoredTokens) /\ Took(NeedsBuilder(reader))

\* KSON_ReaderInit, and the state KSON_Parse starts with.
Start ==
  /\ cursor = 0
  /\ reader = [stateStack |-> <<"ROOT">>, builderStack |-> <<>>, root |-> Uninitialized,
               fault |-> FALSE]

Init == text \in Texts /\ Start

Next == \/ Skip \/ ContainerStart \/ KvPairTag \/ Equal
        \/ Value \/ ContainerEnd \/ Ignore

\* The pair of a map shares the map's state.
Shares(b, i) == i > 1 /\ b[i].type = "KV_PAIR" /\ b[i - 1].type = "MAP"

(***************************************************************************)
(* The pair of a map has no state of its own: what would push one for it,  *)
(* or pop one with it, gets the stacks out of step.  A text does not if in *)
(* the pair of a map no tag is read, and no end of a container but the one *)
(* of the map, after a key; and no tag is read where a key is due.         *)
(***************************************************************************)
InPair == reader.builderStack # <<>> /\ Last(reader.builderStack).type = "KV_PAIR"
InMapPair == InPair /\ Shares(reader.builderStack, Len(reader.builderStack))
KeyDue == InPair /\ Last(reader.stateStack) = "MAP_PAIR_KEY"

CarefulNext ==
  /\ Next
  /\ NextIs({"KV_PAIR_TAG"}) => ~InMapPair /\ ~KeyDue
  /\ NextIs({"CELL_END"}) => ~(InMapPair /\ KeyDue)
  /\ NextIs({"LIST_END", "TABLE_END"}) => ~InMapPair

CarefulSpec == Init /\ [][CarefulNext]_vars

-------------------------------------------------------------------------------
(***************************************************************************)
(* Properties.                                                             *)
(***************************************************************************)
PairStates == {"MAP_PAIR_KEY", "MAP_PAIR_EQ_OR_TAG", "MAP_PAIR_VAL"}
TablePairStates == {"TABLE_PAIR_KEY", "TABLE_PAIR_EQ", "TABLE_PAIR_VAL"}
CellStates == {"CELL_CORE", "CELL_MAP_PAIR", "CELL_INNER_CONTAINER"}

\* The states the i-th builder can be in.
StatesOf(b, i) ==
  CASE b[i].type = "CELL" -> CellStates
    [] b[i].type = "MAP" -> PairStates
    [] b[i].type = "KV_PAIR" ->
         IF i > 1 /\ b[i - 1].type \in {"CELL", "MAP"} THEN PairStates ELSE TablePairStates
    [] OTHER -> {b[i].type}

\* Where the state of the i-th builder is: above ROOT there is one for each
\* open container, wrapper and pair with a state of its own.
Place(b, i) == 1 + Cardinality({k \in 1 .. i : ~Shares(b, k)})

\* The two stacks say the same: there are as many states as there should be, and
\* the state of a builder is one of the states of its kind.
StacksAgree ==
  LET b == reader.builderStack
      s == reader.stateStack
  IN  ~reader.fault =>
        /\ Len(s) = Place(b, Len(b)) /\ s[1] = "ROOT"
        /\ \A i \in DOMAIN b : s[Place(b, i)] \in StatesOf(b, i)

\* Where an access fails if brackets do not match: after the file's own bracket
\* was closed, or at a block closed where no builder is left below it; and at the
\* key of a pair that is no word.
NothingBelow(r) ==
  \/ r.builderStack = <<>>
  \/ Len(r.builderStack) = 1 /\ r.builderStack[1].type = "BLOCK"

KeyFault(r) ==
  /\ r.builderStack # <<>> /\ Last(r.builderStack).type = "KV_PAIR"
  /\ Last(r.stateStack) \in {"TABLE_PAIR_KEY", "MAP_PAIR_KEY"}

\* The end of a container closes a pair without its value: {:a ]; and one whose
\* leftover value goes to a cell, where it is looked at.
CutsPair ==
  /\ InPair
  /\ \/ NextIs({"LIST_END", "TABLE_END"})
     \/ NextIs({"CELL_END"}) /\ Last(reader.stateStack) \notin {"MAP_PAIR_EQ_OR_TAG", "MAP_PAIR_VAL"}

CutsPairOfCell == CutsPair /\ Last(Front(reader.builderStack)).type = "CELL"

\* No access of KSON_Parse fails anywhere else.
FaultsKnown == reader'.fault => NothingBelow(reader') \/ KeyFault(reader') \/ CutsPairOfCell
================================================================================
