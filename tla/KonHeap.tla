------------------------------- MODULE KonHeap -------------------------------
(***************************************************************************)
(* The heap of the Kana interpreter: the KN words of core/node.h, the      *)
(* nodes, environments, continuations, callback memo tables and accessors  *)
(* they point to, the message dispatchers of the KonState, and the         *)
(* environment operations of core/interpreter/env.c.                       *)
(*                                                                         *)
(* Each kind of object lives in a sequence of its own, an allocation       *)
(* appends to it and a pointer is an index: nothing is ever freed, as in   *)
(* the build (core/gc.h defines KN_DISABLE_GC).  A KonPair chain is one    *)
(* node holding the sequence of its cars, a chain of KonCells one node     *)
(* holding the sequence of its segments.                                   *)
(***************************************************************************)
EXTENDS Integers, Sequences, FiniteSetsExt

CONSTANTS
  Names,             \* what symbols and strings say; "" is no name
  MaxFix,            \* fixnums range over -MaxFix..MaxFix; leaving it is a fault
  FirstDispatcher,   \* the first id def-dispatcher gives out, 100 in the code
  DispatcherSlots    \* the size of the dispatcher vector, 200 in the code

ReservedNames ==
  {"", "return", "break", "continue", "kn", "accessor", "+", "<", "not",
   "set-dispatcher-id", "init-prop", "init-dir", "unbox", "set-val", "has-key", "at-key",
   "put-key-val", "put-key-prop"}

ASSUME NamesAssumption == ReservedNames \subseteq Names
ASSUME MaxFixAssumption == MaxFix \in Nat /\ MaxFix >= 2
ASSUME DispatchersAssumption == FirstDispatcher \in Nat /\ DispatcherSlots \in Nat

VARIABLES
  nodes,     \* AST nodes, data and procedures
  envs,      \* KonEnv objects
  conts,     \* KonContinuation objects
  memos,     \* the KxHashTable behind native.memoTable of a callback continuation
  accessors, \* KonAccessor objects
  dispatchers,          \* msgDispatchers, the slots of the vector set so far
  nextMsgDispatcherId,
  job,       \* the trampoline bounce in flight, or the call made in tail position
  depth,     \* interpreter calls nested under KN_ProcessSentences' loop
  currCode   \* the program being run

registry == <<dispatchers, nextMsgDispatcherId>>
objects == <<accessors, registry>>
heap == <<nodes, envs, conts, memos, objects>>
vars == <<heap, job, depth, currCode>>

(***************************************************************************)
(* KN words.  Immediates carry no identity; syntax markers are compared by *)
(* their type only and never change, so they are words too.                *)
(***************************************************************************)
Immediates == {"nil", "ukn", "undef", "true", "false"}
Markers == {"APPLY", "ASSIGN", "PROC_PIPE", "GET_SLOT", "MSG_SIGNAL", "CLAUSE_END"}
Fixnums == -MaxFix .. MaxFix

Imm(t) == [t |-> t, id |-> 0]
Nil == Imm("nil")
Ukn == Imm("ukn")
Undef == Imm("undef")
True == Imm("true")
False == Imm("false")
Marker(m) == Imm(m)
Fix(n) == [t |-> "fix", id |-> n]
NodeRef(i) == [t |-> "node", id |-> i]
ContRef(i) == [t |-> "cont", id |-> i]
AccessorRef(i) == [t |-> "accessor", id |-> i]

\* The words of a heap with nn nodes, nc continuations and na accessors.
WordsOf(nn, nc, na) == [t : Immediates \cup Markers, id : {0}]
                  \cup [t : {"fix", "flo"}, id : Fixnums]
                  \cup [t : {"node"}, id : 1 .. nn]
                  \cup [t : {"cont"}, id : 1 .. nc]
                  \cup [t : {"accessor"}, id : 1 .. na]

(***************************************************************************)
(* Nodes, a tagged union: `type` is the KonSymbol, KonQuote or             *)
(* KonProcedure type, `items` the elements of a pair list, a quasiquoted   *)
(* list or a table, `params` the keys of a table or the parameters of a    *)
(* procedure, `inner` what a quote or an unquote holds or the body of a    *)
(* procedure, `segs` the chain of a cell, and `env` and `capture` belong   *)
(* to procedures.  The parts a segment lacks are #undef; `capture` is the  *)
(* entry of that name in its map.  `dispatcher` is msgDispatcherId, at     *)
(* first that of the type (KonType in core/node.h).                        *)
(***************************************************************************)
SegsOf(W) == [core : W, table : W, list : W, capture : W]

NodeTags == {"", "pair", "symbol", "string", "vector", "table", "map", "cell", "param", "quote",
             "quasi", "unquote", "procedure"}
NodeTypes == {"", "PREFIX_WORD", "SUFFIX_WORD", "WORD", "VARIABLE", "IDENTIFIER", "STRING",
              "LIST", "CELL", "NATIVE_FUNC", "LAMBDA", "FUNC", "MACRO_LAMBDA", "MACRO_FUNC"}

NodesOf(W, ne) == [tag : NodeTags, type : NodeTypes, name : Names, items : Seq(W),
                   inner : W, segs : Seq(SegsOf(W)), env : 0 .. ne,
                   params : Seq(Names), capture : Seq(Names), dispatcher : Int]

NodeTypeId(tag) ==
  CASE tag = "pair" -> 11 [] tag = "symbol" -> 16 [] tag = "string" -> 19
    [] tag = "vector" -> 20 [] tag = "table" -> 21 [] tag = "map" -> 22
    [] tag = "cell" -> 23 [] tag = "param" -> 24 [] tag = "quote" -> 26
    [] tag = "quasi" -> 27 [] tag = "unquote" -> 29 [] tag = "procedure" -> 34
    [] OTHER -> 0

Node(tag) == [tag |-> tag, type |-> "", name |-> "", items |-> <<>>, inner |-> Undef,
              segs |-> <<>>, env |-> 0, params |-> <<>>, capture |-> <<>>,
              dispatcher |-> NodeTypeId(tag)]
ListNode(ws) == [Node("pair") EXCEPT !.items = ws]
QuoteNode(type, w) == [Node("quote") EXCEPT !.type = type, !.inner = w]
\* The chains behind a pointer to a pair or to a cell have a first element, and
\* a table has a key for every value.
WellBuilt(n) ==
  CASE n.tag = "pair" -> n.items # <<>>
    [] n.tag = "cell" -> n.segs # <<>>
    [] n.tag = "table" -> Len(n.params) = Len(n.items)
    [] OTHER -> TRUE
NoProcedure == Node("")     \* what a null KonProcedure pointer leads to

HasTag(w, tag) == w.t = "node" /\ nodes[w.id].tag = tag
IsSymbol(w) == HasTag(w, "symbol")
IsWord(w) == IsSymbol(w) /\ nodes[w.id].type = "WORD"
IsIdentifier(w) == IsSymbol(w) /\ nodes[w.id].type = "IDENTIFIER"
IsReference(w) ==
  IsSymbol(w) /\ nodes[w.id].type \in {"WORD", "VARIABLE", "PREFIX_WORD"}
IsPrefixMacro(w) == IsSymbol(w) /\ nodes[w.id].type = "PREFIX_WORD"
IsSymbolCalled(w, name) == IsWord(w) /\ nodes[w.id].name = name
IsPair(w) == HasTag(w, "pair")
IsPairList(w) == w = Nil \/ IsPair(w)
IsCell(w) == HasTag(w, "cell")
IsQuoteList(w) == HasTag(w, "quote") /\ nodes[w.id].type = "LIST"
ProcOf(w) == IF HasTag(w, "procedure") THEN nodes[w.id] ELSE NoProcedure
IsTrue(w) == w # False
IsMarker(w) == w.t \in Markers

IsAccessor(w) == w.t = "accessor"

NameOf(w) == nodes[w.id].name
Segs(w) == nodes[w.id].segs
Items(w) == IF IsPair(w) THEN nodes[w.id].items ELSE <<>>
\* A list of these elements: its word, and the nodes with it.
ListWord(ws) == IF ws = <<>> THEN Nil ELSE NodeRef(Len(nodes) + 1)
WithList(ws) == IF ws = <<>> THEN nodes ELSE Append(nodes, ListNode(ws))

\* Words that evaluate to themselves.
IsSelfEvaluated(w) ==
  \/ w.t \in Immediates \cup Markers \cup {"fix", "flo"}
  \/ /\ w.t = "node"
     /\ \/ nodes[w.id].tag \in {"quote", "string", "vector", "table", "map"}
        \/ nodes[w.id].tag = "symbol" /\ nodes[w.id].type \in {"IDENTIFIER", "STRING"}

(***************************************************************************)
(* Environments.  `chain` lists the environment and its ancestors, nearest *)
(* first: the parent pointers, which KN_MakeChildEnv sets and nothing      *)
(* reassigns.  An absent key reads as KN_UNDEF, as KxHashTable_AtKey does. *)
(***************************************************************************)
NoBindings == [n \in Names |-> Undef]
EnvsOf(W, ne) == [chain : Seq(1 .. ne), bindings : [Names -> W]]

ChildEnv(parent, bindings) ==
  [chain |-> <<Len(envs) + 1>> \o envs[parent].chain, bindings |-> bindings]

\* KN_EnvLookup: the nearest binding that is not #undef, else #ukn.
EnvLookup(e, name) ==
  LET chain == envs[e].chain
      owners == {i \in DOMAIN chain : envs[chain[i]].bindings[name] # Undef}
  IN  IF owners = {} THEN Ukn ELSE envs[chain[Min(owners)]].bindings[name]

EnvDefine(e, name, v) == envs' = [envs EXCEPT ![e].bindings[name] = v]

\* A mutant: assign where the name is bound.
EnvLookupSetOwner(e, name, v) ==
  LET chain == envs[e].chain
      owners == {i \in DOMAIN chain : envs[chain[i]].bindings[name] # Undef}
  IN  EnvDefine(IF owners = {} THEN e ELSE chain[Min(owners)], name, v)

\* KN_EnvLookupSet: the slot KxHashTable_AtKey returns for a missing key is
\* KN_UNDEF, which is not a null pointer, so the walk never reaches a parent.
EnvLookupSet(e, name, v) == EnvDefine(e, name, v)

(***************************************************************************)
(* Continuations.  The union members a type does not use keep the zeroes   *)
(* of the allocation.  `rest` is restJobs, restClauses, restArgList or     *)
(* restList; clauses stay unsplit in it until they are taken (FirstClause  *)
(* in KonMachine).  `evaled` is newest first, as the code conses it.       *)
(***************************************************************************)
ContTypes == {"RETURN", "SENTENCE_LIST", "SUBJ", "CLAUSE_LIST", "CLAUSE_ARGS",
              "QUASI_LIST_ITEMS", "NATIVE_CALLBACK"}
Callbacks == {"none", "AfterLet", "AfterSet", "AfterIf", "AfterCond", "AfterAnd",
              "AfterOr", "BeforeForPrediction", "AfterForPrediction", "AfterForBody",
              "AfterEval", "AfterApplySym", "AfterApplyArgs", "AfterDispatcherId",
              "AfterBuilderDispatcherId", "AfterShellCmd"}

ContsOf(W, ne, nc, nm) ==
  [type : ContTypes, env : 1 .. ne, cont : 0 .. nc, subj : W, rest : Seq(W),
   evaled : Seq(W), callback : Callbacks, memo : 0 .. nm]

Frame(type, e, k) ==
  [type |-> type, env |-> e, cont |-> k, subj |-> Undef, rest |-> <<>>,
   evaled |-> <<>>, callback |-> "none", memo |-> 0]

\* A KonMsgDispatcher: a procedure for each handler it has.
Handlers == {"on-symbol", "on-method-call", "on-visit-list", "on-visit-vector",
             "on-visit-table", "on-visit-cell", "on-other-type"}
DispatchersOf(W, ne) == [Handlers -> NodesOf(W, ne)]
NoDispatcher == [h \in Handlers |-> NoProcedure]

\* A memo table: the values of all the keys any callback puts or reads.
MemosOf(W, ne) ==
  [VarName : Names, RestCondition : Seq(W), TrueClause : W, FalseClause : W,
   RestPairs : Seq(SegsOf(W)), IfTrue : W, PredictExpr : W, AfterExpr : W,
   BodyExprs : W, ApplyArgsExpr : W, ApplySym : W, Dispatcher : DispatchersOf(W, ne),
   BuilderName : W, BuilderSourceCode : W, RestCmdWords : Seq(W)]

EmptyMemo ==
  [VarName |-> "", RestCondition |-> <<>>, TrueClause |-> Undef,
   FalseClause |-> Undef, RestPairs |-> <<>>, IfTrue |-> Undef, PredictExpr |-> Undef,
   AfterExpr |-> Undef, BodyExprs |-> Undef, ApplyArgsExpr |-> Undef,
   ApplySym |-> Undef, Dispatcher |-> NoDispatcher, BuilderName |-> Undef,
   BuilderSourceCode |-> Undef, RestCmdWords |-> <<>>]

NextCont == Len(conts) + 1
NextMemo == Len(memos) + 1

\* A mutant: a callback continuation that goes on with itself.
CallbackFrameLooping(callback, e, k, m) ==
  [Frame("NATIVE_CALLBACK", e, NextCont) EXCEPT !.callback = callback, !.memo = m]

CallbackFrame(callback, e, k, m) ==
  [Frame("NATIVE_CALLBACK", e, k) EXCEPT !.callback = callback, !.memo = m]
=============================================================================
