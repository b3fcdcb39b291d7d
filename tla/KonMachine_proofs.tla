--------------------------- MODULE KonMachine_proofs ---------------------------
(***************************************************************************)
(* The evaluator's invariants hold of every program.                       *)
(*                                                                         *)
(* Part one: facts about the data of KonHeap (least elements of sets of    *)
(* numbers, and that words, nodes, environments, continuations, memo       *)
(* tables, dispatchers and accessors of a heap are also those of a larger  *)
(* one: the evaluator only ever allocates, so a step mostly has to keep    *)
(* what it did not write valid in the larger heap); the inductive          *)
(* invariant, what a step keeps besides it, and the obligations of a step, *)
(* one for each kind of object of the heap: a handler discharges the ones  *)
(* for what it writes, and the lemmas named ...Kept the others; then the   *)
(* ways a handler hands over, the continuations it pushes and the call of  *)
(* a composite procedure, each of which preserves the invariant.           *)
(*                                                                         *)
(* Part two: native procedures, accessors, ApplySubjVerbAndObjects, and    *)
(* the keywords with their callbacks.                                      *)
(*                                                                         *)
(* Part three: the remaining actions, the initial states, the theorems.    *)
(*                                                                         *)
(* Part four: control.  Every step of a handler that is for a frame makes  *)
(* frames above it only and goes on with one of these or with it           *)
(* (Stacked), so that the evaluator implements AbstractControl.            *)
(***************************************************************************)
EXTENDS KonProperties, WellFoundedInduction, SequenceTheorems, TLAPS

\* A set of natural numbers that is not empty has a least element.
LEMMA LeastExists ==
  ASSUME NEW T \in SUBSET Nat, T # {}
  PROVE  \E x \in T : \A y \in T : x <= y
<1>1. PICK x \in T : \A y \in T : ~(<<y, x>> \in OpToRel(<, Nat))
  BY WFMin, NatLessThanWellFounded
<1>2. \A y \in T : ~(y < x)
  BY <1>1 DEF OpToRel
<1> QED
  BY <1>2

\* What Min returns; EnvLookup and FirstClauseLen are built from it.
LEMMA MinOf ==
  ASSUME NEW T \in SUBSET Nat, T # {}
  PROVE  Min(T) \in T /\ \A y \in T : Min(T) <= y
BY LeastExists DEF Min

\* What Max returns for a set of positions.
LEMMA MaxOf ==
  ASSUME NEW n \in Nat, NEW T \in SUBSET (1 .. n), T # {}
  PROVE  Max(T) \in T /\ \A y \in T : Max(T) >= y
<1> DEFINE U == {n - x : x \in T}
<1>1. U \in SUBSET Nat
  <2> SUFFICES ASSUME NEW x \in T PROVE n - x \in Nat
    OBVIOUS
  <2> x \in 1 .. n
    OBVIOUS
  <2> QED
    OBVIOUS
<1>0. U # {}
  <2>1. PICK x : x \in T
    OBVIOUS
  <2>2. n - x \in U
    BY <2>1
  <2> QED
    BY <2>2
<1>2. PICK m \in U : \A y \in U : m <= y
  BY <1>0, <1>1, LeastExists
<1>3. PICK x \in T : m = n - x
  BY <1>2
<1>4. ASSUME NEW y \in T PROVE x >= y
  <2>1. n - x <= n - y
    BY <1>2, <1>3
  <2>2. x \in 1 .. n /\ y \in 1 .. n
    OBVIOUS
  <2> QED
    BY <2>1, <2>2
<1> QED
  BY <1>4 DEF Max

\* Induction over the natural numbers, stated for a set.
LEMMA SetInduction ==
  ASSUME NEW S, 0 \in S, \A n \in Nat : n \in S => n + 1 \in S
  PROVE  Nat \subseteq S
<1> SUFFICES ASSUME Nat \ S # {} PROVE FALSE
  OBVIOUS
<1>1. PICK x \in Nat \ S : \A y \in Nat \ S : x <= y
  BY LeastExists
<1>2. x # 0 /\ x - 1 \in Nat /\ x - 1 \notin Nat \ S
  BY <1>1
<1>3. (x - 1) + 1 = x
  BY <1>2
<1> QED
  BY <1>2, <1>3

\* A sequence over a set is one over any larger set.
LEMMA SeqMono ==
  ASSUME NEW S, NEW T, S \subseteq T, NEW s \in Seq(S)
  PROVE  s \in Seq(T)
BY SeqDef

\* The words of a heap are words of a larger heap: nothing that is referred to
\* goes away.
LEMMA WordsMono ==
  ASSUME NEW nn \in Nat, NEW nc \in Nat, NEW na \in Nat,
         NEW nn2 \in Nat, NEW nc2 \in Nat, NEW na2 \in Nat,
         nn <= nn2, nc <= nc2, na <= na2
  PROVE  WordsOf(nn, nc, na) \subseteq WordsOf(nn2, nc2, na2)
BY DEF WordsOf

\* What a word that is a pointer points at exists.
LEMMA WordParts ==
  ASSUME NEW nn \in Nat, NEW nc \in Nat, NEW na \in Nat, NEW w \in WordsOf(nn, nc, na)
  PROVE  /\ w.t = "node" => w.id \in 1 .. nn
         /\ w.t = "cont" => w.id \in 1 .. nc
         /\ w.t = "accessor" => w.id \in 1 .. na
         /\ w.t = "fix" => w.id \in Fixnums
         /\ w = [t |-> w.t, id |-> w.id]
BY DEF WordsOf, Immediates, Markers

\* The immediates, the markers, fixnums and pointers to what exists are words.
LEMMA WordsBuilt ==
  ASSUME NEW nn \in Nat, NEW nc \in Nat, NEW na \in Nat
  PROVE  /\ \A t \in Immediates \cup Markers : Imm(t) \in WordsOf(nn, nc, na)
         /\ {Nil, Ukn, Undef, True, False} \subseteq WordsOf(nn, nc, na)
         /\ \A m \in Markers : Marker(m) \in WordsOf(nn, nc, na)
         /\ \A i \in Fixnums : Fix(i) \in WordsOf(nn, nc, na)
         /\ \A i \in 1 .. nn : NodeRef(i) \in WordsOf(nn, nc, na)
         /\ \A i \in 1 .. nc : ContRef(i) \in WordsOf(nn, nc, na)
         /\ \A i \in 1 .. na : AccessorRef(i) \in WordsOf(nn, nc, na)
BY DEF WordsOf, Imm, Nil, Ukn, Undef, True, False, Marker, Fix, NodeRef, ContRef, AccessorRef,
       Immediates, Markers

-----------------------------------------------------------------------------
\* A segment of a cell stays one when the words grow.
LEMMA SegMono ==
  ASSUME NEW W, NEW W2, W \subseteq W2
  PROVE  SegsOf(W) \subseteq SegsOf(W2)
BY DEF SegsOf

\* The types of the fields of a node.
LEMMA NodeFields ==
  ASSUME NEW W, NEW ne, NEW n \in NodesOf(W, ne)
  PROVE  /\ n.tag \in NodeTags /\ n.type \in NodeTypes /\ n.name \in Names
         /\ n.items \in Seq(W) /\ n.inner \in W /\ n.segs \in Seq(SegsOf(W))
         /\ n.env \in 0 .. ne /\ n.params \in Seq(Names) /\ n.capture \in Seq(Names)
         /\ n.dispatcher \in Int
BY DEF NodesOf

\* A node stays one when the heap grows.
LEMMA NodeMono ==
  ASSUME NEW W, NEW ne \in Nat, NEW W2, NEW ne2 \in Nat, W \subseteq W2, ne <= ne2,
         NEW n \in NodesOf(W, ne)
  PROVE  n \in NodesOf(W2, ne2)
<1>1. n.items \in Seq(W2) /\ n.segs \in Seq(SegsOf(W2))
  BY NodeFields, SeqMono, SegMono
<1>2. n.inner \in W2 /\ n.env \in 0 .. ne2
  BY NodeFields
<1> QED
  BY <1>1, <1>2 DEF NodesOf

\* Changing one field of a node leaves it a node.
LEMMA NodeWith ==
  ASSUME NEW W, NEW ne \in Nat, NEW n \in NodesOf(W, ne)
  PROVE  /\ \A t \in NodeTypes : [n EXCEPT !.type = t] \in NodesOf(W, ne)
         /\ \A x \in Names : [n EXCEPT !.name = x] \in NodesOf(W, ne)
         /\ \A ws \in Seq(W) : [n EXCEPT !.items = ws] \in NodesOf(W, ne)
         /\ \A w \in W : [n EXCEPT !.inner = w] \in NodesOf(W, ne)
         /\ \A e \in 0 .. ne : [n EXCEPT !.env = e] \in NodesOf(W, ne)
         /\ \A ps \in Seq(Names) : [n EXCEPT !.params = ps] \in NodesOf(W, ne)
         /\ \A cs \in Seq(Names) : [n EXCEPT !.capture = cs] \in NodesOf(W, ne)
         /\ \A d \in Int : [n EXCEPT !.dispatcher = d] \in NodesOf(W, ne)
BY DEF NodesOf

\* A node as it is allocated is a node.
LEMMA NodeType ==
  ASSUME NEW W, NEW ne \in Nat, Undef \in W, NEW tag \in NodeTags
  PROVE  Node(tag) \in NodesOf(W, ne)
<1>1. NodeTypeId(tag) \in Int
  BY DEF NodeTypeId
<1>2. "" \in Names
  BY NamesAssumption DEF ReservedNames
<1>3. <<>> \in Seq(W) /\ <<>> \in Seq(SegsOf(W)) /\ <<>> \in Seq(Names)
  OBVIOUS
<1>4. 0 \in 0 .. ne /\ "" \in NodeTypes
  BY DEF NodeTypes
<1> HIDE DEF SegsOf
<1> QED
  BY <1>1, <1>2, <1>3, <1>4, Zenon DEF Node, NodesOf

\* An environment stays one when the heap grows.
LEMMA EnvMono ==
  ASSUME NEW W, NEW ne \in Nat, NEW W2, NEW ne2 \in Nat, W \subseteq W2, ne <= ne2,
         NEW e \in EnvsOf(W, ne)
  PROVE  e \in EnvsOf(W2, ne2)
<1>1. e.chain \in Seq(1 .. ne2)
  BY SeqMono DEF EnvsOf
<1>2. e.bindings \in [Names -> W2]
  BY DEF EnvsOf
<1> QED
  BY <1>1, <1>2 DEF EnvsOf

\* The types of the fields of a continuation.
LEMMA ContFields ==
  ASSUME NEW W, NEW ne, NEW nc, NEW nm, NEW c \in ContsOf(W, ne, nc, nm)
  PROVE  /\ c.type \in ContTypes /\ c.env \in 1 .. ne /\ c.cont \in 0 .. nc
         /\ c.subj \in W /\ c.rest \in Seq(W) /\ c.evaled \in Seq(W)
         /\ c.callback \in Callbacks /\ c.memo \in 0 .. nm
BY DEF ContsOf

\* A continuation stays one when the heap grows.
LEMMA ContMono ==
  ASSUME NEW W, NEW ne \in Nat, NEW nc \in Nat, NEW nm \in Nat,
         NEW W2, NEW ne2 \in Nat, NEW nc2 \in Nat, NEW nm2 \in Nat,
         W \subseteq W2, ne <= ne2, nc <= nc2, nm <= nm2,
         NEW c \in ContsOf(W, ne, nc, nm)
  PROVE  c \in ContsOf(W2, ne2, nc2, nm2)
<1>1. c.rest \in Seq(W2) /\ c.evaled \in Seq(W2)
  BY ContFields, SeqMono
<1>2. /\ c.subj \in W2 /\ c.env \in 1 .. ne2 /\ c.cont \in 0 .. nc2 /\ c.memo \in 0 .. nm2
  BY ContFields
<1> QED
  BY <1>1, <1>2 DEF ContsOf

\* A message dispatcher stays one when the heap grows.
LEMMA DispatcherMono ==
  ASSUME NEW W, NEW ne \in Nat, NEW W2, NEW ne2 \in Nat, W \subseteq W2, ne <= ne2,
         NEW d \in DispatchersOf(W, ne)
  PROVE  d \in DispatchersOf(W2, ne2)
<1>1. \A h \in Handlers : d[h] \in NodesOf(W2, ne2)
  BY NodeMono DEF DispatchersOf
<1> QED
  BY <1>1 DEF DispatchersOf

\* The types of the keys of a memo table.
LEMMA MemoFields ==
  ASSUME NEW W, NEW ne, NEW m \in MemosOf(W, ne)
  PROVE  /\ m.VarName \in Names /\ m.RestCondition \in Seq(W)
         /\ m.TrueClause \in W /\ m.FalseClause \in W
         /\ m.RestPairs \in Seq(SegsOf(W)) /\ m.IfTrue \in W
         /\ m.PredictExpr \in W /\ m.AfterExpr \in W /\ m.BodyExprs \in W
         /\ m.ApplyArgsExpr \in W /\ m.ApplySym \in W
         /\ m.Dispatcher \in DispatchersOf(W, ne)
         /\ m.BuilderName \in W /\ m.BuilderSourceCode \in W /\ m.RestCmdWords \in Seq(W)
BY DEF MemosOf

\* A memo table stays one when the heap grows.
LEMMA MemoMono ==
  ASSUME NEW W, NEW ne \in Nat, NEW W2, NEW ne2 \in Nat, W \subseteq W2, ne <= ne2,
         NEW m \in MemosOf(W, ne)
  PROVE  m \in MemosOf(W2, ne2)
<1>1. /\ m.RestCondition \in Seq(W2) /\ m.RestPairs \in Seq(SegsOf(W2))
      /\ m.RestCmdWords \in Seq(W2) /\ m.Dispatcher \in DispatchersOf(W2, ne2)
  BY MemoFields, SeqMono, SegMono, DispatcherMono
<1>2. /\ m.TrueClause \in W2 /\ m.FalseClause \in W2 /\ m.IfTrue \in W2
      /\ m.PredictExpr \in W2 /\ m.AfterExpr \in W2 /\ m.BodyExprs \in W2
      /\ m.ApplyArgsExpr \in W2 /\ m.ApplySym \in W2
      /\ m.BuilderName \in W2 /\ m.BuilderSourceCode \in W2
  BY MemoFields
<1> QED
  BY <1>1, <1>2 DEF MemosOf

\* Putting into a memo table what the keywords put there leaves it a memo
\* table.
LEMMA MemoWith ==
  ASSUME NEW W, NEW ne \in Nat, NEW m \in MemosOf(W, ne)
  PROVE  /\ \A x \in Names : [m EXCEPT !.VarName = x] \in MemosOf(W, ne)
         /\ \A ws \in Seq(W) : [m EXCEPT !.RestCondition = ws] \in MemosOf(W, ne)
         /\ \A ws \in Seq(W) : [m EXCEPT !.RestCmdWords = ws] \in MemosOf(W, ne)
         /\ \A w \in W : /\ [m EXCEPT !.ApplyArgsExpr = w] \in MemosOf(W, ne)
                         /\ [m EXCEPT !.ApplySym = w] \in MemosOf(W, ne)
         /\ \A w, v \in W : /\ [m EXCEPT !.TrueClause = w, !.FalseClause = v] \in MemosOf(W, ne)
                            /\ [m EXCEPT !.BuilderName = w, !.BuilderSourceCode = v]
                                 \in MemosOf(W, ne)
         /\ \A ps \in Seq(SegsOf(W)), w \in W :
              [m EXCEPT !.RestPairs = ps, !.IfTrue = w] \in MemosOf(W, ne)
         /\ \A p, a, b \in W :
              [m EXCEPT !.PredictExpr = p, !.AfterExpr = a, !.BodyExprs = b] \in MemosOf(W, ne)
         /\ \A d \in DispatchersOf(W, ne) : [m EXCEPT !.Dispatcher = d] \in MemosOf(W, ne)
BY Zenon DEF MemosOf

\* The memo table a keyword starts from is one, and its dispatcher has no
\* handler.
LEMMA EmptyMemoType ==
  ASSUME NEW W, NEW ne \in Nat, Undef \in W
  PROVE  EmptyMemo \in MemosOf(W, ne) /\ DispatcherShape(EmptyMemo.Dispatcher)
<1>1. NoProcedure \in NodesOf(W, ne)
  BY NodeType DEF NoProcedure, NodeTags
<1>3. NoDispatcher \in DispatchersOf(W, ne) /\ DispatcherShape(NoDispatcher)
  BY <1>1 DEF NoDispatcher, DispatchersOf, DispatcherShape
<1>2. "" \in Names
  BY NamesAssumption DEF ReservedNames
<1>4. <<>> \in Seq(W) /\ <<>> \in Seq(SegsOf(W))
  OBVIOUS
<1> QED
  BY <1>2, <1>3, <1>4 DEF EmptyMemo, MemosOf

\* An accessor stays one when the heap grows.
LEMMA AccessorMono ==
  ASSUME NEW W, NEW W2, W \subseteq W2, NEW a \in AccessorsOf(W)
  PROVE  a \in AccessorsOf(W2)
<1>1. a.slots \in [Names -> W2]
  BY DEF AccessorsOf
<1> QED
  BY <1>1 DEF AccessorsOf

-----------------------------------------------------------------------------
-----------------------------------------------------------------------------
\* Nodes that are well formed in a heap are so in a larger one.
LEMMA NodesMono ==
  ASSUME NEW ns, NEW W, NEW ne \in Nat, NEW W2, NEW ne2 \in Nat, W \subseteq W2, ne <= ne2,
         NodesOK(ns, W, ne)
  PROVE  NodesOK(ns, W2, ne2)
<1>1. NodesOf(W, ne) \subseteq NodesOf(W2, ne2)
  BY NodeMono
<1> QED
  BY <1>1, SeqMono DEF NodesOK

\* Allocating a well-formed node leaves the nodes well formed and the others
\* as they are.
LEMMA NodesAppend ==
  ASSUME NEW ns, NEW W, NEW ne \in Nat, NodesOK(ns, W, ne),
         NEW n \in NodesOf(W, ne), NodeShape(n)
  PROVE  /\ NodesOK(Append(ns, n), W, ne)
         /\ Len(Append(ns, n)) = Len(ns) + 1 /\ Len(ns) \in Nat
         /\ \A i \in DOMAIN ns : Append(ns, n)[i] = ns[i]
BY DEF NodesOK

\* Environments stay well formed when the words grow.
LEMMA EnvsMono ==
  ASSUME NEW es, NEW W, NEW W2, W \subseteq W2, EnvsOK(es, W)
  PROVE  EnvsOK(es, W2)
<1>1. Len(es) \in Nat
  BY DEF EnvsOK
<1>2. EnvsOf(W, Len(es)) \subseteq EnvsOf(W2, Len(es))
  BY <1>1, EnvMono
<1> QED
  BY <1>2, SeqMono DEF EnvsOK

\* A new environment leaves the environments well formed, the root one as it
\* was.
LEMMA EnvsAppend ==
  ASSUME NEW es, NEW W, EnvsOK(es, W), NEW e \in EnvsOf(W, Len(es) + 1)
  PROVE  /\ EnvsOK(Append(es, e), W)
         /\ Len(Append(es, e)) = Len(es) + 1
         /\ Append(es, e)[RootEnv] = es[RootEnv]
<1>1. Len(es) \in Nat /\ Len(es) >= ProcessEnv
  BY DEF EnvsOK
<1>2. EnvsOf(W, Len(es)) \subseteq EnvsOf(W, Len(es) + 1)
  BY <1>1, EnvMono
<1>3. es \in Seq(EnvsOf(W, Len(es) + 1))
  BY <1>2, SeqMono DEF EnvsOK
<1> QED
  BY <1>1, <1>3 DEF EnvsOK, RootEnv, ProcessEnv

\* KN_EnvDefine outside the root environment does so too.
LEMMA EnvsDefine ==
  ASSUME NEW es, NEW W, EnvsOK(es, W), NEW e \in ProcessEnv .. Len(es), NEW name \in Names,
         NEW v \in W
  PROVE  LET es2 == [es EXCEPT ![e].bindings[name] = v]
         IN  EnvsOK(es2, W) /\ Len(es2) = Len(es) /\ es2[RootEnv] = es[RootEnv]
<1> DEFINE new == [es[e] EXCEPT !.bindings[name] = v]
<1> DEFINE es2 == [es EXCEPT ![e] = new]
<1>1. Len(es) \in Nat /\ es \in Seq(EnvsOf(W, Len(es))) /\ e \in 1 .. Len(es) /\ e # RootEnv
  BY DEF EnvsOK, ProcessEnv, RootEnv
<1>2. es[e] \in EnvsOf(W, Len(es))
  BY <1>1
<1>3. new \in EnvsOf(W, Len(es))
  BY <1>2 DEF EnvsOf
<1> HIDE DEF new
<1>4. es2 \in Seq(EnvsOf(W, Len(es))) /\ Len(es2) = Len(es) /\ es2[RootEnv] = es[RootEnv]
  BY <1>1, <1>3 DEF RootEnv
<1>5. es2 = [es EXCEPT ![e].bindings[name] = v]
  BY DEF new
<1> QED
  BY <1>4, <1>5 DEF EnvsOK

\* Continuations stay well formed when the heap grows.
LEMMA ContsMono ==
  ASSUME NEW ks, NEW W, NEW ne \in Nat, NEW nm \in Nat, NEW W2, NEW ne2 \in Nat, NEW nm2 \in Nat,
         W \subseteq W2, ne <= ne2, nm <= nm2, ContsOK(ks, W, ne, nm)
  PROVE  ContsOK(ks, W2, ne2, nm2)
<1>1. Len(ks) \in Nat
  BY DEF ContsOK
<1>2. ContsOf(W, ne, Len(ks), nm) \subseteq ContsOf(W2, ne2, Len(ks), nm2)
  BY <1>1, ContMono
<1> QED
  BY <1>2, SeqMono DEF ContsOK

\* A new continuation leaves the continuations well formed.
LEMMA ContsAppend ==
  ASSUME NEW ks, NEW W, NEW ne \in Nat, NEW nm \in Nat, ContsOK(ks, W, ne, nm),
         NEW c \in ContsOf(W, ne, Len(ks) + 1, nm), ContShape(c)
  PROVE  ContsOK(Append(ks, c), W, ne, nm) /\ Len(Append(ks, c)) = Len(ks) + 1
<1>1. Len(ks) \in Nat
  BY DEF ContsOK
<1>2. ContsOf(W, ne, Len(ks), nm) \subseteq ContsOf(W, ne, Len(ks) + 1, nm)
  BY <1>1, ContMono
<1>3. ks \in Seq(ContsOf(W, ne, Len(ks) + 1, nm))
  BY <1>2, SeqMono DEF ContsOK
<1> QED
  BY <1>1, <1>3 DEF ContsOK

\* Memo tables stay well formed when the heap grows.
LEMMA MemosMono ==
  ASSUME NEW ms, NEW W, NEW ne \in Nat, NEW W2, NEW ne2 \in Nat, W \subseteq W2, ne <= ne2,
         MemosOK(ms, W, ne)
  PROVE  MemosOK(ms, W2, ne2)
<1>1. MemosOf(W, ne) \subseteq MemosOf(W2, ne2)
  BY MemoMono
<1> QED
  BY <1>1, SeqMono DEF MemosOK

\* A new memo table leaves the memo tables well formed, and those there were
\* as they are.
LEMMA MemosAppend ==
  ASSUME NEW ms, NEW W, NEW ne \in Nat, MemosOK(ms, W, ne),
         NEW m \in MemosOf(W, ne), DispatcherShape(m.Dispatcher)
  PROVE  /\ MemosOK(Append(ms, m), W, ne)
         /\ Len(Append(ms, m)) = Len(ms) + 1 /\ Len(ms) \in Nat
         /\ Frozen(ms, Append(ms, m))
BY DEF MemosOK, Frozen

\* Accessors stay well formed when the words grow.
LEMMA AccessorsMono ==
  ASSUME NEW bs, NEW W, NEW W2, W \subseteq W2, AccessorsOK(bs, W)
  PROVE  AccessorsOK(bs, W2)
<1>1. AccessorsOf(W) \subseteq AccessorsOf(W2)
  BY AccessorMono
<1> QED
  BY <1>1, SeqMono DEF AccessorsOK

\* A new accessor leaves the accessors well formed.
LEMMA AccessorsAppend ==
  ASSUME NEW bs, NEW W, AccessorsOK(bs, W),
         NEW a \in AccessorsOf(W), AccessorShape(a)
  PROVE  AccessorsOK(Append(bs, a), W) /\ Len(Append(bs, a)) = Len(bs) + 1 /\ Len(bs) \in Nat
<1>1. /\ bs \in Seq(AccessorsOf(W))
      /\ \A i \in DOMAIN bs : AccessorShape(bs[i])
  BY DEF AccessorsOK
<1>2. /\ Append(bs, a) \in Seq(AccessorsOf(W))
      /\ Len(Append(bs, a)) = Len(bs) + 1 /\ Len(bs) \in Nat
      /\ \A i \in DOMAIN Append(bs, a) : AccessorShape(Append(bs, a)[i])
  BY <1>1
<1> QED
  BY <1>2 DEF AccessorsOK

\* Writing an accessor leaves the accessors well formed if what is written is.
LEMMA AccessorsReplace ==
  ASSUME NEW bs, NEW W, AccessorsOK(bs, W), NEW i \in DOMAIN bs,
         NEW a \in AccessorsOf(W), AccessorShape(a)
  PROVE  AccessorsOK([bs EXCEPT ![i] = a], W) /\ Len([bs EXCEPT ![i] = a]) = Len(bs)
<1>1. /\ bs \in Seq(AccessorsOf(W))
      /\ \A j \in DOMAIN bs : AccessorShape(bs[j])
  BY DEF AccessorsOK
<1>2. /\ [bs EXCEPT ![i] = a] \in Seq(AccessorsOf(W))
      /\ Len([bs EXCEPT ![i] = a]) = Len(bs)
      /\ \A j \in DOMAIN bs : AccessorShape([bs EXCEPT ![i] = a][j])
      /\ DOMAIN [bs EXCEPT ![i] = a] = DOMAIN bs
  BY <1>1
<1> QED
  BY <1>2 DEF AccessorsOK

\* The registry of dispatchers stays well formed when the heap grows.
LEMMA DispatchersMono ==
  ASSUME NEW ds, NEW W, NEW ne \in Nat, NEW W2, NEW ne2 \in Nat, W \subseteq W2, ne <= ne2,
         DispatchersOK(ds, W, ne)
  PROVE  DispatchersOK(ds, W2, ne2)
<1>1. \A i \in DOMAIN ds : ds[i] \in DispatchersOf(W2, ne2)
  BY DispatcherMono DEF DispatchersOK
<1> QED
  BY <1>1 DEF DispatchersOK

-----------------------------------------------------------------------------
TreeOK(ks) ==
  /\ ReturnCont \in DOMAIN ks /\ ks[ReturnCont].type = "RETURN"
  /\ \A i \in DOMAIN ks \ {ReturnCont} : ks[i].type # "RETURN" /\ ks[i].cont \in 1 .. i - 1
  /\ \A i \in DOMAIN ks : ks[i].type = "CLAUSE_ARGS" =>
       /\ ks[ks[i].cont].type = "CLAUSE_LIST"
       /\ ks[ks[i].cont].subj = ks[i].subj
       /\ ks[ks[i].cont].env = ks[i].env
  /\ \A i, j \in DOMAIN ks : ks[i].memo = ks[j].memo /\ ks[i].memo # 0 => i = j

\* TreeOK is what ArgsFit, ChainsRooted and MemosOwned say together.
LEMMA TreeIs == TreeOK(conts) <=> ArgsFit /\ ChainsRooted /\ MemosOwned
BY DEF TreeOK, ArgsFit, ChainsRooted, MemosOwned

\* A continuation that goes on with an older one, whose clause is the one it
\* was made for and whose memo table is its own, can be added to the tree, and
\* nothing there was changes.
LEMMA TreeAppend ==
  ASSUME NEW S, NEW ks \in Seq(S), TreeOK(ks), NEW c,
         c.type # "RETURN", c.cont \in 1 .. Len(ks),
         c.type = "CLAUSE_ARGS" => /\ ks[c.cont].type = "CLAUSE_LIST"
                                   /\ ks[c.cont].subj = c.subj
                                   /\ ks[c.cont].env = c.env,
         c.memo = 0 \/ \A i \in DOMAIN ks : ks[i].memo # c.memo
  PROVE  TreeOK(Append(ks, c)) /\ Frozen(ks, Append(ks, c))
<1> DEFINE new == Append(ks, c)
<1>1. /\ Len(ks) \in Nat /\ DOMAIN ks = 1 .. Len(ks)
      /\ DOMAIN new = 1 .. Len(ks) + 1 /\ new[Len(ks) + 1] = c
      /\ \A i \in DOMAIN ks : new[i] = ks[i] /\ i \in DOMAIN new
      /\ Len(ks) <= Len(new)
  OBVIOUS
<1>2. \A i \in DOMAIN new : i \in DOMAIN ks \/ i = Len(ks) + 1
  BY <1>1
<1> HIDE DEF new
<1>3. Frozen(ks, new)
  BY <1>1 DEF Frozen
<1>4. ReturnCont \in DOMAIN new /\ new[ReturnCont].type = "RETURN"
  BY <1>1 DEF TreeOK
<1>5. ASSUME NEW i \in DOMAIN new \ {ReturnCont}
      PROVE  new[i].type # "RETURN" /\ new[i].cont \in 1 .. i - 1
  <2>1. CASE i \in DOMAIN ks
    BY <1>1, <2>1 DEF TreeOK
  <2>2. CASE i = Len(ks) + 1
    BY <1>1, <2>2
  <2> QED
    BY <1>2, <2>1, <2>2
<1>6. ASSUME NEW i \in DOMAIN new, new[i].type = "CLAUSE_ARGS"
      PROVE  /\ new[new[i].cont].type = "CLAUSE_LIST"
             /\ new[new[i].cont].subj = new[i].subj
             /\ new[new[i].cont].env = new[i].env
  <2>1. CASE i \in DOMAIN ks
    <3>1. i # ReturnCont
      BY <1>1, <1>6, <2>1 DEF TreeOK
    <3>2. ks[i].cont \in DOMAIN ks
      BY <1>1, <2>1, <3>1 DEF TreeOK
    <3> QED
      BY <1>1, <1>6, <2>1, <3>2 DEF TreeOK
  <2>2. CASE i = Len(ks) + 1
    BY <1>1, <1>6, <2>2
  <2> QED
    BY <1>2, <2>1, <2>2
<1>7. ASSUME NEW i \in DOMAIN new, NEW j \in DOMAIN new, new[i].memo = new[j].memo,
             new[i].memo # 0
      PROVE  i = j
  <2>1. CASE i \in DOMAIN ks /\ j \in DOMAIN ks
    BY <1>1, <1>7, <2>1 DEF TreeOK
  <2>2. CASE i = Len(ks) + 1 \/ j = Len(ks) + 1
    BY <1>1, <1>2, <1>7, <2>2
  <2> QED
    BY <1>2, <2>1, <2>2
<1> QED
  BY <1>3, <1>4, <1>5, <1>6, <1>7 DEF TreeOK, new

-----------------------------------------------------------------------------
\* The inductive invariant: the four parts need each other, as a handler that
\* pushes a frame takes from the one it runs (TypeOK, FramesMatch) what it
\* goes on with (ChainsRooted) and takes its values from the memo table
\* (MemosOwned).
Inv == TypeOK /\ FramesMatch /\ ChainsRooted /\ MemosOwned

\* What a step never does: change a continuation or a memo table, the text of
\* a node or the root environment.
Kept ==
  /\ Frozen(conts, conts') /\ Frozen(memos, memos')
  /\ \A i \in DOMAIN nodes : TextKept(nodes[i], nodes'[i])
  /\ envs'[RootEnv] = envs[RootEnv]

\* No kind of object shrinks in a step.
Grows ==
  /\ Len(nodes') \in Nat /\ Len(nodes) <= Len(nodes')
  /\ Len(envs') \in Nat /\ Len(envs) <= Len(envs')
  /\ Len(conts') \in Nat /\ Len(conts) <= Len(conts')
  /\ Len(memos') \in Nat /\ Len(memos) <= Len(memos')
  /\ Len(accessors') \in Nat /\ Len(accessors) <= Len(accessors')

\* The obligations of a step, for each kind of object.
NodesStep ==
  /\ NodesOK(nodes', Words', Len(envs'))
  /\ \A i \in DOMAIN nodes : TextKept(nodes[i], nodes'[i])
EnvsStep == EnvsOK(envs', Words') /\ envs'[RootEnv] = envs[RootEnv]
ContsStep ==
  /\ ContsOK(conts', Words', Len(envs'), Len(memos'))
  /\ TreeOK(conts') /\ Frozen(conts, conts')
MemosStep == MemosOK(memos', Words', Len(envs')) /\ Frozen(memos, memos')
AccessorsStep == AccessorsOK(accessors', Words')
DispatchersStep ==
  DispatchersOK(dispatchers', Words', Len(envs')) /\ nextMsgDispatcherId' \in Nat
JobStep == JobOK(job', Words', Len(envs'), Len(conts')) /\ JobFits'
RestStep == depth' \in Nat /\ currCode' = currCode

\* A step that meets all the obligations preserves the invariant and what a
\* step keeps.
LEMMA Conclude ==
  ASSUME Inv, NodesStep, EnvsStep, ContsStep, MemosStep, AccessorsStep, DispatchersStep,
         JobStep, RestStep
  PROVE  Inv' /\ Kept
<1>1. TreeOK(conts')  <=> (ArgsFit /\ ChainsRooted /\ MemosOwned)'
  BY DEF TreeOK, ArgsFit, ChainsRooted, MemosOwned
<1> QED
  BY <1>1 DEF Inv, Kept, TypeOK, FramesMatch, NodesStep, EnvsStep, ContsStep, MemosStep,
     AccessorsStep, DispatchersStep, JobStep, RestStep

\* What the invariant says of each kind of object, in the form the proofs use.
LEMMA InvFacts ==
  ASSUME Inv
  PROVE  /\ NodesOK(nodes, Words, Len(envs)) /\ EnvsOK(envs, Words)
         /\ ContsOK(conts, Words, Len(envs), Len(memos)) /\ MemosOK(memos, Words, Len(envs))
         /\ AccessorsOK(accessors, Words) /\ DispatchersOK(dispatchers, Words, Len(envs))
         /\ nextMsgDispatcherId \in Nat /\ JobOK(job, Words, Len(envs), Len(conts))
         /\ depth \in Nat /\ TreeOK(conts) /\ JobFits
         /\ Len(nodes) \in Nat /\ Len(envs) \in Nat /\ Len(conts) \in Nat /\ Len(memos) \in Nat
         /\ Len(accessors) \in Nat /\ Len(envs) >= ProcessEnv
         /\ DOMAIN nodes = 1 .. Len(nodes) /\ DOMAIN envs = 1 .. Len(envs)
         /\ DOMAIN conts = 1 .. Len(conts) /\ DOMAIN memos = 1 .. Len(memos)
         /\ DOMAIN accessors = 1 .. Len(accessors)
<1>1. TypeOK /\ TreeOK(conts) /\ JobFits
  BY TreeIs DEF Inv, FramesMatch
<1>2. Len(nodes) \in Nat /\ DOMAIN nodes = 1 .. Len(nodes)
  BY <1>1 DEF TypeOK, NodesOK
<1>3. Len(envs) \in Nat /\ DOMAIN envs = 1 .. Len(envs) /\ Len(envs) >= ProcessEnv
  BY <1>1 DEF TypeOK, EnvsOK
<1>4. Len(conts) \in Nat /\ DOMAIN conts = 1 .. Len(conts)
  BY <1>1 DEF TypeOK, ContsOK
<1>5. Len(memos) \in Nat /\ DOMAIN memos = 1 .. Len(memos)
  BY <1>1 DEF TypeOK, MemosOK
<1>6. Len(accessors) \in Nat /\ DOMAIN accessors = 1 .. Len(accessors)
  BY <1>1 DEF TypeOK, AccessorsOK
<1> QED
  BY <1>1, <1>2, <1>3, <1>4, <1>5, <1>6 DEF TypeOK

\* When no kind of object shrinks, words stay words.
LEMMA WordsGrow ==
  ASSUME Inv, Grows
  PROVE  Words \subseteq Words' /\ {Nil, Ukn, Undef, True, False} \subseteq Words'
<1>1. /\ Words = WordsOf(Len(nodes), Len(conts), Len(accessors))
      /\ Words' = WordsOf(Len(nodes'), Len(conts'), Len(accessors'))
  BY DEF Words
<1>2. /\ Len(nodes) \in Nat /\ Len(nodes') \in Nat /\ Len(nodes) <= Len(nodes')
      /\ Len(conts) \in Nat /\ Len(conts') \in Nat /\ Len(conts) <= Len(conts')
      /\ Len(accessors) \in Nat /\ Len(accessors') \in Nat
      /\ Len(accessors) <= Len(accessors')
  BY InvFacts DEF Grows
<1>3. Words \subseteq Words'
  <2> DEFINE nn == Len(nodes) nc == Len(conts) na == Len(accessors)
             nn2 == Len(nodes') nc2 == Len(conts') na2 == Len(accessors')
  <2>1. /\ nn \in Nat /\ nn2 \in Nat /\ nn <= nn2
        /\ nc \in Nat /\ nc2 \in Nat /\ nc <= nc2
        /\ na \in Nat /\ na2 \in Nat /\ na <= na2
    BY ONLY <1>2
  <2>2. Words = WordsOf(nn, nc, na) /\ Words' = WordsOf(nn2, nc2, na2)
    BY ONLY <1>1
  <2> HIDE DEF nn, nc, na, nn2, nc2, na2
  <2>3. WordsOf(nn, nc, na) \subseteq WordsOf(nn2, nc2, na2)
    BY ONLY <2>1, WordsMono
  <2> QED
    BY ONLY <2>2, <2>3
<1>4. {Nil, Ukn, Undef, True, False} \subseteq Words'
  BY <1>1, <1>2, WordsBuilt
<1> QED
  BY <1>3, <1>4

\* A node that is not written keeps its text.
LEMMA SameText ==
  ASSUME NEW W, NEW ne, NEW n \in NodesOf(W, ne)
  PROVE  TextKept(n, n)
BY DEF TextKept, NodesOf

\* The obligation for nodes, when they are not written.
LEMMA NodesKept ==
  ASSUME Inv, Grows, nodes' = nodes
  PROVE  NodesStep
<1>1. NodesOK(nodes', Words', Len(envs'))
  BY InvFacts, WordsGrow, NodesMono DEF Grows
<1>2. \A i \in DOMAIN nodes : TextKept(nodes[i], nodes'[i])
  BY InvFacts, SameText DEF NodesOK
<1> QED
  BY <1>1, <1>2 DEF NodesStep

\* The obligation for environments, when they are not written.
LEMMA EnvsKept ==
  ASSUME Inv, Grows, envs' = envs
  PROVE  EnvsStep
BY InvFacts, WordsGrow, EnvsMono DEF EnvsStep

\* The obligation for continuations, when none is made.
LEMMA ContsKept ==
  ASSUME Inv, Grows, conts' = conts
  PROVE  ContsStep
<1>1. ContsOK(conts', Words', Len(envs'), Len(memos'))
  BY InvFacts, WordsGrow, ContsMono DEF Grows
<1> QED
  BY <1>1, InvFacts DEF ContsStep, Frozen

\* The obligation for memo tables, when none is made.
LEMMA MemosKept ==
  ASSUME Inv, Grows, memos' = memos
  PROVE  MemosStep
<1>1. MemosOK(memos', Words', Len(envs'))
  BY InvFacts, WordsGrow, MemosMono DEF Grows
<1> QED
  BY <1>1, InvFacts DEF MemosStep, Frozen

\* The obligation for accessors, when they are not written.
LEMMA AccessorsKept ==
  ASSUME Inv, Grows, accessors' = accessors
  PROVE  AccessorsStep
BY InvFacts, WordsGrow, AccessorsMono DEF AccessorsStep

\* The obligation for the registry, when it is not written.
LEMMA DispatchersKept ==
  ASSUME Inv, Grows, UNCHANGED registry
  PROVE  DispatchersStep
<1>1. DispatchersOK(dispatchers', Words', Len(envs')) 
  BY InvFacts, WordsGrow, DispatchersMono DEF Grows, registry
<1> QED
  BY <1>1, InvFacts DEF DispatchersStep, registry

\* The obligations for accessors and the registry, when neither is written.
LEMMA ObjectsKept ==
  ASSUME Inv, Grows, UNCHANGED objects
  PROVE  AccessorsStep /\ DispatchersStep
BY AccessorsKept, DispatchersKept DEF objects

-----------------------------------------------------------------------------
\* What a word refers to is there and well formed.
LEMMA WordFacts ==
  ASSUME Inv, NEW w \in Words
  PROVE  /\ w.t = "node" => /\ w.id \in 1 .. Len(nodes)
                            /\ nodes[w.id] \in NodesOf(Words, Len(envs))
                            /\ NodeShape(nodes[w.id])
         /\ w.t = "cont" => w.id \in 1 .. Len(conts)
         /\ w.t = "accessor" => /\ w.id \in 1 .. Len(accessors)
                                /\ accessors[w.id] \in AccessorsOf(Words)
                                /\ AccessorShape(accessors[w.id])
<1>1. /\ w.t = "node" => w.id \in 1 .. Len(nodes)
      /\ w.t = "cont" => w.id \in 1 .. Len(conts)
      /\ w.t = "accessor" => w.id \in 1 .. Len(accessors)
  BY InvFacts, WordParts DEF Words
<1>2. \A i \in 1 .. Len(nodes) : nodes[i] \in NodesOf(Words, Len(envs)) /\ NodeShape(nodes[i])
  BY InvFacts DEF NodesOK
<1>3. \A i \in 1 .. Len(accessors) :
        accessors[i] \in AccessorsOf(Words) /\ AccessorShape(accessors[i])
  BY InvFacts DEF AccessorsOK
<1> QED
  BY <1>1, <1>2, <1>3

\* What HasTag finds behind a word is a well-formed node of that tag.
LEMMA TagFacts ==
  ASSUME Inv, NEW w \in Words, NEW tag, HasTag(w, tag)
  PROVE  /\ w.t = "node" /\ w.id \in 1 .. Len(nodes) /\ nodes[w.id].tag = tag
         /\ nodes[w.id] \in NodesOf(Words, Len(envs)) /\ NodeShape(nodes[w.id])
BY WordFacts DEF HasTag

\* The words the handlers make by themselves are words.
LEMMA ConstantWords ==
  ASSUME Inv
  PROVE  /\ {Nil, Ukn, Undef, True, False} \subseteq Words
         /\ \A m \in Markers : Marker(m) \in Words
         /\ \A i \in Fixnums : Fix(i) \in Words
         /\ \A i \in 1 .. Len(nodes) : NodeRef(i) \in Words
         /\ \A i \in 1 .. Len(conts) : ContRef(i) \in Words
         /\ \A i \in 1 .. Len(accessors) : AccessorRef(i) \in Words
BY InvFacts, WordsBuilt DEF Words

\* The elements of a list are words, and a list behind a pointer has one.
LEMMA ItemsType ==
  ASSUME Inv, NEW w \in Words
  PROVE  Items(w) \in Seq(Words) /\ (IsPair(w) => Items(w) # <<>> /\ Items(w) = nodes[w.id].items)
<1>1. CASE IsPair(w)
  BY <1>1, TagFacts, NodeFields DEF IsPair, Items, NodeShape, WellBuilt
<1>2. CASE ~IsPair(w)
  BY <1>2 DEF Items
<1> QED
  BY <1>1, <1>2

\* The chain of a cell has a segment, and segments hold words.
LEMMA SegsType ==
  ASSUME Inv, NEW w \in Words, IsCell(w)
  PROVE  /\ Segs(w) \in Seq(SegsOf(Words)) /\ Segs(w) # <<>> /\ Len(Segs(w)) \in Nat
         /\ \A i \in 1 .. Len(Segs(w)) : /\ Segs(w)[i].core \in Words
                                         /\ Segs(w)[i].table \in Words
                                         /\ Segs(w)[i].list \in Words
                                         /\ Segs(w)[i].capture \in Words
         /\ Len(Segs(w)) >= 1
<1>1. Segs(w) \in Seq(SegsOf(Words)) /\ Segs(w) # <<>>
  BY TagFacts, NodeFields DEF IsCell, Segs, NodeShape, WellBuilt
<1>2. \A i \in 1 .. Len(Segs(w)) : Segs(w)[i] \in SegsOf(Words)
  BY <1>1
<1> QED
  BY <1>1, <1>2 DEF SegsOf

\* The name of a node is a name.
LEMMA NameType ==
  ASSUME Inv, NEW w \in Words, w.t = "node"
  PROVE  NameOf(w) \in Names
BY WordFacts, NodeFields DEF NameOf

\* What KN_EnvLookup returns is a word.
LEMMA EnvLookupType ==
  ASSUME Inv, NEW e \in 1 .. Len(envs), NEW name \in Names
  PROVE  EnvLookup(e, name) \in Words
<1> DEFINE chain == envs[e].chain
           owners == {i \in DOMAIN chain : envs[chain[i]].bindings[name] # Undef}
<1>1. \A i \in 1 .. Len(envs) : envs[i] \in EnvsOf(Words, Len(envs))
  BY InvFacts DEF EnvsOK
<1>2. chain \in Seq(1 .. Len(envs)) /\ owners \in SUBSET Nat
  BY <1>1 DEF EnvsOf
<1>3. CASE owners = {}
  BY <1>3, ConstantWords, Zenon DEF EnvLookup
<1>4. CASE owners # {}
  <2>1. Min(owners) \in owners
    BY <1>2, <1>4, MinOf, Zenon
  <2>4. Min(owners) \in DOMAIN chain
    BY <2>1, Zenon
  <2>2. chain[Min(owners)] \in 1 .. Len(envs)
    <3> HIDE DEF owners, chain
    <3> QED
      BY <1>2, <2>4
  <2>3. envs[chain[Min(owners)]].bindings[name] \in Words
    BY <1>1, <2>2, Zenon DEF EnvsOf
  <2> QED
    BY <1>4, <2>3, Zenon DEF EnvLookup
<1> QED
  BY <1>3, <1>4

-----------------------------------------------------------------------------
\* What the bounce in flight carries.
LEMMA JobFacts ==
  ASSUME Inv
  PROVE  /\ job.v \in Words /\ job.words \in Seq(Words)
         /\ job.op \in LoopOps \cup CallOps => job.k \in 1 .. Len(conts)
         /\ job.op \in (LoopOps \cup CallOps) \ {"RUN", "INVOKE"} =>
              job.env \in ProcessEnv .. Len(envs)
         /\ job.op = "CLAUSE_LIST" => job.words # <<>>
<1>1. JobOK(job, Words, Len(envs), Len(conts)) /\ Len(envs) \in Nat /\ Len(conts) \in Nat
  BY InvFacts
<1>2. /\ job.v \in Words /\ job.words \in Seq(Words) /\ job.env \in 0 .. Len(envs)
      /\ job.k \in 0 .. Len(conts)
  BY <1>1 DEF JobOK, JobsOf
<1>3. /\ job.op \in LoopOps \cup CallOps => job.k # 0
      /\ job.op \in (LoopOps \cup CallOps) \ {"RUN", "INVOKE"} => job.env >= ProcessEnv
      /\ job.op = "CLAUSE_LIST" => job.words # <<>>
  BY <1>1 DEF JobOK, LoopOps, CallOps, FinalOps
<1> QED
  BY <1>1, <1>2, <1>3 DEF ProcessEnv

\* What an evaluation has to go by.
LEMMA EvaluatingFacts ==
  ASSUME Inv, Evaluating
  PROVE  /\ Expr \in Words /\ job.env \in ProcessEnv .. Len(envs) /\ job.k \in 1 .. Len(conts)
         /\ job.env \in 1 .. Len(envs)
<1>1. job.op \in {"EVAL", "BLOCK", "ARG_LIST", "SUBJ", "QUASI_ITEM"}
  BY DEF Evaluating
<1>2. job.env \in ProcessEnv .. Len(envs) /\ job.k \in 1 .. Len(conts) /\ job.v \in Words
  BY <1>1, JobFacts DEF LoopOps, CallOps
<1>3. CASE job.op = "QUASI_ITEM"
  BY <1>2, <1>3, TagFacts, NodeFields DEF Evaluating, Expr, ProcessEnv
<1>4. CASE job.op # "QUASI_ITEM"
  BY <1>2, <1>4 DEF Expr, ProcessEnv
<1> QED
  BY <1>3, <1>4, <1>2 DEF ProcessEnv

\* The continuation being run is well formed, and has one to go on with unless
\* it is the RETURN.
LEMMA InvokedFacts ==
  ASSUME Inv, Invoking
  PROVE  /\ job.v \in Words /\ job.k \in 1 .. Len(conts)
         /\ Invoked \in ContsOf(Words, Len(envs), Len(conts), Len(memos)) /\ ContShape(Invoked)
         /\ Invoked.env \in ProcessEnv .. Len(envs)
         /\ Invoked.rest \in Seq(Words) /\ Invoked.evaled \in Seq(Words) /\ Invoked.subj \in Words
         /\ Invoked.type # "RETURN" => Invoked.cont \in 1 .. Len(conts)
<1>1. job.v \in Words /\ job.k \in 1 .. Len(conts)
  BY JobFacts DEF Invoking, LoopOps, CallOps
<1>2. Invoked \in ContsOf(Words, Len(envs), Len(conts), Len(memos)) /\ ContShape(Invoked)
  BY <1>1, InvFacts DEF Invoked, ContsOK
<1>3. Invoked.type # "RETURN" => Invoked.cont \in 1 .. Len(conts)
  <2>1. Invoked.type # "RETURN" => job.k # ReturnCont
    BY InvFacts DEF Invoked, TreeOK
  <2>2. job.k # ReturnCont => Invoked.cont \in 1 .. job.k - 1
    BY <1>1, InvFacts DEF Invoked, TreeOK
  <2> QED
    BY <1>1, <2>1, <2>2, InvFacts
<1>4. Invoked.env \in ProcessEnv .. Len(envs)
  BY <1>2, ContFields, InvFacts DEF ContShape, ProcessEnv
<1> QED
  BY <1>1, <1>2, <1>3, <1>4, ContFields

\* A callback has a continuation to go on with, and a memo table if it reads
\* one.
LEMMA CallbackFacts ==
  ASSUME Inv, NEW b, CallsBack(b)
  PROVE  /\ Invoking /\ Invoked.cont \in 1 .. Len(conts)
         /\ b \notin {"none", "AfterEval"} =>
              Memo \in MemosOf(Words, Len(envs)) /\ DispatcherShape(Memo.Dispatcher)
<1>1. Invoking /\ Invoked.type # "RETURN" /\ Invoked.callback = b
  BY DEF CallsBack
<1>2. Invoked.cont \in 1 .. Len(conts)
  BY <1>1, InvokedFacts
<1>3. ASSUME b \notin {"none", "AfterEval"} PROVE Invoked.memo \in 1 .. Len(memos)
  BY <1>1, <1>3, InvokedFacts, ContFields, InvFacts DEF ContShape
<1> QED
  BY <1>1, <1>2, <1>3, InvFacts DEF Memo, MemosOK

-------------------------------------------------------------------------------
\* A step that does not touch the heap leaves the words as they are.
LEMMA SameGrows ==
  ASSUME Inv, UNCHANGED heap
  PROVE  Grows /\ Words' = Words
BY InvFacts DEF Grows, heap, objects, Words

\* A step that changes nothing but the bounce preserves the invariant if the
\* bounce is well formed and fits its frame.
LEMMA JobOnly ==
  ASSUME Inv, UNCHANGED <<heap, currCode>>, depth' \in Nat,
         JobOK(job', Words, Len(envs), Len(conts)), JobFits'
  PROVE  Inv' /\ Kept
<1>1. Grows /\ Words' = Words
  BY SameGrows
<1>2. nodes' = nodes /\ envs' = envs /\ conts' = conts /\ memos' = memos /\ UNCHANGED objects
  BY DEF heap
<1>3. JobStep /\ RestStep
  BY <1>1, <1>2 DEF JobStep, RestStep
<1> QED
  BY <1>1, <1>2, <1>3, NodesKept, EnvsKept, ContsKept, MemosKept, ObjectsKept, Conclude

\* A bounce to a continuation, or a call of one, is well formed.
LEMMA RunJob ==
  ASSUME NEW W, NEW ne \in Nat, NEW nc \in Nat, NEW v \in W, NEW k \in 1 .. nc,
         job' = Run(v, k) \/ job' = Invoke(v, k)
  PROVE  JobOK(job', W, ne, nc) /\ JobFits'
<1>0. PICK op \in {"RUN", "INVOKE"} : job' = Job(op, v, 0, k)
  BY DEF Run, Invoke
<1>1. JobOK(job', W, ne, nc)
  <2>1. job' \in JobsOf(W, ne, nc) /\ job'.k = k /\ job'.op = op
    BY <1>0 DEF Job, JobsOf, LoopOps, CallOps
  <2> QED
    BY <2>1 DEF JobOK, FinalOps
<1>2. JobFits'
  BY DEF Run, Invoke, Job, JobFits, FrameOf
<1> QED
  BY <1>1, <1>2

\* A call of KN_EvalExpression is well formed.
LEMMA EvalJob ==
  ASSUME NEW W, NEW ne \in Nat, NEW nc \in Nat, NEW w \in W, NEW e \in ProcessEnv .. ne,
         NEW k \in 1 .. nc, job' = Eval(w, e, k)
  PROVE  JobOK(job', W, ne, nc) /\ JobFits'
<1>1. JobOK(job', W, ne, nc)
  BY DEF Eval, Job, JobOK, JobsOf, LoopOps, CallOps, FinalOps, ProcessEnv
<1>2. JobFits'
  BY DEF Eval, Job, JobFits, FrameOf
<1> QED
  BY <1>1, <1>2

\* The end of a run is well formed.
LEMMA FinalJob ==
  ASSUME NEW W, NEW ne \in Nat, NEW nc \in Nat, NEW v \in W, NEW op \in FinalOps,
         job' = Final(op, v)
  PROVE  JobOK(job', W, ne, nc) /\ JobFits'
<1>1. JobOK(job', W, ne, nc)
  BY DEF Final, Job, JobOK, JobsOf, LoopOps, CallOps, FinalOps
<1>2. JobFits'
  BY DEF Final, Job, JobFits, FrameOf, FinalOps
<1> QED
  BY <1>1, <1>2

\* A bounce about a frame is well formed and fits the frame, if the frame is
\* of the type and in the environment of the bounce.
LEMMA FrameJob ==
  ASSUME NEW W, NEW ne \in Nat, NEW nc \in Nat, NEW v \in W, NEW e \in ProcessEnv .. ne,
         NEW op \in DOMAIN FrameOf \ {"CLAUSE_LIST"},
         Len(conts') = nc, conts' \in Seq(ContsOf(W, ne, nc, Len(memos'))), NEW k \in 1 .. nc,
         job' = Job(op, v, e, k), conts'[k].type = FrameOf[op], conts'[k].env = e
  PROVE  JobOK(job', W, ne, nc) /\ JobFits'
<1>1. JobOK(job', W, ne, nc)
  BY DEF Job, JobOK, JobsOf, LoopOps, CallOps, FinalOps, FrameOf, ProcessEnv
<1>2. JobFits'
  BY DEF Job, JobFits
<1> QED
  BY <1>1, <1>2

\* Ending the run preserves the invariant.
LEMMA StopStep ==
  ASSUME Inv, NEW op \in FinalOps, Stop(op)
  PROVE  Inv' /\ Kept
<1>1. Undef \in Words /\ Len(envs) \in Nat /\ Len(conts) \in Nat
  BY InvFacts, ConstantWords
<1>2. JobOK(job', Words, Len(envs), Len(conts)) /\ JobFits'
  BY <1>1, FinalJob DEF Stop, Bounce
<1> QED
  BY <1>2, JobOnly DEF Stop, Bounce

\* So does undefined behaviour, which ends the run.
LEMMA FaultStep ==
  ASSUME Inv, Fault
  PROVE  Inv' /\ Kept
BY StopStep DEF Fault, FinalOps

\* So does giving a word to a continuation by a bounce.
LEMMA GoOnStep ==
  ASSUME Inv, NEW v \in Words, NEW k \in 1 .. Len(conts), GoOn(v, k)
  PROVE  Inv' /\ Kept
<1>1. Len(envs) \in Nat /\ Len(conts) \in Nat
  BY InvFacts
<1>2. JobOK(job', Words, Len(envs), Len(conts)) /\ JobFits'
  BY <1>1, RunJob DEF GoOn, Bounce
<1> QED
  BY <1>2, JobOnly DEF GoOn, Bounce

\* So does a call in tail position of KN_RunContinuation or KN_EvalExpression.
LEMMA CallStep ==
  ASSUME Inv, UNCHANGED <<heap, currCode>>, NEW v \in Words, NEW k \in 1 .. Len(conts),
         \/ TailCall(Invoke(v, k))
         \/ \E e \in ProcessEnv .. Len(envs) : TailCall(Eval(v, e, k))
  PROVE  Inv' /\ Kept
<1>1. Len(envs) \in Nat /\ Len(conts) \in Nat /\ depth \in Nat
  BY InvFacts
<1>2. JobOK(job', Words, Len(envs), Len(conts)) /\ JobFits'
  BY <1>1, RunJob, EvalJob DEF TailCall
<1>3. depth' \in Nat
  BY <1>1 DEF TailCall
<1> QED
  BY <1>2, <1>3, JobOnly

-----------------------------------------------------------------------------
\* TreeAppend and ContsAppend together.
LEMMA AppendCont ==
  ASSUME NEW ks, NEW W, NEW ne \in Nat, NEW nm \in Nat, ContsOK(ks, W, ne, nm), TreeOK(ks),
         Frozen(conts, ks),
         NEW c \in ContsOf(W, ne, Len(ks) + 1, nm), ContShape(c),
         c.type # "RETURN", c.cont \in 1 .. Len(ks),
         c.type = "CLAUSE_ARGS" => /\ ks[c.cont].type = "CLAUSE_LIST"
                                   /\ ks[c.cont].subj = c.subj
                                   /\ ks[c.cont].env = c.env,
         c.memo = 0 \/ \A i \in DOMAIN ks : ks[i].memo # c.memo
  PROVE  /\ ContsOK(Append(ks, c), W, ne, nm) /\ TreeOK(Append(ks, c))
         /\ Frozen(conts, Append(ks, c)) /\ Len(Append(ks, c)) = Len(ks) + 1
         /\ Append(ks, c)[Len(ks) + 1] = c /\ Len(ks) \in Nat
<1>1. ks \in Seq(ContsOf(W, ne, Len(ks), nm)) /\ Len(ks) \in Nat
  BY DEF ContsOK
<1>2. TreeOK(Append(ks, c)) /\ Frozen(ks, Append(ks, c))
  BY <1>1, TreeAppend
<1>3. ContsOK(Append(ks, c), W, ne, nm) /\ Len(Append(ks, c)) = Len(ks) + 1
  BY ContsAppend
<1>4. DOMAIN ks = 1 .. Len(ks) /\ Append(ks, c)[Len(ks) + 1] = c
  BY <1>1
<1>5. Frozen(conts, Append(ks, c))
  <2>1. Len(conts) <= Len(ks) /\ (\A i \in DOMAIN conts : ks[i] = conts[i]) 
    BY DEF Frozen
  <2>2. \A i \in DOMAIN ks : Append(ks, c)[i] = ks[i]
    BY <1>2 DEF Frozen
  <2> QED
    BY <1>2 , <2>1, <2>2 DEF Frozen
<1> QED
  BY <1>1, <1>2, <1>3, <1>4, <1>5

\* The continuations there are stay well formed in the heap of the next state.
LEMMA ContsAsKept ==
  ASSUME Inv, Grows
  PROVE  /\ ContsOK(conts, Words', Len(envs'), Len(memos')) /\ TreeOK(conts)
         /\ Frozen(conts, conts)
<1>1. ContsOK(conts, Words', Len(envs'), Len(memos'))
  BY InvFacts, WordsGrow, ContsMono DEF Grows
<1> QED
  BY <1>1, InvFacts DEF Frozen

\* The fields of a frame with a rest.
LEMMA FrameRest ==
  ASSUME NEW type, NEW e, NEW k, NEW r, NEW c, c = [Frame(type, e, k) EXCEPT !.rest = r]
  PROVE  c = [type |-> type, env |-> e, cont |-> k, subj |-> Undef, rest |-> r,
              evaled |-> <<>>, callback |-> "none", memo |-> 0]
BY DEF Frame

\* Pushing a frame that is no callback meets the obligation for continuations.
LEMMA PushFrame ==
  ASSUME Inv, Grows, NEW ks, ContsOK(ks, Words', Len(envs'), Len(memos')), TreeOK(ks),
         Frozen(conts, ks),
         NEW type \in ContTypes \ {"RETURN", "NATIVE_CALLBACK"},
         NEW e \in ProcessEnv .. Len(envs'),
         NEW k \in 1 .. Len(ks), NEW subj \in Words', NEW rest \in Seq(Words'),
         NEW evaled \in Seq(Words'),
         type = "CLAUSE_ARGS" => /\ ks[k].type = "CLAUSE_LIST"
                                 /\ ks[k].subj = subj
                                 /\ ks[k].env = e,
         conts' = Append(ks, [type |-> type, env |-> e, cont |-> k, subj |-> subj, rest |-> rest,
                              evaled |-> evaled, callback |-> "none", memo |-> 0])
  PROVE  /\ ContsStep /\ Len(ks) \in Nat /\ Len(conts') = Len(ks) + 1
         /\ conts'[Len(ks) + 1].type = type /\ conts'[Len(ks) + 1].env = e
<1> DEFINE c == [type |-> type, env |-> e, cont |-> k, subj |-> subj, rest |-> rest,
                 evaled |-> evaled, callback |-> "none", memo |-> 0]
<1>1. /\ Len(ks) \in Nat /\ Len(envs') \in Nat /\ Len(memos') \in Nat /\ k \in 0 .. Len(ks) + 1
      /\ e \in 1 .. Len(envs') /\ e >= ProcessEnv /\ 0 \in 0 .. Len(memos')
  BY DEF Grows, ContsOK, ProcessEnv
<1>2. c \in ContsOf(Words', Len(envs'), Len(ks) + 1, Len(memos'))
  BY <1>1 DEF ContsOf, Callbacks
<1>3. ContShape(c) /\ c.type = type /\ c.env = e /\ c.cont = k /\ c.subj = subj /\ c.memo = 0
  BY <1>1 DEF ContShape
<1> HIDE DEF c
<1>4. /\ ContsOK(Append(ks, c), Words', Len(envs'), Len(memos')) /\ TreeOK(Append(ks, c))
      /\ Frozen(conts, Append(ks, c)) /\ Len(Append(ks, c)) = Len(ks) + 1
      /\ Append(ks, c)[Len(ks) + 1] = c
  BY <1>1, <1>2, <1>3, AppendCont
<1>5. conts' = Append(ks, c)
  BY DEF c
<1> QED
  BY <1>1, <1>3, <1>4, <1>5 DEF ContsStep

\* So does pushing a callback continuation with a memo table of its own.
LEMMA PushCallback ==
  ASSUME Inv, Grows, NEW ks, ContsOK(ks, Words', Len(envs'), Len(memos')), TreeOK(ks),
         Frozen(conts, ks),
         NEW b \in Callbacks, NEW e \in ProcessEnv .. Len(envs'), NEW k \in 1 .. Len(ks),
         NEW m \in 0 .. Len(memos'), m = 0 \/ \A i \in DOMAIN ks : ks[i].memo # m,
         b \notin {"none", "AfterEval"} => m # 0
  PROVE  LET new == Append(ks, CallbackFrame(b, e, k, m))
         IN  /\ ContsOK(new, Words', Len(envs'), Len(memos')) /\ TreeOK(new)
             /\ Frozen(conts, new) /\ Len(new) = Len(ks) + 1 /\ Len(ks) \in Nat
             /\ \A i \in DOMAIN new : i \in DOMAIN ks \/ new[i].memo = m
             /\ \A i \in DOMAIN ks : new[i] = ks[i]
<1> DEFINE c == CallbackFrame(b, e, k, m)
<1>1. /\ Len(ks) \in Nat /\ Len(envs') \in Nat /\ Len(memos') \in Nat /\ k \in 0 .. Len(ks) + 1
      /\ e \in 1 .. Len(envs') /\ e >= ProcessEnv /\ Undef \in Words'
  BY WordsGrow DEF Grows, ContsOK, ProcessEnv
<1>2. c = [type |-> "NATIVE_CALLBACK", env |-> e, cont |-> k, subj |-> Undef, rest |-> <<>>,
           evaled |-> <<>>, callback |-> b, memo |-> m]
  <2>1. c = [Frame("NATIVE_CALLBACK", e, k) EXCEPT !.callback = b, !.memo = m]
    BY DEF CallbackFrame
  <2> HIDE DEF c
  <2> QED
    BY <2>1 DEF Frame
<1>3. c \in ContsOf(Words', Len(envs'), Len(ks) + 1, Len(memos'))
  BY <1>1, <1>2 DEF ContsOf, ContTypes
<1>4. ContShape(c) /\ c.type = "NATIVE_CALLBACK" /\ c.cont = k /\ c.memo = m
  BY <1>1, <1>2 DEF ContShape
<1> HIDE DEF c
<1>5. /\ ContsOK(Append(ks, c), Words', Len(envs'), Len(memos')) /\ TreeOK(Append(ks, c))
      /\ Frozen(conts, Append(ks, c)) /\ Len(Append(ks, c)) = Len(ks) + 1
      /\ Append(ks, c)[Len(ks) + 1] = c
  BY <1>1, <1>3, <1>4, AppendCont
<1>6. /\ \A i \in DOMAIN Append(ks, c) : i \in DOMAIN ks \/ Append(ks, c)[i].memo = m
      /\ \A i \in DOMAIN ks : Append(ks, c)[i] = ks[i]
  BY <1>1, <1>4, <1>5 DEF ContsOK
<1> QED
  BY <1>1, <1>5, <1>6 DEF c

\* A keyword that leaves a callback with a new memo table and evaluates an
\* expression under it preserves the invariant, if what it did to the nodes is
\* fine.
LEMMA EvalThenStep ==
  ASSUME Inv, NEW b \in Callbacks, NEW m \in MemosOf(Words, Len(envs)),
         DispatcherShape(m.Dispatcher),
         NEW w \in Words, NEW e \in ProcessEnv .. Len(envs), NEW k \in 1 .. Len(conts),
         EvalThen(b, m, w, e, k), UNCHANGED <<envs, objects, currCode>>,
         Len(nodes') = Len(nodes), Grows => NodesStep
  PROVE  Inv' /\ Kept
<1>1. /\ memos' = Append(memos, m)
      /\ conts' = Append(conts, CallbackFrame(b, e, k, Len(memos) + 1))
      /\ job' = Eval(w, e, Len(conts) + 1) /\ depth' = depth + 1
      /\ envs' = envs /\ accessors' = accessors
  BY DEF EvalThen, TailCall, NextMemo, NextCont, objects
<1>2. Len(conts') = Len(conts) + 1 /\ Len(memos') = Len(memos) + 1
  BY <1>1, InvFacts DEF ContsOK, MemosOK
<1>3. Grows
  BY <1>1, <1>2, InvFacts DEF Grows
<1>4. Words \subseteq Words' /\ Len(memos) + 1 \in 0 .. Len(memos') /\ Len(memos) + 1 # 0
  BY <1>2, <1>3, WordsGrow, InvFacts
<1>5. \A i \in DOMAIN conts : conts[i].memo # Len(memos) + 1
  BY InvFacts, ContFields DEF ContsOK
<1>6. ContsStep
  BY <1>1, <1>3, <1>4, <1>5, ContsAsKept, PushCallback, InvFacts DEF ContsStep
<1>7. MemosStep
  <2>1. m \in MemosOf(Words', Len(envs'))
    BY <1>1, <1>4, MemoMono, InvFacts
  <2>2. MemosOK(memos, Words', Len(envs'))
    BY <1>1, <1>4, MemosMono, InvFacts
  <2> QED
    BY <1>1, <2>1, <2>2, MemosAppend, InvFacts DEF MemosStep
<1>8. JobStep
  <2>1. w \in Words' /\ Len(conts') \in Nat /\ Len(conts) + 1 \in 1 .. Len(conts') /\ envs' = envs
    BY <1>1, <1>2, <1>4, InvFacts
  <2> QED
    BY <1>1, <2>1, EvalJob, InvFacts DEF JobStep
<1> QED
  BY <1>1, <1>3, <1>6, <1>7, <1>8, EnvsKept, ObjectsKept, Conclude, InvFacts DEF RestStep

-----------------------------------------------------------------------------
\* The bounce about the frame pushed last is well formed.
LEMMA PushedJob ==
  ASSUME Inv, Grows, ContsStep, NEW op \in DOMAIN FrameOf \ {"CLAUSE_LIST"}, NEW v \in Words',
         NEW e \in ProcessEnv .. Len(envs'),
         job' = Job(op, v, e, Len(conts')), Len(conts') # 0,
         conts'[Len(conts')].type = FrameOf[op], conts'[Len(conts')].env = e
  PROVE  JobStep
<1>1. /\ Len(conts') \in Nat /\ Len(envs') \in Nat
      /\ conts' \in Seq(ContsOf(Words', Len(envs'), Len(conts'), Len(memos')))
  BY DEF Grows, ContsStep, ContsOK
<1>2. Len(conts') \in 1 .. Len(conts')
  BY <1>1
<1> QED
  BY <1>1, <1>2, FrameJob DEF JobStep

\* KN_EvalSentences never drops a continuation.
LEMMA EvalSentencesGrows ==
  ASSUME NEW S, NEW ks \in Seq(S), NEW sentences, NEW e, NEW k,
         EvalSentences(ks, sentences, e, k)
  PROVE  Len(conts') \in Nat /\ Len(ks) \in Nat /\ Len(ks) <= Len(conts')
<1>1. Len(ks) \in Nat /\ \A c : Len(Append(ks, c)) = Len(ks) + 1
  OBVIOUS
<1> QED
  BY <1>1 DEF EvalSentences

\* KN_EvalSentences meets the obligations for continuations and for the
\* bounce.
LEMMA EvalSentencesStep ==
  ASSUME Inv, Grows, NEW ks, ContsOK(ks, Words', Len(envs'), Len(memos')), TreeOK(ks),
         Frozen(conts, ks),
         NEW sentences \in Seq(Words'), NEW e \in ProcessEnv .. Len(envs'), NEW k \in 1 .. Len(ks),
         EvalSentences(ks, sentences, e, k)
  PROVE  ContsStep /\ JobStep /\ depth' \in Nat
<1>1. Len(ks) \in Nat /\ Len(envs') \in Nat /\ Len(conts') \in Nat
  BY DEF Grows, ContsOK
<1>2. CASE sentences = <<>>
  <2>1. conts' = ks /\ job' = Run(True, k) /\ depth' = 0
    BY <1>2 DEF EvalSentences, Bounce
  <2>2. ContsStep
    BY <2>1 DEF ContsStep
  <2>3. JobStep
    BY <1>1, <2>1, WordsGrow, RunJob DEF JobStep
  <2> QED
    BY <2>1, <2>2, <2>3
<1>3. CASE sentences # <<>>
  <2>1. /\ conts' = Append(ks, [Frame("SENTENCE_LIST", e, k) EXCEPT !.rest = Tail(sentences)])
        /\ job' = Job("BLOCK", Head(sentences), e, Len(ks) + 1) /\ depth' = 0
    BY <1>3 DEF EvalSentences, Bounce
  <2>2. conts' = Append(ks, [type |-> "SENTENCE_LIST", env |-> e, cont |-> k, subj |-> Undef,
                             rest |-> Tail(sentences), evaled |-> <<>>, callback |-> "none",
                             memo |-> 0])
    BY <2>1, FrameRest
  <2>3. Head(sentences) \in Words' /\ Tail(sentences) \in Seq(Words') /\ Undef \in Words'
        /\ <<>> \in Seq(Words')
    BY <1>3, WordsGrow
  <2>4. /\ ContsStep /\ Len(conts') = Len(ks) + 1
        /\ conts'[Len(ks) + 1].type = "SENTENCE_LIST" /\ conts'[Len(ks) + 1].env = e
    BY <2>2, <2>3, PushFrame DEF ContTypes
  <2>5. "BLOCK" \in DOMAIN FrameOf \ {"CLAUSE_LIST"} /\ FrameOf["BLOCK"] = "SENTENCE_LIST"
    BY DEF FrameOf
  <2>6. JobStep
    BY <1>1, <2>1, <2>3, <2>4, <2>5, PushedJob
  <2> QED
    BY <2>1, <2>4, <2>6
<1> QED
  BY <1>2, <1>3

\* EvalBody never drops a continuation.
LEMMA EvalBodyGrows ==
  ASSUME NEW S, NEW ks \in Seq(S), NEW body, NEW e, NEW k, EvalBody(ks, body, e, k)
  PROVE  Len(conts') \in Nat /\ Len(ks) \in Nat /\ Len(ks) <= Len(conts')
<1>1. Len(ks) \in Nat
  OBVIOUS
<1> QED
  BY <1>1, EvalSentencesGrows DEF EvalBody

\* EvalBody meets the obligations for continuations and for the bounce.
LEMMA EvalBodyStep ==
  ASSUME Inv, Grows, NEW ks, ContsOK(ks, Words', Len(envs'), Len(memos')), TreeOK(ks),
         Frozen(conts, ks),
         NEW body \in Words, NEW e \in ProcessEnv .. Len(envs'), NEW k \in 1 .. Len(ks),
         EvalBody(ks, body, e, k)
  PROVE  ContsStep /\ JobStep /\ depth' \in Nat
<1>1. CASE EvalSentences(ks, Items(body), e, k)
  <2>1. Items(body) \in Seq(Words')
    BY ItemsType, WordsGrow, SeqMono
  <2> QED
    BY <1>1, <2>1, EvalSentencesStep
<1>2. CASE conts' = ks /\ Bounce(Final("FAULT", Undef))
  <2>1. ContsStep
    BY <1>2 DEF ContsStep
  <2>2. JobStep
    <3>1. Undef \in Words' /\ "FAULT" \in FinalOps /\ Len(envs') \in Nat /\ Len(conts') \in Nat
      BY WordsGrow DEF FinalOps, Grows
    <3> QED
      BY <1>2, <3>1, FinalJob DEF JobStep, Bounce
  <2> QED
    BY <1>2, <2>1, <2>2 DEF Bounce
<1> QED
  BY <1>1, <1>2 DEF EvalBody

-----------------------------------------------------------------------------
\* KN_MakeChildEnv makes an environment.
LEMMA ChildEnvType ==
  ASSUME NEW W, EnvsOK(envs, W), NEW parent \in 1 .. Len(envs), NEW bindings \in [Names -> W]
  PROVE  ChildEnv(parent, bindings) \in EnvsOf(W, Len(envs) + 1)
<1>0. Len(envs) \in Nat /\ envs[parent] \in EnvsOf(W, Len(envs))
  BY DEF EnvsOK
<1>1. Len(envs) \in Nat /\ envs[parent].chain \in Seq(1 .. Len(envs))
  BY <1>0 DEF EnvsOf
<1>2. 1 .. Len(envs) \subseteq 1 .. Len(envs) + 1 /\ Len(envs) + 1 \in 1 .. Len(envs) + 1
  BY <1>1
<1>3. envs[parent].chain \in Seq(1 .. Len(envs) + 1)
  BY <1>1, <1>2, SeqMono
<1>4. <<Len(envs) + 1>> \o envs[parent].chain \in Seq(1 .. Len(envs) + 1)
  BY <1>2, <1>3
<1> QED
  BY <1>4 DEF ChildEnv, EnvsOf

\* The bindings of a call, of captured names, parameters and "return", are
\* words.
LEMMA CallBindingsType ==
  ASSUME Inv, NEW W, Words \subseteq W, NEW proc \in NodesOf(Words, Len(envs)),
         NEW captureEnv \in 1 .. Len(envs), NEW values \in [1 .. Len(proc.params) -> W],
         NEW k, ContRef(k) \in W
  PROVE  CallBindings(proc, captureEnv, values, k) \in [Names -> W]
<1> SUFFICES ASSUME NEW name \in Names
             PROVE  CallBindings(proc, captureEnv, values, k)[name] \in W
  BY DEF CallBindings
<1> DEFINE indexes == {i \in DOMAIN proc.params : proc.params[i] = name}
<1>1. Len(proc.params) \in Nat /\ indexes \in SUBSET (1 .. Len(proc.params))
  BY NodeFields
<1>2. CASE indexes # {}
  <2>1. Max(indexes) \in 1 .. Len(proc.params)
    BY <1>1, <1>2, MaxOf
  <2>2. CallBindings(proc, captureEnv, values, k)[name] = values[Max(indexes)]
    BY <1>2 DEF CallBindings
  <2> QED
    BY <2>1, <2>2
<1>3. CASE indexes = {} /\ name \in Range(proc.capture)
  BY <1>3, EnvLookupType DEF CallBindings
<1>4. CASE indexes = {} /\ name \notin Range(proc.capture)
  BY <1>4, ConstantWords DEF CallBindings
<1> QED
  BY <1>2, <1>3, <1>4

\* A list that is not empty is a well-formed node.
LEMMA ListNodeType ==
  ASSUME NEW W, NEW ne \in Nat, Undef \in W, NEW ws \in Seq(W), ws # <<>>
  PROVE  ListNode(ws) \in NodesOf(W, ne) /\ NodeShape(ListNode(ws))
<1>1. Node("pair") \in NodesOf(W, ne)
  BY NodeType DEF NodeTags
<1>2. ListNode(ws) \in NodesOf(W, ne)
  BY <1>1, NodeWith DEF ListNode
<1>3. ListNode(ws).tag = "pair" /\ ListNode(ws).items = ws
  BY DEF ListNode, Node
<1> QED
  BY <1>2, <1>3 DEF NodeShape, WellBuilt

\* A quote is a well-formed node.
LEMMA QuoteNodeType ==
  ASSUME NEW W, NEW ne \in Nat, Undef \in W, NEW type \in {"LIST", "CELL"}, NEW w \in W
  PROVE  QuoteNode(type, w) \in NodesOf(W, ne) /\ NodeShape(QuoteNode(type, w))
<1>1. Node("quote") \in NodesOf(W, ne)
  BY NodeType DEF NodeTags
<1> DEFINE typed == [Node("quote") EXCEPT !.type = type]
<1>2. typed \in NodesOf(W, ne)
  BY <1>1, NodeWith DEF NodeTypes
<1>3. QuoteNode(type, w) = [typed EXCEPT !.inner = w]
  BY DEF QuoteNode
<1>4. QuoteNode(type, w) \in NodesOf(W, ne)
  <2> HIDE DEF typed
  <2> QED
    BY <1>2, <1>3, NodeWith
<1>5. QuoteNode(type, w).tag = "quote"
  BY DEF QuoteNode, Node
<1> QED
  BY <1>4, <1>5 DEF NodeShape, WellBuilt

\* Calling a lambda, func or macro, with the nodes the caller allocated for
\* the arguments, preserves the invariant.
LEMMA ApplyCompositeStep ==
  ASSUME Inv, NEW ns, NEW V, V = WordsOf(Len(ns), Len(conts), Len(accessors)),
         NodesOK(ns, V, Len(envs)), Len(nodes) <= Len(ns),
         \A i \in DOMAIN nodes : i \in DOMAIN ns /\ TextKept(nodes[i], ns[i]),
         NEW proc \in NodesOf(Words, Len(envs)), NEW args \in Seq(V),
         NEW parentEnv \in 1 .. Len(envs), NEW captureEnv \in 1 .. Len(envs),
         NEW k \in 1 .. Len(conts),
         ApplyComposite(ns, proc, args, parentEnv, captureEnv, k)
  PROVE  Inv' /\ Kept
<1> DEFINE n == Len(proc.params)
           extra == n > 0 /\ Len(args) > n
           values == [i \in 1 .. n |-> IF i = n /\ extra THEN NodeRef(Len(ns) + 1) ELSE args[i]]
           bindable == Len(args) >= n /\ "" \notin Range(proc.params) \cup Range(proc.capture)
           bindings == CallBindings(proc, captureEnv, values, k)
           more == ListNode(SubSeq(args, n, Len(args)))
<1>1. \/ ~bindable /\ Fault
      \/ /\ bindable
         /\ nodes' = IF extra THEN Append(ns, more) ELSE ns
         /\ envs' = Append(envs, ChildEnv(parentEnv, bindings))
         /\ EvalBody(conts, proc.inner, Len(envs) + 1, k)
         /\ UNCHANGED <<memos, objects, currCode>>
  BY DEF ApplyComposite
<1>2. CASE Fault
  BY <1>2, FaultStep
<1>3. CASE /\ bindable
           /\ nodes' = IF extra THEN Append(ns, more) ELSE ns
           /\ envs' = Append(envs, ChildEnv(parentEnv, bindings))
           /\ EvalBody(conts, proc.inner, Len(envs) + 1, k)
           /\ UNCHANGED <<memos, objects, currCode>>
  <2>0. /\ nodes' = IF extra THEN Append(ns, more) ELSE ns
        /\ envs' = Append(envs, ChildEnv(parentEnv, bindings))
        /\ EvalBody(conts, proc.inner, Len(envs) + 1, k)
        /\ memos' = memos /\ UNCHANGED objects /\ accessors' = accessors
        /\ currCode' = currCode /\ Len(args) >= n
    BY <1>3 DEF objects
  <2> HIDE DEF more, bindings
  <2>1. n \in Nat /\ Len(args) \in Nat /\ Len(args) >= n /\ Len(ns) \in Nat
    BY <2>0, NodeFields DEF NodesOK
  <2>2. Len(nodes') = IF extra THEN Len(ns) + 1 ELSE Len(ns)
    <3> HIDE DEF extra
    <3> QED
      BY <2>0 DEF NodesOK
  <2>3. Len(envs') = Len(envs) + 1
    <3>1. envs \in Seq(EnvsOf(Words, Len(envs)))
      BY InvFacts DEF EnvsOK
    <3> QED
      BY <2>0, <3>1
  <2>4. Len(conts') \in Nat /\ Len(conts) <= Len(conts')
    <3>1. conts \in Seq(ContsOf(Words, Len(envs), Len(conts), Len(memos)))
      BY InvFacts DEF ContsOK
    <3> QED
      BY <2>0, <3>1, EvalBodyGrows
  <2>5. Grows
    <3>1. Len(nodes') \in Nat /\ Len(ns) <= Len(nodes')
      BY <2>1, <2>2
    <3> HIDE DEF extra
    <3> QED
      BY <2>0, <2>1, <2>3, <2>4, <3>1, InvFacts DEF Grows
  <2>6. Words \subseteq Words' /\ Undef \in Words'
    BY <2>5, WordsGrow
  <2>7. V \subseteq Words' /\ (extra => NodeRef(Len(ns) + 1) \in Words')
        /\ ContRef(k) \in Words'
    <3>1. Words' = WordsOf(Len(nodes'), Len(conts'), Len(accessors'))
      BY DEF Words
    <3>2. accessors' = accessors /\ Len(accessors) \in Nat /\ Len(conts) \in Nat
      BY <2>0, InvFacts
    <3>5. Len(nodes') \in Nat /\ Len(ns) <= Len(nodes')
      BY <2>1, <2>2
    <3>3. V \subseteq Words'
      <4> HIDE DEF extra
      <4> QED
        <5>1. Len(ns) \in Nat /\ Len(conts') \in Nat /\ Len(conts) <= Len(conts')
          BY <2>1, <2>4
        <5>3. Len(accessors) <= Len(accessors)
          BY <3>2
        <5>2. WordsOf(Len(ns), Len(conts), Len(accessors))
                \subseteq WordsOf(Len(nodes'), Len(conts'), Len(accessors))
          BY ONLY <3>2, <3>5, <5>1, <5>3, WordsMono
        <5> QED
          BY <3>1, <3>2, <5>2
    <3>4. /\ Len(nodes') \in Nat /\ k \in 1 .. Len(conts')
          /\ extra => Len(ns) + 1 \in 1 .. Len(nodes')
      BY <2>1, <2>2, <2>4, <3>2
    <3> HIDE DEF extra
    <3> QED
      BY <2>4, <3>1, <3>2, <3>3, <3>4, WordsBuilt
  <2>8. values \in [1 .. n -> Words']
    BY <2>1, <2>7
  <2>9. bindings \in [Names -> Words']
    BY <2>6, <2>7, <2>8, CallBindingsType DEF bindings
  <2>10. EnvsStep
    <3>1. EnvsOK(envs, Words')
      BY <2>6, EnvsMono, InvFacts
    <3>2. ChildEnv(parentEnv, bindings) \in EnvsOf(Words', Len(envs) + 1)
      BY <2>9, <3>1, ChildEnvType
    <3> QED
      BY <2>0, <3>1, <3>2, EnvsAppend DEF EnvsStep
  <2>11. NodesStep
    <3>1. NodesOK(ns, Words', Len(envs'))
      BY <2>3, <2>7, NodesMono, InvFacts
    <3>2. CASE ~extra
      BY <2>0, <3>1, <3>2 DEF NodesStep
    <3>3. CASE extra
      <4>0. args \in Seq(Words') /\ n \in 1 .. Len(args) /\ Len(args) \in Nat
        BY <2>1, <2>7, <3>3, SeqMono
      <4>1. SubSeq(args, n, Len(args)) \in Seq(Words') /\ SubSeq(args, n, Len(args)) # <<>>
        <5> HIDE DEF n
        <5>1. \A i \in n .. Len(args) : args[i] \in Words'
          BY <4>0
        <5>2. /\ SubSeq(args, n, Len(args)) \in Seq(Words')
              /\ Len(SubSeq(args, n, Len(args))) = Len(args) - n + 1
          BY <4>0, <5>1, SubSeqProperties
        <5>3. Len(args) - n + 1 # 0 /\ Len(<<>>) = 0
          BY <4>0
        <5> QED
          BY <5>2, <5>3
      <4>3. nodes' = Append(ns, more) /\ Len(envs') \in Nat
        BY <2>0, <2>5, <3>3 DEF Grows
      <4>2. more \in NodesOf(Words', Len(envs')) /\ NodeShape(more)
        BY <2>6, <4>1, <4>3, ListNodeType DEF more
      <4> HIDE DEF more
      <4> QED
        BY <3>1, <4>2, <4>3, NodesAppend DEF NodesStep
    <3> QED
      BY <3>2, <3>3
  <2>12. ContsStep /\ JobStep /\ depth' \in Nat
    <3>1. Len(envs) + 1 \in ProcessEnv .. Len(envs')
      BY <2>3, InvFacts DEF ProcessEnv
    <3>2. proc.inner \in Words
      BY NodeFields
    <3> QED
      BY <2>0, <2>5, <3>1, <3>2, ContsAsKept, EvalBodyStep
  <2> QED
    BY <2>0, <2>5, <2>10, <2>11, <2>12, MemosKept, ObjectsKept, Conclude DEF RestStep
<1> QED
  BY <1>1, <1>2, <1>3

-----------------------------------------------------------------------------
\* Opening a box once gives a word.
LEMMA OpenedType ==
  ASSUME Inv, NEW w \in Words
  PROVE  Opened(w) \in Words
<1>1. IsProperty(w) => accessors[w.id] \in AccessorsOf(Words)
  BY WordFacts DEF IsProperty, IsAccessor
<1> QED
  BY <1>1 DEF Opened, AccessorsOf

\* UnBoxAccessorValue returns a word, however long the chain of boxes is.
LEMMA UnBoxType ==
  ASSUME Inv, NEW w \in Words
  PROVE  UnBoxAccessorValue(w) \in Words
<1> DEFINE N == Len(accessors)
           Steps(g) == [n \in 0 .. N |-> IF n = 0 THEN w ELSE Opened(g[n - 1])]
           unboxed == CHOOSE g : g = Steps(g)
<1>1. N \in Nat /\ \A x \in Words : Opened(x) \in Words
  BY InvFacts, OpenedType
<1>2. UnBoxAccessorValue(w) = unboxed[N]
  BY DEF UnBoxAccessorValue
<1> HIDE DEF N
<1>3. unboxed = Steps(unboxed)
  <2> DEFINE Good ==
        {n \in Nat : \E g \in [0 .. n -> Words] :
           \A i \in 0 .. n : g[i] = IF i = 0 THEN w ELSE Opened(g[i - 1])}
  <2>1. 0 \in Good
    <3>1. [i \in 0 .. 0 |-> w] \in [0 .. 0 -> Words]
      OBVIOUS
    <3>2. \A i \in 0 .. 0 : i = 0 /\ [j \in 0 .. 0 |-> w][i] = w
      OBVIOUS
    <3> QED
      BY <3>1, <3>2
  <2>2. ASSUME NEW n \in Nat, n \in Good PROVE n + 1 \in Good
    <3>1. PICK g \in [0 .. n -> Words] :
                 \A i \in 0 .. n : g[i] = IF i = 0 THEN w ELSE Opened(g[i - 1])
      BY <2>2
    <3> DEFINE h == [i \in 0 .. n + 1 |-> IF i = n + 1 THEN Opened(g[n]) ELSE g[i]]
    <3>2. h \in [0 .. n + 1 -> Words]
      BY <1>1
    <3>3. ASSUME NEW i \in 0 .. n + 1
          PROVE  h[i] = IF i = 0 THEN w ELSE Opened(h[i - 1])
      <4>1. CASE i = n + 1
        BY <4>1
      <4>2. CASE i \in 0 .. n
        <5>1. h[i] = g[i] /\ (i # 0 => h[i - 1] = g[i - 1])
          BY <4>2
        <5> QED
          BY <3>1, <4>2, <5>1
      <4> QED
        BY <4>1, <4>2
    <3> HIDE DEF h
    <3> QED
      BY <3>2, <3>3
  <2>3. N \in Good
    <3> HIDE DEF Good
    <3> QED
      BY <1>1, <2>1, <2>2, SetInduction
  <2>4. PICK g \in [0 .. N -> Words] :
               \A i \in 0 .. N : g[i] = IF i = 0 THEN w ELSE Opened(g[i - 1])
    BY <2>3
  <2>5. g = Steps(g)
    BY <2>4
  <2> HIDE DEF Steps
  <2> QED
    BY <2>5
<1>4. \A n \in 0 .. N : unboxed[n] = IF n = 0 THEN w ELSE Opened(unboxed[n - 1])
  <2> HIDE DEF unboxed
  <2> QED
    BY <1>3
<1> HIDE DEF unboxed
<1>5. Nat \subseteq {n \in Nat : n <= N => unboxed[n] \in Words}
  <2> DEFINE S == {n \in Nat : n <= N => unboxed[n] \in Words}
  <2>1. 0 \in S
    BY <1>1, <1>4
  <2>2. ASSUME NEW n \in Nat, n \in S PROVE n + 1 \in S
    <3> SUFFICES ASSUME n + 1 <= N PROVE unboxed[n + 1] \in Words
      OBVIOUS
    <3>1. unboxed[n] \in Words
      BY <1>1, <2>2
    <3>2. n + 1 \in 0 .. N /\ n + 1 # 0 /\ (n + 1) - 1 = n
      BY <1>1
    <3>3. unboxed[n + 1] = Opened(unboxed[n])
      BY <1>4, <3>2
    <3> QED
      BY <1>1, <3>1, <3>3
  <2> HIDE DEF S
  <2> QED
    BY <2>1, <2>2, SetInduction DEF S
<1> QED
  BY <1>1, <1>2, <1>5


-------------------------------------------------------------------------------
(***************************************************************************)
(* Part two.  The native procedures and the operations on accessors preserve*)
(* the invariant, and so does ApplySubjVerbAndObjects, whatever subject and*)
(* arguments it is given.  Then the keywords and their callbacks: let, set,*)
(* if, cond, and, or; loops, procedures, call-cc, eval, apply, dispatchers,*)
(* builders and sh.                                                        *)
(***************************************************************************)
\* A step that only writes accessors, and leaves them well formed, preserves
\* the invariant.
LEMMA AccessorStep ==
  ASSUME Inv, UNCHANGED <<nodes, envs, conts, memos, registry, currCode>>,
         Len(accessors') \in Nat, Len(accessors) <= Len(accessors'),
         Words \subseteq Words' => AccessorsOK(accessors', Words'),
         NEW v, Words \subseteq Words' => v \in Words', NEW k \in 1 .. Len(conts),
         Bounce(Run(v, k))
  PROVE  Inv' /\ Kept
<1>1. Grows
  BY InvFacts DEF Grows
<1>2. Words \subseteq Words'
  BY <1>1, WordsGrow
<1>3. JobStep
  <2>1. job' = Run(v, k) /\ Len(conts') \in Nat /\ Len(envs') \in Nat /\ k \in 1 .. Len(conts')
    BY InvFacts DEF Bounce
  <2> QED
    BY <1>2, <2>1, RunJob DEF JobStep
<1>4. RestStep
  BY DEF RestStep, Bounce
<1> QED
  BY <1>1, <1>2, <1>3, <1>4, NodesKept, EnvsKept, ContsKept, MemosKept, DispatchersKept, Conclude
     DEF AccessorsStep

\* Allocating an accessor preserves the invariant.
LEMMA AllocAccessorStep ==
  ASSUME Inv, NEW a \in AccessorsOf(Words), AccessorShape(a), NEW k \in 1 .. Len(conts),
         AllocAccessor(a, k)
  PROVE  Inv' /\ Kept
<1>1. /\ accessors' = Append(accessors, a) /\ Bounce(Run(AccessorRef(Len(accessors) + 1), k))
      /\ UNCHANGED <<nodes, envs, conts, memos, registry, currCode>>
  BY DEF AllocAccessor
<1>2. Len(accessors') = Len(accessors) + 1 /\ Len(accessors) \in Nat
  BY <1>1, InvFacts, AccessorsAppend
<1>3. ASSUME Words \subseteq Words' PROVE AccessorsOK(accessors', Words')
  <2>1. AccessorsOK(accessors, Words') /\ a \in AccessorsOf(Words')
    BY <1>3, AccessorsMono, AccessorMono, InvFacts
  <2> QED
    BY <1>1, <2>1, AccessorsAppend
<1>4. AccessorRef(Len(accessors) + 1) \in Words'
  <2>1. Len(nodes') \in Nat /\ Len(conts') \in Nat /\ Len(accessors') \in Nat
        /\ Len(accessors) + 1 \in 1 .. Len(accessors')
    BY <1>1, <1>2, InvFacts
  <2> QED
    BY <2>1, WordsBuilt DEF Words
<1>5. Len(accessors') \in Nat /\ Len(accessors) <= Len(accessors')
  BY <1>2
<1> QED
  BY <1>1, <1>3, <1>4, <1>5, AccessorStep

\* Writing one does too, if what is written is well formed.
LEMMA ReplaceStep ==
  ASSUME Inv, NEW i \in 1 .. Len(accessors), NEW a \in AccessorsOf(Words), AccessorShape(a),
         accessors' = [accessors EXCEPT ![i] = a],
         UNCHANGED <<nodes, envs, conts, memos, registry, currCode>>,
         NEW v \in Words, NEW k \in 1 .. Len(conts), Bounce(Run(v, k))
  PROVE  Inv' /\ Kept
<1>0. i \in DOMAIN accessors /\ AccessorsOK(accessors, Words) /\ Len(accessors) \in Nat
  BY InvFacts
<1>1. AccessorsOK(accessors', Words) /\ Len(accessors') = Len(accessors)
  <2>1. /\ AccessorsOK([accessors EXCEPT ![i] = a], Words)
        /\ Len([accessors EXCEPT ![i] = a]) = Len(accessors)
    BY ONLY <1>0, a \in AccessorsOf(Words), AccessorShape(a), AccessorsReplace
  <2> QED
    BY <2>1
<1>2. Words \subseteq Words' => AccessorsOK(accessors', Words')
  BY <1>1, AccessorsMono
<1>3. Words \subseteq Words' => v \in Words'
  OBVIOUS
<1>4. Len(accessors') \in Nat /\ Len(accessors) <= Len(accessors')
  BY <1>0, <1>1
<1> QED
  BY <1>2, <1>3, <1>4, AccessorStep

\* So does assigning a value to an accessor, which is a property from then on.
LEMMA AssignStep ==
  ASSUME Inv, NEW w \in Words, IsAccessor(w), NEW v \in Words, NEW answer \in Words,
         NEW table \in {"none", "open", "freed"}, NEW k \in 1 .. Len(conts),
         Assign(w, v, table, answer, k)
  PROVE  Inv' /\ Kept
<1> DEFINE a == [accessors[w.id] EXCEPT !.isDir = FALSE, !.value = v, !.table = table]
<1>1. w.id \in 1 .. Len(accessors) /\ accessors[w.id] \in AccessorsOf(Words)
  BY WordFacts DEF IsAccessor
<1>2. a \in AccessorsOf(Words) /\ a.isDir = FALSE
  BY <1>1 DEF AccessorsOf
<1>3. accessors' = [accessors EXCEPT ![w.id] = a]
  BY DEF Assign
<1> HIDE DEF a
<1>4. AccessorShape(a)
  BY <1>2 DEF AccessorShape
<1> QED
  BY <1>1, <1>2, <1>3, <1>4, ReplaceStep DEF Assign

\* An accessor with a slot written is an accessor.
LEMMA SlotType ==
  ASSUME NEW W, NEW a \in AccessorsOf(W), AccessorShape(a), NEW name \in Names, NEW v \in W
  PROVE  LET b == [a EXCEPT !.slots[name] = v] IN b \in AccessorsOf(W) /\ AccessorShape(b)
<1> DEFINE b == [a EXCEPT !.slots[name] = v]
<1>1. b \in AccessorsOf(W)
  BY DEF AccessorsOf
<1>2. b.setter = a.setter /\ b.isDir = a.isDir
  BY DEF AccessorsOf
<1> QED
  BY <1>1, <1>2 DEF AccessorShape

\* KN_DirAccessorPutKeyProperty preserves the invariant.
LEMMA PutKeyPropStep ==
  ASSUME Inv, NEW w \in Words, NEW key \in Words, IsKey(key), NEW prop \in Words,
         NEW k \in 1 .. Len(conts), PutKeyProp(w, key, prop, k)
  PROVE  Inv' /\ Kept
<1>1. CASE GoOn(False, k)
  BY <1>1, GoOnStep, ConstantWords
<1>2. CASE /\ IsDir(w)
           /\ accessors' = [accessors EXCEPT ![w.id].slots[NameOf(key)] = prop]
           /\ Bounce(Run(True, k))
           /\ UNCHANGED <<nodes, envs, conts, memos, registry, currCode>>
  <2>1. /\ w.id \in 1 .. Len(accessors) /\ accessors[w.id] \in AccessorsOf(Words)
        /\ AccessorShape(accessors[w.id])
    BY <1>2, WordFacts DEF IsDir, IsAccessor
  <2>2. NameOf(key) \in Names
    BY NameType DEF IsKey, IsSymbol, HasTag
  <2> DEFINE b == [accessors[w.id] EXCEPT !.slots[NameOf(key)] = prop]
  <2>3. b \in AccessorsOf(Words) /\ AccessorShape(b)
    BY <2>1, <2>2, SlotType
  <2>4. accessors' = [accessors EXCEPT ![w.id] = b]
    BY <1>2
  <2> HIDE DEF b
  <2> QED
    BY <1>2, <2>1, <2>3, <2>4, ReplaceStep, ConstantWords
<1> QED
  BY <1>1, <1>2 DEF PutKeyProp

\* A property is a well-formed accessor.
LEMMA PropertyType ==
  ASSUME NEW W, Undef \in W, NEW v \in W, NEW setter \in W
  PROVE  /\ MakePropertyAccessor(v, setter) \in AccessorsOf(W)
         /\ AccessorShape(MakePropertyAccessor(v, setter))
<1>1. NoBindings \in [Names -> W]
  BY DEF NoBindings
<1>2. MakePropertyAccessor(v, setter) \in AccessorsOf(W)
  BY <1>1 DEF MakePropertyAccessor, AccessorsOf
<1>3. MakePropertyAccessor(v, setter).isDir = FALSE
  BY DEF MakePropertyAccessor
<1> QED
  BY <1>2, <1>3 DEF AccessorShape

\* A directory is a well-formed accessor.
LEMMA DirType ==
  ASSUME NEW W, Undef \in W, Nil \in W, NEW slots \in [Names -> W]
  PROVE  MakeDirAccessor(slots) \in AccessorsOf(W) /\ AccessorShape(MakeDirAccessor(slots))
BY DEF MakeDirAccessor, AccessorsOf, AccessorShape

\* KN_DirAccessorPutKeyValue preserves the invariant.
LEMMA PutKeyValStep ==
  ASSUME Inv, NEW w \in Words, NEW key \in Words, IsKey(key), NEW v \in Words,
         NEW setter \in Words, NEW k \in 1 .. Len(conts), PutKeyVal(w, key, v, setter, k)
  PROVE  Inv' /\ Kept
<1> DEFINE a == MakePropertyAccessor(v, setter)
           prop == Append(accessors, a)
           b == [prop[w.id] EXCEPT !.slots[NameOf(key)] = AccessorRef(Len(prop))]
<1>1. /\ UNCHANGED <<nodes, envs, conts, memos, registry, currCode>>
      /\ \/ /\ IsDir(w) /\ Bounce(Run(True, k))
            /\ accessors' = [prop EXCEPT ![w.id].slots[NameOf(key)] = AccessorRef(Len(prop))]
         \/ ~IsDir(w) /\ accessors' = prop /\ Bounce(Run(False, k))
  BY DEF PutKeyVal
<1>2. /\ a \in AccessorsOf(Words) /\ AccessorShape(a)
  BY PropertyType, ConstantWords
<1>3. AccessorsOK(prop, Words) /\ Len(prop) = Len(accessors) + 1 /\ Len(accessors) \in Nat
      /\ DOMAIN prop = 1 .. Len(prop)
  <2> HIDE DEF a
  <2>1. AccessorsOK(prop, Words) /\ Len(prop) = Len(accessors) + 1 /\ Len(accessors) \in Nat
    BY <1>2, AccessorsAppend, InvFacts
  <2> QED
    BY <2>1 DEF AccessorsOK
<1> HIDE DEF a, prop
<1>4. accessors' = prop \/ (IsDir(w) /\ accessors' = [prop EXCEPT ![w.id] = b])
  BY <1>1 DEF b
<1> HIDE DEF b
<1>5. Len(accessors') = Len(prop)
  BY <1>3, <1>4 DEF AccessorsOK
<1>6. ASSUME Words \subseteq Words' PROVE AccessorsOK(accessors', Words')
  <2>1. AccessorsOK(prop, Words')
    BY <1>3, <1>6, AccessorsMono
  <2>2. CASE accessors' = prop
    BY <2>1, <2>2
  <2>3. CASE IsDir(w) /\ accessors' = [prop EXCEPT ![w.id] = b]
    <3>1. w.id \in DOMAIN prop
      BY <1>3, <2>3, WordFacts DEF IsDir, IsAccessor
    <3>2. prop[w.id] \in AccessorsOf(Words') /\ AccessorShape(prop[w.id])
      BY <2>1, <3>1 DEF AccessorsOK
    <3>3. NameOf(key) \in Names
      BY NameType DEF IsKey, IsSymbol, HasTag
    <3>4. AccessorRef(Len(prop)) \in Words'
      <4>1. Len(nodes') \in Nat /\ Len(conts') \in Nat /\ Len(accessors') \in Nat
            /\ Len(prop) \in 1 .. Len(accessors')
        BY <1>1, <1>3, <1>5, InvFacts
      <4> QED
        BY <4>1, WordsBuilt DEF Words
    <3>5. b \in AccessorsOf(Words') /\ AccessorShape(b)
      BY <3>2, <3>3, <3>4, SlotType DEF b
    <3> QED
      BY <2>1, <2>3, <3>1, <3>5, AccessorsReplace
  <2> QED
    BY <1>4, <2>2, <2>3
<1>7. Len(accessors') \in Nat /\ Len(accessors) <= Len(accessors')
  BY <1>3, <1>5
<1>8. {True, False} \subseteq Words
  BY ConstantWords
<1> QED
  BY <1>1, <1>6, <1>7, <1>8, AccessorStep

-----------------------------------------------------------------------------
\* KN_UNBOX_FIXNUM of any word is a number.
LEMMA UnboxFixnumType ==
  ASSUME Inv, NEW w \in Words
  PROVE  UnboxFixnum(w) \in Int
<1>1. w.t = "fix" => w.id \in Int
  BY InvFacts, WordParts, MaxFixAssumption DEF Words, Fixnums
<1> QED
  BY <1>1 DEF UnboxFixnum

\* A node with another dispatcher is well formed and has the same text.
LEMMA RedispatchedNode ==
  ASSUME NEW W, NEW ne \in Nat, NEW n \in NodesOf(W, ne), NodeShape(n), NEW d \in Int
  PROVE  LET m == [n EXCEPT !.dispatcher = d]
         IN  m \in NodesOf(W, ne) /\ NodeShape(m) /\ TextKept(n, m)
<1> DEFINE m == [n EXCEPT !.dispatcher = d]
<1>1. m \in NodesOf(W, ne)
  BY NodeWith
<1>2. /\ m.tag = n.tag /\ m.items = n.items /\ m.segs = n.segs /\ m.params = n.params
      /\ m.type = n.type /\ m.env = n.env
  BY DEF NodesOf
<1>3. NodeShape(m)
  BY <1>2 DEF NodeShape, WellBuilt
<1>4. m = [n EXCEPT !.type = m.type, !.dispatcher = m.dispatcher]
  BY DEF NodesOf
<1> QED
  BY <1>1, <1>2, <1>3, <1>4 DEF TextKept

\* A word turned into an identifier is well formed and has the same text
\* otherwise.
LEMMA IdentifiedNode ==
  ASSUME NEW W, NEW ne \in Nat, NEW n \in NodesOf(W, ne), NodeShape(n),
         n.tag = "symbol", n.type = "WORD"
  PROVE  LET m == [n EXCEPT !.type = "IDENTIFIER"]
         IN  m \in NodesOf(W, ne) /\ NodeShape(m) /\ TextKept(n, m)
<1> DEFINE m == [n EXCEPT !.type = "IDENTIFIER"]
<1>1. m \in NodesOf(W, ne)
  BY NodeWith DEF NodeTypes
<1>2. m.tag = n.tag /\ m.type = "IDENTIFIER"
  BY DEF NodesOf
<1>3. NodeShape(m)
  BY <1>2 DEF NodeShape, WellBuilt
<1>4. m = [n EXCEPT !.type = m.type, !.dispatcher = m.dispatcher]
  BY DEF NodesOf
<1> QED
  BY <1>1, <1>2, <1>3, <1>4 DEF TextKept

\* Writing a node so meets the obligation for nodes.
LEMMA NodesReplace ==
  ASSUME Inv, Grows, NEW i \in 1 .. Len(nodes), NEW m,
         m \in NodesOf(Words, Len(envs)), NodeShape(m), TextKept(nodes[i], m),
         nodes' = [nodes EXCEPT ![i] = m]
  PROVE  NodesStep
<1>1. /\ nodes \in Seq(NodesOf(Words, Len(envs))) /\ DOMAIN nodes = 1 .. Len(nodes)
      /\ \A j \in DOMAIN nodes : NodeShape(nodes[j]) /\ nodes[j] \in NodesOf(Words, Len(envs))
  BY InvFacts DEF NodesOK
<1>2. NodesOK(nodes', Words, Len(envs))
  BY <1>1 DEF NodesOK
<1>3. NodesOK(nodes', Words', Len(envs'))
  BY <1>2, NodesMono, WordsGrow, InvFacts DEF Grows
<1>4. ASSUME NEW j \in DOMAIN nodes PROVE TextKept(nodes[j], nodes'[j])
  <2>1. CASE j = i
    BY <1>1, <2>1
  <2>2. CASE j # i
    <3>1. nodes'[j] = nodes[j]
      BY <1>1, <2>2
    <3> QED
      BY <1>1, <3>1, SameText
  <2> QED
    BY <2>1, <2>2
<1> QED
  BY <1>3, <1>4 DEF NodesStep

\* Turning what may be a word into an identifier meets the obligation for
\* nodes.
LEMMA AsIdentifierStep ==
  ASSUME Inv, NEW w \in Words, AsIdentifier(w)
  PROVE  Len(nodes') = Len(nodes) /\ (Grows => NodesStep)
<1>1. CASE ~IsWord(w)
  BY <1>1, NodesKept DEF AsIdentifier
<1>2. CASE IsWord(w)
  <2> DEFINE m == [nodes[w.id] EXCEPT !.type = "IDENTIFIER"]
  <2>1. /\ w.id \in 1 .. Len(nodes) /\ nodes[w.id] \in NodesOf(Words, Len(envs))
        /\ NodeShape(nodes[w.id]) /\ nodes[w.id].tag = "symbol" /\ nodes[w.id].type = "WORD"
    BY <1>2, TagFacts DEF IsWord, IsSymbol
  <2>2. m \in NodesOf(Words, Len(envs)) /\ NodeShape(m) /\ TextKept(nodes[w.id], m)
    BY <2>1, IdentifiedNode, InvFacts
  <2>3. nodes' = [nodes EXCEPT ![w.id] = m]
    BY <1>2 DEF AsIdentifier
  <2> HIDE DEF m
  <2>4. Len(nodes') = Len(nodes)
    BY <2>3, InvFacts DEF NodesOK
  <2> QED
    BY <2>1, <2>2, <2>3, <2>4, NodesReplace
<1> QED
  BY <1>1, <1>2

\* Giving a node another dispatcher meets it too.
LEMMA RedispatchStep ==
  ASSUME Inv, NEW w \in Words, w.t = "node", NEW d \in Int,
         nodes' = [nodes EXCEPT ![w.id].dispatcher = d]
  PROVE  Len(nodes') = Len(nodes) /\ (Grows => NodesStep)
<1> DEFINE m == [nodes[w.id] EXCEPT !.dispatcher = d]
<1>1. /\ w.id \in 1 .. Len(nodes) /\ nodes[w.id] \in NodesOf(Words, Len(envs))
      /\ NodeShape(nodes[w.id])
  BY WordFacts
<1>2. m \in NodesOf(Words, Len(envs)) /\ NodeShape(m) /\ TextKept(nodes[w.id], m)
  BY <1>1, RedispatchedNode, InvFacts
<1>3. nodes' = [nodes EXCEPT ![w.id] = m]
  OBVIOUS
<1> HIDE DEF m
<1>4. Len(nodes') = Len(nodes)
  BY <1>3, InvFacts DEF NodesOK
<1> QED
  BY <1>1, <1>2, <1>3, <1>4, NodesReplace

\* The native procedure set-dispatcher-id preserves the invariant.
LEMMA SetDispatcherIdStep ==
  ASSUME Inv, NEW w \in Words, NEW id \in Words, NEW k \in 1 .. Len(conts),
         SetDispatcherId(w, id, k)
  PROVE  Inv' /\ Kept
<1>1. Bounce(Run(True, k)) /\ UNCHANGED <<envs, conts, memos, registry, currCode>>
  BY DEF SetDispatcherId
<1>2. UnboxFixnum(id) \in Int /\ True \in Words
  BY UnboxFixnumType, ConstantWords
<1>3. CASE w.t = "node" /\ UNCHANGED accessors
           /\ nodes' = [nodes EXCEPT ![w.id].dispatcher = UnboxFixnum(id)]
  <2>1. Len(nodes') = Len(nodes) /\ (Grows => NodesStep)
    BY <1>2, <1>3, RedispatchStep
  <2>2. Grows
    BY <1>1, <1>3, <2>1, InvFacts DEF Grows
  <2>3. JobStep /\ RestStep
    <3>1. job' = Run(True, k) /\ Len(conts') \in Nat /\ Len(envs') \in Nat
          /\ k \in 1 .. Len(conts') /\ True \in Words' /\ depth' = 0
      BY <1>1, <2>2, WordsGrow, InvFacts DEF Bounce
    <3> QED
      BY <1>1, <3>1, RunJob DEF JobStep, RestStep
  <2> QED
    BY <1>1, <1>3, <2>1, <2>2, <2>3, EnvsKept, ContsKept, MemosKept, AccessorsKept,
       DispatchersKept, Conclude
<1>4. CASE IsAccessor(w) /\ UNCHANGED nodes
           /\ accessors' = [accessors EXCEPT ![w.id].dispatcher = UnboxFixnum(id)]
  <2> DEFINE a == [accessors[w.id] EXCEPT !.dispatcher = UnboxFixnum(id)]
  <2>1. /\ w.id \in 1 .. Len(accessors) /\ accessors[w.id] \in AccessorsOf(Words)
        /\ AccessorShape(accessors[w.id])
    BY <1>4, WordFacts DEF IsAccessor
  <2>2. /\ a \in AccessorsOf(Words) /\ a.setter = accessors[w.id].setter
        /\ a.isDir = accessors[w.id].isDir
    BY <1>2, <2>1 DEF AccessorsOf
  <2>3. accessors' = [accessors EXCEPT ![w.id] = a]
    BY <1>4
  <2> HIDE DEF a
  <2>4. AccessorShape(a)
    BY <2>1, <2>2 DEF AccessorShape
  <2> QED
    BY <1>1, <1>2, <1>4, <2>1, <2>2, <2>3, <2>4, ReplaceStep
<1>5. CASE UNCHANGED <<nodes, accessors>>
  <2>1. GoOn(True, k)
    BY <1>1, <1>5 DEF GoOn, heap, objects, registry
  <2> QED
    BY <1>2, <2>1, GoOnStep
<1> QED
  BY <1>3, <1>4, <1>5 DEF SetDispatcherId

-----------------------------------------------------------------------------
\* A native procedure that only answers preserves the invariant.
LEMMA AnswerStep ==
  ASSUME Inv, NEW defined, NEW v, defined => v \in Words, NEW k \in 1 .. Len(conts),
         Answer(defined, v, k)
  PROVE  Inv' /\ Kept
BY GoOnStep, FaultStep DEF Answer

\* The native procedure unbox does.
LEMMA UnBoxStep ==
  ASSUME Inv, NEW w \in Words, NEW k \in 1 .. Len(conts),
         \/ UnboxingLoops(w) /\ Stop("HANG")
         \/ ~UnboxingLoops(w) /\ GoOn(UnBoxAccessorValue(w), k)
  PROVE  Inv' /\ Kept
<1>1. "HANG" \in FinalOps
  BY DEF FinalOps
<1> QED
  BY <1>1, StopStep, UnBoxType, GoOnStep

\* A slot holds a word.
LEMMA SlotOfType ==
  ASSUME Inv, NEW w \in Words, IsAccessor(w), NEW key \in Words, IsKey(key)
  PROVE  accessors[w.id].slots[NameOf(key)] \in Words
<1>1. NameOf(key) \in Names
  BY NameType DEF IsKey, IsSymbol, HasTag
<1>2. accessors[w.id] \in AccessorsOf(Words)
  BY WordFacts DEF IsAccessor
<1> QED
  BY <1>1, <1>2 DEF AccessorsOf

\* Every native procedure of the accessor module preserves the invariant.
LEMMA AccessorFuncStep ==
  ASSUME Inv, NEW name, NEW args \in Seq(Words), Len(args) >= ParamNum(name),
         NEW k \in 1 .. Len(conts), CallAccessorFunc(name, args, k)
  PROVE  Inv' /\ Kept
<1>1. CASE name = "init-dir"
  <2>1. NoBindings \in [Names -> Words] /\ {Undef, Nil} \subseteq Words
    BY ConstantWords DEF NoBindings
  <2>2. AllocAccessor(MakeDirAccessor(NoBindings), k)
    BY <1>1 DEF CallAccessorFunc
  <2> QED
    BY <2>1, <2>2, DirType, AllocAccessorStep
<1>2. CASE name = "init-prop"
  <2>1. Len(args) >= 1 /\ Len(args) \in Nat
    BY <1>2 DEF ParamNum
  <2> DEFINE setter == IF Len(args) > 2 THEN args[3] ELSE Undef
  <2>2. args[1] \in Words /\ setter \in Words /\ Undef \in Words
    BY <2>1, ConstantWords
  <2>3. AllocAccessor(MakePropertyAccessor(args[1], setter), k)
    BY <1>2 DEF CallAccessorFunc
  <2> QED
    BY <2>2, <2>3, PropertyType, AllocAccessorStep
<1>3. CASE name = "unbox"
  <2>1. Len(args) >= 1 /\ Len(args) \in Nat
    BY <1>3 DEF ParamNum
  <2>2. args[1] \in Words
    BY <2>1
  <2>3. \/ UnboxingLoops(args[1]) /\ Stop("HANG")
        \/ ~UnboxingLoops(args[1]) /\ GoOn(UnBoxAccessorValue(args[1]), k)
    BY <1>3 DEF CallAccessorFunc
  <2> QED
    BY <2>2, <2>3, UnBoxStep
<1>4. CASE name \in {"set-val", "has-key", "at-key"}
  <2>1. Len(args) >= 2 /\ Len(args) \in Nat
    BY <1>4 DEF ParamNum
  <2>2. args[1] \in Words /\ args[2] \in Words
    BY <2>1
  <2>3. \/ IsAccessor(args[1]) /\
            Assign(args[1], args[2], accessors[args[1].id].table, args[1], k)
        \/ IsAccessor(args[1]) /\ IsKey(args[2]) /\ GoOn(HasKey(args[1], args[2]), k)
        \/ IsAccessor(args[1]) /\ IsKey(args[2]) /\ GoOn(AtKey(args[1], args[2]), k)
        \/ Fault
    BY <1>4 DEF CallAccessorFunc, TableRead
  <2>4. IsAccessor(args[1]) => accessors[args[1].id].table \in {"none", "open", "freed"}
    BY <2>2, WordFacts DEF IsAccessor, AccessorsOf
  <2>5. HasKey(args[1], args[2]) \in Words
    BY ConstantWords DEF HasKey
  <2>6. IsAccessor(args[1]) /\ IsKey(args[2]) => AtKey(args[1], args[2]) \in Words
    BY <2>2, SlotOfType DEF AtKey
  <2> QED
    BY <2>2, <2>3, <2>4, <2>5, <2>6, AssignStep, GoOnStep, FaultStep
<1>5. CASE name \in {"put-key-val", "put-key-prop"}
  <2>1. Len(args) >= 3 /\ Len(args) \in Nat
    BY <1>5 DEF ParamNum
  <2> DEFINE setter == IF Len(args) > 3 THEN args[4] ELSE Undef
  <2>2. args[1] \in Words /\ args[2] \in Words /\ args[3] \in Words /\ setter \in Words
    BY <2>1, ConstantWords
  <2>3. \/ IsKey(args[2]) /\ PutKeyVal(args[1], args[2], args[3], setter, k)
        \/ IsKey(args[2]) /\ PutKeyProp(args[1], args[2], args[3], k)
        \/ Fault
    BY <1>5 DEF CallAccessorFunc
  <2> HIDE DEF setter
  <2> QED
    BY <2>2, <2>3, PutKeyValStep, PutKeyPropStep, FaultStep
<1>6. CASE name \notin {"init-dir", "init-prop", "unbox", "set-val", "has-key", "at-key",
                        "put-key-val", "put-key-prop"}
  BY <1>6, FaultStep DEF CallAccessorFunc
<1> QED
  BY <1>1, <1>2, <1>3, <1>4, <1>5, <1>6

\* So do "+" and "<".
LEMMA NumberAnswers ==
  ASSUME Inv, NEW args \in Seq(Words), NEW k \in 1 .. Len(conts),
         \/ Answer(PlusDefined(args), PlusValue(args), k)
         \/ Answer(LowerThanDefined(args), LowerThanValue(args), k)
  PROVE  Inv' /\ Kept
<1>1. PlusDefined(args) => PlusValue(args) \in Words
  BY DEF PlusDefined, PlusValue, Words, WordsOf
<1>2. LowerThanValue(args) \in Words
  BY ConstantWords DEF LowerThanValue
<1> QED
  BY <1>1, <1>2, AnswerStep

\* So does every native procedure that KN_ApplyArgsToNativeFunc calls.
LEMMA NativeFuncStep ==
  ASSUME Inv, NEW name, NEW args \in Seq(Words), NEW k \in 1 .. Len(conts),
         ApplyArgsToNativeFunc(name, args, k)
  PROVE  Inv' /\ Kept
<1>1. CASE Fault
  BY <1>1, FaultStep
<1>2. CASE ~Fault
  <2>0. Len(args) >= ParamNum(name) /\ Len(args) \in Nat
    BY <1>2 DEF ApplyArgsToNativeFunc
  <2>1. CASE name \in {"+", "<"}
    <3>1. \/ Answer(PlusDefined(args), PlusValue(args), k)
          \/ Answer(LowerThanDefined(args), LowerThanValue(args), k)
      BY <1>2, <2>1 DEF ApplyArgsToNativeFunc
    <3> QED
      BY <3>1, NumberAnswers
  <2>2. CASE name = "not"
    <3>1. NotValue(args[1]) \in Words
      BY ConstantWords DEF NotValue
    <3> QED
      BY <1>2, <2>2, <3>1, GoOnStep DEF ApplyArgsToNativeFunc
  <2>3. CASE name = "set-dispatcher-id"
    <3>1. Len(args) >= 2
      BY <2>0, <2>3 DEF ParamNum
    <3>2. args[1] \in Words /\ args[2] \in Words
      BY <2>0, <3>1
    <3>3. SetDispatcherId(args[1], args[2], k)
      BY <1>2, <2>3 DEF ApplyArgsToNativeFunc
    <3> QED
      BY <3>2, <3>3, SetDispatcherIdStep
  <2>4. CASE name \notin {"+", "<", "not", "set-dispatcher-id"}
    <3>1. CallAccessorFunc(name, args, k)
      BY <1>2, <2>4 DEF ApplyArgsToNativeFunc
    <3> QED
      BY <2>0, <3>1, AccessorFuncStep
  <2> QED
    BY <2>1, <2>2, <2>3, <2>4
<1> QED
  BY <1>1, <1>2

\* So does one that "apply" calls with its arguments as one list.
LEMMA CallNativeFuncStep ==
  ASSUME Inv, NEW name, NEW w \in Words, NEW k \in 1 .. Len(conts), CallNativeFunc(name, w, k)
  PROVE  Inv' /\ Kept
<1>1. CASE name \in {"+", "<"}
  <2>1. \/ Answer(PlusDefined(Items(w)), PlusValue(Items(w)), k)
        \/ Answer(LowerThanDefined(Items(w)), LowerThanValue(Items(w)), k)
    BY <1>1 DEF CallNativeFunc
  <2> QED
    BY <2>1, ItemsType, NumberAnswers
<1>2. CASE name = "not"
  <2>1. NotValue(w) \in Words
    BY ConstantWords DEF NotValue
  <2> QED
    BY <1>2, <2>1, GoOnStep DEF CallNativeFunc
<1>3. CASE name \in {"unbox", "init-dir"}
  <2>1. <<w>> \in Seq(Words) /\ Len(<<w>>) >= ParamNum(name)
    BY <1>3 DEF ParamNum
  <2>2. CallAccessorFunc(name, <<w>>, k)
    BY <1>3 DEF CallNativeFunc
  <2> QED
    BY <2>1, <2>2, AccessorFuncStep
<1>4. CASE name \notin {"+", "<", "not", "unbox", "init-dir"}
  BY <1>4, FaultStep DEF CallNativeFunc
<1> QED
  BY <1>1, <1>2, <1>3, <1>4

-----------------------------------------------------------------------------
Composites == {"LAMBDA", "FUNC", "MACRO_LAMBDA", "MACRO_FUNC"}

\* A procedure that is no native one was created in an environment.
LEMMA ProcFacts ==
  ASSUME Inv, NEW w \in Words
  PROVE  /\ ProcOf(w) \in NodesOf(Words, Len(envs))
         /\ ProcOf(w).type \in Composites => ProcOf(w).env \in 1 .. Len(envs)
<1>1. CASE HasTag(w, "procedure")
  <2>1. /\ ProcOf(w) = nodes[w.id] /\ nodes[w.id] \in NodesOf(Words, Len(envs))
        /\ NodeShape(nodes[w.id]) /\ nodes[w.id].tag = "procedure"
    BY <1>1, TagFacts DEF ProcOf
  <2>2. nodes[w.id].type \in Composites => nodes[w.id].env >= ProcessEnv
    BY <2>1 DEF NodeShape, Composites
  <2> QED
    BY <2>1, <2>2, NodeFields, InvFacts DEF ProcessEnv
<1>2. CASE ~HasTag(w, "procedure")
  <2>1. NoProcedure \in NodesOf(Words, Len(envs))
    BY NodeType, ConstantWords, InvFacts DEF NoProcedure, NodeTags
  <2>2. NoProcedure.type \notin Composites
    BY DEF NoProcedure, Node, Composites
  <2> QED
    BY <1>2, <2>1, <2>2 DEF ProcOf
<1> QED
  BY <1>1, <1>2

\* Calling a lambda or a func preserves the invariant.
LEMMA CompositeStep ==
  ASSUME Inv, NEW proc \in NodesOf(Words, Len(envs)), proc.env \in 1 .. Len(envs),
         NEW args \in Seq(Words), NEW e \in 1 .. Len(envs), NEW k \in 1 .. Len(conts),
         \/ ApplyCompositeLambda(nodes, proc, args, e, k)
         \/ ApplyCompositeFunc(nodes, proc, args, e, k)
  PROVE  Inv' /\ Kept
<1>1. /\ Words = WordsOf(Len(nodes), Len(conts), Len(accessors))
      /\ NodesOK(nodes, Words, Len(envs)) /\ Len(nodes) <= Len(nodes)
      /\ \A i \in DOMAIN nodes : i \in DOMAIN nodes /\ TextKept(nodes[i], nodes[i])
  BY InvFacts, SameText DEF Words, NodesOK
<1>2. \E p, c \in 1 .. Len(envs) : ApplyComposite(nodes, proc, args, p, c, k)
  BY DEF ApplyCompositeLambda, ApplyCompositeFunc
<1> QED
  BY <1>1, <1>2, ApplyCompositeStep

\* So does ApplyProcedureArguments.
LEMMA ProcedureStep ==
  ASSUME Inv, NEW p \in Words, NEW args \in Seq(Words), NEW e \in 1 .. Len(envs),
         NEW k \in 1 .. Len(conts), ApplyProcedureArguments(ProcOf(p), args, e, k)
  PROVE  Inv' /\ Kept
<1> DEFINE proc == ProcOf(p)
<1>1. /\ proc \in NodesOf(Words, Len(envs))
      /\ proc.type \in Composites => proc.env \in 1 .. Len(envs)
  BY ProcFacts
<1> HIDE DEF proc
<1>2. ApplyProcedureArguments(proc, args, e, k)
  BY DEF proc
<1>3. \/ ApplyArgsToNativeFunc(proc.name, args, k)
      \/ /\ proc.type \in Composites
         /\ \/ ApplyCompositeLambda(nodes, proc, args, e, k)
            \/ ApplyCompositeFunc(nodes, proc, args, e, k)
      \/ /\ proc.type \in Composites
         /\ args # <<>> /\ HasTag(args[1], "quote")
         /\ \/ ApplyCompositeLambda(nodes, proc, Items(nodes[args[1].id].inner), e, k)
            \/ ApplyCompositeFunc(nodes, proc, Items(nodes[args[1].id].inner), e, k)
      \/ Fault
  BY <1>2 DEF ApplyProcedureArguments, Composites
<1>4. ASSUME args # <<>>, HasTag(args[1], "quote")
      PROVE  Items(nodes[args[1].id].inner) \in Seq(Words)
  <2>1. args[1] \in Words
    BY <1>4
  <2>2. nodes[args[1].id].inner \in Words
    BY <1>4, <2>1, TagFacts, NodeFields
  <2> QED
    BY <2>2, ItemsType
<1> QED
  BY <1>1, <1>3, <1>4, NativeFuncStep, CompositeStep, FaultStep

\* So does AssignValueToAccessor, by the setter or by the assignment.
LEMMA AssignValueStep ==
  ASSUME Inv, NEW w \in Words, IsAccessor(w), NEW v \in Words, NEW e \in 1 .. Len(envs),
         NEW k \in 1 .. Len(conts), AssignValueToAccessor(w, v, e, k)
  PROVE  Inv' /\ Kept
<1> DEFINE setter == accessors[w.id].setter
           table == IF accessors[w.id].isDir THEN "freed" ELSE accessors[w.id].table
<1>1. accessors[w.id] \in AccessorsOf(Words)
  BY WordFacts DEF IsAccessor
<1>2. setter \in Words /\ table \in {"none", "open", "freed"} /\ <<w, v>> \in Seq(Words)
  BY <1>1 DEF AccessorsOf
<1>3. \/ ApplyProcedureArguments(ProcOf(setter), <<w, v>>, e, k)
      \/ Assign(w, v, table, v, k)
  BY DEF AssignValueToAccessor
<1> HIDE DEF setter, table
<1> QED
  BY <1>2, <1>3, ProcedureStep, AssignStep

\* So does calling the handler of the subject's dispatcher, or the null
\* pointer where it has none.
LEMMA DispatchStep ==
  ASSUME Inv, NEW ns, NEW V, V = WordsOf(Len(ns), Len(conts), Len(accessors)),
         NodesOK(ns, V, Len(envs)), Len(nodes) <= Len(ns),
         \A i \in DOMAIN nodes : i \in DOMAIN ns /\ TextKept(nodes[i], ns[i]),
         NEW handler \in Handlers, NEW subj \in V, NEW args \in Seq(V),
         NEW e \in 1 .. Len(envs), NEW k \in 1 .. Len(conts),
         Dispatch(ns, handler, subj, args, e, k)
  PROVE  Inv' /\ Kept
<1> DEFINE id == NodeDispatcherId(subj)
           proc == dispatchers[id][handler]
<1>1. \/ /\ id \in DOMAIN dispatchers /\ proc # NoProcedure
         /\ ApplyCompositeLambda(ns, proc, <<subj>> \o args, e, k)
      \/ Fault
  BY DEF Dispatch
<1> HIDE DEF id
<1>2. CASE /\ id \in DOMAIN dispatchers /\ proc # NoProcedure
           /\ ApplyCompositeLambda(ns, proc, <<subj>> \o args, e, k)
  <2>1. dispatchers[id] \in DispatchersOf(Words, Len(envs)) /\ DispatcherShape(dispatchers[id])
    BY <1>2, InvFacts DEF DispatchersOK
  <2>2. proc \in NodesOf(Words, Len(envs)) /\ proc.env >= ProcessEnv
    BY <1>2, <2>1 DEF DispatchersOf, DispatcherShape
  <2> HIDE DEF proc
  <2>3. proc.env \in 1 .. Len(envs)
    BY <2>2, NodeFields, InvFacts DEF ProcessEnv
  <2>4. <<subj>> \o args \in Seq(V)
    OBVIOUS
  <2>5. ApplyComposite(ns, proc, <<subj>> \o args, proc.env, e, k)
    BY <1>2 DEF ApplyCompositeLambda
  <2> QED
    BY <2>2, <2>3, <2>4, <2>5, ApplyCompositeStep
<1> QED
  BY <1>1, <1>2, FaultStep

\* So does a call of what an accessor holds.
LEMMA UnboxedStep ==
  ASSUME Inv, NEW p \in Words, NEW subj \in Words, NEW args \in Seq(Words),
         NEW e \in 1 .. Len(envs), NEW k \in 1 .. Len(conts), ApplyUnboxed(p, subj, args, e, k)
  PROVE  Inv' /\ Kept
<1>1. "HANG" \in FinalOps /\ UnBoxAccessorValue(p) \in Words
  BY UnBoxType DEF FinalOps
<1> QED
  BY <1>1, StopStep, ProcedureStep DEF ApplyUnboxed

\* The list of the arguments of a message, allocated if it is not empty.
LEMMA WithListType ==
  ASSUME Inv, NEW ws \in Seq(Words), NEW V,
         V = WordsOf(Len(WithList(ws)), Len(conts), Len(accessors))
  PROVE  /\ NodesOK(WithList(ws), V, Len(envs)) /\ Words \subseteq V /\ ListWord(ws) \in V
         /\ Len(nodes) <= Len(WithList(ws)) /\ Len(WithList(ws)) \in Nat
         /\ \A i \in DOMAIN nodes :
              i \in DOMAIN WithList(ws) /\ TextKept(nodes[i], WithList(ws)[i])
<1>0. /\ Words = WordsOf(Len(nodes), Len(conts), Len(accessors))
      /\ NodesOK(nodes, Words, Len(envs)) /\ Len(nodes) \in Nat /\ Len(conts) \in Nat
      /\ Len(accessors) \in Nat /\ Len(envs) \in Nat /\ Len(conts) <= Len(conts)
      /\ Len(accessors) <= Len(accessors) /\ DOMAIN nodes = 1 .. Len(nodes)
      /\ \A i \in DOMAIN nodes : TextKept(nodes[i], nodes[i])
  BY InvFacts, SameText DEF Words, NodesOK
<1>1. CASE ws = <<>>
  <2>1. WithList(ws) = nodes /\ ListWord(ws) = Nil
    BY <1>1 DEF WithList, ListWord
  <2> QED
    BY <1>0, <2>1, ConstantWords
<1>2. CASE ws # <<>>
  <2> DEFINE n == ListNode(ws)
  <2>1. WithList(ws) = Append(nodes, n) /\ ListWord(ws) = NodeRef(Len(nodes) + 1)
    BY <1>2 DEF WithList, ListWord
  <2>2. Len(Append(nodes, n)) = Len(nodes) + 1
    BY <1>0 DEF NodesOK
  <2>3. Words \subseteq V
    <3>1. /\ Len(nodes) \in Nat /\ Len(nodes) + 1 \in Nat /\ Len(nodes) <= Len(nodes) + 1
          /\ Len(conts) \in Nat /\ Len(conts) <= Len(conts)
          /\ Len(accessors) \in Nat /\ Len(accessors) <= Len(accessors)
      BY <1>0
    <3>2. WordsOf(Len(nodes), Len(conts), Len(accessors))
            \subseteq WordsOf(Len(nodes) + 1, Len(conts), Len(accessors))
      BY ONLY <3>1 DEF WordsOf
    <3>3. V = WordsOf(Len(nodes) + 1, Len(conts), Len(accessors))
      BY <2>1, <2>2
    <3>4. Words = WordsOf(Len(nodes), Len(conts), Len(accessors))
      BY <1>0
    <3> QED
      BY ONLY <3>2, <3>3, <3>4
  <2>4. NodeRef(Len(nodes) + 1) \in V
    <3>1. Len(nodes) + 1 \in Nat /\ Len(nodes) + 1 \in 1 .. Len(nodes) + 1
      BY <1>0
    <3>2. NodeRef(Len(nodes) + 1) \in WordsOf(Len(nodes) + 1, Len(conts), Len(accessors))
      BY <1>0, <3>1, WordsBuilt
    <3> QED
      BY <2>1, <2>2, <3>2
  <2>5. NodesOK(nodes, V, Len(envs)) /\ Undef \in V /\ ws \in Seq(V)
    BY <1>0, <2>3, NodesMono, ConstantWords, SeqMono
  <2>6. n \in NodesOf(V, Len(envs)) /\ NodeShape(n)
    BY <1>0, <1>2, <2>5, ListNodeType
  <2> HIDE DEF n
  <2>7. /\ NodesOK(Append(nodes, n), V, Len(envs))
        /\ \A i \in DOMAIN nodes : Append(nodes, n)[i] = nodes[i]
    BY <1>0, <2>5, <2>6, NodesAppend
  <2>8. DOMAIN Append(nodes, n) = 1 .. Len(nodes) + 1
    BY <2>2, <2>7 DEF NodesOK
  <2> QED
    BY <1>0, <2>1, <2>2, <2>3, <2>4, <2>7, <2>8
<1> QED
  BY <1>1, <1>2

\* The parts of the arguments of a clause are words.
LEMMA ArgsFacts ==
  ASSUME Inv, NEW args \in Seq(Words), args # <<>>
  PROVE  /\ args[1] \in Words /\ Tail(args) \in Seq(Words)
         /\ Len(args) > 1 => args[2] \in Words /\ SubSeq(args, 3, Len(args)) \in Seq(Words)
<1>1. Len(args) \in Nat /\ args[1] \in Words /\ Tail(args) \in Seq(Words)
  OBVIOUS
<1>2. ASSUME Len(args) > 1 PROVE args[2] \in Words /\ SubSeq(args, 3, Len(args)) \in Seq(Words)
  <2>1. 2 \in 1 .. Len(args) /\ 3 \in 1 .. Len(args) + 1
    BY <1>1, <1>2
  <2>2. \A i \in 3 .. Len(args) : args[i] \in Words
    BY <1>1
  <2> QED
    BY <1>1, <2>1, <2>2, SubSeqProperties
<1> QED
  BY <1>1, <1>2

\* A verb that is a marker preserves the invariant.
LEMMA ApplyMarkerStep ==
  ASSUME Inv, NEW subj \in Words, NEW args \in Seq(Words), args # <<>>,
         NEW e \in 1 .. Len(envs), NEW k \in 1 .. Len(conts), ApplyMarker(subj, args, e, k)
  PROVE  Inv' /\ Kept
<1> DEFINE rest == SubSeq(args, 3, Len(args))
           complete == Len(args) > 1
<1>1. /\ Tail(args) \in Seq(Words) /\ Nil \in Words
      /\ complete => args[2] \in Words /\ rest \in Seq(Words)
  BY ArgsFacts, ConstantWords
<1>2. \/ subj.t = "cont" /\ complete /\ GoOn(args[2], subj.id)
      \/ ApplyUnboxed(subj, Nil, Tail(args), e, k)
      \/ complete /\ IsAccessor(subj) /\ AssignValueToAccessor(subj, args[2], e, k)
      \/ complete /\ GoOn(args[2], k)
      \/ complete /\ ApplyUnboxed(args[2], subj, <<UnBoxAccessorValue(subj)>> \o rest, e, k)
      \/ /\ complete /\ IsSymbol(args[2]) /\ IsAccessor(subj)
         /\ GoOn(accessors[subj.id].slots[NameOf(args[2])], k)
      \/ complete /\ Dispatch(WithList(rest), "on-method-call", subj,
                              <<args[2], ListWord(rest)>>, e, k)
      \/ Fault
  BY DEF ApplyMarker
<1> HIDE DEF complete
<1>3. ASSUME subj.t = "cont", complete, GoOn(args[2], subj.id) PROVE Inv' /\ Kept
  BY <1>1, <1>3, WordFacts, GoOnStep
<1>4. ASSUME complete, ApplyUnboxed(args[2], subj, <<UnBoxAccessorValue(subj)>> \o rest, e, k)
      PROVE  Inv' /\ Kept
  <2>1. <<UnBoxAccessorValue(subj)>> \o rest \in Seq(Words)
    BY <1>1, <1>4, UnBoxType
  <2> QED
    BY <1>1, <1>4, <2>1, UnboxedStep
<1>5. ASSUME complete, IsSymbol(args[2]), IsAccessor(subj),
             GoOn(accessors[subj.id].slots[NameOf(args[2])], k)
      PROVE  Inv' /\ Kept
  BY <1>1, <1>5, SlotOfType, GoOnStep DEF IsKey
<1>6. ASSUME complete,
             Dispatch(WithList(rest), "on-method-call", subj, <<args[2], ListWord(rest)>>, e, k)
      PROVE  Inv' /\ Kept
  <2> DEFINE ns == WithList(rest)
             V == WordsOf(Len(ns), Len(conts), Len(accessors))
  <2>0. /\ rest \in Seq(Words) /\ args[2] \in Words
        /\ Dispatch(ns, "on-method-call", subj, <<args[2], ListWord(rest)>>, e, k)
    BY <1>1, <1>6
  <2> HIDE DEF rest
  <2>1. /\ NodesOK(ns, V, Len(envs)) /\ Words \subseteq V /\ ListWord(rest) \in V
        /\ Len(nodes) <= Len(ns)
        /\ \A i \in DOMAIN nodes : i \in DOMAIN ns /\ TextKept(nodes[i], ns[i])
    BY <2>0, WithListType
  <2>2. subj \in V /\ <<args[2], ListWord(rest)>> \in Seq(V) /\ "on-method-call" \in Handlers
    BY <2>0, <2>1 DEF Handlers
  <2> QED
    BY <2>0, <2>1, <2>2, DispatchStep
<1> QED
  BY <1>1, <1>2, <1>3, <1>4, <1>5, <1>6, UnboxedStep, AssignValueStep, GoOnStep, FaultStep

\* ApplySubjVerbAndObjects preserves the invariant.
LEMMA ApplyStep ==
  ASSUME Inv, NEW subj \in Words, NEW args \in Seq(Words), args # <<>>,
         NEW e \in 1 .. Len(envs), NEW k \in 1 .. Len(conts),
         ApplySubjVerbAndObjects(subj, args, e, k)
  PROVE  Inv' /\ Kept
<1> DEFINE handler == HandlerFor(args[1])
           visited == Visited(args[1])
<1>1. CASE ApplyMarker(subj, args, e, k)
  BY <1>1, ApplyMarkerStep
<1>2. CASE Dispatch(nodes, handler, subj, <<visited>>, e, k)
  <2>1. handler \in Handlers
    BY DEF HandlerFor, Handlers
  <2>2. visited \in Words
    <3>1. args[1] \in Words
      BY ArgsFacts
    <3>2. handler \in {"on-visit-list", "on-visit-cell"} => HasTag(args[1], "quote")
      BY DEF HandlerFor, IsQuoteList
    <3>3. HasTag(args[1], "quote") => nodes[args[1].id].inner \in Words
      BY <3>1, TagFacts, NodeFields
    <3> QED
      BY <3>1, <3>2, <3>3 DEF Visited
  <2> HIDE DEF handler, visited
  <2>3. <<visited>> \in Seq(Words)
    BY <2>2
  <2>4. /\ Words = WordsOf(Len(nodes), Len(conts), Len(accessors))
        /\ NodesOK(nodes, Words, Len(envs)) /\ Len(nodes) <= Len(nodes)
        /\ \A i \in DOMAIN nodes : i \in DOMAIN nodes /\ TextKept(nodes[i], nodes[i])
    BY InvFacts, SameText DEF Words, NodesOK
  <2> QED
    BY <1>2, <2>1, <2>3, <2>4, DispatchStep
<1> QED
  BY <1>1, <1>2 DEF ApplySubjVerbAndObjects

-------------------------------------------------------------------------------
\* The memo tables a callback may be given.
GoodMemos == {m \in MemosOf(Words, Len(envs)) : DispatcherShape(m.Dispatcher)}

\* Memo tables are built by putting words, names and lists of words into them.
LEMMA MemoBuilt ==
  ASSUME Inv, NEW m \in GoodMemos
  PROVE  /\ \A x \in Names : [m EXCEPT !.VarName = x] \in GoodMemos
         /\ \A ws \in Seq(Words) : [m EXCEPT !.RestCondition = ws] \in GoodMemos
         /\ \A ws \in Seq(Words) : [m EXCEPT !.RestCmdWords = ws] \in GoodMemos
         /\ \A w \in Words : /\ [m EXCEPT !.ApplyArgsExpr = w] \in GoodMemos
                             /\ [m EXCEPT !.ApplySym = w] \in GoodMemos
         /\ \A w, v \in Words :
              /\ [m EXCEPT !.TrueClause = w, !.FalseClause = v] \in GoodMemos
              /\ [m EXCEPT !.BuilderName = w, !.BuilderSourceCode = v] \in GoodMemos
         /\ \A ps \in Seq(SegsOf(Words)), w \in Words :
              [m EXCEPT !.RestPairs = ps, !.IfTrue = w] \in GoodMemos
         /\ \A p, a, b \in Words :
              [m EXCEPT !.PredictExpr = p, !.AfterExpr = a, !.BodyExprs = b] \in GoodMemos
         /\ \A d \in DispatchersOf(Words, Len(envs)) :
              DispatcherShape(d) => [m EXCEPT !.Dispatcher = d] \in GoodMemos
<1>1. m \in MemosOf(Words, Len(envs)) /\ DispatcherShape(m.Dispatcher) /\ Len(envs) \in Nat
  BY InvFacts DEF GoodMemos
<1> DEFINE M == MemosOf(Words, Len(envs))
<1>2. \A x \in Names : [m EXCEPT !.VarName = x] \in GoodMemos
  <2>1. \A x \in Names : [m EXCEPT !.VarName = x] \in M
    BY <1>1, MemoWith, Zenon
  <2> QED
    BY <1>1, <2>1 DEF MemosOf, GoodMemos
<1>3. \A ws \in Seq(Words) : [m EXCEPT !.RestCondition = ws] \in GoodMemos
  <2>1. \A ws \in Seq(Words) : [m EXCEPT !.RestCondition = ws] \in M
    BY <1>1, MemoWith, Zenon
  <2> QED
    BY <1>1, <2>1 DEF MemosOf, GoodMemos
<1>4. \A ws \in Seq(Words) : [m EXCEPT !.RestCmdWords = ws] \in GoodMemos
  <2>1. \A ws \in Seq(Words) : [m EXCEPT !.RestCmdWords = ws] \in M
    BY <1>1, MemoWith, Zenon
  <2> QED
    BY <1>1, <2>1 DEF MemosOf, GoodMemos
<1>5. \A w \in Words : [m EXCEPT !.ApplyArgsExpr = w] \in GoodMemos
  <2>1. \A w \in Words : [m EXCEPT !.ApplyArgsExpr = w] \in M
    BY <1>1, MemoWith, Zenon
  <2> QED
    BY <1>1, <2>1 DEF MemosOf, GoodMemos
<1>6. \A w \in Words : [m EXCEPT !.ApplySym = w] \in GoodMemos
  <2>1. \A w \in Words : [m EXCEPT !.ApplySym = w] \in M
    BY <1>1, MemoWith, Zenon
  <2> QED
    BY <1>1, <2>1 DEF MemosOf, GoodMemos
<1>7. \A w, v \in Words : [m EXCEPT !.TrueClause = w, !.FalseClause = v] \in GoodMemos
  <2>1. \A w, v \in Words : [m EXCEPT !.TrueClause = w, !.FalseClause = v] \in M
    BY <1>1, MemoWith, Zenon
  <2> QED
    BY <1>1, <2>1 DEF MemosOf, GoodMemos
<1>8. \A w, v \in Words : [m EXCEPT !.BuilderName = w, !.BuilderSourceCode = v] \in GoodMemos
  <2>1. \A w, v \in Words : [m EXCEPT !.BuilderName = w, !.BuilderSourceCode = v] \in M
    BY <1>1, MemoWith, Zenon
  <2> QED
    BY <1>1, <2>1 DEF MemosOf, GoodMemos
<1>9. \A ps \in Seq(SegsOf(Words)), w \in Words :
        [m EXCEPT !.RestPairs = ps, !.IfTrue = w] \in GoodMemos
  <2>1. \A ps \in Seq(SegsOf(Words)), w \in Words :
          [m EXCEPT !.RestPairs = ps, !.IfTrue = w] \in M
    BY <1>1, MemoWith, Zenon
  <2> QED
    BY <1>1, <2>1 DEF MemosOf, GoodMemos
<1>10. \A p, a, b \in Words :
         [m EXCEPT !.PredictExpr = p, !.AfterExpr = a, !.BodyExprs = b] \in GoodMemos
  <2>1. \A p, a, b \in Words :
          [m EXCEPT !.PredictExpr = p, !.AfterExpr = a, !.BodyExprs = b] \in M
    BY <1>1, MemoWith, Zenon
  <2> QED
    BY <1>1, <2>1 DEF MemosOf, GoodMemos
<1>11. \A d \in DispatchersOf(Words, Len(envs)) :
         DispatcherShape(d) => [m EXCEPT !.Dispatcher = d] \in GoodMemos
  <2>1. \A d \in DispatchersOf(Words, Len(envs)) : [m EXCEPT !.Dispatcher = d] \in M
    BY <1>1, MemoWith, Zenon
  <2> QED
    BY <1>1, <2>1 DEF MemosOf, GoodMemos
<1> QED
  BY <1>2, <1>3, <1>4, <1>5, <1>6, <1>7, <1>8, <1>9, <1>10, <1>11, Zenon

\* The empty one is a start.
LEMMA EmptyMemoGood ==
  ASSUME Inv
  PROVE  EmptyMemo \in GoodMemos
BY EmptyMemoType, ConstantWords, InvFacts DEF GoodMemos

\* A callback that reads its memo table finds a well-formed one.
LEMMA MemoGood ==
  ASSUME Inv, NEW b, CallsBack(b), b \notin {"none", "AfterEval"}
  PROVE  Memo \in GoodMemos
BY CallbackFacts DEF GoodMemos

\* EvalThenStep for a keyword that writes no node.
LEMMA EvalThenOnly ==
  ASSUME Inv, NEW b \in Callbacks, NEW m \in GoodMemos, NEW w \in Words,
         NEW e \in ProcessEnv .. Len(envs), NEW k \in 1 .. Len(conts),
         EvalThen(b, m, w, e, k), UNCHANGED <<nodes, envs, objects, currCode>>
  PROVE  Inv' /\ Kept
BY NodesKept, EvalThenStep DEF GoodMemos

\* A handler that only answers preserves the invariant.
LEMMA AnswerOnly ==
  ASSUME Inv, NEW v \in Words, NEW k \in 1 .. Len(conts), Bounce(Run(v, k)),
         UNCHANGED <<nodes, envs, conts, memos, objects, currCode>>
  PROVE  Inv' /\ Kept
BY GoOnStep DEF GoOn, heap

\* KN_EnvDefine outside the root environment meets the obligation for
\* environments.
LEMMA DefinedEnvs ==
  ASSUME Inv, NEW e \in ProcessEnv .. Len(envs), NEW name \in Names, NEW v,
         EnvDefine(e, name, v)
  PROVE  /\ Len(envs') = Len(envs)
         /\ Grows /\ v \in Words' => EnvsStep
<1>1. envs' = [envs EXCEPT ![e].bindings[name] = v]
  BY DEF EnvDefine
<1>2. Len(envs') = Len(envs)
  BY <1>1, InvFacts DEF EnvsOK
<1>3. ASSUME Grows, v \in Words' PROVE EnvsStep
  <2>1. EnvsOK(envs, Words')
    BY <1>3, WordsGrow, EnvsMono, InvFacts
  <2> DEFINE es == [envs EXCEPT ![e].bindings[name] = v]
  <2>2. EnvsOK(es, Words') /\ es[RootEnv] = envs[RootEnv]
    BY <1>3, <2>1, EnvsDefine
  <2> HIDE DEF es
  <2>3. envs' = es
    BY <1>1 DEF es
  <2> QED
    BY <2>2, <2>3 DEF EnvsStep
<1> QED
  BY <1>2, <1>3

\* A handler that defines a name and answers preserves the invariant.
LEMMA DefineStep ==
  ASSUME Inv, NEW e \in ProcessEnv .. Len(envs), NEW name \in Names, NEW v \in Words,
         EnvDefine(e, name, v), NEW a \in Words, NEW k \in 1 .. Len(conts), Bounce(Run(a, k)),
         UNCHANGED <<conts, memos, objects, currCode>>,
         Len(nodes') = Len(nodes), Grows => NodesStep
  PROVE  Inv' /\ Kept
<1>1. Len(envs') = Len(envs) /\ accessors' = accessors
  BY DefinedEnvs DEF objects
<1>2. Grows
  BY <1>1, InvFacts DEF Grows
<1>3. Words \subseteq Words' /\ Len(envs') \in Nat /\ Len(conts') \in Nat /\ k \in 1 .. Len(conts')
  BY <1>2, WordsGrow DEF Grows
<1>4. EnvsStep
  BY <1>2, <1>3, DefinedEnvs
<1>5. JobStep
  BY <1>3, RunJob DEF JobStep, Bounce
<1> QED
  BY <1>2, <1>4, <1>5, ContsKept, MemosKept, ObjectsKept, Conclude DEF RestStep, Bounce

\* A handler that goes on with a body in an environment there is preserves the
\* invariant.
LEMMA BodyStep ==
  ASSUME Inv, NEW body \in Words, NEW e \in ProcessEnv .. Len(envs), NEW k \in 1 .. Len(conts),
         EvalBody(conts, body, e, k), UNCHANGED <<nodes, envs, memos, objects, currCode>>
  PROVE  Inv' /\ Kept
<1>1. Len(conts') \in Nat /\ Len(conts) <= Len(conts')
  BY EvalBodyGrows, InvFacts DEF ContsOK
<1>2. Grows
  BY <1>1, InvFacts DEF Grows, objects
<1>3. ContsStep /\ JobStep /\ depth' \in Nat
  BY <1>2, ContsAsKept, EvalBodyStep
<1> QED
  BY <1>2, <1>3, NodesKept, EnvsKept, MemosKept, ObjectsKept, Conclude DEF RestStep

-----------------------------------------------------------------------------
\* What a keyword finds in its cell.
LEMMA CellFacts ==
  ASSUME Inv, NEW name, EvaluatesPrefix(name)
  PROVE  /\ job.env \in ProcessEnv .. Len(envs) /\ job.k \in 1 .. Len(conts)
         /\ job.env \in 1 .. Len(envs)
         /\ CellSegs \in Seq(SegsOf(Words)) /\ Len(CellSegs) \in Nat /\ Len(CellSegs) >= 1
         /\ \A i \in 1 .. Len(CellSegs) : /\ CellSegs[i].core \in Words
                                          /\ CellSegs[i].table \in Words
                                          /\ CellSegs[i].list \in Words
                                          /\ CellSegs[i].capture \in Words
         /\ WellFormed(name, CellSegs)
<1>1. Evaluating /\ IsCell(Expr) /\ WellFormed(name, CellSegs)
  BY DEF EvaluatesPrefix, KeywordCell
<1> QED
  BY <1>1, EvaluatingFacts, SegsType DEF CellSegs

\* let and set preserve the invariant.
LEMMA LetStep ==
  ASSUME Inv, EvalPrefixLet \/ EvalPrefixSet
  PROVE  Inv' /\ Kept
<1> DEFINE name == NameOf(CellSegs[2].core)
<1>1. PICK keyword \in {"let", "set"}, b \in {"AfterLet", "AfterSet"} :
        /\ EvaluatesPrefix(keyword)
        /\ \/ /\ EnvDefine(job.env, name, Ukn) /\ Bounce(Run(True, job.k))
              /\ UNCHANGED <<nodes, conts, memos, objects, currCode>>
           \/ /\ Len(CellSegs) > 2
              /\ EvalThen(b, [EmptyMemo EXCEPT !.VarName = name], CellSegs[3].core, job.env, job.k)
              /\ UNCHANGED <<nodes, envs, objects, currCode>>
  BY DEF EvalPrefixLet, EvalPrefixSet, EnvLookupSet
<1>2. /\ job.env \in ProcessEnv .. Len(envs) /\ job.k \in 1 .. Len(conts)
      /\ Len(CellSegs) > 2 => CellSegs[3].core \in Words
      /\ {True, Ukn} \subseteq Words
  BY <1>1, CellFacts, ConstantWords
<1>3. name \in Names
  <2>1. Len(CellSegs) >= 2 /\ IsSymbol(CellSegs[2].core)
    BY <1>1, CellFacts DEF WellFormed
  <2> QED
    BY <1>1, <2>1, CellFacts, NameType DEF IsSymbol, HasTag
<1> HIDE DEF name
<1>4. [EmptyMemo EXCEPT !.VarName = name] \in GoodMemos /\ b \in Callbacks
  BY <1>3, EmptyMemoGood, MemoBuilt, Zenon DEF Callbacks
<1>5. CASE /\ EnvDefine(job.env, name, Ukn) /\ Bounce(Run(True, job.k))
           /\ UNCHANGED <<nodes, conts, memos, objects, currCode>>
  BY <1>2, <1>3, <1>5, NodesKept, DefineStep
<1> QED
  BY <1>1, <1>2, <1>4, <1>5, EvalThenOnly

\* So do their callbacks.
LEMMA AfterLetStep ==
  ASSUME Inv, AfterLetValExprEvaled \/ AfterSetValExprEvaled
  PROVE  Inv' /\ Kept
<1>1. PICK b \in {"AfterLet", "AfterSet"}, a \in {True, Fix(2)} :
        /\ CallsBack(b) /\ EnvDefine(Invoked.env, Memo.VarName, job.v)
        /\ Bounce(Run(a, Invoked.cont)) /\ UNCHANGED <<nodes, conts, memos, objects, currCode>>
  BY DEF AfterLetValExprEvaled, AfterSetValExprEvaled, EnvLookupSet
<1>2. /\ Invoked.env \in ProcessEnv .. Len(envs) /\ Invoked.cont \in 1 .. Len(conts)
      /\ job.v \in Words /\ Memo.VarName \in Names
  BY <1>1, CallbackFacts, InvokedFacts, MemoFields
<1>3. a \in Words
  BY <1>1, ConstantWords, MaxFixAssumption DEF Fixnums
<1> QED
  BY <1>1, <1>2, <1>3, NodesKept, DefineStep

-----------------------------------------------------------------------------
\* if preserves the invariant.
LEMMA IfStep ==
  ASSUME Inv, EvalPrefixIf
  PROVE  Inv' /\ Kept
<1> DEFINE memo == [EmptyMemo EXCEPT
                      !.TrueClause = CellSegs[2].list,
                      !.FalseClause = IF Len(CellSegs) > 2 THEN CellSegs[3].list ELSE Nil]
<1>1. /\ EvaluatesPrefix("if") /\ UNCHANGED <<nodes, envs, objects, currCode>>
      /\ EvalThen("AfterIf", memo, CellSegs[2].core, job.env, job.k)
  BY DEF EvalPrefixIf
<1>2. Len(CellSegs) >= 2
  BY <1>1, CellFacts DEF WellFormed
<1>3. /\ CellSegs[2].core \in Words /\ CellSegs[2].list \in Words
      /\ Len(CellSegs) > 2 => CellSegs[3].list \in Words
      /\ job.env \in ProcessEnv .. Len(envs) /\ job.k \in 1 .. Len(conts) /\ Nil \in Words
  BY <1>1, <1>2, CellFacts, ConstantWords
<1>4. memo \in GoodMemos /\ "AfterIf" \in Callbacks
  BY <1>3, EmptyMemoGood, MemoBuilt, Zenon DEF Callbacks
<1> HIDE DEF memo
<1> QED
  BY <1>1, <1>3, <1>4, EvalThenOnly

\* So does its callback.
LEMMA AfterIfStep ==
  ASSUME Inv, AfterIfConditionEvaled
  PROVE  Inv' /\ Kept
<1>1. CallsBack("AfterIf") /\ UNCHANGED <<nodes, envs, memos, objects, currCode>>
  BY DEF AfterIfConditionEvaled
<1>2. /\ Invoked.env \in ProcessEnv .. Len(envs) /\ Invoked.cont \in 1 .. Len(conts)
      /\ Memo.TrueClause \in Words /\ Memo.FalseClause \in Words /\ False \in Words
  BY <1>1, CallbackFacts, InvokedFacts, MemoFields, ConstantWords
<1> QED
  BY <1>1, <1>2, BodyStep, AnswerOnly DEF AfterIfConditionEvaled

\* So does trying the next clause of a cond.
LEMMA CondPairsStep ==
  ASSUME Inv, NEW pairs \in Seq(SegsOf(Words)), pairs # <<>>, NEW e \in ProcessEnv .. Len(envs),
         NEW k \in 1 .. Len(conts), CondPairs(pairs, e, k),
         UNCHANGED <<nodes, envs, objects, currCode>>
  PROVE  Inv' /\ Kept
<1>1. /\ Tail(pairs) \in Seq(SegsOf(Words)) /\ pairs[1] \in SegsOf(Words)
  OBVIOUS
<1>2. pairs[1].core \in Words /\ pairs[1].list \in Words
  BY <1>1 DEF SegsOf
<1>3. /\ [EmptyMemo EXCEPT !.RestPairs = Tail(pairs), !.IfTrue = pairs[1].list] \in GoodMemos
      /\ "AfterCond" \in Callbacks
  BY <1>1, <1>2, EmptyMemoGood, MemoBuilt, Zenon DEF Callbacks
<1> QED
  BY <1>2, <1>3, BodyStep, EvalThenOnly DEF CondPairs

\* What follows the keyword in a cell is not empty.
LEMMA TailOfCell ==
  ASSUME Inv, NEW name, EvaluatesPrefix(name), Len(CellSegs) >= 2
  PROVE  /\ Tail(CellSegs) \in Seq(SegsOf(Words)) /\ Tail(CellSegs) # <<>>
         /\ Len(Tail(CellSegs)) # 0
<1>1. CellSegs \in Seq(SegsOf(Words)) /\ CellSegs # <<>> /\ Len(CellSegs) \in Nat
  BY CellFacts
<1>2. Tail(CellSegs) \in Seq(SegsOf(Words)) /\ Len(Tail(CellSegs)) = Len(CellSegs) - 1
  BY <1>1
<1>3. Len(Tail(CellSegs)) # 0 /\ Len(<<>>) = 0
  BY <1>1, <1>2
<1> QED
  BY <1>2, <1>3

\* cond preserves the invariant.
LEMMA CondStep ==
  ASSUME Inv, EvalPrefixCond
  PROVE  Inv' /\ Kept
<1>1. EvaluatesPrefix("cond") /\ CondPairs(Tail(CellSegs), job.env, job.k)
      /\ UNCHANGED <<nodes, envs, objects, currCode>>
  BY DEF EvalPrefixCond
<1>2. Len(CellSegs) >= 2
  BY <1>1, CellFacts DEF WellFormed
<1> QED
  BY <1>1, <1>2, TailOfCell, CellFacts, CondPairsStep

\* So does its callback.
LEMMA AfterCondStep ==
  ASSUME Inv, AfterCondClauseEvaled
  PROVE  Inv' /\ Kept
<1>1. CallsBack("AfterCond") /\ UNCHANGED <<nodes, envs, objects, currCode>>
  BY DEF AfterCondClauseEvaled
<1>2. /\ Invoked.env \in ProcessEnv .. Len(envs) /\ Invoked.cont \in 1 .. Len(conts)
      /\ Memo.IfTrue \in Words /\ Memo.RestPairs \in Seq(SegsOf(Words)) /\ False \in Words
  BY <1>1, CallbackFacts, InvokedFacts, MemoFields, ConstantWords
<1> QED
  BY <1>1, <1>2, BodyStep, AnswerOnly, CondPairsStep DEF AfterCondClauseEvaled

\* The cores of segments are words.
LEMMA CoresType ==
  ASSUME Inv, NEW segs \in Seq(SegsOf(Words))
  PROVE  CellCores(segs) \in Seq(Words) /\ Len(CellCores(segs)) = Len(segs)
<1>1. \A i \in DOMAIN segs : segs[i] \in SegsOf(Words)
  OBVIOUS
<1>2. \A i \in DOMAIN segs : segs[i].core \in Words
  BY <1>1 DEF SegsOf
<1> QED
  BY <1>2 DEF CellCores

\* Evaluating the next condition preserves the invariant.
LEMMA NextConditionStep ==
  ASSUME Inv, NEW b \in Callbacks, NEW conditions \in Seq(Words), conditions # <<>>,
         NEW e \in ProcessEnv .. Len(envs), NEW k \in 1 .. Len(conts),
         NextCondition(b, conditions, e, k), UNCHANGED <<nodes, envs, objects, currCode>>
  PROVE  Inv' /\ Kept
<1>1. Head(conditions) \in Words /\ Tail(conditions) \in Seq(Words)
  OBVIOUS
<1>2. [EmptyMemo EXCEPT !.RestCondition = Tail(conditions)] \in GoodMemos
  BY <1>1, EmptyMemoGood, MemoBuilt, Zenon
<1> QED
  BY <1>1, <1>2, EvalThenOnly DEF NextCondition

\* The conditions of an and or an or are words, and there is one.
LEMMA CoresOfCell ==
  ASSUME Inv, NEW name, EvaluatesPrefix(name), Len(CellSegs) >= 2
  PROVE  CellCores(Tail(CellSegs)) \in Seq(Words) /\ CellCores(Tail(CellSegs)) # <<>>
<1>1. Tail(CellSegs) \in Seq(SegsOf(Words)) /\ Len(Tail(CellSegs)) # 0 /\ Len(<<>>) = 0
  BY TailOfCell
<1> QED
  BY <1>1, CoresType

\* and and or preserve the invariant.
LEMMA AndOrStep ==
  ASSUME Inv, EvalPrefixAnd \/ EvalPrefixOr
  PROVE  Inv' /\ Kept
<1>1. PICK name \in {"and", "or"}, b \in {"AfterAnd", "AfterOr"} :
        /\ EvaluatesPrefix(name) /\ UNCHANGED <<nodes, envs, objects, currCode>>
        /\ NextCondition(b, CellCores(Tail(CellSegs)), job.env, job.k)
  BY DEF EvalPrefixAnd, EvalPrefixOr
<1>2. Len(CellSegs) >= 2 /\ b \in Callbacks
  BY <1>1, CellFacts DEF WellFormed, Callbacks
<1> QED
  BY <1>1, <1>2, CoresOfCell, CellFacts, NextConditionStep

\* So do their callbacks.
LEMMA AfterAndOrStep ==
  ASSUME Inv, AfterAndConditionEvaled \/ AfterOrConditionEvaled
  PROVE  Inv' /\ Kept
<1>1. PICK b \in {"AfterAnd", "AfterOr"} :
        /\ CallsBack(b) /\ UNCHANGED <<nodes, envs, objects, currCode>>
        /\ \/ /\ \E v \in {True, False} : Bounce(Run(v, Invoked.cont))
              /\ UNCHANGED <<conts, memos>>
           \/ /\ Memo.RestCondition # <<>>
              /\ NextCondition(b, Memo.RestCondition, Invoked.env, Invoked.cont)
  BY DEF AfterAndConditionEvaled, AfterOrConditionEvaled
<1>2. /\ Invoked.env \in ProcessEnv .. Len(envs) /\ Invoked.cont \in 1 .. Len(conts)
      /\ Memo.RestCondition \in Seq(Words) /\ {True, False} \subseteq Words /\ b \in Callbacks
  BY <1>1, CallbackFacts, InvokedFacts, MemoFields, ConstantWords DEF Callbacks
<1> QED
  BY <1>1, <1>2, AnswerOnly, NextConditionStep

-----------------------------------------------------------------------------
\* Appending two elements one by one.
LEMMA AppendTwo ==
  ASSUME NEW S, NEW s \in Seq(S), NEW a, NEW b
  PROVE  s \o <<a, b>> = Append(Append(s, a), b)
OBVIOUS

\* A value of a parameter table is a word.
LEMMA TableValType ==
  ASSUME Inv, NEW seg \in SegsOf(Words), HasTable(seg), NEW i
  PROVE  TableVal(seg, i) \in Words
<1>1. seg.table \in Words /\ seg.table.t = "node"
  BY DEF SegsOf, HasTable
<1>2. nodes[seg.table.id].items \in Seq(Words)
  BY <1>1, WordFacts, NodeFields
<1> QED
  BY <1>2, ConstantWords DEF TableVal

\* "break" and "continue" are bound to continuations.
LEMMA LoopBindingsType ==
  ASSUME NEW W, Undef \in W, NEW loop, NEW next, ContRef(loop) \in W, ContRef(next) \in W
  PROVE  LoopBindings(loop, next) \in [Names -> W]
<1>1. NoBindings \in [Names -> W]
  BY DEF NoBindings
<1> QED
  BY <1>1 DEF LoopBindings

\* for preserves the invariant, with the callback and the environment of the
\* loop.
LEMMA ForStep ==
  ASSUME Inv, EvalPrefixFor
  PROVE  Inv' /\ Kept
<1> DEFINE e == Len(envs) + 1
           memo == [EmptyMemo EXCEPT !.PredictExpr = TableVal(CellSegs[1], 2),
                                     !.AfterExpr = TableVal(CellSegs[1], 3),
                                     !.BodyExprs = CellSegs[1].list]
           m == Len(memos) + 1
           n == Len(conts) + 1
           c1 == CallbackFrame("BeforeForPrediction", e, job.k, m)
           c2 == CallbackFrame("AfterForBody", e, job.k, m + 1)
           bindings == LoopBindings(job.k, n + 1)
           first == TableVal(CellSegs[1], 1)
<1>1. /\ EvaluatesPrefix("for")
      /\ envs' = Append(envs, ChildEnv(job.env, bindings))
      /\ memos' = memos \o <<memo, memo>>
      /\ conts' = conts \o <<c1, c2>>
      /\ TailCall(Eval(first, e, n))
      /\ nodes' = nodes /\ UNCHANGED objects /\ accessors' = accessors /\ currCode' = currCode
  BY DEF EvalPrefixFor, NextMemo, NextCont, objects
<1>2. /\ CellSegs[1] \in SegsOf(Words) /\ HasTable(CellSegs[1]) /\ CellSegs[1].list \in Words
      /\ job.k \in 1 .. Len(conts) /\ job.env \in 1 .. Len(envs)
  <2>1. WellFormed("for", CellSegs)
    BY <1>1, CellFacts
  <2>2. HasTable(CellSegs[1])
    BY <2>1 DEF WellFormed
  <2>3. CellSegs \in Seq(SegsOf(Words)) /\ Len(CellSegs) \in Nat /\ Len(CellSegs) >= 1
    BY <1>1, CellFacts
  <2>4. CellSegs[1] \in SegsOf(Words)
    BY <2>3
  <2> QED
    BY <1>1, <2>2, <2>3, <2>4, CellFacts
<1>3. first \in Words /\ memo \in GoodMemos
  BY <1>2, TableValType, EmptyMemoGood, MemoBuilt, Zenon
<1> HIDE DEF memo, c1, c2, bindings, first
<1>4. /\ memos' = Append(Append(memos, memo), memo)
      /\ conts' = Append(Append(conts, c1), c2)
  <2>1. /\ memos \in Seq(MemosOf(Words, Len(envs)))
        /\ conts \in Seq(ContsOf(Words, Len(envs), Len(conts), Len(memos)))
    BY InvFacts DEF MemosOK, ContsOK
  <2>2. /\ memos \o <<memo, memo>> = Append(Append(memos, memo), memo)
        /\ conts \o <<c1, c2>> = Append(Append(conts, c1), c2)
    BY ONLY <2>1, AppendTwo
  <2> QED
    BY <1>1, <2>2
<1>5. /\ Len(memos') = Len(memos) + 2 /\ Len(conts') = Len(conts) + 2
      /\ Len(envs') = Len(envs) + 1 /\ Len(Append(conts, c1)) = Len(conts) + 1
  BY <1>1, <1>4, InvFacts DEF MemosOK, ContsOK, EnvsOK
<1>6. Grows
  BY <1>1, <1>5, InvFacts DEF Grows
<1>7. /\ Words \subseteq Words' /\ Undef \in Words' /\ first \in Words'
      /\ e \in ProcessEnv .. Len(envs') /\ n \in 1 .. Len(conts') /\ Len(envs') \in Nat
      /\ Len(conts') \in Nat /\ m \in 0 .. Len(memos') /\ m + 1 \in 0 .. Len(memos')
      /\ m # 0 /\ m + 1 # 0 /\ m # m + 1
  BY <1>3, <1>5, <1>6, WordsGrow, InvFacts DEF ProcessEnv
<1>8. EnvsStep
  <2>1. ContRef(job.k) \in Words' /\ ContRef(n + 1) \in Words'
    <3>1. /\ Words' = WordsOf(Len(nodes'), Len(conts'), Len(accessors'))
          /\ Len(nodes') \in Nat /\ Len(accessors') \in Nat
          /\ job.k \in 1 .. Len(conts') /\ n + 1 \in 1 .. Len(conts')
      BY <1>2, <1>5, <1>6, InvFacts DEF Words, Grows
    <3> QED
      BY <1>7, <3>1, WordsBuilt
  <2>2. bindings \in [Names -> Words']
    BY <1>7, <2>1, LoopBindingsType DEF bindings
  <2>3. EnvsOK(envs, Words')
    BY <1>7, EnvsMono, InvFacts
  <2>4. ChildEnv(job.env, bindings) \in EnvsOf(Words', Len(envs) + 1)
    BY <1>2, <2>2, <2>3, ChildEnvType
  <2> QED
    BY <1>1, <2>3, <2>4, EnvsAppend DEF EnvsStep
<1>9. MemosStep
  <2>1. memo \in MemosOf(Words, Len(envs)) /\ DispatcherShape(memo.Dispatcher)
    BY <1>3 DEF GoodMemos
  <2>2. memo \in MemosOf(Words', Len(envs')) /\ MemosOK(memos, Words', Len(envs'))
    BY <1>5, <1>7, <2>1, MemoMono, MemosMono, InvFacts
  <2>3. /\ MemosOK(Append(memos, memo), Words', Len(envs'))
        /\ Frozen(memos, Append(memos, memo))
    BY <1>7, <2>1, <2>2, MemosAppend
  <2>4. /\ MemosOK(memos', Words', Len(envs'))
        /\ Frozen(Append(memos, memo), memos')
    BY <1>4, <1>7, <2>1, <2>2, <2>3, MemosAppend
  <2>5. \A i \in DOMAIN memos : memos'[i] = memos[i]
    BY <1>4, InvFacts DEF MemosOK
  <2> QED
    BY <1>6, <2>4, <2>5 DEF MemosStep, Frozen, Grows
<1>10. ContsStep
  <2>1. \A i \in DOMAIN conts : conts[i].memo # m /\ conts[i].memo # m + 1
    BY InvFacts, ContFields DEF ContsOK
  <2> DEFINE ks == Append(conts, c1)
  <2>2. "BeforeForPrediction" \in Callbacks /\ "AfterForBody" \in Callbacks
    BY DEF Callbacks
  <2>3. /\ ContsOK(ks, Words', Len(envs'), Len(memos')) /\ TreeOK(ks) /\ Frozen(conts, ks)
        /\ \A i \in DOMAIN ks : i \in DOMAIN conts \/ ks[i].memo = m
        /\ \A i \in DOMAIN conts : ks[i] = conts[i]
    <3>1. /\ ContsOK(conts, Words', Len(envs'), Len(memos')) /\ TreeOK(conts)
          /\ Frozen(conts, conts)
      BY <1>6, ContsAsKept
    <3>2. job.k \in 1 .. Len(conts) /\ e \in ProcessEnv .. Len(envs') /\ m \in 0 .. Len(memos')
          /\ m # 0
      BY <1>2, <1>7
    <3>3. \A i \in DOMAIN conts : conts[i].memo # m
      BY <2>1
    <3> HIDE DEF e, m
    <3> QED
      BY <1>6, <2>2, <3>1, <3>2, <3>3, PushCallback DEF c1
  <2>4. \A i \in DOMAIN ks : ks[i].memo # m + 1
    BY <1>7, <2>1, <2>3
  <2>5. job.k \in 1 .. Len(ks)
    BY <1>2, <1>5, InvFacts
  <2> HIDE DEF ks
  <2>6. LET new == Append(ks, c2)
        IN  ContsOK(new, Words', Len(envs'), Len(memos')) /\ TreeOK(new) /\ Frozen(conts, new)
    BY <1>6, <1>7, <2>2, <2>3, <2>4, <2>5, PushCallback DEF c2
  <2> QED
    BY <1>4, <2>6 DEF ContsStep, ks
<1>11. JobStep /\ depth' \in Nat
  BY <1>1, <1>7, EvalJob, InvFacts DEF JobStep, TailCall
<1> QED
  BY <1>1, <1>6, <1>8, <1>9, <1>10, <1>11, NodesKept, ObjectsKept, Conclude DEF RestStep

\* So does going back to the condition of a loop.
LEMMA LoopStep ==
  ASSUME Inv, BeforeForPrediction \/ AfterForBodyEvaled
  PROVE  Inv' /\ Kept
<1>1. PICK b \in {"BeforeForPrediction", "AfterForBody"},
           next \in {"AfterForPrediction", "BeforeForPrediction"},
           w \in {Memo.PredictExpr, Memo.AfterExpr} :
        /\ CallsBack(b) /\ EvalThen(next, Memo, w, Invoked.env, Invoked.cont)
        /\ UNCHANGED <<nodes, envs, objects, currCode>>
  BY DEF BeforeForPrediction, AfterForBodyEvaled
<1>2. /\ Invoked.env \in ProcessEnv .. Len(envs) /\ Invoked.cont \in 1 .. Len(conts)
      /\ w \in Words /\ Memo \in GoodMemos /\ next \in Callbacks
  BY <1>1, CallbackFacts, InvokedFacts, MemoFields, MemoGood DEF Callbacks
<1> QED
  BY <1>1, <1>2, EvalThenOnly

\* So does the callback after the condition, which starts the next round or
\* ends the loop.
LEMMA PredictionStep ==
  ASSUME Inv, AfterForPrediction
  PROVE  Inv' /\ Kept
<1> DEFINE e == Invoked.env
           m == Len(memos) + 1
           n == Len(conts) + 1
           c == CallbackFrame("AfterForBody", e, Invoked.cont, m)
           ks == Append(conts, c)
<1>1. /\ CallsBack("AfterForPrediction") /\ memos' = Append(memos, Memo)
      /\ \/ EvalBody(ks, Memo.BodyExprs, e, n)
         \/ conts' = ks /\ Bounce(Run(True, Invoked.cont))
      /\ nodes' = nodes /\ envs' = envs /\ UNCHANGED objects /\ accessors' = accessors
      /\ currCode' = currCode
  BY DEF AfterForPrediction, NextMemo, NextCont, objects
<1>2. /\ e \in ProcessEnv .. Len(envs) /\ Invoked.cont \in 1 .. Len(conts)
      /\ Memo \in MemosOf(Words, Len(envs)) /\ DispatcherShape(Memo.Dispatcher)
      /\ Memo.BodyExprs \in Words /\ True \in Words
  <2>1. "AfterForPrediction" \in Callbacks /\ CallsBack("AfterForPrediction")
    BY <1>1 DEF Callbacks
  <2>2. Memo \in MemosOf(Words, Len(envs)) /\ DispatcherShape(Memo.Dispatcher)
    BY <2>1, CallbackFacts
  <2>3. e \in ProcessEnv .. Len(envs) /\ Invoked.cont \in 1 .. Len(conts)
    BY <2>1, CallbackFacts, InvokedFacts
  <2>4. Memo.BodyExprs \in Words /\ True \in Words
    BY <2>2, MemoFields, ConstantWords
  <2> QED
    BY <2>2, <2>3, <2>4
<1> HIDE DEF c
<1>3. ks \in Seq(ContsOf(Words, Len(envs), Len(conts), Len(memos)) \cup {c}) /\ Len(ks) = n
  BY InvFacts DEF ContsOK
<1>4. Len(memos') = Len(memos) + 1 /\ Len(conts') \in Nat /\ n <= Len(conts')
  <2>1. Len(memos') = Len(memos) + 1
    BY <1>1, InvFacts DEF MemosOK
  <2>2. CASE EvalBody(ks, Memo.BodyExprs, e, n)
    <3> HIDE DEF ks, n, e
    <3> QED
      BY <1>3, <2>1, <2>2, EvalBodyGrows
  <2>3. CASE conts' = ks
    BY <1>3, <2>1, <2>3, InvFacts
  <2> QED
    BY <1>1, <2>2, <2>3
<1>5. Grows
  BY <1>1, <1>4, InvFacts DEF Grows
<1>6. /\ Words \subseteq Words' /\ e \in ProcessEnv .. Len(envs') /\ m \in 0 .. Len(memos')
      /\ m # 0 /\ n \in 1 .. Len(ks) /\ Invoked.cont \in 1 .. Len(ks) /\ True \in Words'
      /\ Len(conts') \in Nat /\ Len(envs') \in Nat
  BY <1>1, <1>2, <1>3, <1>4, <1>5, WordsGrow, InvFacts
<1>7. MemosStep
  <2>1. Memo \in MemosOf(Words', Len(envs')) /\ MemosOK(memos, Words', Len(envs'))
    BY <1>1, <1>2, <1>6, MemoMono, MemosMono, InvFacts
  <2> QED
    BY <1>1, <1>2, <1>6, <2>1, MemosAppend DEF MemosStep
<1>8. /\ ContsOK(ks, Words', Len(envs'), Len(memos')) /\ TreeOK(ks) /\ Frozen(conts, ks)
  <2>1. \A i \in DOMAIN conts : conts[i].memo # m
    BY InvFacts, ContFields DEF ContsOK
  <2>2. "AfterForBody" \in Callbacks
    BY DEF Callbacks
  <2> QED
    BY <1>2, <1>5, <1>6, <2>1, <2>2, ContsAsKept, PushCallback DEF c
<1>9. ContsStep /\ JobStep /\ depth' \in Nat
  <2>1. CASE EvalBody(ks, Memo.BodyExprs, e, n)
    <3> HIDE DEF ks, n, e
    <3> QED
      BY <1>2, <1>5, <1>6, <1>8, <2>1, EvalBodyStep
  <2>2. CASE conts' = ks /\ Bounce(Run(True, Invoked.cont))
    <3>1. ContsStep /\ Invoked.cont \in 1 .. Len(conts')
      BY <1>6, <1>8, <2>2 DEF ContsStep
    <3> QED
      BY <1>6, <2>2, <3>1, RunJob DEF JobStep, Bounce
  <2> QED
    BY <1>1, <2>1, <2>2
<1> QED
  BY <1>1, <1>5, <1>7, <1>9, NodesKept, EnvsKept, ObjectsKept, Conclude DEF RestStep

\* break and continue preserve the invariant.
LEMMA EscapeStep ==
  ASSUME Inv, EvalPrefixBreak \/ EvalPrefixContinue
  PROVE  Inv' /\ Kept
<1>1. PICK name \in {"break", "continue"}, v \in {True, False} :
        /\ EvaluatesPrefix(name) /\ Escape(name, v) /\ UNCHANGED <<heap, currCode>>
  BY DEF EvalPrefixBreak, EvalPrefixContinue
<1> DEFINE loopCont == EnvLookup(job.env, name)
           k == IF loopCont.t = "cont" THEN loopCont.id ELSE job.k
<1>2. /\ job.env \in 1 .. Len(envs) /\ job.k \in 1 .. Len(conts)
      /\ v \in Words
  BY <1>1, CellFacts, ConstantWords
<1>3. loopCont \in Words
  BY <1>2, EnvLookupType, NamesAssumption DEF ReservedNames
<1>4. k \in 1 .. Len(conts)
  BY <1>2, <1>3, WordFacts
<1>5. GoOn(v, k)
  BY <1>1 DEF Escape, GoOn
<1> QED
  BY <1>2, <1>4, <1>5, GoOnStep
-----------------------------------------------------------------------------
\* Names of a parameter or capture list are names.
LEMMA NamesInType ==
  ASSUME Inv, NEW ws \in Seq(Words)
  PROVE  NamesIn(ws) \in Seq(Names)
<1> DEFINE Bound(w) == IF IsSymbol(w) THEN NameOf(w) ELSE ""
<1>1. ASSUME NEW w \in Words PROVE Bound(w) \in Names
  BY NameType, NamesAssumption DEF ReservedNames, IsSymbol, HasTag
<1>2. NamesIn(ws) = [i \in DOMAIN ws |-> Bound(ws[i])]
  BY DEF NamesIn
<1> HIDE DEF Bound
<1> QED
  BY <1>1, <1>2

\* The segment that defines a procedure is a segment.
LEMMA DefinitionType ==
  ASSUME Inv, NEW segs \in Seq(SegsOf(Words)), Len(segs) >= 1
  PROVE  Definition(segs) \in SegsOf(Words)
<1>0. Len(segs) \in Nat /\ Len(segs) >= 1
  OBVIOUS
<1>1. segs[1] \in SegsOf(Words)
  BY <1>0
<1>2. ASSUME Len(segs) # 1 PROVE segs[2] \in SegsOf(Words)
  <2>1. 2 \in 1 .. Len(segs)
    <3>1. \A n \in Nat : n >= 1 /\ n # 1 => 2 \in 1 .. n
      OBVIOUS
    <3> QED
      BY ONLY <1>0, <1>2, <3>1
  <2> QED
    BY <2>1
<1> QED
  BY <1>1, <1>2 DEF Definition

\* A procedure made by lambda, func and the macros is well formed.
LEMMA ProcedureType ==
  ASSUME Inv, NEW type \in Composites, NEW def \in SegsOf(Words), HasTable(def),
         NEW captured \in Seq(Names), job.env \in ProcessEnv .. Len(envs)
  PROVE  LET p == Procedure(type, def, captured)
         IN  /\ p \in NodesOf(Words, Len(envs)) /\ NodeShape(p)
             /\ p.type = type /\ p.env >= ProcessEnv
<1> DEFINE ps == NamesIn(nodes[def.table.id].items)
           p == Procedure(type, def, captured)
           blank == Node("procedure")
<1>1. def.list \in Words /\ def.table \in Words /\ def.table.t = "node"
  BY DEF SegsOf, HasTable
<1>2. ps \in Seq(Names)
  BY <1>1, WordFacts, NodeFields, NamesInType
<1>3. job.env \in 0 .. Len(envs) /\ job.env >= ProcessEnv /\ type \in NodeTypes
  <2>1. Len(envs) \in Nat
    BY InvFacts
  <2>2. type \in NodeTypes
    BY DEF Composites, NodeTypes
  <2> QED
    BY <2>1, <2>2 DEF ProcessEnv
<1>4. blank \in NodesOf(Words, Len(envs)) /\ blank.tag = "procedure"
  BY NodeType, ConstantWords, InvFacts DEF NodeTags, Node
<1>5. p = [blank EXCEPT !.type = type, !.params = ps, !.capture = captured,
                        !.inner = def.list, !.env = job.env]
  BY DEF Procedure
<1> HIDE DEF p, ps, blank
<1>6. p \in NodesOf(Words, Len(envs))
  BY <1>1, <1>2, <1>3, <1>4, <1>5 DEF NodesOf
<1>7. p.type = type /\ p.env = job.env /\ p.tag = "procedure"
  BY <1>4, <1>5 DEF NodesOf
<1>8. NodeShape(p)
  BY <1>3, <1>7 DEF NodeShape, WellBuilt
<1> QED
  BY <1>3, <1>6, <1>7, <1>8 DEF p

\* Making a procedure preserves the invariant.
LEMMA MakeProcedureStep ==
  ASSUME Inv, NEW keyword \in {"lambda", "func", "macro-lambda", "macro-func"},
         NEW type \in Composites, MakeProcedure(keyword, type)
  PROVE  Inv' /\ Kept
<1> DEFINE def == Definition(CellSegs)
           p == Procedure(type, def, NamesIn(Items(def.capture)))
           v == NodeRef(Len(nodes) + 1)
<1>1. /\ EvaluatesPrefix(keyword) /\ nodes' = Append(nodes, p)
      /\ \/ IsWord(def.core) /\ EnvDefine(job.env, NameOf(def.core), v)
         \/ envs' = envs
      /\ Bounce(Run(v, job.k)) /\ conts' = conts /\ memos' = memos /\ UNCHANGED objects
      /\ accessors' = accessors /\ currCode' = currCode
  BY DEF MakeProcedure, objects
<1>2. /\ job.env \in ProcessEnv .. Len(envs) /\ job.k \in 1 .. Len(conts)
      /\ CellSegs \in Seq(SegsOf(Words)) /\ Len(CellSegs) >= 1 /\ WellFormed(keyword, CellSegs)
  BY <1>1, CellFacts
<1>3. def \in SegsOf(Words)
  BY <1>2, DefinitionType
<1>4. HasTable(def)
  BY <1>2 DEF WellFormed
<1>5. def.core \in Words /\ NamesIn(Items(def.capture)) \in Seq(Names)
  BY <1>3, ItemsType, NamesInType DEF SegsOf
<1>6. p \in NodesOf(Words, Len(envs)) /\ NodeShape(p)
  BY <1>2, <1>3, <1>4, <1>5, ProcedureType
<1> HIDE DEF p, def
<1>7. Len(nodes') = Len(nodes) + 1 /\ Len(envs') = Len(envs)
  <2>1. Len(nodes') = Len(nodes) + 1
    BY <1>1, InvFacts DEF NodesOK
  <2>2. IsWord(def.core) => NameOf(def.core) \in Names
    BY <1>5, NameType DEF IsWord, IsSymbol, HasTag
  <2> QED
    BY <1>1, <1>2, <2>1, <2>2, DefinedEnvs
<1>8. Grows
  BY <1>1, <1>7, InvFacts DEF Grows
<1>9. /\ Words \subseteq Words' /\ Len(envs') \in Nat /\ Len(conts') \in Nat
      /\ job.k \in 1 .. Len(conts')
  BY <1>1, <1>2, <1>8, WordsGrow, InvFacts
<1>10. v \in Words'
  <2>1. /\ Words' = WordsOf(Len(nodes'), Len(conts'), Len(accessors')) /\ Len(nodes') \in Nat
        /\ Len(accessors') \in Nat /\ Len(nodes) + 1 \in 1 .. Len(nodes')
    BY <1>7, <1>8, InvFacts DEF Words, Grows
  <2> QED
    BY <1>9, <2>1, WordsBuilt
<1> HIDE DEF v
<1>11. NodesStep
  <2>1. NodesOK(nodes, Words', Len(envs')) /\ p \in NodesOf(Words', Len(envs'))
    BY <1>6, <1>7, <1>9, NodesMono, NodeMono, InvFacts
  <2>2. /\ NodesOK(nodes', Words', Len(envs'))
        /\ \A i \in DOMAIN nodes : nodes'[i] = nodes[i]
    BY <1>1, <1>6, <1>9, <2>1, NodesAppend
  <2>3. \A i \in DOMAIN nodes : TextKept(nodes[i], nodes[i])
    BY InvFacts, SameText DEF NodesOK
  <2> QED
    BY <2>2, <2>3 DEF NodesStep
<1>12. EnvsStep
  <2>1. CASE envs' = envs
    BY <1>8, <2>1, EnvsKept
  <2>2. CASE IsWord(def.core) /\ EnvDefine(job.env, NameOf(def.core), v)
    <3>1. NameOf(def.core) \in Names
      BY <1>5, <2>2, NameType DEF IsWord, IsSymbol, HasTag
    <3> QED
      BY <1>2, <1>8, <1>10, <2>2, <3>1, DefinedEnvs
  <2> QED
    BY <1>1, <2>1, <2>2
<1>13. JobStep /\ depth' \in Nat
  BY <1>1, <1>9, <1>10, RunJob DEF JobStep, Bounce
<1> QED
  BY <1>1, <1>8, <1>11, <1>12, <1>13, ContsKept, MemosKept, ObjectsKept, Conclude DEF RestStep

\* lambda, func, macro-lambda and macro-func preserve the invariant.
LEMMA ProceduresStep ==
  ASSUME Inv, EvalPrefixLambda \/ EvalPrefixFunc \/ EvalPrefixMacroLambda \/ EvalPrefixMacroFunc
  PROVE  Inv' /\ Kept
BY MakeProcedureStep DEF EvalPrefixLambda, EvalPrefixFunc, EvalPrefixMacroLambda,
                         EvalPrefixMacroFunc, Composites

\* call-cc preserves the invariant.
LEMMA CallccStep ==
  ASSUME Inv, EvalPrefixCallcc
  PROVE  Inv' /\ Kept
<1> DEFINE expr == CellSegs[2].core
           proc == IF IsReference(expr) THEN EnvLookup(job.env, NameOf(expr)) ELSE expr
<1>1. /\ EvaluatesPrefix("call-cc")
      /\ \/ /\ EvalsAsLambda(ProcOf(proc))
            /\ ApplyCompositeLambda(nodes, ProcOf(proc), <<ContRef(job.k)>>, job.env, job.k)
         \/ Fault
  BY DEF EvalPrefixCallcc
<1>2. Len(CellSegs) >= 2
  BY <1>1, CellFacts DEF WellFormed
<1>3. expr \in Words /\ job.env \in 1 .. Len(envs) /\ job.k \in 1 .. Len(conts)
  BY <1>1, <1>2, CellFacts
<1>4. proc \in Words
  <2>1. IsReference(expr) => NameOf(expr) \in Names
    BY <1>3, NameType DEF IsReference, IsSymbol, HasTag
  <2> QED
    BY <1>3, <2>1, EnvLookupType
<1> HIDE DEF proc
<1>5. CASE /\ EvalsAsLambda(ProcOf(proc))
           /\ ApplyCompositeLambda(nodes, ProcOf(proc), <<ContRef(job.k)>>, job.env, job.k)
  <2>1. ProcOf(proc) \in NodesOf(Words, Len(envs)) /\ ProcOf(proc).env \in 1 .. Len(envs)
    BY <1>4, <1>5, ProcFacts DEF EvalsAsLambda, Composites
  <2>2. <<ContRef(job.k)>> \in Seq(Words)
    BY <1>3, ConstantWords
  <2> QED
    BY <1>3, <1>5, <2>1, <2>2, CompositeStep
<1> QED
  BY <1>1, <1>5, FaultStep

-----------------------------------------------------------------------------
\* What eval takes out of a quote is a word.
LEMMA UnquotedType ==
  ASSUME Inv, NEW w \in Words
  PROVE  Unquoted(w) \in Words
BY TagFacts, NodeFields DEF Unquoted, IsQuoteList

\* eval preserves the invariant.
LEMMA EvalStep ==
  ASSUME Inv, EvalPrefixEval
  PROVE  Inv' /\ Kept
<1> DEFINE w == CellSegs[2].core
           c == CallbackFrame("AfterEval", job.env, job.k, 0)
           n == Len(conts) + 1
<1>1. /\ EvaluatesPrefix("eval") /\ conts' = Append(conts, c) /\ TailCall(Eval(w, job.env, n))
      /\ nodes' = nodes /\ envs' = envs /\ memos' = memos /\ UNCHANGED objects
      /\ accessors' = accessors /\ currCode' = currCode
  BY DEF EvalPrefixEval, NextCont, objects
<1>2. Len(CellSegs) >= 2
  BY <1>1, CellFacts DEF WellFormed
<1>3. w \in Words /\ job.env \in ProcessEnv .. Len(envs) /\ job.k \in 1 .. Len(conts)
  BY <1>1, <1>2, CellFacts
<1> HIDE DEF w
<1>4. Len(conts') = Len(conts) + 1
  BY <1>1, InvFacts DEF ContsOK
<1>5. Grows
  BY <1>1, <1>4, InvFacts DEF Grows
<1>6. ContsStep
  <2>1. /\ ContsOK(conts, Words', Len(envs'), Len(memos')) /\ TreeOK(conts)
        /\ Frozen(conts, conts)
    BY <1>5, ContsAsKept
  <2>2. 0 \in 0 .. Len(memos') /\ job.env \in ProcessEnv .. Len(envs') /\ "AfterEval" \in Callbacks
    BY <1>1, <1>3, InvFacts DEF Callbacks
  <2> QED
    BY <1>1, <1>3, <1>5, <2>1, <2>2, PushCallback DEF ContsStep
<1>7. JobStep /\ depth' \in Nat
  <2>1. /\ w \in Words' /\ n \in 1 .. Len(conts') /\ Len(conts') \in Nat /\ Len(envs') \in Nat
        /\ job.env \in ProcessEnv .. Len(envs') /\ depth \in Nat
    BY <1>1, <1>3, <1>4, <1>5, WordsGrow, InvFacts
  <2>2. job' = Eval(w, job.env, n) /\ depth' = depth + 1
    BY <1>1 DEF TailCall
  <2> HIDE DEF n
  <2>3. JobOK(job', Words', Len(envs'), Len(conts')) /\ JobFits'
    BY <2>1, <2>2, EvalJob
  <2> QED
    BY <2>1, <2>2, <2>3 DEF JobStep
<1> QED
  BY <1>1, <1>5, <1>6, <1>7, NodesKept, EnvsKept, MemosKept, ObjectsKept, Conclude DEF RestStep

\* So does its callback.
LEMMA AfterEvalStep ==
  ASSUME Inv, AfterEvalExprBodyEvaled
  PROVE  Inv' /\ Kept
<1>1. /\ CallsBack("AfterEval") /\ UNCHANGED <<heap, currCode>>
      /\ TailCall(Eval(Unquoted(job.v), Invoked.env, Invoked.cont))
  BY DEF AfterEvalExprBodyEvaled
<1>2. /\ Invoked.env \in ProcessEnv .. Len(envs) /\ Invoked.cont \in 1 .. Len(conts)
      /\ Unquoted(job.v) \in Words
  BY <1>1, CallbackFacts, InvokedFacts, UnquotedType
<1> QED
  BY <1>1, <1>2, CallStep

\* apply preserves the invariant.
LEMMA ApplyPrefixStep ==
  ASSUME Inv, EvalPrefixApply
  PROVE  Inv' /\ Kept
<1>1. /\ EvaluatesPrefix("apply") /\ UNCHANGED <<nodes, envs, objects, currCode>>
      /\ EvalThen("AfterApplySym", [EmptyMemo EXCEPT !.ApplyArgsExpr = CellSegs[3].core],
                  CellSegs[2].core, job.env, job.k)
  BY DEF EvalPrefixApply
<1>2. Len(CellSegs) >= 3
  BY <1>1, CellFacts DEF WellFormed
<1>3. /\ CellSegs[2].core \in Words /\ CellSegs[3].core \in Words
      /\ job.env \in ProcessEnv .. Len(envs) /\ job.k \in 1 .. Len(conts)
  BY <1>1, <1>2, CellFacts
<1>4. /\ [EmptyMemo EXCEPT !.ApplyArgsExpr = CellSegs[3].core] \in GoodMemos
      /\ "AfterApplySym" \in Callbacks
  BY <1>3, EmptyMemoGood, MemoBuilt, Zenon DEF Callbacks
<1> QED
  BY <1>1, <1>3, <1>4, EvalThenOnly

\* So does its first callback.
LEMMA AfterApplySymStep ==
  ASSUME Inv, AfterApplySymExprEvaled
  PROVE  Inv' /\ Kept
<1>1. /\ CallsBack("AfterApplySym") /\ UNCHANGED <<nodes, envs, objects, currCode>>
      /\ EvalThen("AfterApplyArgs", [Memo EXCEPT !.ApplySym = job.v],
                  Memo.ApplyArgsExpr, Invoked.env, Invoked.cont)
  BY DEF AfterApplySymExprEvaled
<1>2. /\ Invoked.env \in ProcessEnv .. Len(envs) /\ Invoked.cont \in 1 .. Len(conts)
      /\ job.v \in Words /\ Memo.ApplyArgsExpr \in Words
  BY <1>1, CallbackFacts, InvokedFacts, MemoFields
<1>3. [Memo EXCEPT !.ApplySym = job.v] \in GoodMemos /\ "AfterApplyArgs" \in Callbacks
  BY <1>1, <1>2, MemoGood, MemoBuilt, Zenon DEF Callbacks
<1> QED
  BY <1>1, <1>2, <1>3, EvalThenOnly

\* So does its second callback.
LEMMA AfterApplyArgsStep ==
  ASSUME Inv, AfterApplyArgsExprEvaled
  PROVE  Inv' /\ Kept
<1> DEFINE sym == Memo.ApplySym
           proc == CASE IsIdentifier(sym) \/ IsReference(sym) ->
                          EnvLookup(Invoked.env, NameOf(sym))
                     [] IsAccessor(sym) -> UnBoxAccessorValue(sym)
                     [] OTHER -> Undef
           w == Unquoted(job.v)
<1>1. /\ CallsBack("AfterApplyArgs")
      /\ \/ Stop("HANG")
         \/ ApplyProcArguments(ProcOf(proc), w, Invoked.env, Invoked.cont)
  BY DEF AfterApplyArgsExprEvaled
<1>2. /\ Invoked.env \in 1 .. Len(envs) /\ Invoked.cont \in 1 .. Len(conts)
      /\ w \in Words /\ sym \in Words
  BY <1>1, CallbackFacts, InvokedFacts, MemoFields, UnquotedType DEF ProcessEnv
<1>3. proc \in Words
  <2>1. IsIdentifier(sym) \/ IsReference(sym) => NameOf(sym) \in Names
    BY <1>2, NameType DEF IsIdentifier, IsReference, IsSymbol, HasTag
  <2> HIDE DEF sym
  <2> QED
    BY <1>2, <2>1, EnvLookupType, UnBoxType, ConstantWords
<1> HIDE DEF proc, w
<1>4. CASE ApplyProcArguments(ProcOf(proc), w, Invoked.env, Invoked.cont)
  <2> DEFINE p == ProcOf(proc)
  <2>1. /\ p \in NodesOf(Words, Len(envs))
        /\ p.type \in Composites => p.env \in 1 .. Len(envs)
    BY <1>3, ProcFacts
  <2> HIDE DEF p
  <2>2. ApplyProcArguments(p, w, Invoked.env, Invoked.cont)
    BY <1>4 DEF p
  <2>3. \/ CallNativeFunc(p.name, w, Invoked.cont)
        \/ /\ p.type \in Composites
           /\ \/ ApplyCompositeLambda(nodes, p, Items(w), Invoked.env, Invoked.cont)
              \/ ApplyCompositeFunc(nodes, p, Items(w), Invoked.env, Invoked.cont)
        \/ Fault
    BY <2>2 DEF ApplyProcArguments, Composites
  <2>4. Items(w) \in Seq(Words)
    BY <1>2, ItemsType
  <2> QED
    BY <1>2, <2>1, <2>3, <2>4, CallNativeFuncStep, CompositeStep, FaultStep
<1>5. "HANG" \in FinalOps
  BY DEF FinalOps
<1> QED
  BY <1>1, <1>4, <1>5, StopStep
-----------------------------------------------------------------------------
\* The dispatcher made from a table of handlers is one.
LEMMA DispatcherOfType ==
  ASSUME Inv, NEW w \in Words, IsDispatcherConfig(w), job.env \in ProcessEnv .. Len(envs)
  PROVE  /\ DispatcherOf(w) \in DispatchersOf(Words, Len(envs))
         /\ DispatcherShape(DispatcherOf(w))
<1> DEFINE params == nodes[w.id].params
           items == nodes[w.id].items
           Good(p) == /\ p \in NodesOf(Words, Len(envs))
                      /\ p # NoProcedure => p.type = "LAMBDA" /\ p.env >= ProcessEnv
<1>1. /\ params \in Seq(Names) /\ items \in Seq(Words) /\ Len(params) = Len(items)
      /\ \A i \in DOMAIN params : params[i] \in Handlers => IsHandler(items[i])
  <2>1. HasTag(w, "table")
    BY DEF IsDispatcherConfig
  <2>2. nodes[w.id] \in NodesOf(Words, Len(envs)) /\ WellBuilt(nodes[w.id])
        /\ nodes[w.id].tag = "table"
    BY <2>1, TagFacts DEF NodeShape
  <2>3. Len(params) = Len(items)
    BY <2>2 DEF WellBuilt
  <2> QED
    BY <2>2, <2>3, NodeFields DEF IsDispatcherConfig
<1>2. Good(NoProcedure)
  BY NodeType, ConstantWords, InvFacts DEF NoProcedure, NodeTags
<1>3. ASSUME NEW h \in Handlers, h \in TableKeys(w), IsCell(TableAt(w, h))
      PROVE  Good(Procedure("LAMBDA", Definition(Segs(TableAt(w, h))), <<>>))
  <2> DEFINE S == {i \in DOMAIN params : params[i] = h}
             cell == TableAt(w, h)
             def == Definition(Segs(cell))
  <2>1. S # {} /\ S \in SUBSET (1 .. Len(params)) /\ Len(params) \in Nat
    BY <1>1, <1>3 DEF TableKeys
  <2>2. Max(S) \in S
    BY <2>1, MaxOf
  <2>3. cell = items[Max(S)]
    BY DEF TableAt
  <2>4. Max(S) \in DOMAIN items /\ IsHandler(items[Max(S)])
    <3>1. Max(S) \in DOMAIN params /\ params[Max(S)] = h
      BY <2>2
    <3> HIDE DEF S, params, items
    <3> QED
      BY <1>1, <3>1
  <2> HIDE DEF S, params, items
  <2>5. cell \in Words /\ IsHandler(cell)
    BY <1>1, <2>3, <2>4
  <2> HIDE DEF cell
  <2>6. IsCell(cell)
    BY <1>3 DEF cell
  <2>7. HasTable(def)
    <3>1. cell.t = "node"
      BY <2>6 DEF IsCell, HasTag
    <3>2. cell \notin {Nil, Undef, Ukn}
      BY <3>1 DEF Nil, Undef, Ukn, Imm
    <3> QED
      BY <2>5, <3>2 DEF IsHandler
  <2>8. def \in SegsOf(Words)
    BY <2>5, <2>6, SegsType, DefinitionType
  <2>9. <<>> \in Seq(Names) /\ "LAMBDA" \in Composites
    BY DEF Composites
  <2> HIDE DEF def
  <2>10. Good(Procedure("LAMBDA", def, <<>>))
    BY <2>7, <2>8, <2>9, ProcedureType
  <2> QED
    BY <2>10 DEF def, cell
<1>4. ASSUME NEW h \in Handlers PROVE Good(DispatcherOf(w)[h])
  <2> HIDE DEF Good
  <2> QED
    BY <1>2, <1>3 DEF DispatcherOf
<1>5. DispatcherOf(w) = [h \in Handlers |-> DispatcherOf(w)[h]]
  BY DEF DispatcherOf
<1> QED
  BY <1>4, <1>5 DEF DispatchersOf, DispatcherShape

\* Registering a dispatcher preserves the invariant, for ids beyond the vector
\* too.
LEMMA SetMsgDispatcherStep ==
  ASSUME Inv, NEW id, NEW d \in DispatchersOf(Words, Len(envs)), DispatcherShape(d),
         SetMsgDispatcher(id, d),
         UNCHANGED <<nodes, envs, conts, memos, accessors, currCode>>,
         nextMsgDispatcherId' \in Nat,
         NEW v \in Words, NEW k \in 1 .. Len(conts), Bounce(Run(v, k))
  PROVE  Inv' /\ Kept
<1>1. Grows
  BY InvFacts DEF Grows
<1>2. Words' = Words /\ envs' = envs /\ conts' = conts
  BY DEF Words
<1>3. DispatchersOK(dispatchers', Words, Len(envs))
  <2>1. DispatchersOK(dispatchers, Words, Len(envs))
    BY InvFacts
  <2>2. CASE id \in 0 .. DispatcherSlots - 1
    <3> DEFINE ds == [i \in {id} \cup DOMAIN dispatchers |->
                        IF i = id THEN d ELSE dispatchers[i]]
    <3>1. DispatchersOK(ds, Words, Len(envs))
      BY <2>1, <2>2 DEF DispatchersOK
    <3>2. dispatchers' = ds
      BY <2>2 DEF SetMsgDispatcher
    <3> HIDE DEF ds
    <3> QED
      BY <3>1, <3>2
  <2>3. CASE id \notin 0 .. DispatcherSlots - 1
    BY <2>1, <2>3 DEF SetMsgDispatcher
  <2> QED
    BY <2>2, <2>3
<1>4. DispatchersStep
  BY <1>2, <1>3 DEF DispatchersStep
<1>5. JobStep /\ depth' \in Nat
  BY <1>2, RunJob, InvFacts DEF JobStep, Bounce
<1> QED
  BY <1>1, <1>4, <1>5, NodesKept, EnvsKept, ContsKept, MemosKept, AccessorsKept, Conclude
     DEF RestStep

\* def-dispatcher preserves the invariant.
LEMMA DefDispatcherStep ==
  ASSUME Inv, EvalPrefixDefDispatcher
  PROVE  Inv' /\ Kept
<1>1. EvaluatesPrefix("def-dispatcher")
  BY DEF EvalPrefixDefDispatcher
<1>2. Len(CellSegs) >= 2 /\ IsDispatcherConfig(CellSegs[2].core)
  BY <1>1, CellFacts DEF WellFormed
<1>3. /\ CellSegs[2].core \in Words /\ job.env \in ProcessEnv .. Len(envs)
      /\ job.k \in 1 .. Len(conts)
  BY <1>1, <1>2, CellFacts
<1> DEFINE d == DispatcherOf(CellSegs[2].core)
<1>4. d \in DispatchersOf(Words, Len(envs)) /\ DispatcherShape(d)
  BY <1>2, <1>3, DispatcherOfType
<1>5. CASE Fault
  BY <1>5, FaultStep
<1>6. CASE /\ nextMsgDispatcherId \in Fixnums
           /\ SetMsgDispatcher(nextMsgDispatcherId, d)
           /\ nextMsgDispatcherId' = nextMsgDispatcherId + 1
           /\ Bounce(Run(Fix(nextMsgDispatcherId), job.k))
           /\ UNCHANGED <<nodes, envs, conts, memos, accessors, currCode>>
  <2>1. Fix(nextMsgDispatcherId) \in Words /\ nextMsgDispatcherId' \in Nat
    BY <1>6, ConstantWords, InvFacts
  <2> HIDE DEF d
  <2> QED
    BY <1>3, <1>4, <1>6, <2>1, SetMsgDispatcherStep
<1> QED
  BY <1>5, <1>6 DEF EvalPrefixDefDispatcher

\* set-dispatcher preserves the invariant.
LEMMA SetDispatcherStep ==
  ASSUME Inv, EvalPrefixSetDispatcher
  PROVE  Inv' /\ Kept
<1> DEFINE d == DispatcherOf(CellSegs[3].core)
<1>1. /\ EvaluatesPrefix("set-dispatcher") /\ UNCHANGED <<nodes, envs, objects, currCode>>
      /\ EvalThen("AfterDispatcherId", [EmptyMemo EXCEPT !.Dispatcher = d],
                  CellSegs[2].core, job.env, job.k)
  BY DEF EvalPrefixSetDispatcher
<1>2. Len(CellSegs) >= 3 /\ IsDispatcherConfig(CellSegs[3].core)
  BY <1>1, CellFacts DEF WellFormed
<1>3. /\ CellSegs[2].core \in Words /\ CellSegs[3].core \in Words
      /\ job.env \in ProcessEnv .. Len(envs) /\ job.k \in 1 .. Len(conts)
  BY <1>1, <1>2, CellFacts
<1>4. d \in DispatchersOf(Words, Len(envs)) /\ DispatcherShape(d)
  BY <1>2, <1>3, DispatcherOfType
<1>5. [EmptyMemo EXCEPT !.Dispatcher = d] \in GoodMemos /\ "AfterDispatcherId" \in Callbacks
  BY <1>4, EmptyMemoGood, MemoBuilt, Zenon DEF Callbacks
<1> HIDE DEF d
<1> QED
  BY <1>1, <1>3, <1>5, EvalThenOnly

\* So does its callback.
LEMMA AfterDispatcherIdStep ==
  ASSUME Inv, AfterDispatcherIdEvaled
  PROVE  Inv' /\ Kept
<1>1. /\ CallsBack("AfterDispatcherId")
      /\ SetMsgDispatcher(UnboxFixnum(job.v), Memo.Dispatcher)
      /\ Bounce(Run(True, Invoked.cont))
      /\ UNCHANGED <<nodes, envs, conts, memos, accessors, currCode>>
      /\ nextMsgDispatcherId' = nextMsgDispatcherId
  BY DEF AfterDispatcherIdEvaled
<1>2. /\ Invoked.cont \in 1 .. Len(conts) /\ True \in Words
      /\ Memo.Dispatcher \in DispatchersOf(Words, Len(envs)) /\ DispatcherShape(Memo.Dispatcher)
      /\ nextMsgDispatcherId' \in Nat
  BY <1>1, CallbackFacts, InvokedFacts, MemoFields, ConstantWords, InvFacts
<1> QED
  BY <1>1, <1>2, SetMsgDispatcherStep

\* def-builder preserves the invariant.
LEMMA DefBuilderStep ==
  ASSUME Inv, EvalPrefixDefBuilder
  PROVE  Inv' /\ Kept
<1> DEFINE memo == [EmptyMemo EXCEPT !.BuilderName = CellSegs[2].core,
                                     !.BuilderSourceCode = CellSegs[4].core]
<1>1. /\ EvaluatesPrefix("def-builder") /\ UNCHANGED <<nodes, envs, objects, currCode>>
      /\ EvalThen("AfterBuilderDispatcherId", memo, CellSegs[3].core, job.env, job.k)
  BY DEF EvalPrefixDefBuilder
<1>2. Len(CellSegs) >= 4
  BY <1>1, CellFacts DEF WellFormed
<1>3. /\ CellSegs[2].core \in Words /\ CellSegs[3].core \in Words /\ CellSegs[4].core \in Words
      /\ job.env \in ProcessEnv .. Len(envs) /\ job.k \in 1 .. Len(conts)
  BY <1>1, <1>2, CellFacts
<1>4. memo \in GoodMemos /\ "AfterBuilderDispatcherId" \in Callbacks
  BY <1>3, EmptyMemoGood, MemoBuilt, Zenon DEF Callbacks
<1> HIDE DEF memo
<1> QED
  BY <1>1, <1>3, <1>4, EvalThenOnly

\* So does its callback, which writes a node of the program.
LEMMA AfterBuilderStep ==
  ASSUME Inv, AfterBuilderDispatcherIdEvaled
  PROVE  Inv' /\ Kept
<1> DEFINE source == Memo.BuilderSourceCode
           name == NameOf(Memo.BuilderName)
           d == UnboxFixnum(job.v)
<1>1. /\ CallsBack("AfterBuilderDispatcherId")
      /\ \/ /\ IsSymbol(Memo.BuilderName) /\ source.t = "node"
            /\ nodes' = [nodes EXCEPT ![source.id].dispatcher = d]
            /\ EnvDefine(Invoked.env, name, source)
            /\ Bounce(Run(source, Invoked.cont))
            /\ UNCHANGED <<conts, memos, objects, currCode>>
         \/ Fault
  BY DEF AfterBuilderDispatcherIdEvaled
<1>2. /\ Invoked.env \in ProcessEnv .. Len(envs) /\ Invoked.cont \in 1 .. Len(conts)
      /\ source \in Words /\ Memo.BuilderName \in Words /\ job.v \in Words
  BY <1>1, CallbackFacts, InvokedFacts, MemoFields
<1>3. d \in Int /\ (IsSymbol(Memo.BuilderName) => name \in Names)
  BY <1>2, UnboxFixnumType, NameType DEF IsSymbol, HasTag
<1> HIDE DEF source, name, d
<1>4. CASE /\ IsSymbol(Memo.BuilderName) /\ source.t = "node"
           /\ nodes' = [nodes EXCEPT ![source.id].dispatcher = d]
           /\ EnvDefine(Invoked.env, name, source)
           /\ Bounce(Run(source, Invoked.cont))
           /\ UNCHANGED <<conts, memos, objects, currCode>>
  BY <1>2, <1>3, <1>4, RedispatchStep, DefineStep
<1> QED
  BY <1>1, <1>4, FaultStep

\* Evaluating the next word of a command preserves the invariant.
LEMMA NextCmdWordStep ==
  ASSUME Inv, NEW words \in Seq(Words), words # <<>>, NEW e \in ProcessEnv .. Len(envs),
         NEW k \in 1 .. Len(conts), NextCmdWord(words, e, k), UNCHANGED <<envs, objects, currCode>>
  PROVE  Inv' /\ Kept
<1> DEFINE memo == [EmptyMemo EXCEPT !.RestCmdWords = Tail(words)]
<1>1. Head(words) \in Words /\ Tail(words) \in Seq(Words)
  OBVIOUS
<1>2. AsIdentifier(Head(words)) /\ EvalThen("AfterShellCmd", memo, Head(words), e, k)
  BY DEF NextCmdWord
<1>3. memo \in GoodMemos /\ "AfterShellCmd" \in Callbacks
  BY <1>1, EmptyMemoGood, MemoBuilt, Zenon DEF Callbacks
<1>4. Len(nodes') = Len(nodes) /\ (Grows => NodesStep)
  BY <1>1, <1>2, AsIdentifierStep
<1> HIDE DEF memo
<1> QED
  BY <1>1, <1>2, <1>3, <1>4, EvalThenStep DEF GoodMemos

\* sh preserves the invariant.
LEMMA ShStep ==
  ASSUME Inv, EvalPrefixSh
  PROVE  Inv' /\ Kept
<1>1. /\ EvaluatesPrefix("sh") /\ UNCHANGED <<envs, objects, currCode>>
      /\ NextCmdWord(CellCores(Tail(CellSegs)), job.env, job.k)
  BY DEF EvalPrefixSh
<1>2. Len(CellSegs) >= 2
  BY <1>1, CellFacts DEF WellFormed
<1> QED
  BY <1>1, <1>2, CoresOfCell, CellFacts, NextCmdWordStep

\* So does its callback.
LEMMA AfterShStep ==
  ASSUME Inv, AfterShellCmdEvaled
  PROVE  Inv' /\ Kept
<1>1. CallsBack("AfterShellCmd") /\ UNCHANGED <<envs, objects, currCode>>
  BY DEF AfterShellCmdEvaled
<1>2. /\ Invoked.env \in ProcessEnv .. Len(envs) /\ Invoked.cont \in 1 .. Len(conts)
      /\ Memo.RestCmdWords \in Seq(Words) /\ True \in Words
  BY <1>1, CallbackFacts, InvokedFacts, MemoFields, ConstantWords
<1> QED
  BY <1>1, <1>2, NextCmdWordStep, AnswerOnly DEF AfterShellCmdEvaled


-------------------------------------------------------------------------------
(***************************************************************************)
(* Part three.  The remaining actions preserve the invariant, the initial  *)
(* states have it, and the theorems follow.                                *)
(***************************************************************************)
\* What words there are after a step.
LEMMA ExtraFacts ==
  ASSUME Inv, Grows
  PROVE  /\ \A m \in Markers : Marker(m) \in Words'
         /\ \A i \in 1 .. Len(nodes') : NodeRef(i) \in Words'
         /\ Words' = WordsOf(Len(nodes'), Len(conts'), Len(accessors'))
BY WordsBuilt DEF Words, Grows

\* A step that pushes a frame and bounces about it preserves the invariant.
LEMMA PushStep ==
  ASSUME Inv, Len(nodes') \in Nat, Len(nodes) <= Len(nodes'), Grows => NodesStep,
         UNCHANGED <<envs, memos, objects, currCode>>,
         NEW op \in DOMAIN FrameOf, NEW e \in ProcessEnv .. Len(envs), NEW k \in 1 .. Len(conts),
         NEW subj, NEW rest, NEW evaled,
         Grows => subj \in Words' /\ rest \in Seq(Words') /\ evaled \in Seq(Words'),
         FrameOf[op] = "CLAUSE_ARGS" =>
           conts[k].type = "CLAUSE_LIST" /\ conts[k].subj = subj /\ conts[k].env = e,
         conts' = Append(conts, [type |-> FrameOf[op], env |-> e, cont |-> k, subj |-> subj,
                                 rest |-> rest, evaled |-> evaled, callback |-> "none",
                                 memo |-> 0]),
         \/ \E v : /\ op # "CLAUSE_LIST" /\ Bounce(Job(op, v, e, Len(conts) + 1))
                   /\ Grows => v \in Words'
         \/ \E ws : /\ op = "CLAUSE_LIST" /\ Bounce(ClauseList(ws, e, Len(conts) + 1))
                    /\ ws # <<>> /\ (Grows => ws \in Seq(Words'))
  PROVE  Inv' /\ Kept
<1> DEFINE type == FrameOf[op]
<1>1. Len(conts') = Len(conts) + 1
  BY InvFacts DEF ContsOK
<1>2. Grows
  BY <1>1, InvFacts DEF Grows, objects
<1>3. type \in ContTypes \ {"RETURN", "NATIVE_CALLBACK"}
  BY DEF FrameOf, ContTypes
<1>4. /\ ContsOK(conts, Words', Len(envs'), Len(memos')) /\ TreeOK(conts)
      /\ Frozen(conts, conts) /\ e \in ProcessEnv .. Len(envs')
  BY <1>2, ContsAsKept
<1>5. /\ ContsStep /\ conts'[Len(conts) + 1].type = type /\ conts'[Len(conts) + 1].env = e
  <2> HIDE DEF type
  <2>1. type = "CLAUSE_ARGS" =>
          conts[k].type = "CLAUSE_LIST" /\ conts[k].subj = subj /\ conts[k].env = e
    BY DEF type
  <2>2. conts' = Append(conts, [type |-> type, env |-> e, cont |-> k, subj |-> subj,
                                rest |-> rest, evaled |-> evaled, callback |-> "none",
                                memo |-> 0])
    BY DEF type
  <2>3. subj \in Words' /\ rest \in Seq(Words') /\ evaled \in Seq(Words')
    BY <1>2
  <2> QED
    BY ONLY Inv, <1>2, <1>3, <1>4, <2>1, <2>2, <2>3, k \in 1 .. Len(conts), PushFrame
<1>6. JobStep /\ depth' \in Nat
  <2>0. Len(conts') # 0 /\ Len(conts') \in Nat /\ Len(envs') \in Nat /\ Undef \in Words'
        /\ Len(conts) + 1 \in 0 .. Len(conts') /\ Len(conts) + 1 # 0
        /\ Len(conts) + 1 \in DOMAIN conts'
    <3>1. DOMAIN conts' = 1 .. Len(conts')
      BY <1>5 DEF ContsStep, ContsOK
    <3> QED
      BY <1>1, <1>2, <3>1, WordsGrow, InvFacts DEF Grows
  <2>1. ASSUME NEW v \in Words', op # "CLAUSE_LIST", Bounce(Job(op, v, e, Len(conts) + 1))
        PROVE  JobStep /\ depth' \in Nat
    <3>1. /\ job' = Job(op, v, e, Len(conts')) /\ depth' = 0
          /\ op \in DOMAIN FrameOf \ {"CLAUSE_LIST"}
      BY <1>1, <2>1 DEF Bounce
    <3> QED
      BY <1>1, <1>2, <1>4, <1>5, <2>0, <3>1, PushedJob
  <2>2. ASSUME NEW ws \in Seq(Words'), op = "CLAUSE_LIST", ws # <<>>,
               Bounce(ClauseList(ws, e, Len(conts) + 1))
        PROVE  JobStep /\ depth' \in Nat
    <3>1. /\ job' = [op |-> "CLAUSE_LIST", v |-> Undef, words |-> ws, env |-> e,
                     k |-> Len(conts) + 1]
          /\ depth' = 0
      BY <2>2 DEF Bounce, ClauseList
    <3>2. JobOK(job', Words', Len(envs'), Len(conts'))
      <4>1. e \in 0 .. Len(envs') /\ e >= ProcessEnv
        BY <1>4, <2>0 DEF ProcessEnv
      <4> QED
        BY <2>0, <2>2, <3>1, <4>1 DEF JobOK, JobsOf, LoopOps, FinalOps
    <3>3. JobFits'
      BY <1>5, <2>0, <2>2, <3>1 DEF JobFits, FrameOf
    <3> QED
      BY <3>1, <3>2, <3>3 DEF JobStep
  <2> QED
    BY <1>2, <2>1, <2>2
<1> QED
  BY <1>2, <1>5, <1>6, EnvsKept, MemosKept, ObjectsKept, Conclude DEF RestStep

\* PushStep's premises about nodes, when they are not written.
LEMMA SamePush ==
  ASSUME Inv, nodes' = nodes
  PROVE  Len(nodes') \in Nat /\ Len(nodes) <= Len(nodes') /\ (Grows => NodesStep)
BY NodesKept, InvFacts

-----------------------------------------------------------------------------
\* Evaluating what evaluates to itself, a reference, an accessor or what no
\* branch takes preserves the invariant.
LEMMA SimpleEvals ==
  ASSUME Inv, EvalSelf \/ EvalReference \/ EvalAccessor \/ EvalUnhandled \/ MalformedCell
              \/ UnhandledKeyword
  PROVE  Inv' /\ Kept
<1>1. CASE EvalSelf
  BY <1>1, EvaluatingFacts, CallStep DEF EvalSelf
<1>2. CASE EvalReference
  <2>1. EnvLookup(job.env, NameOf(Expr)) \in Words
    <3>1. Expr \in Words /\ job.env \in 1 .. Len(envs) /\ Expr.t = "node"
      BY <1>2, EvaluatingFacts DEF EvalReference, IsReference, IsSymbol, HasTag
    <3> QED
      BY <3>1, NameType, EnvLookupType
  <2>2. job.k \in 1 .. Len(conts)
    BY <1>2, EvaluatingFacts DEF EvalReference
  <2> QED
    BY <1>2, <2>1, <2>2, CallStep DEF EvalReference
<1>3. CASE EvalAccessor
  <2>1. UnBoxAccessorValue(Expr) \in Words /\ job.k \in 1 .. Len(conts) /\ "HANG" \in FinalOps
    BY <1>3, EvaluatingFacts, UnBoxType DEF EvalAccessor, FinalOps
  <2> QED
    BY <1>3, <2>1, CallStep, StopStep DEF EvalAccessor
<1>4. CASE EvalUnhandled
  <2>1. "EXIT" \in FinalOps /\ Stop("EXIT")
    BY <1>4 DEF EvalUnhandled, FinalOps
  <2> QED
    BY <2>1, StopStep
<1>5. CASE MalformedCell
  BY <1>5, FaultStep DEF MalformedCell
<1>6. CASE UnhandledKeyword
  <2>1. Evaluating
    BY <1>6 DEF UnhandledKeyword, KeywordCell, ListKeyword
  <2>2. Ukn \in Words /\ job.k \in 1 .. Len(conts)
    BY <2>1, EvaluatingFacts, ConstantWords
  <2>3. GoOn(Ukn, job.k)
    BY <1>6 DEF UnhandledKeyword, GoOn
  <2> QED
    BY <2>2, <2>3, GoOnStep
<1> QED
  BY <1>1, <1>2, <1>3, <1>4, <1>5, <1>6

\* So does evaluating the subject of a sentence.
LEMMA EvalSubjectStep ==
  ASSUME Inv, Evaluating, Len(nodes') \in Nat, Len(nodes) <= Len(nodes'), Grows => NodesStep,
         NEW subj \in Words, NEW restJobs, Grows => restJobs \in Seq(Words'),
         EvalSubject(subj, restJobs)
  PROVE  Inv' /\ Kept
<1>1. /\ conts' = Append(conts, [Frame("SUBJ", job.env, job.k) EXCEPT !.rest = restJobs])
      /\ Bounce(Job("SUBJ", subj, job.env, Len(conts) + 1))
      /\ UNCHANGED <<envs, memos, objects, currCode>>
  BY DEF EvalSubject, NextCont
<1>2. job.env \in ProcessEnv .. Len(envs) /\ job.k \in 1 .. Len(conts)
  BY EvaluatingFacts
<1>3. "SUBJ" \in DOMAIN FrameOf /\ FrameOf["SUBJ"] = "SUBJ"
  BY DEF FrameOf
<1>4. conts' = Append(conts, [type |-> "SUBJ", env |-> job.env, cont |-> job.k, subj |-> Undef,
                              rest |-> restJobs, evaled |-> <<>>, callback |-> "none",
                              memo |-> 0])
  BY <1>1, FrameRest
<1>5. Grows => /\ Undef \in Words' /\ restJobs \in Seq(Words') /\ <<>> \in Seq(Words')
               /\ subj \in Words'
  BY WordsGrow
<1> QED
  BY <1>1, <1>2, <1>3, <1>4, <1>5, PushStep

\* Allocating a list and the quote around it meets the obligation for nodes.
LEMMA QuotedListAdded ==
  ASSUME Inv, NEW ws \in Seq(Words), NEW type \in {"LIST", "CELL"},
         nodes' = Append(WithList(ws), QuoteNode(type, ListWord(ws)))
  PROVE  /\ Len(nodes') \in Nat /\ Len(nodes) <= Len(nodes')
         /\ Grows => NodesStep /\ NodeRef(Len(WithList(ws)) + 1) \in Words'
<1> DEFINE ns == WithList(ws)
           V == WordsOf(Len(ns), Len(conts), Len(accessors))
           q == QuoteNode(type, ListWord(ws))
<1>1. /\ NodesOK(ns, V, Len(envs)) /\ Words \subseteq V /\ ListWord(ws) \in V
      /\ Len(nodes) <= Len(ns) /\ Len(ns) \in Nat
      /\ \A i \in DOMAIN nodes : i \in DOMAIN ns /\ TextKept(nodes[i], ns[i])
  BY WithListType
<1>2. Undef \in V
  BY <1>1, ConstantWords
<1>3. q \in NodesOf(V, Len(envs)) /\ NodeShape(q)
  BY <1>1, <1>2, QuoteNodeType, InvFacts
<1> HIDE DEF q, ns
<1>4. nodes' = Append(ns, q)
  BY DEF q, ns
<1>5. Len(nodes') = Len(ns) + 1
  BY <1>1, <1>4 DEF NodesOK
<1>6. Len(nodes') \in Nat /\ Len(nodes) <= Len(nodes') /\ Len(ns) <= Len(nodes')
  BY <1>1, <1>5, InvFacts
<1>7. ASSUME Grows PROVE NodesStep /\ NodeRef(Len(ns) + 1) \in Words'
  <2>1. V \subseteq Words'
    <3>1. /\ Len(ns) \in Nat /\ Len(nodes') \in Nat /\ Len(ns) <= Len(nodes')
          /\ Len(conts) \in Nat /\ Len(conts') \in Nat /\ Len(conts) <= Len(conts')
          /\ Len(accessors) \in Nat /\ Len(accessors') \in Nat
          /\ Len(accessors) <= Len(accessors')
      BY <1>1, <1>6, <1>7, InvFacts DEF Grows
    <3>2. WordsOf(Len(ns), Len(conts), Len(accessors))
            \subseteq WordsOf(Len(nodes'), Len(conts'), Len(accessors'))
      BY ONLY <3>1 DEF WordsOf
    <3> QED
      BY <1>7, <3>2, ExtraFacts
  <2>2. Len(envs) \in Nat /\ Len(envs') \in Nat /\ Len(envs) <= Len(envs')
    BY <1>7, InvFacts DEF Grows
  <2>3. NodesOK(ns, Words', Len(envs')) /\ q \in NodesOf(Words', Len(envs'))
    BY <1>1, <1>3, <2>1, <2>2, NodesMono, NodeMono
  <2>4. /\ NodesOK(nodes', Words', Len(envs'))
        /\ \A i \in DOMAIN ns : nodes'[i] = ns[i]
    BY <1>3, <1>4, <2>2, <2>3, NodesAppend
  <2>5. NodesStep
    BY <1>1, <2>4 DEF NodesStep
  <2>6. Len(ns) + 1 \in 1 .. Len(nodes')
    BY <1>1, <1>5
  <2> QED
    BY <1>7, <2>5, <2>6, ExtraFacts
<1> QED
  BY <1>6, <1>7 DEF ns

\* Evaluating a list preserves the invariant, for a macro too.
LEMMA EvalListStep ==
  ASSUME Inv, EvalList
  PROVE  Inv' /\ Kept
<1> DEFINE first == Head(Items(Expr))
           arguments == Tail(Items(Expr))
           ns == WithList(arguments)
<1>1. /\ Evaluating /\ IsPair(Expr)
      /\ \/ /\ nodes' = Append(ns, QuoteNode("LIST", ListWord(arguments)))
            /\ EvalSubject(first, <<Marker("APPLY"), NodeRef(Len(ns) + 1)>>)
         \/ /\ EvalSubject(first, <<Marker("APPLY")>> \o arguments)
            /\ nodes' = nodes
  BY DEF EvalList
<1>2. Items(Expr) \in Seq(Words) /\ Items(Expr) # <<>>
  BY <1>1, EvaluatingFacts, ItemsType
<1>3. first \in Words /\ arguments \in Seq(Words)
  BY <1>2
<1>4. "APPLY" \in Markers
  BY DEF Markers
<1> HIDE DEF first, arguments
<1>5. CASE /\ nodes' = Append(ns, QuoteNode("LIST", ListWord(arguments)))
           /\ EvalSubject(first, <<Marker("APPLY"), NodeRef(Len(ns) + 1)>>)
  <2>1. /\ Len(nodes') \in Nat /\ Len(nodes) <= Len(nodes')
        /\ Grows => NodesStep /\ NodeRef(Len(ns) + 1) \in Words'
    BY <1>3, <1>5, QuotedListAdded
  <2> HIDE DEF ns
  <2>2. Grows => <<Marker("APPLY"), NodeRef(Len(ns) + 1)>> \in Seq(Words')
    BY <1>4, <2>1, ExtraFacts
  <2> QED
    BY <1>1, <1>3, <1>5, <2>1, <2>2, EvalSubjectStep
<1>6. CASE EvalSubject(first, <<Marker("APPLY")>> \o arguments) /\ nodes' = nodes
  <2>1. ASSUME Grows PROVE <<Marker("APPLY")>> \o arguments \in Seq(Words')
    <3>1. Marker("APPLY") \in Words' /\ arguments \in Seq(Words')
      BY <1>3, <1>4, <2>1, ExtraFacts, WordsGrow, SeqMono
    <3> QED
      BY <3>1
  <2> QED
    BY <1>1, <1>3, <1>6, <2>1, SamePush, EvalSubjectStep
<1> QED
  BY <1>1, <1>5, <1>6

\* Evaluating a cell preserves the invariant, for a macro too.
LEMMA EvalCellStep ==
  ASSUME Inv, EvalCell
  PROVE  Inv' /\ Kept
<1> DEFINE first == CellSegs[1].core
           restJobs == CellCores(Tail(CellSegs))
           ws == <<Expr>>
           ns == WithList(ws)
<1>1. /\ Evaluating /\ IsCell(Expr)
      /\ \/ /\ nodes' = nodes \o <<ListNode(ws), QuoteNode("CELL", NodeRef(Len(nodes) + 1))>>
            /\ EvalSubject(first, <<Marker("APPLY"), NodeRef(Len(nodes) + 2)>>)
         \/ EvalSubject(first, restJobs) /\ nodes' = nodes
  BY DEF EvalCell
<1>2. Expr \in Words /\ CellSegs \in Seq(SegsOf(Words)) /\ CellSegs # <<>> /\ Len(CellSegs) >= 1
      /\ first \in Words /\ Len(CellSegs) \in Nat
  BY <1>1, EvaluatingFacts, SegsType DEF CellSegs
<1>3. restJobs \in Seq(Words) /\ "APPLY" \in Markers /\ ws \in Seq(Words)
  <2>1. Tail(CellSegs) \in Seq(SegsOf(Words))
    BY <1>2
  <2>2. restJobs \in Seq(Words)
    BY <2>1, CoresType
  <2>3. ws \in Seq(Words)
    BY <1>2
  <2> QED
    BY <2>2, <2>3 DEF Markers
<1>4. /\ ns = Append(nodes, ListNode(ws)) /\ ListWord(ws) = NodeRef(Len(nodes) + 1)
      /\ Len(ns) = Len(nodes) + 1 /\ Len(nodes) \in Nat
  <2>1. ws # <<>>
    OBVIOUS
  <2> HIDE DEF ws
  <2> QED
    BY <2>1, InvFacts DEF WithList, ListWord, NodesOK
<1> HIDE DEF first, restJobs, ws, ns
<1>5. CASE /\ nodes' = nodes \o <<ListNode(ws), QuoteNode("CELL", NodeRef(Len(nodes) + 1))>>
           /\ EvalSubject(first, <<Marker("APPLY"), NodeRef(Len(nodes) + 2)>>)
  <2>1. nodes' = Append(ns, QuoteNode("CELL", ListWord(ws)))
    <3>1. nodes \in Seq(NodesOf(Words, Len(envs)))
      BY InvFacts DEF NodesOK
    <3> DEFINE q == QuoteNode("CELL", NodeRef(Len(nodes) + 1))
               l == ListNode(ws)
    <3> HIDE DEF q, l
    <3>2. nodes \o <<l, q>> = Append(Append(nodes, l), q)
      BY ONLY <3>1, AppendTwo
    <3> QED
      BY <1>4, <1>5, <3>2 DEF q, l
  <2>2. /\ Len(nodes') \in Nat /\ Len(nodes) <= Len(nodes')
        /\ Grows => NodesStep /\ NodeRef(Len(ns) + 1) \in Words'
    BY <1>3, <2>1, QuotedListAdded DEF ns
  <2>3. Len(ns) + 1 = Len(nodes) + 2
    BY <1>4
  <2>4. Grows => <<Marker("APPLY"), NodeRef(Len(nodes) + 2)>> \in Seq(Words')
    BY <1>3, <2>2, <2>3, ExtraFacts
  <2> QED
    BY <1>1, <1>2, <1>5, <2>2, <2>4, EvalSubjectStep
<1>6. CASE EvalSubject(first, restJobs) /\ nodes' = nodes
  <2>1. Grows => restJobs \in Seq(Words')
    BY <1>3, WordsGrow, SeqMono
  <2> QED
    BY <1>1, <1>2, <1>6, <2>1, SamePush, EvalSubjectStep
<1> QED
  BY <1>1, <1>5, <1>6

\* So does KN_EvalSentences by itself.
LEMMA SentencesStep ==
  ASSUME Inv, NEW sentences \in Seq(Words), NEW e \in ProcessEnv .. Len(envs),
         NEW k \in 1 .. Len(conts), EvalSentences(conts, sentences, e, k),
         UNCHANGED <<nodes, envs, memos, objects, currCode>>
  PROVE  Inv' /\ Kept
<1>1. Len(conts') \in Nat /\ Len(conts) <= Len(conts')
  BY EvalSentencesGrows, InvFacts DEF ContsOK
<1>2. Grows
  BY <1>1, InvFacts DEF Grows, objects
<1>3. sentences \in Seq(Words') /\ e \in ProcessEnv .. Len(envs')
  BY <1>2, WordsGrow, SeqMono
<1>4. ContsStep /\ JobStep /\ depth' \in Nat
  BY <1>2, <1>3, ContsAsKept, EvalSentencesStep
<1> QED
  BY <1>2, <1>4, NodesKept, EnvsKept, MemosKept, ObjectsKept, Conclude DEF RestStep

\* blk and do preserve the invariant.
LEMMA BlockStep ==
  ASSUME Inv, EvalPrefixBlk \/ EvalPrefixDo
  PROVE  Inv' /\ Kept
<1> DEFINE sentences == Tail(Items(Expr))
<1>1. /\ Evaluating /\ IsPair(Expr) /\ UNCHANGED <<nodes, memos, objects, currCode>>
      /\ nodes' = nodes /\ memos' = memos /\ accessors' = accessors /\ UNCHANGED objects
      /\ currCode' = currCode
      /\ \/ /\ envs' = Append(envs, ChildEnv(job.env, NoBindings))
            /\ EvalSentences(conts, sentences, Len(envs) + 1, job.k)
         \/ /\ envs' = envs /\ EvalSentences(conts, sentences, job.env, job.k)
  BY DEF EvalPrefixBlk, EvalPrefixDo, ListKeyword, objects
<1>2. /\ job.env \in ProcessEnv .. Len(envs) /\ job.env \in 1 .. Len(envs)
      /\ job.k \in 1 .. Len(conts) /\ Items(Expr) \in Seq(Words) /\ Items(Expr) # <<>>
  BY <1>1, EvaluatingFacts, ItemsType
<1>3. sentences \in Seq(Words)
  BY <1>2
<1> HIDE DEF sentences
<1>4. CASE envs' = envs /\ EvalSentences(conts, sentences, job.env, job.k)
  BY <1>1, <1>2, <1>3, <1>4, SentencesStep
<1>5. CASE /\ envs' = Append(envs, ChildEnv(job.env, NoBindings))
           /\ EvalSentences(conts, sentences, Len(envs) + 1, job.k)
  <2>1. Len(envs') = Len(envs) + 1
    BY <1>5, InvFacts DEF EnvsOK
  <2>2. Len(conts') \in Nat /\ Len(conts) <= Len(conts')
    BY <1>5, EvalSentencesGrows, InvFacts DEF ContsOK
  <2>3. Grows
    BY <1>1, <2>1, <2>2, InvFacts DEF Grows
  <2>4. /\ sentences \in Seq(Words') /\ Len(envs) + 1 \in ProcessEnv .. Len(envs')
        /\ Undef \in Words' /\ Words \subseteq Words'
    BY <1>3, <2>1, <2>3, WordsGrow, SeqMono, InvFacts DEF ProcessEnv
  <2>5. EnvsStep
    <3>1. EnvsOK(envs, Words') /\ NoBindings \in [Names -> Words']
      BY <2>4, EnvsMono, InvFacts DEF NoBindings
    <3>2. ChildEnv(job.env, NoBindings) \in EnvsOf(Words', Len(envs) + 1)
      BY <1>2, <3>1, ChildEnvType
    <3> QED
      BY <1>5, <3>1, <3>2, EnvsAppend DEF EnvsStep
  <2>6. ContsStep /\ JobStep /\ depth' \in Nat
    BY <1>2, <1>5, <2>3, <2>4, ContsAsKept, EvalSentencesStep
  <2> QED
    BY <1>1, <2>3, <2>5, <2>6, NodesKept, MemosKept, ObjectsKept, Conclude DEF RestStep
<1> QED
  BY <1>1, <1>4, <1>5

\* Evaluating a quasiquote preserves the invariant.
LEMMA EvalQuasiStep ==
  ASSUME Inv, EvalQuasi
  PROVE  Inv' /\ Kept
<1> DEFINE items == nodes[Expr.id].items
<1>1. /\ Evaluating /\ HasTag(Expr, "quasi")
      /\ \/ /\ items # <<>>
            /\ conts' = Append(conts, [Frame("QUASI_LIST_ITEMS", job.env, job.k) EXCEPT
                                         !.rest = Tail(items)])
            /\ Bounce(Job("QUASI_ITEM", Head(items), job.env, Len(conts) + 1))
            /\ UNCHANGED <<nodes, envs, memos, objects, currCode>>
         \/ Stop("EXIT")
  BY DEF EvalQuasi, NextCont
<1>2. job.env \in ProcessEnv .. Len(envs) /\ job.k \in 1 .. Len(conts) /\ items \in Seq(Words)
  BY <1>1, EvaluatingFacts, TagFacts, NodeFields
<1> HIDE DEF items
<1>3. ASSUME items # <<>>,
             conts' = Append(conts, [Frame("QUASI_LIST_ITEMS", job.env, job.k) EXCEPT
                                       !.rest = Tail(items)]),
             Bounce(Job("QUASI_ITEM", Head(items), job.env, Len(conts) + 1)),
             UNCHANGED <<nodes, envs, memos, objects, currCode>>
      PROVE  Inv' /\ Kept
  <2>1. /\ "QUASI_ITEM" \in DOMAIN FrameOf /\ FrameOf["QUASI_ITEM"] = "QUASI_LIST_ITEMS"
    BY DEF FrameOf
  <2>2. conts' = Append(conts, [type |-> "QUASI_LIST_ITEMS", env |-> job.env, cont |-> job.k,
                                subj |-> Undef, rest |-> Tail(items), evaled |-> <<>>,
                                callback |-> "none", memo |-> 0])
    BY <1>3, FrameRest
  <2>3. Head(items) \in Words /\ Tail(items) \in Seq(Words)
    BY <1>2, <1>3
  <2>4. Grows => /\ Undef \in Words' /\ Tail(items) \in Seq(Words') /\ <<>> \in Seq(Words')
                 /\ Head(items) \in Words'
    BY <2>3, WordsGrow, SeqMono
  <2>5. Len(nodes') \in Nat /\ Len(nodes) <= Len(nodes') /\ (Grows => NodesStep)
    BY <1>3, SamePush
  <2> QED
    BY <1>2, <1>3, <2>1, <2>2, <2>4, <2>5, PushStep
<1>4. "EXIT" \in FinalOps
  BY DEF FinalOps
<1> QED
  BY <1>1, <1>3, <1>4, StopStep

-----------------------------------------------------------------------------
\* The end of the program preserves the invariant.
LEMMA RunReturnStep ==
  ASSUME Inv, RunReturn
  PROVE  Inv' /\ Kept
<1>1. Invoking /\ Bounce(Final("LAND", job.v)) /\ UNCHANGED <<heap, currCode>>
  BY DEF RunReturn, Resumes
<1>2. job.v \in Words /\ Len(envs) \in Nat /\ Len(conts) \in Nat
  BY <1>1, InvokedFacts, InvFacts
<1>3. JobOK(job', Words, Len(envs), Len(conts)) /\ JobFits'
  BY <1>1, <1>2, FinalJob DEF Bounce, FinalOps
<1> QED
  BY <1>1, <1>3, JobOnly DEF Bounce

\* So does the next sentence of a block.
LEMMA RunSentenceListStep ==
  ASSUME Inv, RunSentenceList
  PROVE  Inv' /\ Kept
<1>1. Invoking /\ Invoked.type # "RETURN" /\ UNCHANGED <<nodes, envs, memos, objects, currCode>>
  BY DEF RunSentenceList, Resumes
<1>2. /\ job.v \in Words /\ Invoked.env \in ProcessEnv .. Len(envs)
      /\ Invoked.rest \in Seq(Words) /\ Invoked.cont \in 1 .. Len(conts)
  BY <1>1, InvokedFacts
<1> QED
  BY <1>1, <1>2, SentencesStep, AnswerOnly DEF RunSentenceList

\* SplitClauses takes at least one word and no more than there are.
LEMMA ClauseLen ==
  ASSUME NEW W, NEW words \in Seq(W), words # <<>>
  PROVE  FirstClauseLen(words) \in 1 .. Len(words)
<1> DEFINE E == ClauseEnds(words)
<1>0. Len(words) \in Nat /\ Len(words) # 0
  OBVIOUS
<1>1. E # {} => Min(E) \in 2 .. Len(words)
  <2>1. E \in SUBSET Nat /\ E \subseteq 2 .. Len(words)
    BY <1>0 DEF ClauseEnds
  <2> HIDE DEF E
  <2> QED
    BY <2>1, MinOf
<1> HIDE DEF E
<1> QED
  BY <1>0, <1>1 DEF FirstClauseLen, E

\* A clause and what follows it are made of the words of the sentence.
LEMMA ClauseTypes ==
  ASSUME NEW W, NEW words \in Seq(W), words # <<>>
  PROVE  /\ FirstClause(words) \in Seq(W) /\ FirstClause(words) # <<>>
         /\ AfterFirstClause(words) \in Seq(W)
<1> DEFINE n == FirstClauseLen(words)
<1>1. n \in 1 .. Len(words) /\ Len(words) \in Nat
  BY ClauseLen
<1> HIDE DEF n
<1>2. \A i \in 1 .. Len(words) : words[i] \in W
  OBVIOUS
<1>3. FirstClause(words) \in Seq(W) /\ Len(FirstClause(words)) = n
  <2>1. 1 \in 1 .. Len(words) + 1 /\ n \in 0 .. Len(words) /\ \A i \in 1 .. n : words[i] \in W
    BY <1>1, <1>2
  <2>2. SubSeq(words, 1, n) \in Seq(W) /\ Len(SubSeq(words, 1, n)) = n
    BY <1>1, <2>1, SubSeqProperties
  <2> QED
    BY <2>2 DEF FirstClause, n
<1>4. AfterFirstClause(words) \in Seq(W)
  <2>1. \A m \in {n + 1, n + 2} : SubSeq(words, m, Len(words)) \in Seq(W)
    <3> SUFFICES ASSUME NEW m \in {n + 1, n + 2} PROVE SubSeq(words, m, Len(words)) \in Seq(W)
      OBVIOUS
    <3>1. m \in 1 .. Len(words) + 2 /\ \A i \in m .. Len(words) : words[i] \in W
      BY <1>1, <1>2
    <3>2. CASE m \in 1 .. Len(words) + 1
      BY <1>1, <3>1, <3>2, SubSeqProperties
    <3>3. CASE m = Len(words) + 2
      <4>1. m > Len(words)
        BY <1>1, <3>3
      <4>2. SubSeq(words, m, Len(words)) = <<>>
        BY <1>1, <4>1
      <4> QED
        BY <4>2
    <3> QED
      BY <1>1, <3>1, <3>2, <3>3
  <2> QED
    BY <2>1 DEF AfterFirstClause, n
<1> QED
  BY <1>1, <1>3, <1>4

\* The next clause of a sentence preserves the invariant.
LEMMA NextClauseStep ==
  ASSUME Inv, RunSubj \/ RunClauseList
  PROVE  Inv' /\ Kept
<1> DEFINE rest == Invoked.rest
<1>1. /\ Invoking /\ Invoked.type # "RETURN" /\ nodes' = nodes
      /\ UNCHANGED <<nodes, envs, memos, objects, currCode>>
      /\ \/ Bounce(Run(job.v, Invoked.cont)) /\ UNCHANGED conts
         \/ /\ rest # <<>>
            /\ conts' = Append(conts, [Frame("CLAUSE_LIST", Invoked.env, Invoked.cont) EXCEPT
                                         !.subj = job.v, !.rest = AfterFirstClause(rest)])
            /\ Bounce(ClauseList(FirstClause(rest), Invoked.env, Len(conts) + 1))
  BY DEF RunSubj, RunClauseList, Resumes, NextClause, NextCont
<1>2. /\ job.v \in Words /\ Invoked.env \in ProcessEnv .. Len(envs)
      /\ rest \in Seq(Words) /\ Invoked.cont \in 1 .. Len(conts)
  BY <1>1, InvokedFacts
<1> HIDE DEF rest
<1>3. CASE Bounce(Run(job.v, Invoked.cont)) /\ UNCHANGED conts
  BY <1>1, <1>2, <1>3, AnswerOnly
<1>4. CASE /\ rest # <<>>
           /\ conts' = Append(conts, [Frame("CLAUSE_LIST", Invoked.env, Invoked.cont) EXCEPT
                                        !.subj = job.v, !.rest = AfterFirstClause(rest)])
           /\ Bounce(ClauseList(FirstClause(rest), Invoked.env, Len(conts) + 1))
  <2>1. /\ FirstClause(rest) \in Seq(Words) /\ FirstClause(rest) # <<>>
        /\ AfterFirstClause(rest) \in Seq(Words)
    BY <1>2, <1>4, ClauseTypes
  <2> DEFINE r == AfterFirstClause(rest)
             c == [Frame("CLAUSE_LIST", Invoked.env, Invoked.cont) EXCEPT !.subj = job.v,
                                                                          !.rest = r]
  <2>2. conts' = Append(conts, c)
    BY <1>4
  <2>3. c = [Frame("CLAUSE_LIST", Invoked.env, Invoked.cont) EXCEPT !.subj = job.v, !.rest = r]
    OBVIOUS
  <2> HIDE DEF r, c
  <2>4. c = [type |-> "CLAUSE_LIST", env |-> Invoked.env, cont |-> Invoked.cont,
             subj |-> job.v, rest |-> r, evaled |-> <<>>, callback |-> "none", memo |-> 0]
    BY ONLY <2>3 DEF Frame
  <2>5. conts' = Append(conts, [type |-> "CLAUSE_LIST", env |-> Invoked.env,
                                cont |-> Invoked.cont, subj |-> job.v,
                                rest |-> AfterFirstClause(rest), evaled |-> <<>>,
                                callback |-> "none", memo |-> 0])
    BY <2>2, <2>4 DEF r
  <2>6. "CLAUSE_LIST" \in DOMAIN FrameOf /\ FrameOf["CLAUSE_LIST"] = "CLAUSE_LIST"
    BY DEF FrameOf
  <2>7. Grows => /\ job.v \in Words' /\ AfterFirstClause(rest) \in Seq(Words')
                 /\ <<>> \in Seq(Words') /\ FirstClause(rest) \in Seq(Words')
    BY <1>2, <2>1, WordsGrow, SeqMono
  <2>8. Len(nodes') \in Nat /\ Len(nodes) <= Len(nodes') /\ (Grows => NodesStep)
    BY <1>1, SamePush
  <2> QED
    BY <1>1, <1>2, <1>4, <2>1, <2>5, <2>6, <2>7, <2>8, PushStep
<1> QED
  BY <1>1, <1>3, <1>4

\* The next argument, or item of a quasiquoted list, preserves the invariant:
\* the new frame belongs to the clause the old one did.
LEMMA NextItemStep ==
  ASSUME Inv, NEW op \in {"ARG_LIST", "QUASI_ITEM"}, Resumes(FrameOf[op]), NextItem(op)
  PROVE  Inv' /\ Kept
<1> DEFINE rest == Invoked.rest
           c == [Invoked EXCEPT !.rest = Tail(rest), !.evaled = <<job.v>> \o Invoked.evaled]
<1>1. /\ Invoking /\ Invoked.type = FrameOf[op] /\ Invoked.type # "RETURN" /\ rest # <<>>
      /\ Invoked.type # "NATIVE_CALLBACK"
      /\ conts' = Append(conts, c)
      /\ Bounce(Job(op, Head(rest), Invoked.env, Len(conts) + 1))
      /\ nodes' = nodes /\ UNCHANGED <<envs, memos, objects, currCode>>
  BY DEF NextItem, Resumes, FrameOf, NextCont
<1>2. /\ job.v \in Words /\ Invoked.env \in ProcessEnv .. Len(envs)
      /\ rest \in Seq(Words) /\ Invoked.cont \in 1 .. Len(conts)
      /\ Invoked.subj \in Words /\ Invoked.evaled \in Seq(Words)
      /\ Invoked \in ContsOf(Words, Len(envs), Len(conts), Len(memos)) /\ ContShape(Invoked)
  BY <1>1, InvokedFacts
<1>3. /\ c.type = Invoked.type /\ c.env = Invoked.env /\ c.cont = Invoked.cont
      /\ c.subj = Invoked.subj /\ c.callback = Invoked.callback /\ c.memo = Invoked.memo
  BY <1>2 DEF ContsOf
<1>4. Invoked.memo = 0
  BY <1>1, <1>2 DEF ContShape
<1>5. Invoked.type = "CLAUSE_ARGS" =>
        /\ conts[Invoked.cont].type = "CLAUSE_LIST"
        /\ conts[Invoked.cont].subj = Invoked.subj
        /\ conts[Invoked.cont].env = Invoked.env
  BY <1>1, InvokedFacts, InvFacts DEF Invoked, TreeOK
<1>6. /\ Tail(rest) \in Seq(Words) /\ Head(rest) \in Words
      /\ <<job.v>> \o Invoked.evaled \in Seq(Words)
  BY <1>1, <1>2
<1>7. c \in ContsOf(Words, Len(envs), Len(conts), Len(memos))
  BY <1>2, <1>6 DEF ContsOf
<1> HIDE DEF c
<1>8. Len(conts') = Len(conts) + 1
  BY <1>1, InvFacts DEF ContsOK
<1>9. Grows
  BY <1>1, <1>8, InvFacts DEF Grows, objects
<1>10. /\ ContsOK(conts, Words', Len(envs'), Len(memos')) /\ TreeOK(conts)
       /\ Frozen(conts, conts)
  BY <1>9, ContsAsKept
<1>11. c \in ContsOf(Words', Len(envs'), Len(conts) + 1, Len(memos'))
  <2>1. /\ Len(conts) + 1 \in Nat /\ Len(conts) <= Len(conts) + 1 /\ Words \subseteq Words'
    BY <1>9, WordsGrow, InvFacts
  <2> QED
    BY <1>7, <1>9, <2>1, ContMono, InvFacts DEF Grows
<1>12. ContShape(c)
  BY <1>2, <1>3 DEF ContShape
<1>13. /\ ContsOK(conts', Words', Len(envs'), Len(memos')) /\ TreeOK(conts')
       /\ Frozen(conts, conts') /\ conts'[Len(conts) + 1] = c
  <2>1. Len(envs') \in Nat /\ Len(memos') \in Nat
    BY <1>9 DEF Grows
  <2>2. /\ c.type # "RETURN" /\ c.cont \in 1 .. Len(conts) /\ c.memo = 0
        /\ c.type = "CLAUSE_ARGS" => /\ conts[c.cont].type = "CLAUSE_LIST"
                                     /\ conts[c.cont].subj = c.subj
                                     /\ conts[c.cont].env = c.env
    BY <1>1, <1>2, <1>3, <1>4, <1>5
  <2>3. /\ ContsOK(Append(conts, c), Words', Len(envs'), Len(memos'))
        /\ TreeOK(Append(conts, c)) /\ Frozen(conts, Append(conts, c))
        /\ Append(conts, c)[Len(conts) + 1] = c
    BY <1>10, <1>11, <1>12, <2>1, <2>2, AppendCont
  <2> QED
    BY <1>1, <2>3
<1>14. JobStep /\ depth' \in Nat
  <2>1. /\ job' = Job(op, Head(rest), Invoked.env, Len(conts')) /\ depth' = 0
        /\ op \in DOMAIN FrameOf \ {"CLAUSE_LIST"}
    BY <1>1, <1>8 DEF Bounce, FrameOf
  <2>2. /\ Head(rest) \in Words' /\ Invoked.env \in ProcessEnv .. Len(envs')
        /\ Len(conts') # 0
        /\ conts'[Len(conts')].type = FrameOf[op] /\ conts'[Len(conts')].env = Invoked.env
    BY <1>1, <1>2, <1>3, <1>6, <1>8, <1>9, <1>13, WordsGrow, InvFacts
  <2>3. ContsStep
    BY <1>13 DEF ContsStep
  <2> HIDE DEF rest
  <2> QED
    BY <1>9, <2>1, <2>2, <2>3, PushedJob
<1>15. ContsStep
  BY <1>13 DEF ContsStep
<1> QED
  BY <1>1, <1>9, <1>14, <1>15, NodesKept, EnvsKept, MemosKept, ObjectsKept, Conclude DEF RestStep

\* The arguments collected are words, and there is one.
LEMMA EvaluatedType ==
  ASSUME Inv, Invoking
  PROVE  Evaluated \in Seq(Words) /\ Evaluated # <<>>
<1> DEFINE s == <<job.v>> \o Invoked.evaled
<1>1. s \in Seq(Words) /\ Len(s) >= 1 /\ Len(s) \in Nat
  BY InvokedFacts
<1>2. Evaluated = [i \in 1 .. Len(s) |-> s[Len(s) - i + 1]]
  BY DEF Evaluated, Reverse
<1> HIDE DEF s
<1>3. \A i \in 1 .. Len(s) : s[Len(s) - i + 1] \in Words
  BY <1>1
<1> DEFINE r == [i \in 1 .. Len(s) |-> s[Len(s) - i + 1]]
<1>4. r \in Seq(Words) /\ Len(r) = Len(s)
  BY <1>1, <1>3
<1>5. r # <<>>
  BY <1>1, <1>4
<1> QED
  BY <1>2, <1>4, <1>5

\* Collecting the arguments of a clause and applying it preserves the
\* invariant.
LEMMA RunClauseArgsStep ==
  ASSUME Inv, RunClauseArgs
  PROVE  Inv' /\ Kept
<1>1. CASE NextItem("ARG_LIST")
  <2>1. Resumes(FrameOf["ARG_LIST"])
    BY DEF RunClauseArgs, FrameOf
  <2> QED
    BY <1>1, <2>1, NextItemStep
<1>2. CASE ApplySubjVerbAndObjects(Invoked.subj, Evaluated, Invoked.env, Invoked.cont)
  <2>1. Invoking /\ Invoked.type # "RETURN"
    BY DEF RunClauseArgs, Resumes
  <2>2. /\ Invoked.subj \in Words /\ Invoked.env \in 1 .. Len(envs)
        /\ Invoked.cont \in 1 .. Len(conts)
    BY <2>1, InvokedFacts, InvFacts DEF ProcessEnv
  <2> QED
    BY <1>2, <2>1, <2>2, EvaluatedType, ApplyStep
<1> QED
  BY <1>1, <1>2 DEF RunClauseArgs

\* Allocating one well-formed node meets the obligation for nodes.
LEMMA NodeAdded ==
  ASSUME Inv, NEW n \in NodesOf(Words, Len(envs)), NodeShape(n), nodes' = Append(nodes, n)
  PROVE  /\ Len(nodes') = Len(nodes) + 1 /\ Len(nodes') \in Nat /\ Len(nodes) <= Len(nodes')
         /\ Grows => NodesStep /\ NodeRef(Len(nodes) + 1) \in Words'
<1>1. Len(nodes') = Len(nodes) + 1 /\ Len(nodes) \in Nat
  BY InvFacts DEF NodesOK
<1>2. ASSUME Grows PROVE NodesStep
  <2>1. /\ Len(envs) \in Nat /\ Len(envs') \in Nat /\ Len(envs) <= Len(envs')
        /\ Words \subseteq Words'
    BY <1>2, WordsGrow, InvFacts DEF Grows
  <2>2. NodesOK(nodes, Words', Len(envs')) /\ n \in NodesOf(Words', Len(envs'))
    BY <2>1, NodesMono, NodeMono, InvFacts
  <2>3. /\ NodesOK(nodes', Words', Len(envs'))
        /\ \A i \in DOMAIN nodes : nodes'[i] = nodes[i]
    BY <2>1, <2>2, NodesAppend
  <2>4. \A i \in DOMAIN nodes : nodes[i] \in NodesOf(Words, Len(envs))
    BY InvFacts DEF NodesOK
  <2> QED
    BY <2>3, <2>4, SameText DEF NodesStep
<1>3. ASSUME Grows PROVE NodeRef(Len(nodes) + 1) \in Words'
  BY <1>1, <1>3, ExtraFacts
<1> QED
  BY <1>1, <1>2, <1>3

\* Collecting the items of a quasiquoted list preserves the invariant.
LEMMA RunQuasiListItemsStep ==
  ASSUME Inv, RunQuasiListItems
  PROVE  Inv' /\ Kept
<1>1. CASE NextItem("QUASI_ITEM")
  <2>1. Resumes(FrameOf["QUASI_ITEM"])
    BY DEF RunQuasiListItems, FrameOf
  <2> QED
    BY <1>1, <2>1, NextItemStep
<1>2. CASE /\ nodes' = Append(nodes, ListNode(Evaluated))
           /\ Bounce(Run(NodeRef(Len(nodes) + 1), Invoked.cont))
           /\ UNCHANGED <<envs, conts, memos, objects, currCode>>
  <2>1. Invoking /\ Invoked.type # "RETURN"
    BY DEF RunQuasiListItems, Resumes
  <2>2. Invoked.cont \in 1 .. Len(conts) /\ Undef \in Words /\ Len(envs) \in Nat
    BY <2>1, InvokedFacts, ConstantWords, InvFacts
  <2>3. ListNode(Evaluated) \in NodesOf(Words, Len(envs)) /\ NodeShape(ListNode(Evaluated))
    BY <2>1, <2>2, EvaluatedType, ListNodeType
  <2>4. /\ Len(nodes') \in Nat /\ Len(nodes) <= Len(nodes')
        /\ Grows => NodesStep /\ NodeRef(Len(nodes) + 1) \in Words'
    <3> DEFINE n == ListNode(Evaluated)
    <3>1. nodes' = Append(nodes, n) /\ n \in NodesOf(Words, Len(envs)) /\ NodeShape(n)
      BY <1>2, <2>3
    <3> HIDE DEF n
    <3> QED
      BY <3>1, NodeAdded
  <2>5. Grows
    BY <1>2, <2>4, InvFacts DEF Grows, objects
  <2>6. JobStep /\ depth' \in Nat
    <3>1. Len(envs') \in Nat /\ Len(conts') \in Nat /\ Invoked.cont \in 1 .. Len(conts')
      BY <1>2, <2>2, <2>5 DEF Grows
    <3> QED
      BY <1>2, <2>4, <2>5, <3>1, RunJob DEF JobStep, Bounce
  <2> QED
    BY <1>2, <2>4, <2>5, <2>6, EnvsKept, ContsKept, MemosKept, ObjectsKept, Conclude DEF RestStep
<1> QED
  BY <1>1, <1>2 DEF RunQuasiListItems

-----------------------------------------------------------------------------
\* Starting on the arguments of a clause preserves the invariant: the frame
\* that collects them belongs to that clause.
LEMMA ClauseArgsStep ==
  ASSUME Inv, job.op = "CLAUSE_LIST", Len(nodes') \in Nat, Len(nodes) <= Len(nodes'),
         Grows => NodesStep, NEW first, Grows => first \in Words', EvalClauseArgs(first)
  PROVE  Inv' /\ Kept
<1> DEFINE subj == conts[job.k].subj
           rest == Tail(job.words)
           c == [Frame("CLAUSE_ARGS", job.env, job.k) EXCEPT !.subj = subj, !.rest = rest]
<1>1. /\ conts' = Append(conts, c)
      /\ Bounce(Job("ARG_LIST", first, job.env, Len(conts) + 1))
      /\ UNCHANGED <<envs, memos, objects, currCode>>
  BY DEF EvalClauseArgs, NextCont
<1>2. /\ job.words \in Seq(Words) /\ job.words # <<>> /\ job.k \in 1 .. Len(conts)
      /\ job.env \in ProcessEnv .. Len(envs)
  BY JobFacts DEF LoopOps, CallOps
<1>3. conts[job.k].type = "CLAUSE_LIST" /\ conts[job.k].env = job.env
  BY InvFacts DEF JobFits, FrameOf
<1>4. subj \in Words /\ rest \in Seq(Words)
  BY <1>2, InvFacts, ContFields DEF ContsOK
<1> HIDE DEF c
<1>5. c = [type |-> "CLAUSE_ARGS", env |-> job.env, cont |-> job.k, subj |-> subj, rest |-> rest,
           evaled |-> <<>>, callback |-> "none", memo |-> 0]
  <2>1. c = [Frame("CLAUSE_ARGS", job.env, job.k) EXCEPT !.subj = subj, !.rest = rest]
    BY DEF c
  <2> HIDE DEF subj, rest
  <2> QED
    BY ONLY <2>1 DEF Frame
<1>6. subj = conts[job.k].subj
  OBVIOUS
<1> HIDE DEF subj, rest
<1>7. conts' = Append(conts, [type |-> "CLAUSE_ARGS", env |-> job.env, cont |-> job.k,
                              subj |-> subj, rest |-> rest, evaled |-> <<>>,
                              callback |-> "none", memo |-> 0])
  BY <1>1, <1>5
<1>8. /\ "ARG_LIST" \in DOMAIN FrameOf /\ FrameOf["ARG_LIST"] = "CLAUSE_ARGS"
      /\ "ARG_LIST" # "CLAUSE_LIST"
  BY DEF FrameOf
<1>9. Grows => subj \in Words' /\ rest \in Seq(Words') /\ <<>> \in Seq(Words')
  BY <1>4, WordsGrow, SeqMono
<1> QED
  BY <1>1, <1>2, <1>3, <1>6, <1>7, <1>8, <1>9, PushStep

\* The loop preserves the invariant for a clause that starts with a marker.
LEMMA ClauseListMarkerStep ==
  ASSUME Inv, ClauseListMarker
  PROVE  Inv' /\ Kept
<1>1. /\ job.op = "CLAUSE_LIST" /\ job.words \in Seq(Words) /\ job.words # <<>>
  BY JobFacts DEF ClauseListMarker
<1>2. job.words[1] \in Words /\ (Len(job.words) > 1 => job.words[2] \in Words)
  BY <1>1
<1>3. Grows => job.words[1] \in Words'
  BY <1>2, WordsGrow
<1>4. CASE Fault
  BY <1>4, FaultStep
<1>5. CASE Len(job.words) > 1 /\ AsIdentifier(job.words[2]) /\ EvalClauseArgs(job.words[1])
  <2>1. Len(nodes') = Len(nodes) /\ (Grows => NodesStep)
    BY <1>2, <1>5, AsIdentifierStep
  <2>2. Len(nodes') \in Nat /\ Len(nodes) <= Len(nodes')
    BY <2>1, InvFacts
  <2> QED
    BY <1>1, <1>3, <1>5, <2>1, <2>2, ClauseArgsStep
<1>6. CASE EvalClauseArgs(job.words[1]) /\ UNCHANGED nodes
  BY <1>1, <1>3, <1>6, SamePush, ClauseArgsStep
<1> QED
  BY <1>4, <1>5, <1>6 DEF ClauseListMarker

\* So it does for one that starts with data.
LEMMA ClauseListDataStep ==
  ASSUME Inv, ClauseListData
  PROVE  Inv' /\ Kept
<1> DEFINE first == job.words[1]
           type == IF IsPair(first) THEN "LIST" ELSE "CELL"
           q == QuoteNode(type, first)
<1>1. /\ job.op = "CLAUSE_LIST" /\ job.words \in Seq(Words) /\ job.words # <<>>
      /\ \/ AsIdentifier(first) /\ EvalClauseArgs(first)
         \/ nodes' = Append(nodes, q) /\ EvalClauseArgs(NodeRef(Len(nodes) + 1))
  BY JobFacts DEF ClauseListData
<1>2. first \in Words
  BY <1>1
<1>3. type \in {"LIST", "CELL"} /\ Undef \in Words /\ Len(envs) \in Nat
  BY ConstantWords, InvFacts
<1>4. q \in NodesOf(Words, Len(envs)) /\ NodeShape(q)
  <2> HIDE DEF type, first
  <2> QED
    BY <1>2, <1>3, QuoteNodeType
<1> HIDE DEF q, first
<1>5. CASE AsIdentifier(first) /\ EvalClauseArgs(first)
  <2>1. Len(nodes') = Len(nodes) /\ (Grows => NodesStep)
    BY <1>2, <1>5, AsIdentifierStep
  <2>2. Len(nodes') \in Nat /\ Len(nodes) <= Len(nodes') /\ (Grows => first \in Words')
    BY <1>2, <2>1, InvFacts, WordsGrow
  <2> QED
    BY <1>1, <1>5, <2>1, <2>2, ClauseArgsStep
<1>6. CASE nodes' = Append(nodes, q) /\ EvalClauseArgs(NodeRef(Len(nodes) + 1))
  <2>1. /\ Len(nodes') \in Nat /\ Len(nodes) <= Len(nodes')
        /\ Grows => NodesStep /\ NodeRef(Len(nodes) + 1) \in Words'
    BY <1>4, <1>6, NodeAdded
  <2> QED
    BY <1>1, <1>6, <2>1, ClauseArgsStep
<1> QED
  BY <1>1, <1>5, <1>6

\* So it does for a quasiquoted item that is data and for a subject no branch
\* takes.
LEMMA LoopOnlySteps ==
  ASSUME Inv, QuasiItem \/ SubjectIgnored
  PROVE  Inv' /\ Kept
<1>1. CASE QuasiItem
  <2>1. job.op = "QUASI_ITEM" /\ GoOn(job.v, job.k)
    BY <1>1 DEF QuasiItem, GoOn
  <2>2. job.v \in Words /\ job.k \in 1 .. Len(conts)
    BY <2>1, JobFacts DEF LoopOps, CallOps
  <2> QED
    BY <2>1, <2>2, GoOnStep
<1>2. CASE SubjectIgnored
  <2>1. job' = job /\ depth' = 0 /\ UNCHANGED <<heap, currCode>> /\ UNCHANGED conts
    BY <1>2 DEF SubjectIgnored, Bounce, heap
  <2>2. JobOK(job', Words, Len(envs), Len(conts)) /\ JobFits'
    BY <2>1, InvFacts DEF JobFits
  <2> QED
    BY <2>1, <2>2, JobOnly
<1> QED
  BY <1>1, <1>2

-----------------------------------------------------------------------------
\* The names of the native procedures are names.
LEMMA NativesType ==
  /\ GlobalNatives \in Seq(Names) /\ AccessorNatives \in Seq(Names)
  /\ Natives \in Seq(Names)
  /\ Len(Natives) = Len(GlobalNatives) + Len(AccessorNatives)
<1>1. GlobalNatives \in Seq(Names)
  <2>1. {"+", "<", "not", "set-dispatcher-id"} \subseteq Names
    BY NamesAssumption DEF ReservedNames
  <2>2. \A a, b, c, d \in Names : <<a, b, c, d>> \in Seq(Names)
    OBVIOUS
  <2> QED
    BY ONLY <2>1, <2>2, Zenon DEF GlobalNatives
<1>2. AccessorNatives \in Seq(Names)
  <2>1. {"init-prop", "init-dir", "unbox", "set-val", "has-key", "at-key", "put-key-val",
         "put-key-prop"} \subseteq Names
    BY NamesAssumption DEF ReservedNames
  <2>2. \A a, b, c, d, e, f, g, h \in Names : <<a, b, c, d, e, f, g, h>> \in Seq(Names)
    OBVIOUS
  <2> QED
    BY ONLY <2>1, <2>2, Zenon DEF AccessorNatives
<1> QED
  BY <1>1, <1>2 DEF Natives

\* The native procedures are well-formed nodes.
LEMMA NativeNodesType ==
  ASSUME NEW W, NEW ne \in Nat, Undef \in W
  PROVE  LET ns == [i \in DOMAIN Natives |-> NativeNode(Natives[i])]
         IN  NodesOK(ns, W, ne) /\ Len(ns) = Len(Natives)
<1>1. /\ DOMAIN Natives = 1 .. Len(Natives) /\ Len(Natives) \in Nat
      /\ \A i \in DOMAIN Natives : Natives[i] \in Names
  BY NativesType
<1>2. ASSUME NEW name \in Names
      PROVE  NativeNode(name) \in NodesOf(W, ne) /\ NodeShape(NativeNode(name))
  <2>1. Node("procedure") \in NodesOf(W, ne)
    BY NodeType DEF NodeTags
  <2> DEFINE typed == [Node("procedure") EXCEPT !.type = "NATIVE_FUNC"]
             n == [typed EXCEPT !.name = name]
  <2>2. typed \in NodesOf(W, ne) /\ typed.tag = "procedure" /\ typed.type = "NATIVE_FUNC"
    <3>1. typed \in NodesOf(W, ne)
      BY <2>1, NodeWith DEF NodeTypes
    <3>2. typed.tag = "procedure" /\ typed.type = "NATIVE_FUNC"
      BY DEF Node
    <3> QED
      BY <3>1, <3>2
  <2>3. NativeNode(name) = n
    BY DEF NativeNode
  <2> HIDE DEF typed
  <2>4. n \in NodesOf(W, ne) /\ n.tag = "procedure" /\ n.type = "NATIVE_FUNC"
    <3>1. n \in NodesOf(W, ne)
      BY <2>2, NodeWith
    <3>2. n.tag = typed.tag /\ n.type = typed.type
      BY <2>2 DEF NodesOf
    <3> QED
      BY <2>2, <3>1, <3>2
  <2> QED
    BY <2>3, <2>4 DEF NodeShape, WellBuilt
<1> QED
  BY <1>1, <1>2 DEF NodesOK

\* The bindings a module exports are words.
LEMMA ExportsType ==
  ASSUME NEW W, NEW names, NEW len \in Nat, DOMAIN names = 1 .. len, NEW n \in Nat, Undef \in W,
         \A i \in n + 1 .. n + len : NodeRef(i) \in W
  PROVE  Exports(names, n) \in [Names -> W]
<1> SUFFICES ASSUME NEW name \in Names, name \in Range(names)
             PROVE  NodeRef(n + CHOOSE i \in DOMAIN names : names[i] = name) \in W
  BY DEF Exports
<1> DEFINE i == CHOOSE i \in DOMAIN names : names[i] = name
<1>1. \E j \in DOMAIN names : names[j] = name
  BY DEF Range
<1>2. i \in DOMAIN names
  BY <1>1
<1> HIDE DEF i
<1>3. n + i \in n + 1 .. n + len
  BY <1>2
<1> QED
  BY <1>3 DEF i

\* Well-formed nodes after well-formed nodes.
LEMMA ConcatNodes ==
  ASSUME NEW W, NEW ne, NEW s, NEW t, NodesOK(s, W, ne), NodesOK(t, W, ne)
  PROVE  NodesOK(s \o t, W, ne) /\ Len(s \o t) = Len(s) + Len(t)
<1>1. /\ s \in Seq(NodesOf(W, ne)) /\ t \in Seq(NodesOf(W, ne))
      /\ \A i \in DOMAIN s : NodeShape(s[i])
      /\ \A i \in DOMAIN t : NodeShape(t[i])
  BY DEF NodesOK
<1>2. s \o t \in Seq(NodesOf(W, ne)) /\ Len(s \o t) = Len(s) + Len(t)
  BY <1>1
<1>3. ASSUME NEW i \in DOMAIN (s \o t) PROVE NodeShape((s \o t)[i])
  <2>1. CASE i <= Len(s)
    <3>1. i \in DOMAIN s /\ (s \o t)[i] = s[i]
      BY <1>1, <1>2, <2>1
    <3> QED
      BY <1>1, <3>1
  <2>2. CASE i > Len(s)
    <3>1. i - Len(s) \in DOMAIN t /\ (s \o t)[i] = t[i - Len(s)]
      BY <1>1, <1>2, <2>2
    <3> QED
      BY <1>1, <3>1
  <2> QED
    BY <1>1, <1>2, <2>1, <2>2
<1> QED
  BY <1>2, <1>3 DEF NodesOK

\* The continuations a run starts with are well formed and a tree.
LEMMA InitConts ==
  ASSUME NEW W, Undef \in W, NEW rest \in Seq(W),
         LET first == Frame("RETURN", ProcessEnv, 0)
             blockK == [Frame("SENTENCE_LIST", ProcessEnv, ReturnCont) EXCEPT !.rest = rest]
         IN  conts = <<first>> \/ conts = <<first, blockK>>
  PROVE  ContsOK(conts, W, 2, 0) /\ TreeOK(conts)
<1> DEFINE first == Frame("RETURN", ProcessEnv, 0)
           blockK == [Frame("SENTENCE_LIST", ProcessEnv, ReturnCont) EXCEPT !.rest = rest]
<1>1. first = [type |-> "RETURN", env |-> 2, cont |-> 0, subj |-> Undef, rest |-> <<>>,
               evaled |-> <<>>, callback |-> "none", memo |-> 0]
  BY DEF Frame, ProcessEnv
<1>2. blockK = [type |-> "SENTENCE_LIST", env |-> 2, cont |-> 1, subj |-> Undef, rest |-> rest,
                evaled |-> <<>>, callback |-> "none", memo |-> 0]
  <2>1. blockK = [type |-> "SENTENCE_LIST", env |-> ProcessEnv, cont |-> ReturnCont,
                  subj |-> Undef, rest |-> rest, evaled |-> <<>>, callback |-> "none",
                  memo |-> 0]
    BY FrameRest
  <2> QED
    BY <2>1 DEF ProcessEnv, ReturnCont
<1>3. \A nc \in {1, 2} : first \in ContsOf(W, 2, nc, 0) /\ blockK \in ContsOf(W, 2, nc, 0)
  <2>1. /\ {"RETURN", "SENTENCE_LIST"} \subseteq ContTypes /\ "none" \in Callbacks
        /\ <<>> \in Seq(W) /\ 2 \in 1 .. 2 /\ 0 \in 0 .. 0
    BY DEF ContTypes, Callbacks
  <2> TAKE nc \in {1, 2}
  <2>2. 0 \in 0 .. nc /\ 1 \in 0 .. nc
    OBVIOUS
  <2> HIDE DEF first, blockK
  <2>3. first \in ContsOf(W, 2, nc, 0)
    BY <1>1, <2>1, <2>2 DEF ContsOf
  <2>4. blockK \in ContsOf(W, 2, nc, 0)
    BY <1>2, <2>1, <2>2 DEF ContsOf
  <2> QED
    BY <2>3, <2>4
<1>4. ContShape(first) /\ ContShape(blockK)
  BY <1>1, <1>2 DEF ContShape, ProcessEnv
<1>5. /\ first.type = "RETURN" /\ first.memo = 0
      /\ blockK.type = "SENTENCE_LIST" /\ blockK.cont = 1 /\ blockK.memo = 0
  BY <1>1, <1>2
<1>6. conts = <<first>> \/ conts = <<first, blockK>>
  OBVIOUS
<1> HIDE DEF first, blockK
<1>7. CASE conts = <<first>>
  <2>1. /\ Len(conts) = 1 /\ DOMAIN conts = {1} /\ conts[1] = first
        /\ conts \in Seq(ContsOf(W, 2, 1, 0))
    BY <1>3, <1>7
  <2> QED
    BY <1>4, <1>5, <2>1 DEF ContsOK, TreeOK, ReturnCont
<1>8. CASE conts = <<first, blockK>>
  <2>1. /\ Len(conts) = 2 /\ DOMAIN conts = {1, 2} /\ conts[1] = first /\ conts[2] = blockK
        /\ conts \in Seq(ContsOf(W, 2, 2, 0))
    BY <1>3, <1>8
  <2> QED
    BY <1>4, <1>5, <2>1 DEF ContsOK, TreeOK, ReturnCont
<1> QED
  BY <1>6, <1>7, <1>8

\* The invariant holds initially.
LEMMA InitInv ==
  ASSUME Init
  PROVE  Inv
<1>1. PICK p \in DOMAIN Programs :
        /\ currCode = p
        /\ nodes = Programs[p].nodes \o [i \in DOMAIN Natives |-> NativeNode(Natives[i])]
        /\ accessors = <<MakeDirAccessor([NoBindings EXCEPT !["accessor"] = AccessorRef(2)]),
                         AccessorModule(Len(Programs[p].nodes))>>
        /\ envs = <<[chain |-> <<RootEnv>>, bindings |-> RootBindings(Len(Programs[p].nodes))],
                    [chain |-> <<ProcessEnv, RootEnv>>,
                     bindings |-> [NoBindings EXCEPT !["return"] = ContRef(ReturnCont)]]>>
        /\ memos = <<>>
        /\ dispatchers = [id \in {} |-> NoDispatcher]
        /\ nextMsgDispatcherId = FirstDispatcher
        /\ depth = 0
        /\ \/ /\ conts = <<Frame("RETURN", ProcessEnv, 0)>>
              /\ job = Run(True, ReturnCont)
           \/ /\ Programs[p].body # <<>>
              /\ conts = <<Frame("RETURN", ProcessEnv, 0),
                           [Frame("SENTENCE_LIST", ProcessEnv, ReturnCont) EXCEPT
                              !.rest = Tail(Programs[p].body)]>>
              /\ job = Job("BLOCK", Head(Programs[p].body), ProcessEnv, 2)
  BY DEF Init
<1> DEFINE ns == Programs[p].nodes
           body == Programs[p].body
           V == WordsOf(Len(ns), 0, 0)
           n == Len(ns)
           rest == IF body = <<>> THEN <<>> ELSE Tail(body)
<1>2. /\ ns \in Seq(NodesOf(V, 0)) /\ body \in Seq(V) /\ n \in Nat
      /\ \A i \in DOMAIN ns : NodeShape(ns[i])
  BY ProgramsAssumption DEF NodeShape
<1> HIDE DEF ns, body
<1>3. Len(conts) \in {1, 2} /\ Len(accessors) = 2 /\ Len(envs) = 2 /\ Len(memos) = 0
  BY <1>1
<1>4. NodesOK(ns, V, 0) 
  BY <1>2 DEF NodesOK
<1>5. Undef \in V
  BY <1>2, WordsBuilt
<1> HIDE DEF n
<1>6. /\ Len(nodes) = n + Len(Natives) /\ NodesOK(nodes, Words, 2)
      /\ Words = WordsOf(n + Len(Natives), Len(conts), 2)
      /\ V \subseteq Words /\ {Nil, Undef, True} \subseteq Words
      /\ Len(Natives) \in Nat
  <2> DEFINE X == WordsOf(n + Len(Natives), Len(conts), 2)
             natives == [i \in DOMAIN Natives |-> NativeNode(Natives[i])]
  <2>0. Len(Natives) \in Nat
    BY NativesType
  <2>1. V \subseteq X
    <3>1. /\ 0 \in Nat /\ 2 \in Nat /\ Len(conts) \in Nat /\ n \in Nat /\ n + Len(Natives) \in Nat
          /\ n <= n + Len(Natives) /\ 0 <= Len(conts) /\ 0 <= 2
      BY <1>2, <1>3, <2>0 DEF n
    <3> QED
      BY <3>1, WordsMono DEF n
  <2>2. {Nil, Undef, True} \subseteq X
    <3>1. Len(conts) \in Nat /\ n + Len(Natives) \in Nat /\ 2 \in Nat
      BY <1>2, <1>3, <2>0 DEF n
    <3> QED
      BY <3>1, WordsBuilt
  <2>3. NodesOK(ns, X, 2)
    <3>1. 0 \in Nat /\ 2 \in Nat /\ 0 <= 2
      OBVIOUS
    <3> HIDE DEF X, V
    <3> QED
      BY <1>4, <2>1, <3>1, NodesMono
  <2>4. NodesOK(natives, X, 2) /\ Len(natives) = Len(Natives)
    <3> HIDE DEF X
    <3> QED
      BY <2>2, NativeNodesType
  <2>5. nodes = ns \o natives
    BY <1>1 DEF ns
  <2> HIDE DEF natives, X
  <2>6. NodesOK(nodes, X, 2) /\ Len(nodes) = n + Len(Natives)
    <3>1. NodesOK(ns \o natives, X, 2) /\ Len(ns \o natives) = Len(ns) + Len(natives)
      BY ONLY <2>3, <2>4, ConcatNodes
    <3> QED
      BY <2>4, <2>5, <3>1 DEF n
  <2>7. Words = X
    BY <1>3, <2>6 DEF Words, X
  <2> QED
    BY <2>0, <2>1, <2>2, <2>6, <2>7 DEF X
<1>7. /\ \A i \in 1 .. n + Len(Natives) : NodeRef(i) \in Words
      /\ AccessorRef(1) \in Words /\ AccessorRef(2) \in Words /\ ContRef(1) \in Words
  <2>1. /\ Len(conts) \in Nat /\ n + Len(Natives) \in Nat /\ 2 \in Nat
        /\ 1 \in 1 .. 2 /\ 2 \in 1 .. 2 /\ 1 \in 1 .. Len(conts)
    <3> DEFINE m == Len(conts)
               l == Len(Natives)
    <3>1. m \in {1, 2} /\ l \in Nat /\ n \in Nat
      BY <1>2, <1>3, <1>6 DEF n
    <3> HIDE DEF m, l
    <3>2. m \in Nat /\ n + l \in Nat /\ 1 \in 1 .. m
      BY ONLY <3>1
    <3> QED
      BY <3>2 DEF m, l
  <2> QED
    BY <1>6, <2>1, WordsBuilt
<1>8. NoBindings \in [Names -> Words] /\ {"kn", "return", "accessor"} \subseteq Names
  BY <1>6, NamesAssumption DEF NoBindings, ReservedNames
<1>9. /\ Exports(GlobalNatives, n) \in [Names -> Words]
      /\ Exports(AccessorNatives, n + Len(GlobalNatives)) \in [Names -> Words]
  <2> DEFINE g == Len(GlobalNatives)
             a == Len(AccessorNatives)
  <2>1. /\ g \in Nat /\ DOMAIN GlobalNatives = 1 .. g /\ a \in Nat
        /\ DOMAIN AccessorNatives = 1 .. a /\ n \in Nat /\ Len(Natives) = g + a
    BY <1>2, NativesType DEF n
  <2> HIDE DEF g, a
  <2>2. /\ \A i \in n + 1 .. n + g : NodeRef(i) \in Words
        /\ \A i \in (n + g) + 1 .. (n + g) + a : NodeRef(i) \in Words
        /\ n + g \in Nat
    BY <1>7, <2>1
  <2>3. Undef \in Words
    BY <1>6
  <2>4. Exports(GlobalNatives, n) \in [Names -> Words]
    BY <2>1, <2>2, <2>3, ExportsType
  <2>5. Exports(AccessorNatives, n + g) \in [Names -> Words]
    BY <2>1, <2>2, <2>3, ExportsType
  <2> QED
    BY <2>4, <2>5 DEF g
<1>10. EnvsOK(envs, Words)
  <2> DEFINE e1 == [chain |-> <<RootEnv>>, bindings |-> RootBindings(n)]
             e2 == [chain |-> <<ProcessEnv, RootEnv>>,
                    bindings |-> [NoBindings EXCEPT !["return"] = ContRef(ReturnCont)]]
  <2>1. RootBindings(n) \in [Names -> Words]
    BY <1>7, <1>8, <1>9 DEF RootBindings
  <2>2. [NoBindings EXCEPT !["return"] = ContRef(ReturnCont)] \in [Names -> Words]
    BY <1>7, <1>8 DEF ReturnCont
  <2>3. <<RootEnv>> \in Seq(1 .. 2) /\ <<ProcessEnv, RootEnv>> \in Seq(1 .. 2)
    BY DEF RootEnv, ProcessEnv
  <2>4. e1 \in EnvsOf(Words, 2) /\ e2 \in EnvsOf(Words, 2)
    BY <2>1, <2>2, <2>3 DEF EnvsOf
  <2>5. envs = <<e1, e2>>
    BY <1>1 DEF n, ns
  <2> HIDE DEF e1, e2
  <2>6. envs \in Seq(EnvsOf(Words, 2)) /\ Len(envs) = 2
    BY <2>4, <2>5
  <2> QED
    BY <2>6 DEF EnvsOK, ProcessEnv
<1>11. AccessorsOK(accessors, Words)
  <2> DEFINE slots1 == [NoBindings EXCEPT !["accessor"] = AccessorRef(2)]
             slots2 == Exports(AccessorNatives, n + Len(GlobalNatives))
             a1 == MakeDirAccessor(slots1)
             a2 == MakeDirAccessor(slots2)
  <2>1. slots1 \in [Names -> Words] /\ slots2 \in [Names -> Words]
    BY <1>7, <1>8, <1>9
  <2>2. accessors = <<a1, a2>>
    BY <1>1 DEF AccessorModule, n, ns
  <2> HIDE DEF slots1, slots2
  <2>3. /\ a1 \in AccessorsOf(Words) /\ AccessorShape(a1)
        /\ a2 \in AccessorsOf(Words) /\ AccessorShape(a2)
    BY <1>6, <2>1, DirType
  <2> HIDE DEF a1, a2
  <2> QED
    BY <2>2, <2>3 DEF AccessorsOK
<1>12. rest \in Seq(Words) /\ body \in Seq(Words)
  <2>1. body \in Seq(Words)
    BY <1>2, <1>6, SeqMono
  <2> QED
    BY <2>1
<1>13. ContsOK(conts, Words, 2, 0) /\ TreeOK(conts)
  <2>1. LET first == Frame("RETURN", ProcessEnv, 0)
            blockK == [Frame("SENTENCE_LIST", ProcessEnv, ReturnCont) EXCEPT !.rest = rest]
        IN  conts = <<first>> \/ conts = <<first, blockK>>
    BY <1>1 DEF body
  <2> HIDE DEF rest
  <2> QED
    BY <1>6, <1>12, <2>1, InitConts
<1>14. JobOK(job, Words, 2, Len(conts)) /\ JobFits
  <2>1. CASE conts = <<Frame("RETURN", ProcessEnv, 0)>> /\ job = Run(True, ReturnCont)
    <3>1. Len(conts) = 1
      BY <2>1
    <3>2. job = [op |-> "RUN", v |-> True, words |-> <<>>, env |-> 0, k |-> 1]
      BY <2>1 DEF Run, Job, ReturnCont
    <3> QED
      BY <1>6, <3>1, <3>2 DEF JobOK, JobsOf, LoopOps, FinalOps, JobFits, FrameOf
  <2>2. CASE /\ body # <<>>
             /\ conts = <<Frame("RETURN", ProcessEnv, 0),
                          [Frame("SENTENCE_LIST", ProcessEnv, ReturnCont) EXCEPT
                             !.rest = Tail(body)]>>
             /\ job = Job("BLOCK", Head(body), ProcessEnv, 2)
    <3>1. Len(conts) = 2 /\ 2 \in DOMAIN conts
      BY <2>2
    <3>2. job = [op |-> "BLOCK", v |-> Head(body), words |-> <<>>, env |-> 2, k |-> 2]
      BY <2>2 DEF Job, ProcessEnv
    <3>3. Head(body) \in Words
      BY <1>12, <2>2
    <3>4. JobOK(job, Words, 2, Len(conts))
      BY <3>1, <3>2, <3>3 DEF JobOK, JobsOf, LoopOps, FinalOps, ProcessEnv
    <3>5. conts[2].type = "SENTENCE_LIST" /\ conts[2].env = 2
      BY <2>2 DEF Frame, ProcessEnv
    <3>6. JobFits
      BY <3>1, <3>2, <3>5 DEF JobFits, FrameOf
    <3> QED
      BY <3>4, <3>6
  <2> QED
    BY <1>1, <2>1, <2>2 DEF body
<1>15. MemosOK(memos, Words, 2) /\ DispatchersOK(dispatchers, Words, 2)
  BY <1>1 DEF MemosOK, DispatchersOK
<1>16. nextMsgDispatcherId \in Nat /\ depth \in Nat /\ currCode \in DOMAIN Programs
  BY <1>1, DispatchersAssumption
<1>17. TypeOK
  BY <1>3, <1>6, <1>10, <1>11, <1>13, <1>14, <1>15, <1>16 DEF TypeOK
<1> QED
  BY <1>13, <1>14, <1>17, TreeIs DEF Inv, FramesMatch

-----------------------------------------------------------------------------
\* A step that changes nothing preserves the invariant.
LEMMA StutterStep ==
  ASSUME Inv, UNCHANGED vars
  PROVE  Inv' /\ Kept
<1>1. /\ job' = job /\ depth' = depth /\ currCode' = currCode /\ UNCHANGED heap
      /\ UNCHANGED conts
  BY DEF vars, heap
<1>2. JobOK(job', Words, Len(envs), Len(conts)) /\ JobFits' /\ depth' \in Nat
  BY <1>1, InvFacts DEF JobFits
<1> QED
  BY <1>1, <1>2, JobOnly

\* KN_EvalExpression preserves the invariant.
LEMMA EvalExpressionStep ==
  ASSUME Inv, EvalExpression
  PROVE  Inv' /\ Kept
<1>1. CASE \/ EvalSelf \/ EvalReference \/ EvalAccessor \/ EvalUnhandled \/ MalformedCell
           \/ UnhandledKeyword
  BY <1>1, SimpleEvals
<1>2. CASE EvalCell \/ EvalList \/ EvalQuasi \/ EvalPrefixBlk \/ EvalPrefixDo
  BY <1>2, EvalCellStep, EvalListStep, EvalQuasiStep, BlockStep
<1>3. CASE \/ EvalPrefixLet \/ EvalPrefixSet \/ EvalPrefixIf \/ EvalPrefixCond
           \/ EvalPrefixAnd \/ EvalPrefixOr \/ EvalPrefixFor \/ EvalPrefixBreak
           \/ EvalPrefixContinue
  BY <1>3, LetStep, IfStep, CondStep, AndOrStep, ForStep, EscapeStep
<1>4. CASE \/ EvalPrefixLambda \/ EvalPrefixFunc \/ EvalPrefixMacroLambda
           \/ EvalPrefixMacroFunc \/ EvalPrefixCallcc \/ EvalPrefixEval \/ EvalPrefixApply
  BY <1>4, ProceduresStep, CallccStep, EvalStep, ApplyPrefixStep
<1>5. CASE \/ EvalPrefixDefDispatcher \/ EvalPrefixSetDispatcher \/ EvalPrefixDefBuilder
           \/ EvalPrefixSh
  BY <1>5, DefDispatcherStep, SetDispatcherStep, DefBuilderStep, ShStep
<1> QED
  BY <1>1, <1>2, <1>3, <1>4, <1>5 DEF EvalExpression

\* KN_RunContinuation preserves the invariant.
LEMMA RunContinuationStep ==
  ASSUME Inv, RunContinuation
  PROVE  Inv' /\ Kept
<1>1. CASE \/ RunReturn \/ RunSentenceList \/ RunSubj \/ RunClauseList \/ RunClauseArgs
           \/ RunQuasiListItems
  BY <1>1, RunReturnStep, RunSentenceListStep, NextClauseStep, RunClauseArgsStep,
     RunQuasiListItemsStep
<1>2. CASE \/ AfterLetValExprEvaled \/ AfterSetValExprEvaled \/ AfterIfConditionEvaled
           \/ AfterCondClauseEvaled \/ AfterAndConditionEvaled \/ AfterOrConditionEvaled
           \/ BeforeForPrediction \/ AfterForPrediction \/ AfterForBodyEvaled
  BY <1>2, AfterLetStep, AfterIfStep, AfterCondStep, AfterAndOrStep, LoopStep, PredictionStep
<1>3. CASE \/ AfterEvalExprBodyEvaled \/ AfterApplySymExprEvaled \/ AfterApplyArgsExprEvaled
           \/ AfterDispatcherIdEvaled \/ AfterBuilderDispatcherIdEvaled
           \/ AfterShellCmdEvaled
  BY <1>3, AfterEvalStep, AfterApplySymStep, AfterApplyArgsStep, AfterDispatcherIdStep,
     AfterBuilderStep, AfterShStep
<1> QED
  BY <1>1, <1>2, <1>3 DEF RunContinuation

\* Every step preserves the invariant, and keeps what Kept says.
LEMMA NextStep ==
  ASSUME Inv, [Next]_vars
  PROVE  Inv' /\ Kept
<1>1. CASE EvalExpression
  BY <1>1, EvalExpressionStep
<1>2. CASE RunContinuation
  BY <1>2, RunContinuationStep
<1>3. CASE ClauseListMarker \/ ClauseListData
  BY <1>3, ClauseListMarkerStep, ClauseListDataStep
<1>4. CASE QuasiItem \/ SubjectIgnored
  BY <1>4, LoopOnlySteps
<1>5. CASE Terminated \/ UNCHANGED vars
  BY <1>5, StutterStep DEF Terminated
<1> QED
  BY <1>1, <1>2, <1>3, <1>4, <1>5 DEF Next

-----------------------------------------------------------------------------
\* The invariant holds always.
LEMMA Invariance == Spec => []Inv
<1>1. Init => Inv
  BY InitInv
<1>2. Inv /\ [Next]_vars => Inv'
  BY NextStep
<1> QED
  BY <1>1, <1>2, PTL DEF Spec

\* Every word, node, environment, continuation, memo table, accessor and
\* dispatcher stays well formed, whatever program runs: what the evaluator
\* dereferences without a check where TypeOK says it may is there.
THEOREM TypeCorrect == Spec => []TypeOK
<1>1. Inv => TypeOK
  BY DEF Inv
<1> QED
  BY <1>1, Invariance, PTL

\* KN_ProcessSentences and KN_RunContinuation read the member of a
\* continuation's union that was written, and arguments go to the clause they
\* were collected for, whatever continuations a program invokes.
THEOREM FramesMatched == Spec => []FramesMatch
<1>1. Inv => FramesMatch
  BY DEF Inv
<1> QED
  BY <1>1, Invariance, PTL

\* Every continuation leads to the RETURN of the run: KN_RunContinuation never
\* goes round in continuations.
THEOREM Rooted == Spec => []ChainsRooted
<1>1. Inv => ChainsRooted
  BY DEF Inv
<1> QED
  BY <1>1, Invariance, PTL

\* No two callback continuations have the same memo table, so that a callback,
\* or the next round of a loop, never takes values put there for another one.
THEOREM Owned == Spec => []MemosOwned
<1>1. Inv => MemosOwned
  BY DEF Inv
<1> QED
  BY <1>1, Invariance, PTL

\* A continuation and its memo table never change once made, so that one kept
\* by call-cc, or by "break" and "continue", can be invoked any number of
\* times.
THEOREM Reinvocable == Spec => ContinuationsFrozen
<1>1. Inv /\ [Next]_vars => [Frozen(conts, conts') /\ Frozen(memos, memos')]_vars
  BY NextStep DEF Kept
<1> QED
  BY <1>1, Invariance, PTL DEF Spec, ContinuationsFrozen

\* Running a program only ever turns words of its text into identifiers and
\* changes dispatchers; nothing else of a node is written.
THEOREM TextPreserved == Spec => ProgramTextKept
<1>1. Inv /\ [Next]_vars => [\A i \in DOMAIN nodes : TextKept(nodes[i], nodes'[i])]_vars
  BY NextStep DEF Kept
<1> QED
  BY <1>1, Invariance, PTL DEF Spec, ProgramTextKept

\* No program changes the bindings of the root environment.
THEOREM GlobalsPreserved == Spec => GlobalsKept
<1>1. Inv /\ [Next]_vars => [envs'[RootEnv] = envs[RootEnv]]_vars
  BY NextStep DEF Kept
<1> QED
  BY <1>1, Invariance, PTL DEF Spec, GlobalsKept
-----------------------------------------------------------------------------
\* What a step does with control that is for frame b: it makes frames above b
\* only, and goes on with b or with one of them, or the run ends.
Stacked(b) ==
  /\ \A i \in Len(conts) + 1 .. Len(conts') :
       conts'[i].cont \in {b} \cup (Len(conts) + 1 .. i - 1)
  /\ job'.op # "LAND"
  /\ job'.op \notin FinalOps => job'.k \in {b} \cup (Len(conts) + 1 .. Len(conts'))

\* A bounce to b, or a call of it, that makes no frame.
LEMMA SameStacked ==
  ASSUME Inv, NEW b, conts' = conts, job'.op # "LAND",
         job'.op \notin FinalOps => job'.k = b
  PROVE  Stacked(b)
BY InvFacts DEF Stacked

\* The end of a run that is no value.
LEMMA StopStacked ==
  ASSUME Inv, NEW b, NEW op \in {"EXIT", "FAULT", "HANG"}, Stop(op)
  PROVE  Stacked(b)
BY SameStacked DEF Stop, Bounce, Final, Job, heap, FinalOps

\* Undefined behaviour too.
LEMMA FaultStacked ==
  ASSUME Inv, NEW b, Fault
  PROVE  Stacked(b)
BY StopStacked DEF Fault

\* A value for b.
LEMMA RunStacked ==
  ASSUME Inv, NEW b, NEW v, conts' = conts, Bounce(Run(v, b))
  PROVE  Stacked(b)
BY SameStacked DEF Bounce, Run, Job, FinalOps

\* The same when nothing else changes.
LEMMA GoOnStacked ==
  ASSUME Inv, NEW b, NEW v, GoOn(v, b)
  PROVE  Stacked(b)
BY RunStacked DEF GoOn, heap

\* One frame made, and control within it.
LEMMA PushStacked ==
  ASSUME Inv, NEW b, NEW c, c.cont = b, conts' = Append(conts, c),
         job'.op # "LAND", job'.k \in {b, Len(conts) + 1}
  PROVE  Stacked(b)
<1>1. Len(conts) \in Nat /\ Len(conts') = Len(conts) + 1 /\ conts'[Len(conts) + 1] = c
  BY InvFacts DEF ContsOK
<1> QED
  BY <1>1 DEF Stacked

\* EvalThen leaves a callback above b.
LEMMA EvalThenStacked ==
  ASSUME Inv, NEW b, NEW callback, NEW m, NEW w, NEW e, EvalThen(callback, m, w, e, b)
  PROVE  Stacked(b)
<1>1. CallbackFrame(callback, e, b, NextMemo).cont = b
  BY DEF CallbackFrame, Frame
<1> QED
  BY <1>1, PushStacked DEF EvalThen, TailCall, Eval, Job, NextCont

\* KN_EvalSentences leaves the sentences above b.
LEMMA EvalSentencesStacked ==
  ASSUME Inv, NEW b, NEW sentences, NEW e, EvalSentences(conts, sentences, e, b)
  PROVE  Stacked(b)
<1>1. [Frame("SENTENCE_LIST", e, b) EXCEPT !.rest = Tail(sentences)].cont = b
  BY DEF Frame
<1>2. CASE conts' = conts /\ Bounce(Run(True, b))
  BY <1>2, RunStacked
<1>3. CASE /\ conts' = Append(conts, [Frame("SENTENCE_LIST", e, b) EXCEPT
                                       !.rest = Tail(sentences)])
           /\ Bounce(Job("BLOCK", Head(sentences), e, Len(conts) + 1))
  BY <1>1, <1>3, PushStacked DEF Bounce, Job
<1> QED
  BY <1>2, <1>3 DEF EvalSentences

\* So does the evaluation of a body, which may be no list.
LEMMA EvalBodyStacked ==
  ASSUME Inv, NEW b, NEW body, NEW e, EvalBody(conts, body, e, b)
  PROVE  Stacked(b)
<1>1. CASE EvalSentences(conts, Items(body), e, b)
  BY <1>1, EvalSentencesStacked
<1>2. CASE conts' = conts /\ Bounce(Final("FAULT", Undef))
  BY <1>2, SameStacked DEF Bounce, Final, Job, FinalOps
<1> QED
  BY <1>1, <1>2 DEF EvalBody

\* The call of a composite procedure.
LEMMA CompositeStacked ==
  ASSUME Inv, NEW b, NEW ns, NEW proc, NEW args, NEW e, NEW captureEnv,
         ApplyComposite(ns, proc, args, e, captureEnv, b)
  PROVE  Stacked(b)
<1>1. Fault \/ \E e2 : EvalBody(conts, proc.inner, e2, b)
  BY DEF ApplyComposite
<1> QED
  BY <1>1, FaultStacked, EvalBodyStacked

\* As a lambda or as a func.
LEMMA CallStacked ==
  ASSUME Inv, NEW b, NEW ns, NEW proc, NEW args, NEW e,
         ApplyCompositeLambda(ns, proc, args, e, b) \/ ApplyCompositeFunc(ns, proc, args, e, b)
  PROVE  Stacked(b)
BY CompositeStacked DEF ApplyCompositeLambda, ApplyCompositeFunc

\* What an accessor procedure answers.
LEMMA AccessorFuncStacked ==
  ASSUME Inv, NEW b, NEW name, NEW args, CallAccessorFunc(name, args, b)
  PROVE  Stacked(b)
<1>1. ASSUME NEW a, AllocAccessor(a, b) PROVE Stacked(b)
  BY <1>1, RunStacked DEF AllocAccessor
<1>2. ASSUME NEW w, NEW v, NEW table, NEW answer, Assign(w, v, table, answer, b)
      PROVE  Stacked(b)
  BY <1>2, RunStacked DEF Assign
<1>3. ASSUME NEW w, NEW key, NEW prop, PutKeyProp(w, key, prop, b) PROVE Stacked(b)
  BY <1>3, RunStacked, GoOnStacked DEF PutKeyProp
<1>4. ASSUME NEW w, NEW key, NEW v, NEW setter, PutKeyVal(w, key, v, setter, b)
      PROVE  Stacked(b)
  BY <1>4, RunStacked DEF PutKeyVal
<1>5. ASSUME Stop("HANG") PROVE Stacked(b)
  BY <1>5, StopStacked
<1> QED
  BY <1>1, <1>2, <1>3, <1>4, <1>5, GoOnStacked, FaultStacked DEF CallAccessorFunc

\* What a native procedure answers.
LEMMA NativeStacked ==
  ASSUME Inv, NEW b, NEW name, NEW args,
         ApplyArgsToNativeFunc(name, args, b) \/ CallNativeFunc(name, args, b)
  PROVE  Stacked(b)
<1>1. ASSUME NEW defined, NEW v, Answer(defined, v, b) PROVE Stacked(b)
  BY <1>1, GoOnStacked, FaultStacked DEF Answer
<1>2. ASSUME NEW w, NEW id, SetDispatcherId(w, id, b) PROVE Stacked(b)
  BY <1>2, RunStacked DEF SetDispatcherId
<1>3. CASE ApplyArgsToNativeFunc(name, args, b)
  BY <1>1, <1>2, <1>3, GoOnStacked, FaultStacked, AccessorFuncStacked DEF ApplyArgsToNativeFunc
<1>4. CASE CallNativeFunc(name, args, b)
  BY <1>1, <1>4, GoOnStacked, FaultStacked, AccessorFuncStacked DEF CallNativeFunc
<1> QED
  BY <1>3, <1>4

\* The call of any procedure.
LEMMA ProcedureStacked ==
  ASSUME Inv, NEW b, NEW proc, NEW args, NEW e,
         ApplyProcedureArguments(proc, args, e, b) \/ ApplyProcArguments(proc, args, e, b)
  PROVE  Stacked(b)
<1>1. CASE ApplyProcedureArguments(proc, args, e, b)
  BY <1>1, NativeStacked, CallStacked, FaultStacked DEF ApplyProcedureArguments
<1>2. CASE ApplyProcArguments(proc, args, e, b)
  BY <1>2, NativeStacked, CallStacked, FaultStacked DEF ApplyProcArguments
<1> QED
  BY <1>1, <1>2

\* A continuation is applied to what came with it.
Applies(subj, args) == subj.t = "cont" /\ Len(args) > 1 /\ args[1] = Marker("APPLY")

\* ApplySubjVerbAndObjects goes on with the frame it is given, unless a
\* continuation is applied: then with that.
LEMMA ApplyStacked ==
  ASSUME Inv, NEW b, NEW subj, NEW args, NEW e, ApplySubjVerbAndObjects(subj, args, e, b)
  PROVE  IF Applies(subj, args) THEN GoOn(args[2], subj.id) ELSE Stacked(b)
<1>1. ASSUME NEW w, NEW v, AssignValueToAccessor(w, v, e, b) PROVE Stacked(b)
  <2>1. ASSUME NEW table, NEW answer, Assign(w, v, table, answer, b) PROVE Stacked(b)
    BY <2>1, RunStacked DEF Assign
  <2> QED
    BY <1>1, <2>1, ProcedureStacked DEF AssignValueToAccessor
<1>2. ASSUME NEW ns, NEW handler, NEW as, Dispatch(ns, handler, subj, as, e, b)
      PROVE  Stacked(b)
  BY <1>2, CallStacked, FaultStacked DEF Dispatch
<1>3. ASSUME NEW p, NEW s, NEW as, ApplyUnboxed(p, s, as, e, b) PROVE Stacked(b)
  <2>1. ASSUME Stop("HANG") PROVE Stacked(b)
    BY <2>1, StopStacked
  <2> QED
    BY <1>3, <2>1, ProcedureStacked DEF ApplyUnboxed
<1>4. CASE IsMarker(args[1]) /\ ApplyMarker(subj, args, e, b)
  <2>1. CASE Applies(subj, args)
    <3>1. args[1] \notin {Marker("ASSIGN"), Marker("PROC_PIPE"), Marker("GET_SLOT"),
                          Marker("MSG_SIGNAL")}
      BY <2>1 DEF Applies, Marker, Imm
    <3> QED
      BY <1>4, <2>1, <3>1 DEF Applies, ApplyMarker
  <2>2. CASE ~Applies(subj, args)
    BY <1>1, <1>2, <1>3, <1>4, <2>2, GoOnStacked, FaultStacked DEF Applies, ApplyMarker
  <2> QED
    BY <2>1, <2>2
<1>5. CASE ~IsMarker(args[1])
  <2>1. ~Applies(subj, args)
    BY <1>5 DEF Applies, IsMarker, Marker, Imm, Markers
  <2> QED
    BY <1>2, <1>5, <2>1 DEF ApplySubjVerbAndObjects
<1> QED
  BY <1>4, <1>5 DEF ApplySubjVerbAndObjects

-----------------------------------------------------------------------------
\* The frame that what is being done is for.
Here == IF Invoking THEN Invoked.cont ELSE job.k

\* A step that goes on where it is.
Proceeds == Here \in 1 .. Len(conts) /\ Target = 0 /\ Stacked(Here)

\* When no continuation is invoked.
LEMMA NoTarget ==
  ASSUME ~EvaluatesPrefix("break"), ~EvaluatesPrefix("continue"), ~AppliesCont
  PROVE  Target = 0
BY DEF Target, EscapesBy

\* An evaluation is for job.k.
LEMMA EvaluatingHere ==
  ASSUME Inv, Evaluating
  PROVE  /\ Here = job.k /\ job.k \in 1 .. Len(conts) /\ ~Invoking
         /\ ~EvaluatesPrefix("break") /\ ~EvaluatesPrefix("continue") => Target = 0
<1>1. ~Invoking
  BY DEF Evaluating, Invoking
<1> QED
  BY <1>1, EvaluatingFacts, NoTarget DEF Here, AppliesCont, Resumes

\* What is no cell is no keyword's.
LEMMA NoCellHere ==
  ASSUME Inv, Evaluating, ~IsCell(Expr)
  PROVE  Here = job.k /\ job.k \in 1 .. Len(conts) /\ Target = 0
BY EvaluatingHere DEF EvaluatesPrefix, KeywordCell

\* No keyword but break and continue invokes a continuation.
LEMMA KeywordHere ==
  ASSUME Inv, NEW name, name \notin {"break", "continue"}, EvaluatesPrefix(name)
  PROVE  Here = job.k /\ job.k \in 1 .. Len(conts) /\ Target = 0
<1>1. ~EvaluatesPrefix("break") /\ ~EvaluatesPrefix("continue")
  BY DEF EvaluatesPrefix
<1> QED
  BY <1>1, EvaluatingHere DEF EvaluatesPrefix, KeywordCell

\* What a frame is invoked with is for the frame below.
LEMMA ResumesHere ==
  ASSUME Inv, Invoking, Invoked.type # "RETURN"
  PROVE  /\ Here = Invoked.cont /\ Invoked.cont \in 1 .. Len(conts)
         /\ ~AppliesCont => Target = 0
<1>1. ~Evaluating
  BY DEF Evaluating, Invoking
<1> QED
  BY <1>1, InvokedFacts, NoTarget DEF Here, EvaluatesPrefix, KeywordCell

\* Also for a callback.
LEMMA CallbackHere ==
  ASSUME Inv, NEW b, CallsBack(b)
  PROVE  Here = Invoked.cont /\ Invoked.cont \in 1 .. Len(conts) /\ Target = 0
BY ResumesHere DEF CallsBack, AppliesCont, Resumes

\* The evaluations that call no keyword.
LEMMA SimpleProceeds ==
  ASSUME Inv, EvalSelf \/ EvalReference \/ EvalAccessor \/ EvalUnhandled \/ MalformedCell
              \/ UnhandledKeyword
  PROVE  Proceeds
<1>1. CASE EvalSelf \/ EvalReference
  <2>1. Evaluating /\ ~IsCell(Expr)
    BY <1>1 DEF EvalSelf, EvalReference, IsSelfEvaluated, IsReference, IsSymbol, HasTag, IsCell,
       Immediates, Markers
  <2>2. PICK v : TailCall(Invoke(v, job.k)) /\ UNCHANGED heap
    BY <1>1 DEF EvalSelf, EvalReference
  <2> QED
    BY <2>1, <2>2, NoCellHere, SameStacked DEF Proceeds, TailCall, Invoke, Job, heap
<1>2. CASE EvalAccessor
  <2>1. Evaluating /\ ~IsCell(Expr)
    BY <1>2 DEF EvalAccessor, IsAccessor, HasTag, IsCell
  <2>2. ASSUME NEW v, TailCall(Invoke(v, job.k)), UNCHANGED heap PROVE Stacked(job.k)
    BY <2>2, SameStacked DEF TailCall, Invoke, Job, heap
  <2>3. ASSUME Stop("HANG") PROVE Stacked(job.k)
    BY <2>3, StopStacked
  <2> QED
    BY <1>2, <2>1, <2>2, <2>3, NoCellHere DEF Proceeds, EvalAccessor
<1>3. CASE EvalUnhandled
  BY <1>3, NoCellHere, StopStacked DEF EvalUnhandled, Proceeds
<1>4. CASE MalformedCell
  <2>1. Evaluating /\ ~EvaluatesPrefix("break") /\ ~EvaluatesPrefix("continue")
    BY <1>4 DEF MalformedCell, EvaluatesPrefix, KeywordCell
  <2> QED
    BY <1>4, <2>1, EvaluatingHere, FaultStacked DEF MalformedCell, Proceeds
<1>5. CASE UnhandledKeyword
  <2>1. Evaluating /\ ~EvaluatesPrefix("break") /\ ~EvaluatesPrefix("continue")
    BY <1>5 DEF UnhandledKeyword, EvaluatesPrefix, KeywordCell, ListKeyword, IsPair, IsCell, HasTag
  <2> QED
    BY <1>5, <2>1, EvaluatingHere, RunStacked DEF UnhandledKeyword, Proceeds, heap
<1> QED
  BY <1>1, <1>2, <1>3, <1>4, <1>5

\* A cell or a list has its subject evaluated first.
LEMMA SubjectProceeds ==
  ASSUME Inv, EvalCell \/ EvalList
  PROVE  Proceeds
<1>1. Evaluating /\ ~EvaluatesPrefix("break") /\ ~EvaluatesPrefix("continue")
  BY DEF EvalCell, EvalList, EvaluatesPrefix, KeywordCell, IsPair, IsCell, HasTag
<1>2. PICK subj, rest : EvalSubject(subj, rest)
  BY DEF EvalCell, EvalList
<1>3. [Frame("SUBJ", job.env, job.k) EXCEPT !.rest = rest].cont = job.k
  BY DEF Frame
<1>4. Stacked(job.k)
  BY <1>2, <1>3, PushStacked DEF EvalSubject, Bounce, Job, NextCont
<1> QED
  BY <1>1, <1>4, EvaluatingHere DEF Proceeds

\* Blocks and quasiquotes.
LEMMA BlockProceeds ==
  ASSUME Inv, EvalPrefixBlk \/ EvalPrefixDo \/ EvalQuasi
  PROVE  Proceeds
<1>1. Evaluating /\ ~IsCell(Expr)
  BY DEF EvalPrefixBlk, EvalPrefixDo, EvalQuasi, ListKeyword, IsPair, IsCell, HasTag
<1>2. CASE EvalPrefixBlk \/ EvalPrefixDo
  BY <1>1, <1>2, NoCellHere, EvalSentencesStacked DEF Proceeds, EvalPrefixBlk, EvalPrefixDo
<1>3. CASE EvalQuasi
  <2>1. ASSUME NEW items, conts' = Append(conts, [Frame("QUASI_LIST_ITEMS", job.env, job.k) EXCEPT
                                       !.rest = Tail(items)]),
               Bounce(Job("QUASI_ITEM", Head(items), job.env, NextCont))
        PROVE  Stacked(job.k)
    <3>1. [Frame("QUASI_LIST_ITEMS", job.env, job.k) EXCEPT !.rest = Tail(items)].cont = job.k
      BY DEF Frame
    <3> QED
      BY <2>1, <3>1, PushStacked DEF Bounce, Job, NextCont
  <2>2. ASSUME Stop("EXIT") PROVE Stacked(job.k)
    BY <2>2, StopStacked
  <2> QED
    BY <1>1, <1>3, <2>1, <2>2, NoCellHere DEF Proceeds, EvalQuasi
<1> QED
  BY <1>2, <1>3

\* The keywords that evaluate an expression under a callback of theirs, or answer.
LEMMA KeywordProceeds ==
  ASSUME Inv, EvalPrefixLet \/ EvalPrefixSet \/ EvalPrefixIf \/ EvalPrefixCond
              \/ EvalPrefixAnd \/ EvalPrefixOr \/ EvalPrefixApply
              \/ EvalPrefixSetDispatcher \/ EvalPrefixDefBuilder \/ EvalPrefixSh
  PROVE  Proceeds
<1>1. PICK name : EvaluatesPrefix(name) /\ name \notin {"break", "continue"}
  BY DEF EvalPrefixLet, EvalPrefixSet, EvalPrefixIf, EvalPrefixCond, EvalPrefixAnd, EvalPrefixOr,
     EvalPrefixApply, EvalPrefixSetDispatcher, EvalPrefixDefBuilder, EvalPrefixSh
<1>2. CASE EvalPrefixLet \/ EvalPrefixSet
  BY <1>1, <1>2, KeywordHere, RunStacked, EvalThenStacked DEF EvalPrefixLet, EvalPrefixSet, Proceeds
<1>3. CASE EvalPrefixIf \/ EvalPrefixApply \/ EvalPrefixSetDispatcher \/ EvalPrefixDefBuilder
  BY <1>1, <1>3, KeywordHere, EvalThenStacked DEF EvalPrefixIf, EvalPrefixApply,
     EvalPrefixSetDispatcher, EvalPrefixDefBuilder, Proceeds
<1>4. CASE EvalPrefixAnd \/ EvalPrefixOr \/ EvalPrefixSh
  BY <1>1, <1>4, KeywordHere, EvalThenStacked DEF EvalPrefixAnd, EvalPrefixOr, NextCondition,
     EvalPrefixSh, NextCmdWord, Proceeds
<1>5. CASE EvalPrefixCond
  BY <1>1, <1>5, KeywordHere, EvalThenStacked, EvalBodyStacked DEF EvalPrefixCond, CondPairs,
     Proceeds
<1> QED
  BY <1>2, <1>3, <1>4, <1>5

\* Those that make procedures or dispatchers, call one, or push for eval.
LEMMA MakingProceeds ==
  ASSUME Inv, EvalPrefixLambda \/ EvalPrefixFunc \/ EvalPrefixMacroLambda
              \/ EvalPrefixMacroFunc \/ EvalPrefixDefDispatcher \/ EvalPrefixCallcc
              \/ EvalPrefixEval
  PROVE  Proceeds
<1>1. CASE EvalPrefixLambda \/ EvalPrefixFunc \/ EvalPrefixMacroLambda \/ EvalPrefixMacroFunc
  <2>1. \E name \in {"lambda", "func", "macro-lambda", "macro-func"} :
          \E type : MakeProcedure(name, type)
    BY <1>1 DEF EvalPrefixLambda, EvalPrefixFunc, EvalPrefixMacroLambda, EvalPrefixMacroFunc
  <2>2. PICK name \in {"lambda", "func", "macro-lambda", "macro-func"} :
          \E type : MakeProcedure(name, type)
    BY <2>1
  <2>3. PICK type : MakeProcedure(name, type)
    BY <2>2
  <2>4. name \notin {"break", "continue"}
    OBVIOUS
  <2> QED
    BY <2>3, <2>4, KeywordHere, RunStacked DEF MakeProcedure, Proceeds
<1>2. CASE EvalPrefixDefDispatcher
  BY <1>2, KeywordHere, RunStacked, FaultStacked DEF EvalPrefixDefDispatcher, Proceeds
<1>3. CASE EvalPrefixCallcc
  BY <1>3, KeywordHere, CallStacked, FaultStacked DEF EvalPrefixCallcc, Proceeds
<1>4. CASE EvalPrefixEval
  <2>1. CallbackFrame("AfterEval", job.env, job.k, 0).cont = job.k
    BY DEF CallbackFrame, Frame
  <2> QED
    BY <1>4, <2>1, KeywordHere, PushStacked DEF EvalPrefixEval, Proceeds, TailCall, Eval, Job,
       NextCont
<1> QED
  BY <1>1, <1>2, <1>3, <1>4

\* A loop leaves two frames above the one it is for, and control within the first.
LEMMA ForProceeds ==
  ASSUME Inv, EvalPrefixFor
  PROVE  Proceeds
<1>1. Here = job.k /\ job.k \in 1 .. Len(conts) /\ Target = 0
  BY KeywordHere DEF EvalPrefixFor
<1>2. PICK c, d :
        /\ conts' = conts \o <<c, d>> /\ c.cont = job.k /\ d.cont = job.k
        /\ job'.op = "EVAL" /\ job'.k = Len(conts) + 1
  <2> DEFINE memo == [EmptyMemo EXCEPT !.PredictExpr = TableVal(CellSegs[1], 2),
                                       !.AfterExpr = TableVal(CellSegs[1], 3),
                                       !.BodyExprs = CellSegs[1].list]
             Loop(callback, m) == CallbackFrame(callback, Len(envs) + 1, job.k, m)
  <2>1. /\ conts' = conts \o <<Loop("BeforeForPrediction", NextMemo),
                               Loop("AfterForBody", NextMemo + 1)>>
        /\ TailCall(Eval(TableVal(CellSegs[1], 1), Len(envs) + 1, NextCont))
    BY DEF EvalPrefixFor
  <2>2. \A callback, m : Loop(callback, m).cont = job.k
    BY DEF CallbackFrame, Frame
  <2>3. job'.op = "EVAL" /\ job'.k = Len(conts) + 1
    BY <2>1 DEF TailCall, Eval, Job, NextCont
  <2> HIDE DEF Loop
  <2> QED
    BY <2>1, <2>2, <2>3
<1>3. \A S : conts \in Seq(S) => Len(conts \o <<c, d>>) = Len(conts) + 2
                                 /\ (conts \o <<c, d>>)[Len(conts) + 1] = c
                                 /\ (conts \o <<c, d>>)[Len(conts) + 2] = d
  OBVIOUS
<1>4. /\ Len(conts) \in Nat /\ Len(conts') = Len(conts) + 2
      /\ conts'[Len(conts) + 1] = c /\ conts'[Len(conts) + 2] = d
  BY <1>2, <1>3, InvFacts DEF ContsOK
<1> QED
  BY <1>1, <1>2, <1>4 DEF Stacked, Proceeds

\* Invoking a captured continuation changes nothing but what is done next.
Jumps ==
  /\ Target \in 1 .. Len(conts) /\ job.op \notin FinalOps
  /\ \E v : GoOn(v, Target)

\* break and continue jump, unless their name is bound to no continuation.
LEMMA EscapeProceeds ==
  ASSUME Inv, EvalPrefixBreak \/ EvalPrefixContinue
  PROVE  Proceeds \/ Jumps
<1>1. PICK name \in {"break", "continue"}, v \in {True, False} :
        /\ EvaluatesPrefix(name) /\ Escape(name, v) /\ UNCHANGED <<heap, currCode>>
  BY DEF EvalPrefixBreak, EvalPrefixContinue
<1>2. /\ Evaluating /\ Here = job.k /\ job.k \in 1 .. Len(conts) /\ ~Invoking
      /\ job.env \in 1 .. Len(envs)
  BY <1>1, EvaluatingHere, EvaluatingFacts DEF EvaluatesPrefix, KeywordCell
<1>3. \A other \in {"break", "continue"} : EvaluatesPrefix(other) => other = name
  BY <1>1 DEF EvaluatesPrefix
<1>4. ~AppliesCont
  BY <1>2 DEF AppliesCont, Resumes
<1>5. CASE EnvLookup(job.env, name).t = "cont"
  <2>1. Target = EnvLookup(job.env, name).id
    <3>1. CASE name = "break"
      <4>1. EscapesBy("break") /\ ~EscapesBy("continue")
        BY <1>1, <1>3, <1>5, <3>1 DEF EscapesBy
      <4> QED
        BY <1>4, <3>1, <4>1 DEF Target
    <3>2. CASE name = "continue"
      <4>1. EscapesBy("continue") /\ ~EscapesBy("break")
        BY <1>1, <1>3, <1>5, <3>2 DEF EscapesBy
      <4> QED
        BY <1>4, <3>2, <4>1 DEF Target
    <3> QED
      BY <3>1, <3>2
  <2>2. Target \in 1 .. Len(conts)
    BY <1>2, <1>5, <2>1, EnvLookupType, WordFacts, NamesAssumption DEF ReservedNames
  <2>3. GoOn(v, Target)
    BY <1>1, <1>5, <2>1 DEF Escape, GoOn
  <2>4. job.op \notin FinalOps
    BY <1>2 DEF Evaluating, FinalOps
  <2> QED
    BY <2>2, <2>3, <2>4 DEF Jumps
<1>6. CASE EnvLookup(job.env, name).t # "cont"
  <2>1. Target = 0
    BY <1>3, <1>4, <1>6 DEF Target, EscapesBy
  <2>2. GoOn(v, job.k)
    BY <1>1, <1>6 DEF Escape, GoOn
  <2> QED
    BY <1>2, <2>1, <2>2, GoOnStacked DEF Proceeds
<1> QED
  BY <1>5, <1>6

\* Callbacks that answer.
LEMMA AnswersProceed ==
  ASSUME Inv, AfterLetValExprEvaled \/ AfterSetValExprEvaled \/ AfterIfConditionEvaled
              \/ AfterDispatcherIdEvaled \/ AfterBuilderDispatcherIdEvaled
  PROVE  Proceeds
<1>1. PICK b : CallsBack(b)
  BY DEF AfterLetValExprEvaled, AfterSetValExprEvaled, AfterIfConditionEvaled,
     AfterDispatcherIdEvaled, AfterBuilderDispatcherIdEvaled
<1>2. CASE AfterLetValExprEvaled \/ AfterSetValExprEvaled \/ AfterDispatcherIdEvaled
  BY <1>1, <1>2, CallbackHere, RunStacked DEF AfterLetValExprEvaled, AfterSetValExprEvaled,
     AfterDispatcherIdEvaled, Proceeds
<1>3. CASE AfterIfConditionEvaled
  BY <1>1, <1>3, CallbackHere, RunStacked, EvalBodyStacked DEF AfterIfConditionEvaled, Proceeds
<1>4. CASE AfterBuilderDispatcherIdEvaled
  BY <1>1, <1>4, CallbackHere, RunStacked, FaultStacked DEF AfterBuilderDispatcherIdEvaled, Proceeds
<1> QED
  BY <1>2, <1>3, <1>4

\* Callbacks that evaluate further expressions.
LEMMA FurtherProceeds ==
  ASSUME Inv, AfterCondClauseEvaled \/ AfterAndConditionEvaled \/ AfterOrConditionEvaled
              \/ BeforeForPrediction \/ AfterForBodyEvaled \/ AfterEvalExprBodyEvaled
              \/ AfterApplySymExprEvaled \/ AfterApplyArgsExprEvaled \/ AfterShellCmdEvaled
  PROVE  Proceeds
<1>1. PICK b : CallsBack(b)
  BY DEF AfterCondClauseEvaled, AfterAndConditionEvaled, AfterOrConditionEvaled,
     BeforeForPrediction, AfterForBodyEvaled, AfterEvalExprBodyEvaled, AfterApplySymExprEvaled,
     AfterApplyArgsExprEvaled, AfterShellCmdEvaled
<1>2. CASE AfterCondClauseEvaled
  BY <1>1, <1>2, CallbackHere, RunStacked, EvalBodyStacked, EvalThenStacked DEF
     AfterCondClauseEvaled, CondPairs, Proceeds
<1>3. CASE AfterAndConditionEvaled \/ AfterOrConditionEvaled
  BY <1>1, <1>3, CallbackHere, RunStacked, EvalThenStacked DEF AfterAndConditionEvaled,
     AfterOrConditionEvaled, NextCondition, Proceeds
<1>4. CASE BeforeForPrediction \/ AfterForBodyEvaled \/ AfterApplySymExprEvaled
  BY <1>1, <1>4, CallbackHere, EvalThenStacked DEF BeforeForPrediction, AfterForBodyEvaled,
     AfterApplySymExprEvaled, Proceeds
<1>5. CASE AfterEvalExprBodyEvaled
  BY <1>1, <1>5, CallbackHere, SameStacked DEF AfterEvalExprBodyEvaled, TailCall, Eval, Job, heap,
     Proceeds
<1>6. CASE AfterApplyArgsExprEvaled
  <2>1. ASSUME Stop("HANG") PROVE Stacked(Invoked.cont)
    BY <2>1, StopStacked
  <2> QED
    BY <1>1, <1>6, <2>1, CallbackHere, ProcedureStacked DEF AfterApplyArgsExprEvaled, Proceeds
<1>7. CASE AfterShellCmdEvaled
  BY <1>1, <1>7, CallbackHere, RunStacked, EvalThenStacked DEF AfterShellCmdEvaled, NextCmdWord,
     Proceeds
<1> QED
  BY <1>2, <1>3, <1>4, <1>5, <1>6, <1>7

\* The next round of a loop: its sentences are above a frame made for what comes
\* after them, and that above the loop's.
LEMMA PredictionProceeds ==
  ASSUME Inv, AfterForPrediction
  PROVE  Proceeds
<1> DEFINE c == CallbackFrame("AfterForBody", Invoked.env, Invoked.cont, NextMemo)
<1>1. Here = Invoked.cont /\ Invoked.cont \in 1 .. Len(conts) /\ Target = 0
  BY CallbackHere DEF AfterForPrediction
<1>2. c.cont = Invoked.cont
  BY DEF CallbackFrame, Frame
<1>3. \/ EvalBody(Append(conts, c), Memo.BodyExprs, Invoked.env, NextCont)
      \/ conts' = Append(conts, c) /\ Bounce(Run(True, Invoked.cont))
  BY DEF AfterForPrediction
<1> HIDE DEF c
<1>4. /\ Len(conts) \in Nat /\ Len(Append(conts, c)) = Len(conts) + 1
      /\ Append(conts, c)[Len(conts) + 1] = c
  BY InvFacts DEF ContsOK
<1>5. CASE conts' = Append(conts, c) /\ job'.op # "LAND" /\ job'.op \in FinalOps
  BY <1>1, <1>2, <1>4, <1>5 DEF Stacked, Proceeds
<1>6. CASE conts' = Append(conts, c) /\ job'.op = "RUN" /\ job'.k \in {Invoked.cont, NextCont}
  BY <1>1, <1>2, <1>6, PushStacked DEF Proceeds, NextCont
<1>7. ASSUME NEW d, conts' = Append(Append(conts, c), d), d.cont = NextCont,
             job'.op = "BLOCK", job'.k = Len(conts) + 2
      PROVE  Proceeds
  <2>1. \A S : conts \in Seq(S) => Len(Append(Append(conts, c), d)) = Len(conts) + 2
                                   /\ Append(Append(conts, c), d)[Len(conts) + 1] = c
                                   /\ Append(Append(conts, c), d)[Len(conts) + 2] = d
    OBVIOUS
  <2>2. /\ Len(conts') = Len(conts) + 2
        /\ conts'[Len(conts) + 1] = c /\ conts'[Len(conts) + 2] = d
    BY <1>7, <2>1, InvFacts DEF ContsOK
  <2> QED
    BY <1>1, <1>2, <1>4, <1>7, <2>2 DEF Stacked, Proceeds, NextCont
<1>8. CASE conts' = Append(conts, c) /\ Bounce(Run(True, Invoked.cont))
  BY <1>6, <1>8 DEF Bounce, Run, Job
<1>9. CASE EvalBody(Append(conts, c), Memo.BodyExprs, Invoked.env, NextCont)
  <2>1. CASE conts' = Append(conts, c) /\ Bounce(Final("FAULT", Undef))
    BY <1>5, <2>1 DEF Bounce, Final, Job, FinalOps
  <2>2. CASE EvalSentences(Append(conts, c), Items(Memo.BodyExprs), Invoked.env, NextCont)
    <3> DEFINE sentences == Items(Memo.BodyExprs)
               d == [Frame("SENTENCE_LIST", Invoked.env, NextCont) EXCEPT !.rest = Tail(sentences)]
    <3>1. \/ conts' = Append(conts, c) /\ Bounce(Run(True, NextCont))
          \/ /\ conts' = Append(Append(conts, c), d)
             /\ Bounce(Job("BLOCK", Head(sentences), Invoked.env, Len(Append(conts, c)) + 1))
      BY <2>2 DEF EvalSentences
    <3>2. d.cont = NextCont
      BY DEF Frame
    <3> HIDE DEF d
    <3>3. CASE conts' = Append(conts, c) /\ Bounce(Run(True, NextCont))
      BY <1>6, <3>3 DEF Bounce, Run, Job
    <3>4. CASE /\ conts' = Append(Append(conts, c), d)
               /\ Bounce(Job("BLOCK", Head(sentences), Invoked.env, Len(Append(conts, c)) + 1))
      <4>1. job'.op = "BLOCK" /\ job'.k = Len(conts) + 2
        BY <1>4, <3>4 DEF Bounce, Job
      <4> QED
        BY <1>7, <3>2, <3>4, <4>1
    <3> QED
      BY <3>1, <3>3, <3>4
  <2> QED
    BY <1>9, <2>1, <2>2 DEF EvalBody
<1> QED
  BY <1>3, <1>8, <1>9

\* Sentences, subjects and clauses.
LEMMA SentenceProceeds ==
  ASSUME Inv, RunSentenceList \/ RunSubj \/ RunClauseList
  PROVE  Proceeds
<1>1. Here = Invoked.cont /\ Invoked.cont \in 1 .. Len(conts) /\ Target = 0
  BY ResumesHere DEF RunSentenceList, RunSubj, RunClauseList, Resumes, AppliesCont
<1>2. CASE RunSentenceList
  BY <1>1, <1>2, RunStacked, EvalSentencesStacked DEF RunSentenceList, Proceeds
<1>3. CASE NextClause
  <2>1. CASE Bounce(Run(job.v, Invoked.cont)) /\ UNCHANGED conts
    BY <1>1, <2>1, RunStacked DEF Proceeds
  <2> DEFINE c == [Frame("CLAUSE_LIST", Invoked.env, Invoked.cont) EXCEPT
                     !.subj = job.v, !.rest = AfterFirstClause(Invoked.rest)]
  <2>2. CASE /\ conts' = Append(conts, c)
             /\ Bounce(ClauseList(FirstClause(Invoked.rest), Invoked.env, NextCont))
    <3>1. c.cont = Invoked.cont
      BY DEF Frame
    <3> HIDE DEF c
    <3> QED
      BY <1>1, <2>2, <3>1, PushStacked DEF Proceeds, Bounce, ClauseList, NextCont
  <2> QED
    BY <1>3, <2>1, <2>2 DEF NextClause
<1> QED
  BY <1>2, <1>3 DEF RunSubj, RunClauseList

\* The next item of a list is evaluated above the frame the list is for.
LEMMA NextItemProceeds ==
  ASSUME Inv, NEW op \in {"ARG_LIST", "QUASI_ITEM"}, Invoking, Invoked.type # "RETURN", NextItem(op)
  PROVE  Proceeds
<1> DEFINE c == [Invoked EXCEPT !.rest = Tail(Invoked.rest), !.evaled = <<job.v>> \o Invoked.evaled]
<1>1. Here = Invoked.cont /\ Invoked.cont \in 1 .. Len(conts) /\ Target = 0
  BY ResumesHere DEF AppliesCont, NextItem
<1>2. c.cont = Invoked.cont
  BY InvokedFacts DEF ContsOf
<1>3. conts' = Append(conts, c) /\ job'.op = op /\ job'.k = Len(conts) + 1
  BY DEF NextItem, Bounce, Job, NextCont
<1> HIDE DEF c
<1> QED
  BY <1>1, <1>2, <1>3, PushStacked DEF Proceeds

\* Arguments, with the procedure, the handler or the continuation they are for.
LEMMA ArgsProceed ==
  ASSUME Inv, RunClauseArgs
  PROVE  Proceeds \/ Jumps
<1>1. /\ Invoking /\ Invoked.type = "CLAUSE_ARGS" /\ Here = Invoked.cont
      /\ Invoked.cont \in 1 .. Len(conts)
      /\ ~AppliesCont => Target = 0
  BY ResumesHere DEF RunClauseArgs, Resumes
<1>2. CASE NextItem("ARG_LIST")
  BY <1>1, <1>2, NextItemProceeds
<1>3. CASE /\ Invoked.rest = <<>>
           /\ ApplySubjVerbAndObjects(Invoked.subj, Evaluated, Invoked.env, Invoked.cont)
  <2>1. Applies(Invoked.subj, Evaluated) <=> AppliesCont
    BY <1>1, <1>3 DEF Applies, AppliesCont, Resumes
  <2>2. CASE AppliesCont
    <3>1. GoOn(Evaluated[2], Invoked.subj.id)
      BY <1>3, <2>1, <2>2, ApplyStacked
    <3>2. ~EvaluatesPrefix("break") /\ ~EvaluatesPrefix("continue")
      BY <1>1 DEF EvaluatesPrefix, KeywordCell, Evaluating, Invoking
    <3>3. Target = Invoked.subj.id
      BY <2>2, <3>2 DEF Target, EscapesBy
    <3>4. Target \in 1 .. Len(conts)
      BY <1>1, <2>2, <3>3, InvokedFacts, WordFacts DEF AppliesCont
    <3> QED
      BY <1>1, <3>1, <3>3, <3>4 DEF Jumps, Invoking, FinalOps
  <2>3. CASE ~AppliesCont
    <3>1. Stacked(Invoked.cont)
      BY <1>3, <2>1, <2>3, ApplyStacked
    <3> QED
      BY <1>1, <2>3, <3>1 DEF Proceeds
  <2> QED
    BY <2>2, <2>3
<1> QED
  BY <1>2, <1>3 DEF RunClauseArgs

\* Items of a quasiquote.
LEMMA QuasiProceeds ==
  ASSUME Inv, RunQuasiListItems \/ QuasiItem
  PROVE  Proceeds
<1>1. CASE RunQuasiListItems
  <2>1. /\ Invoking /\ Invoked.type = "QUASI_LIST_ITEMS" /\ Here = Invoked.cont
        /\ Invoked.cont \in 1 .. Len(conts) /\ Target = 0
    BY <1>1, ResumesHere DEF RunQuasiListItems, Resumes, AppliesCont
  <2> QED
    BY <1>1, <2>1, NextItemProceeds, RunStacked DEF RunQuasiListItems, Proceeds
<1>2. CASE QuasiItem
  <2>1. ~Evaluating /\ ~Invoking
    BY <1>2 DEF QuasiItem, Evaluating, Invoking
  <2>2. Here = job.k /\ job.k \in 1 .. Len(conts) /\ Target = 0
    BY <1>2, <2>1, JobFacts, NoTarget DEF Here, EvaluatesPrefix, KeywordCell, AppliesCont, Resumes,
       QuasiItem, LoopOps
  <2> QED
    BY <1>2, <2>2, RunStacked DEF QuasiItem, Proceeds, heap
<1> QED
  BY <1>1, <1>2

\* The words of a clause.
LEMMA ClauseProceeds ==
  ASSUME Inv, ClauseListMarker \/ ClauseListData
  PROVE  Proceeds
<1>1. job.op = "CLAUSE_LIST"
  BY DEF ClauseListMarker, ClauseListData
<1>2. ~Evaluating /\ ~Invoking
  BY <1>1 DEF Evaluating, Invoking
<1>3. Here = job.k /\ job.k \in 1 .. Len(conts) /\ Target = 0
  BY <1>1, <1>2, JobFacts, NoTarget DEF Here, EvaluatesPrefix, KeywordCell, AppliesCont, Resumes,
     LoopOps
<1>4. ASSUME NEW w, EvalClauseArgs(w) PROVE Stacked(job.k)
  <2> DEFINE c == [Frame("CLAUSE_ARGS", job.env, job.k) EXCEPT
                     !.subj = conts[job.k].subj, !.rest = Tail(job.words)]
  <2>1. c.cont = job.k
    BY DEF Frame
  <2>2. conts' = Append(conts, c) /\ job'.op = "ARG_LIST" /\ job'.k = Len(conts) + 1
    BY <1>4 DEF EvalClauseArgs, Bounce, Job, NextCont
  <2> HIDE DEF c
  <2> QED
    BY <2>1, <2>2, PushStacked
<1> QED
  BY <1>3, <1>4, FaultStacked DEF ClauseListMarker, ClauseListData, Proceeds

\* The RETURN of the run gets its value.
Lands ==
  /\ Target = 0 /\ job.op \notin FinalOps /\ Invoking /\ job.k = ReturnCont
  /\ job' = Final("LAND", job.v) /\ UNCHANGED heap

\* Every step goes on where it is, jumps, lands or changes nothing.
LEMMA ControlNext ==
  ASSUME Inv, [Next]_vars
  PROVE  \/ Proceeds /\ job.op \notin FinalOps
         \/ Jumps
         \/ Lands
         \/ UNCHANGED <<heap, job>>
<1>1. CASE EvalExpression
  <2>1. job.op \notin FinalOps
    BY <1>1 DEF EvalExpression, EvalSelf, EvalReference, EvalAccessor, EvalCell, EvalList,
       EvalQuasi, UnhandledKeyword, MalformedCell, EvalUnhandled, EvalPrefixLet,
       EvalPrefixSet, EvalPrefixIf, EvalPrefixCond, EvalPrefixAnd, EvalPrefixOr,
       EvalPrefixFor, EvalPrefixBreak,
       EvalPrefixContinue, EvalPrefixLambda, EvalPrefixFunc, EvalPrefixMacroLambda,
       EvalPrefixMacroFunc, MakeProcedure, EvalPrefixCallcc, EvalPrefixEval, EvalPrefixApply,
       EvalPrefixBlk, EvalPrefixDo, EvalPrefixDefDispatcher, EvalPrefixSetDispatcher,
       EvalPrefixDefBuilder, EvalPrefixSh, EvaluatesPrefix, KeywordCell, ListKeyword, Evaluating,
       FinalOps
  <2> QED
    BY <1>1, <2>1, SimpleProceeds, SubjectProceeds, BlockProceeds, KeywordProceeds, MakingProceeds,
       ForProceeds, EscapeProceeds DEF EvalExpression
<1>2. CASE RunReturn
  <2>1. Invoking /\ Invoked.type = "RETURN" /\ Bounce(Final("LAND", job.v)) /\ UNCHANGED heap
    BY <1>2 DEF RunReturn, Resumes
  <2>2. job.k = ReturnCont
    BY <2>1, InvokedFacts, InvFacts DEF Invoked, TreeOK
  <2>3. Target = 0 /\ job.op \notin FinalOps
    BY <2>1, NoTarget DEF EvaluatesPrefix, KeywordCell, Evaluating, Invoking, AppliesCont, Resumes,
       FinalOps
  <2> QED
    BY <2>1, <2>2, <2>3 DEF Lands, Bounce
<1>3. CASE RunContinuation /\ ~RunReturn
  <2>1. Invoking
    BY <1>3 DEF RunContinuation, RunSentenceList, RunSubj, RunClauseList, RunClauseArgs,
       RunQuasiListItems, Resumes, CallsBack, AfterLetValExprEvaled, AfterSetValExprEvaled,
       AfterIfConditionEvaled, AfterCondClauseEvaled, AfterAndConditionEvaled,
       AfterOrConditionEvaled, BeforeForPrediction, AfterForPrediction, AfterForBodyEvaled,
       AfterEvalExprBodyEvaled, AfterApplySymExprEvaled, AfterApplyArgsExprEvaled,
       AfterDispatcherIdEvaled, AfterBuilderDispatcherIdEvaled, AfterShellCmdEvaled
  <2>2. job.op \notin FinalOps
    BY <2>1 DEF Invoking, FinalOps
  <2> QED
    BY <1>3, <2>2, SentenceProceeds, ArgsProceed, QuasiProceeds, AnswersProceed, FurtherProceeds,
       PredictionProceeds DEF RunContinuation
<1>4. CASE ClauseListMarker \/ ClauseListData \/ QuasiItem
  <2>1. job.op \notin FinalOps
    BY <1>4 DEF ClauseListMarker, ClauseListData, QuasiItem, FinalOps
  <2> QED
    BY <1>4, <2>1, ClauseProceeds, QuasiProceeds
<1>5. CASE SubjectIgnored
  BY <1>5 DEF SubjectIgnored, Bounce
<1>6. CASE Terminated \/ UNCHANGED vars
  BY <1>6 DEF Terminated, vars
<1> QED
  BY <1>1, <1>2, <1>3, <1>4, <1>5, <1>6 DEF Next

-----------------------------------------------------------------------------
\* The invoked continuation, if any, is one there is.
TargetOK == Target \in {0} \cup DOMAIN conts

\* It is what a name is bound to, or the subject of the clause.
LEMMA TargetIs ==
  ASSUME Inv
  PROVE  TargetOK
<1>1. DOMAIN conts = 1 .. Len(conts)
  BY InvFacts
<1>2. ASSUME NEW name \in {"break", "continue"}, EscapesBy(name)
      PROVE  EnvLookup(job.env, name).id \in 1 .. Len(conts)
  <2>1. job.env \in 1 .. Len(envs) /\ EnvLookup(job.env, name).t = "cont"
    BY <1>2, EvaluatingFacts DEF EscapesBy, EvaluatesPrefix, KeywordCell
  <2> QED
    BY <2>1, EnvLookupType, WordFacts, NamesAssumption DEF ReservedNames
<1>3. ASSUME AppliesCont PROVE Invoked.subj.id \in 1 .. Len(conts)
  BY <1>3, InvokedFacts, WordFacts DEF AppliesCont, Resumes
<1> QED
  BY <1>1, <1>2, <1>3 DEF TargetOK, Target

\* The first frame has none below.
RootEnds == conts[ReturnCont].cont = 0

\* So it stays.
LEMMA RootStays == Spec => []RootEnds
<1>1. Init => RootEnds
  <2> SUFFICES ASSUME Init PROVE RootEnds
    OBVIOUS
  <2>1. PICK f : \/ conts = <<Frame("RETURN", ProcessEnv, 0)>>
                 \/ conts = <<Frame("RETURN", ProcessEnv, 0), f>>
    BY DEF Init
  <2>2. conts[1] = Frame("RETURN", ProcessEnv, 0)
    BY <2>1
  <2> QED
    BY <2>2 DEF RootEnds, ReturnCont, Frame
<1>2. Inv /\ RootEnds /\ [Next]_vars => RootEnds'
  BY NextStep, InvFacts DEF Kept, Frozen, RootEnds, Inv, ChainsRooted
<1> QED
  BY <1>1, <1>2, Invariance, PTL DEF Spec

\* What the frames of the abstract specification are.
ActivationsOK ==
  /\ Len(conts) \in Nat /\ DOMAIN conts = 1 .. Len(conts)
  /\ Len(Activations) = Len(conts) /\ DOMAIN Activations = DOMAIN conts
  /\ \A i \in DOMAIN conts : Activations[i].cont = conts[i].cont

\* They are in every state.
LEMMA ActivationFacts ==
  ASSUME Inv
  PROVE  ActivationsOK
BY InvFacts DEF ActivationsOK, Activations

\* The initial states are those of the abstract specification.
LEMMA ControlInit == ASSUME Init PROVE Control!Init
<1>1. Inv /\ TargetOK
  BY InitInv, TargetIs
<1>2. PICK f : /\ f.cont = 1
               /\ \/ /\ conts = <<Frame("RETURN", ProcessEnv, 0)>>
                     /\ job = Run(True, ReturnCont)
                  \/ /\ conts = <<Frame("RETURN", ProcessEnv, 0), f>>
                     /\ \E w : job = Job("BLOCK", w, ProcessEnv, 2)
  <2>1. \A rest : [Frame("SENTENCE_LIST", ProcessEnv, ReturnCont) EXCEPT !.rest = rest].cont = 1
    BY DEF Frame, ReturnCont
  <2> QED
    BY <2>1 DEF Init
<1>3. Frame("RETURN", ProcessEnv, 0).cont = 0
  BY DEF Frame
<1>4. /\ Len(Activations) = Len(conts) /\ DOMAIN Activations = DOMAIN conts
      /\ \A i \in DOMAIN conts : Activations[i].cont = conts[i].cont
  BY <1>1, ActivationFacts DEF ActivationsOK
<1>5. CASE conts = <<Frame("RETURN", ProcessEnv, 0)>> /\ job = Run(True, ReturnCont)
  <2>1. Len(conts) = 1 /\ DOMAIN conts = {1} /\ conts[1].cont = 0
    BY <1>3, <1>5
  <2>2. Within = 0 /\ Status = "running"
    BY <1>5, <2>1 DEF Within, Status, Done, FinalOps, Invoking, Invoked, Run, Job, ReturnCont
  <2> QED
    BY <1>1, <1>4, <2>1, <2>2 DEF Control!Init, TargetOK
<1>6. CASE /\ conts = <<Frame("RETURN", ProcessEnv, 0), f>>
           /\ \E w : job = Job("BLOCK", w, ProcessEnv, 2)
  <2>1. Len(conts) = 2 /\ DOMAIN conts = {1, 2} /\ conts[1].cont = 0 /\ conts[2].cont = 1
    BY <1>2, <1>3, <1>6
  <2>2. Within = 2 /\ Status = "running"
    BY <1>6 DEF Within, Status, Done, FinalOps, Invoking, Job
  <2> QED
    BY <1>1, <1>4, <2>1, <2>2 DEF Control!Init, TargetOK
<1> QED
  BY <1>2, <1>5, <1>6

\* A frame that is kept is kept with the memo table it reads.
LEMMA ActivationsKept ==
  ASSUME Inv, Inv', Kept
  PROVE  \A i \in DOMAIN conts : i \in DOMAIN conts' /\ Activations'[i] = Activations[i]
<1> SUFFICES ASSUME NEW i \in DOMAIN conts
             PROVE  i \in DOMAIN conts' /\ Activations'[i] = Activations[i]
  OBVIOUS
<1>1. /\ conts'[i] = conts[i] /\ i \in DOMAIN conts'
      /\ \A m \in DOMAIN memos : memos'[m] = memos[m]
  <2>1. Len(conts) <= Len(conts') /\ conts'[i] = conts[i]
    BY DEF Kept, Frozen
  <2>2. /\ DOMAIN conts = 1 .. Len(conts) /\ Len(conts) \in Nat
        /\ DOMAIN conts' = 1 .. Len(conts') /\ Len(conts') \in Nat
    BY DEF Inv, TypeOK, ContsOK
  <2> QED
    BY <2>1, <2>2 DEF Kept, Frozen
<1>2. conts[i].memo = 0 \/ conts[i].memo \in DOMAIN memos
  BY InvFacts, ContFields DEF ContsOK
<1>3. /\ Activations[i] = [cont |-> conts[i].cont, frame |-> conts[i],
                           memo |-> IF conts[i].memo = 0 THEN EmptyMemo ELSE memos[conts[i].memo]]
      /\ Activations'[i] = [cont |-> conts'[i].cont, frame |-> conts'[i],
                            memo |-> IF conts'[i].memo = 0 THEN EmptyMemo ELSE memos'[conts'[i].memo]]
  BY <1>1 DEF Activations
<1> QED
  BY <1>1, <1>2, <1>3

\* What the states of a step are like.
ControlOK == ActivationsOK /\ TargetOK /\ RootEnds

\* What is being done is for the frame Here, until the run ends.
WithinOK ==
  /\ job.op \notin FinalOps => Within = Here /\ Status = "running"
  /\ job.op \in FinalOps => Within = 0 /\ Status # "running"
  /\ job.op \in FinalOps \ {"LAND"} => Status = "stopped"
  /\ job.op = "LAND" => Status = "landed"
  /\ job.op \in FinalOps => Target = 0

\* So it is in every state.
LEMMA WithinHere == WithinOK
<1>1. job.op \in FinalOps => Target = 0
  BY NoTarget DEF EvaluatesPrefix, KeywordCell, Evaluating, AppliesCont, Resumes, Invoking,
     FinalOps
<1>2. Invoking => ~Done
  BY DEF Invoking, Done, FinalOps
<1>3. /\ job.op \notin FinalOps => Within = Here
      /\ job.op \in FinalOps => Within = 0
  BY <1>2 DEF Within, Here, Done
<1>4. CASE job.op = "LAND"
  <2>1. job.op \in FinalOps /\ Status = "landed"
    BY <1>4 DEF Status, Done, FinalOps
  <2> QED
    BY <1>1, <1>3, <1>4, <2>1 DEF WithinOK
<1>5. CASE job.op # "LAND"
  <2>1. Status = IF job.op \in FinalOps THEN "stopped" ELSE "running"
    BY <1>5 DEF Status, Done
  <2> QED
    BY <1>1, <1>3, <1>5, <2>1 DEF WithinOK
<1> QED
  BY <1>4, <1>5

\* What goes on where it is is a step of the stack, or ends the run.
LEMMA ProceedsGoesOn ==
  ASSUME Inv, Inv', Kept, ControlOK, ControlOK', Proceeds, job.op \notin FinalOps,
         WithinOK'
  PROVE  Control!Next
<1>1. /\ Len(conts) \in Nat /\ DOMAIN conts = 1 .. Len(conts)
      /\ Len(conts') \in Nat /\ DOMAIN conts' = 1 .. Len(conts')
      /\ Len(Activations) = Len(conts) /\ DOMAIN Activations = DOMAIN conts
      /\ Len(Activations') = Len(conts') /\ DOMAIN Activations' = DOMAIN conts'
      /\ \A i \in DOMAIN conts' : Activations'[i].cont = conts'[i].cont
      /\ \A i \in DOMAIN conts : Activations[i].cont = conts[i].cont
      /\ Target' \in {0} \cup DOMAIN conts'
  BY DEF ControlOK, ActivationsOK, TargetOK
<1>2. /\ Status = "running" /\ Within = Here /\ Here \in 1 .. Len(conts) /\ Target = 0
      /\ Len(conts) <= Len(conts')
      /\ Stacked(Here)
  BY WithinHere DEF Proceeds, Kept, Frozen, WithinOK
<1>3. Control!Grow
  <2>1. ASSUME NEW i \in Len(conts) + 1 .. Len(conts')
        PROVE  Activations'[i].cont \in {Here} \cup (Len(conts) + 1 .. i - 1)
    <3>1. conts'[i].cont \in {Here} \cup (Len(conts) + 1 .. i - 1)
      BY <1>2 DEF Stacked
    <3> QED
      BY <1>1, <3>1
  <2>2. \A i \in DOMAIN Activations : Activations'[i] = Activations[i]
    BY <1>1, ActivationsKept
  <2> QED
    BY <1>1, <1>2, <2>1, <2>2 DEF Control!Grow, Control!Made
<1>4. CASE job'.op \in FinalOps
  BY <1>1, <1>2, <1>3, <1>4 DEF Control!Next, Control!Stop, Stacked, WithinOK
<1>5. CASE job'.op \notin FinalOps
  <2>1. Within' = IF Invoking' THEN conts'[job'.k].cont ELSE job'.k
    BY <1>5 DEF WithinOK, Here, Invoked
  <2>2. job'.k = Here \/ job'.k \in Len(conts) + 1 .. Len(conts')
    BY <1>2, <1>5 DEF Stacked
  <2>3. CASE job'.k = Here
    <3>1. conts'[Here] = conts[Here]
      BY <1>1, <1>2 DEF Kept, Frozen
    <3>2. Within' \in {Here, conts[Here].cont}
      BY <2>1, <2>3, <3>1
    <3> QED
      BY <1>1, <1>2, <1>3, <1>5, <3>2 DEF Control!Next, Control!GoOn, WithinOK
  <2>4. CASE job'.k \in Len(conts) + 1 .. Len(conts')
    <3>1. conts'[job'.k].cont \in {Here} \cup (Len(conts) + 1 .. job'.k - 1)
      BY <1>2, <2>4 DEF Stacked
    <3>2. Within' \in {Here} \cup (Len(conts) + 1 .. Len(conts'))
      BY <1>1, <2>1, <2>4, <3>1
    <3> QED
      BY <1>1, <1>2, <1>3, <1>5, <3>2 DEF Control!Next, Control!GoOn, Control!Made, WithinOK
  <2> QED
    BY <2>2, <2>3, <2>4
<1> QED
  BY <1>4, <1>5

\* A jump is one of the abstract specification.
LEMMA JumpsControl ==
  ASSUME Inv, ControlOK, ControlOK', WithinOK', Jumps
  PROVE  Control!Next
<1>1. PICK v : job' = Run(v, Target) /\ conts' = conts /\ memos' = memos
  BY DEF Jumps, GoOn, Bounce, heap
<1>2. /\ Target \in 1 .. Len(conts) /\ Target # 0 /\ Status = "running"
      /\ DOMAIN Activations = DOMAIN conts /\ DOMAIN conts = 1 .. Len(conts)
      /\ Activations[Target].cont = conts[Target].cont
  BY WithinHere DEF Jumps, ControlOK, ActivationsOK, WithinOK
<1>3. Activations' = Activations
  BY <1>1 DEF Activations
<1>4. job'.op = "RUN" /\ job'.k = Target
  BY <1>1 DEF Run, Job
<1>5. Within' = conts[Target].cont /\ Status' = "running"
  BY <1>1, <1>4 DEF WithinOK, Here, Invoking, Invoked, FinalOps
<1>6. Target' \in {0} \cup DOMAIN Activations
  BY <1>1, <1>2 DEF ControlOK, TargetOK
<1> QED
  BY <1>2, <1>3, <1>5, <1>6 DEF Control!Next, Control!Jump

\* The value of the run is that of its first frame.
LEMMA LandsControl ==
  ASSUME ControlOK, WithinOK', Lands
  PROVE  Control!Next
<1>1. Within = 0 /\ Target = 0 /\ Status = "running"
  BY WithinHere DEF Lands, ControlOK, RootEnds, WithinOK, Here, Invoked
<1>2. job'.op = "LAND" /\ Activations' = Activations
  BY DEF Lands, Final, Job, heap, Activations
<1>3. Within' = 0 /\ Target' = 0 /\ Status' = "landed"
  BY <1>2 DEF WithinOK, FinalOps
<1> QED
  BY <1>1, <1>2, <1>3 DEF Control!Next, Control!Land

\* What changes nothing is a stutter.
LEMMA StutterControl ==
  ASSUME UNCHANGED <<heap, job>>
  PROVE  UNCHANGED Control!control
<1>1. UNCHANGED <<nodes, envs, conts, memos, accessors, job>>
  BY DEF heap, objects
<1>2. Activations' = Activations
  BY <1>1 DEF Activations
<1>3. Within' = Within /\ Status' = Status
  BY <1>1 DEF Within, Status, Done, Invoking, Invoked
<1>4. Target' = Target
  BY <1>1 DEF Target, EscapesBy, AppliesCont, EvaluatesPrefix, KeywordCell, CellSegs, Segs,
     Evaluating, IsEvaluableSubject, IsPairList, IsPair, IsReference, IsSymbol, HasTag, IsCell,
     IsSelfEvaluated, Expr, IsKeyword, NameOf, EnvLookup, Resumes, Invoking, Invoked, Evaluated,
     WellFormed, Definition, IsAnonymous, HasTable, IsCaptureList, IsDispatcherConfig, IsHandler
<1> QED
  BY <1>2, <1>3, <1>4 DEF Control!control

\* Control is a stack of frames that never change, but for the continuations a
\* program invokes itself: whatever keywords, callbacks, clauses and arguments the
\* trampoline goes through, the evaluator implements AbstractControl.
THEOREM ImplementsControl == Spec => ControlIsStacked
<1>1. Init => Control!Init
  BY ControlInit
<1>2. Inv => ActivationsOK /\ TargetOK
  BY ActivationFacts, TargetIs
<1>3. Inv /\ Inv' /\ ControlOK /\ ControlOK' /\ WithinOK' /\ [Next]_vars
        => [Control!Next]_(Control!control)
  <2> SUFFICES ASSUME Inv, Inv', ControlOK, ControlOK', WithinOK', [Next]_vars
               PROVE  [Control!Next]_(Control!control)
    OBVIOUS
  <2>1. Kept
    BY NextStep
  <2> QED
    BY <2>1, ControlNext, ProceedsGoesOn, JumpsControl, LandsControl, StutterControl
<1>4. ActivationsOK /\ TargetOK /\ RootEnds => ControlOK
  BY DEF ControlOK
<1> QED
  BY <1>1, <1>2, <1>3, <1>4, Invariance, RootStays, WithinHere, PTL DEF Spec, Control!Spec,
     ControlIsStacked
===============================================================================
