----------------------------- MODULE MCKonMachine -----------------------------
(***************************************************************************)
(* Programs for TLC to run the evaluator on.                               *)
(***************************************************************************)
EXTENDS KonProperties, KonSyntax

MCNames ==
  {"else", "a", "b", "c", "f", "g", "h", "i", "j", "k", "n", "x", "y"}
    \cup ReservedNames \cup Keywords \cup Handlers

(***************************************************************************)
(* KSON_Parse, as far as the evaluator sees it: the nodes of a program.    *)
(***************************************************************************)
RECURSIVE Load(_, _), LoadAll(_, _)

Children(x) ==
  CASE x.t \in {"pair", "quasi", "vector", "table", "param"} -> x.items
    [] x.t \in {"quote", "unquote"} -> <<x.inner>>
    [] x.t = "cell" -> x.segs
    [] x.t = "segment" -> <<x.core, x.table, x.list, x.capture>>
    [] OTHER -> <<>>

NodeFor(x, ws) ==
  CASE x.t = "symbol" -> [Node("symbol") EXCEPT !.type = x.type, !.name = x.name]
    [] x.t = "string" -> [Node("string") EXCEPT !.name = x.name]
    [] x.t = "table" -> [Node("table") EXCEPT !.items = ws, !.params = x.keys]
    [] x.t = "quote" -> QuoteNode(x.type, ws[1])
    [] x.t = "unquote" -> [Node("unquote") EXCEPT !.inner = ws[1]]
    [] x.t = "cell" -> [Node("cell") EXCEPT !.segs = ws]
    [] OTHER -> [Node(x.t) EXCEPT !.items = ws]

\* The word for x and the nodes x is made of, which follow `base' others, those
\* of its children first; and so for each of a sequence.  Immediates and fixnums
\* are words and segments are parts of a cell.
IsNode(x) == x.t # "segment" /\ "id" \notin DOMAIN x
Load(x, base) ==
  LET inner == LoadAll(Children(x), base)
      ws == inner.words
  IN  CASE IsNode(x) ->
             [word |-> NodeRef(base + Len(inner.nodes) + 1),
              nodes |-> Append(inner.nodes, NodeFor(x, ws))]
        [] x.t = "segment" ->
             [word |-> [core |-> ws[1], table |-> ws[2], list |-> ws[3], capture |-> ws[4]],
              nodes |-> inner.nodes]
        [] OTHER -> [word |-> x, nodes |-> <<>>]
LoadAll(xs, base) ==
  IF xs = <<>> THEN [words |-> <<>>, nodes |-> <<>>]
  ELSE LET first == Load(Head(xs), base)
           rest == LoadAll(Tail(xs), base + Len(first.nodes))
       IN  [words |-> <<first.word>> \o rest.words, nodes |-> first.nodes \o rest.nodes]

(***************************************************************************)
(* What the reference makes of a program, and the machine's outcome in its *)
(* terms.                                                                  *)
(***************************************************************************)
RefValue(name, args) ==
  CASE name = "+" -> PlusValue(args)
    [] name = "<" -> LowerThanValue(args)
    [] name = "not" -> NotValue(args[1])
RefDefined(name, args) ==
  CASE name = "+" -> PlusDefined(args)
    [] name = "<" -> LowerThanDefined(args)
    [] name = "not" -> args # <<>>

Ref == INSTANCE KonReference WITH NativeValue <- RefValue, NativeDefined <- RefDefined

RECURSIVE Shown(_)
Shown(w) ==
  CASE w.t # "node" -> w
    [] IsPair(w) -> [t |-> "pair", items |-> [i \in DOMAIN Items(w) |-> Shown(Items(w)[i])]]
    [] w.t = "node" /\ ~IsPair(w) -> [t |-> nodes[w.id].tag]

RECURSIVE ShownRef(_)
ShownRef(v) ==
  CASE v.t = "pair" -> [t |-> "pair", items |-> [i \in DOMAIN v.items |-> ShownRef(v.items[i])]]
    [] v.t = "native" -> [t |-> "procedure"]
    [] v.t \in {"symbol", "string", "quote", "quasi", "unquote", "cell", "procedure"} ->
         [t |-> v.t]
    [] OTHER -> v

Outcome == CASE job.op = "LAND" -> <<"LAND", Shown(job.v)>> [] OTHER -> <<job.op>>

RefOutcome(body) ==
  LET r == Ref!Meaning(body, {"+", "<", "not"})
  IN  CASE r.to = 0 -> <<"LAND", ShownRef(r.v)>>
        [] r.to = -1 -> <<"FAULT">>
        [] r.to = -2 -> <<"EXIT">>

\* A program with its outcome, or one whose outcome is the reference's.
Source(body) == [text |-> body]
Program(body, outcome) == [text |-> body, outcome |-> outcome]
Meant(source) == IF "outcome" \in DOMAIN source THEN source.outcome ELSE RefOutcome(source.text)

\* A program as KSON_Parse hands it over, with its source.  (TLC evaluates the
\* argument of a function once, however often the function refers to it.)
Parsed(source) ==
  LET program[root \in {LoadAll(source.text, 0)}] ==
        [nodes |-> root.nodes, body |-> root.words, source |-> source]
  IN  program[LoadAll(source.text, 0)]

(***************************************************************************)
(* Expressions: every form with every choice of small operands.            *)
(***************************************************************************)
Atoms == <<Num(1), Lit("false"), Lit("nil"), Word("a"), Call("f", <<Num(2)>>)>>
Forms(x, y) ==
  << Call("+", <<x, y>>),
    If(x, <<y>>, <<Num(5)>>),
    Cores(<<Word("and"), x, y>>),
    Cores(<<Word("or"), x, y>>),
    Cell(<<Keyword("cond"), SegList(x, <<Num(3)>>), SegList(y, <<>>),
           SegList(Word("else"), <<Num(4)>>)>>),
    Blk(<<Let("a", x), y>>),
    Do(<<Set("a", x), y, Word("a")>>),
    EvalOf(QuoteList(<<Word("f"), x>>)),
    Quasi(<<x, Unquote(y), Unquote(Call("f", <<y>>))>>),
    Cores(<<Word("f"), Lit("APPLY"), x, Lit("CLAUSE_END"), Lit("PROC_PIPE"), Word("f"), y>>),
    Cores(<<x, Lit("ASSIGN"), y>>),
    List(<<Anonymous("lambda", <<Word("b"), Word("c")>>, <<Word("c")>>), x, y, y>>) >>

\* {let a 2} {func f (x) #[[+ x a]]}, then the form, in an environment where a
\* differs.
ExpressionProgram(x) ==
  <<Let("a", Num(2)), Proc("func", "f", <<Word("x")>>, <<Call("+", <<Word("x"), Word("a")>>)>>),
    Proc("lambda", "g", <<>>, <<Let("a", Num(3)), Let("b", x),
                                Quasi(<<Unquote(Word("a")), Unquote(Word("b"))>>)>>),
    Call("g", <<>>)>>

(***************************************************************************)
(* Escapes: a loop in a procedure, with two sentences of these as its      *)
(* body.  "f" is dynamically scoped and its break and continue are those   *)
(* of the caller's loop, "g" is not and they are no loop's.                *)
(***************************************************************************)
Escapes ==
  << Break, Continue, Num(7),
    Call("return", <<Word("i")>>),
    Call("f", <<Lit("true")>>), Call("f", <<Lit("false")>>), Call("g", <<>>),
    IfThen(Call("<", <<Num(0), Word("i")>>), <<Call("return", <<Num(6)>>)>>),
    Set("x", Call("+", <<Word("x"), Num(1)>>)),
    Blk(<<Continue>>),
    CallCC(Word("return")), CallCC(Word("k")),
    For(Let("j", Num(0)), Call("<", <<Word("j"), Num(2)>>),
        Set("j", Call("+", <<Word("j"), Num(1)>>)), <<Continue, Call("return", <<Num(8)>>)>>) >>

EscapeProgram(s1, s2) ==
  <<Proc("func", "f", <<Word("c")>>, <<If(Word("c"), <<Break>>, <<Continue>>), Num(9)>>),
    Proc("lambda", "g", <<>>, <<Break, Num(3)>>),
    Proc("lambda", "k", <<Word("y")>>, <<Call("y", <<Num(4)>>), Call("return", <<Num(5)>>)>>),
    Let("x", Num(0)),
    Proc("lambda", "h", <<Word("n")>>,
         <<Let("a", For(Let("i", Num(0)), Call("<", <<Word("i"), Num(2)>>),
                        Set("i", Call("+", <<Word("i"), Num(1)>>)),
                        <<s1, s2, Set("x", Call("+", <<Word("x"), Word("n")>>))>>)),
           Quasi(<<Unquote(Word("a")), Unquote(Word("x")), Unquote(Word("i"))>>)>>),
    Call("h", <<Num(2)>>)>>

(***************************************************************************)
(* The repository's examples with an asserted result, and others that end  *)
(* in a fault, an exit or a message.                                       *)
(***************************************************************************)
FortyTwo(kind) ==
  <<Proc(kind, "f", <<>>, <<Call("return", <<Num(42)>>), Num(2)>>),
    Let("a", Num(1)), Set("a", Call("f", <<>>)), Set("b", Num(6)),
    Call("+", <<Word("a"), Word("b")>>)>>

ReturnFromRoot ==
  <<If(Lit("true"), <<Call("return", <<Num(42)>>)>>, <<Num(55)>>), Num(77)>>

\* callcc.kl: f applied to a procedure, then to the continuation.
CallccExample ==
  <<Let("f", Anonymous("func", <<Word("return")>>, <<Call("return", <<Num(2)>>), Num(3)>>)),
    Quasi(<<Unquote(Call("f", <<Anonymous("lambda", <<Word("x")>>, <<Word("x")>>)>>)),
            Unquote(CallCC(Word("f")))>>)>>

Capturing(kind) ==
  <<Let("a", Num(1)), Let("b", Num(2)),
    Proc("lambda", "f", <<>>,
      <<Let("a", Num(3)),
        Cell(<<SegCapture(Word(kind), <<>>, <<Call("+", <<Word("a"), Word("b")>>)>>,
                          <<Word("a"), Word("c")>>)>>)>>),
    Let("g", Call("f", <<>>)), Blk(<<Let("a", Num(4)), Let("b", Num(5)), Call("g", <<>>)>>)>>

Macros(kind) ==
  <<Let("f", Anonymous(kind, <<Word("x"), Word("y")>>,
                       <<EvalOf(Word("y")), Quasi(<<Unquote(Word("x")), Unquote(EvalOf(Word("y")))>>)>>)),
    Let("g", Anonymous(kind, <<Word("x")>>, <<Num(3)>>)),
    Cores(<<Macro("g"), Word("a")>>), List(<<Macro("g"), Num(1)>>),
    List(<<Macro("f"), Word("b"), Call("+", <<Num(1), Num(2)>>)>>)>>

Others ==
  << FortyTwo("lambda"), FortyTwo("func"), ReturnFromRoot, CallccExample,
    Capturing("lambda"), Capturing("func"), Macros("macro-lambda"), Macros("macro-func"),
    <<>>,
    <<Let("a", Num(1)), Cores(<<Word("let"), Word("a")>>), Word("a")>>,
    <<Cores(<<Word("set"), Word("a")>>), Word("a")>>,
    <<Apply(Ident("+"), QuoteList(<<Num(3), Num(4)>>))>>,
    <<Proc("lambda", "f", <<Word("x"), Word("y")>>, <<Call("+", <<Word("x"), Word("y")>>)>>),
      Proc("func", "g", <<>>, <<Num(2)>>),
      Call("+", <<Apply(Ident("f"), QuoteList(<<Num(3), Num(4)>>)), Apply(Ident("g"), QuoteList(<<>>))>>)>>,
    <<Apply(Ident("<"), QuoteList(<<Num(3), Num(4)>>))>>,
    <<Call("not", <<Lit("false")>>)>>, <<Call("not", <<>>)>>,
    <<Cell(<<Keyword("cond"), SegList(Lit("false"), <<Num(3)>>)>>)>>,
    <<Cell(<<Keyword("cond"), SegList(Word("else"), <<>>)>>)>>,
    <<Quasi(<<>>)>>, <<EvalOf(Word("+"))>>, <<Call("+", <<>>)>>, <<Call("return", <<>>)>>,
    <<Cores(<<Num(1), Word("a"), Num(2)>>)>>, <<Cores(<<Num(1), Lit("MSG_SIGNAL"), Word("a")>>)>>,
    <<Cores(<<Num(1), Lit("MSG_SIGNAL")>>)>>, <<Cores(<<Num(1), Lit("MSG_SIGNAL"), Num(2)>>)>>,
    <<Cores(<<Num(1), Cores(<<Num(2)>>)>>)>>, <<Cores(<<Num(1), List(<<Num(2)>>)>>)>>,
    <<Cores(<<Num(1), Lit("GET_SLOT"), Word("a"), Word("b")>>)>>,
    <<Cores(<<Num(1), Num(2)>>)>>, <<Cores(<<Num(1)>>)>>,
    <<Call("a", <<Num(1)>>)>>, <<CallCC(Word("+"))>>,
    <<Proc("lambda", "f", <<Word("x")>>, <<>>), Call("f", <<>>)>>,
    <<Cell(<<Keyword("if"), Seg(Lit("true"))>>)>>, <<Cell(<<Keyword("if"), Seg(Lit("false"))>>)>>,
    <<Cores(<<Word("blk"), Num(1)>>)>>, <<Call("let", <<Word("a"), Num(3)>>)>>,
    <<Set("+", Num(1)), Let("not", Num(2)), Quasi(<<Unquote(Word("+")), Unquote(Word("not"))>>)>>,
    \* never ends: no branch of the loop is for a quasiquoted subject
    <<Cores(<<Quasi(<<Num(1)>>), Lit("PROC_PIPE"), Word("not")>>)>> >>

(***************************************************************************)
(* Continuations invoked after their activation has ended, more than once: *)
(* a loop made of one, and an argument delivered again.                    *)
(***************************************************************************)
Self == Proc("lambda", "f", <<Word("k")>>, <<Word("k")>>)
ReentryLoop ==
  <<Self, Let("n", Num(0)), Let("k", CallCC(Word("f"))),
    Let("n", Call("+", <<Word("n"), Num(1)>>)),
    IfThen(Call("<", <<Word("n"), Num(3)>>), <<Call("k", <<Word("k")>>)>>), Word("n")>>
ReentryArgument ==
  <<Self, Proc("lambda", "h", <<Word("x")>>, <<Num(40)>>),
    Proc("lambda", "g", <<Word("k"), Word("n")>>, <<Call("k", <<Word("h")>>)>>),
    Call("+", <<Num(2), Call("g", <<CallCC(Word("f")), Num(5)>>)>>)>>
Reentries ==
  << Program(ReentryLoop, <<"LAND", Num(3)>>), Program(ReentryArgument, <<"LAND", Num(42)>>) >>

ExpressionIds == {"expression"} \X (DOMAIN Forms(Nil, Nil)) \X (DOMAIN Atoms) \X (DOMAIN Atoms)
EscapeIds == {"escape"} \X (DOMAIN Escapes) \X (DOMAIN Escapes)
(***************************************************************************)
(* Programs that are short and run long: a loop, a recursion that keeps a  *)
(* frame for every call, one in tail position, and a continuation invoked  *)
(* time and again.                                                         *)
(***************************************************************************)
Rounds == 40
LongLoop ==
  <<Let("x", Num(0)),
    For(Let("i", Num(0)), Call("<", <<Word("i"), Num(Rounds)>>),
        Set("i", Call("+", <<Word("i"), Num(1)>>)), <<Continue>>)>>
Recursion(call) ==
  <<Proc("lambda", "f", <<Word("n")>>,
      <<If(Call("<", <<Word("n"), Num(Rounds)>>), <<call>>, <<Word("n")>>)>>),
    Call("f", <<Num(0)>>)>>
NextCall == Call("f", <<Call("+", <<Word("n"), Num(1)>>)>>)
LongReentry ==
  <<Proc("lambda", "f", <<Word("k")>>, <<Word("k")>>), Let("n", Num(0)),
    Let("k", CallCC(Word("f"))), Let("n", Call("+", <<Word("n"), Num(1)>>)),
    IfThen(Call("<", <<Word("n"), Num(Rounds)>>), <<Call("k", <<Word("k")>>)>>), Word("n")>>

StackSources ==
  << Program(LongLoop, <<"LAND", Lit("true")>>),
     Program(Recursion(NextCall), <<"LAND", Num(Rounds)>>),
     Program(Recursion(Call("+", <<Num(1), NextCall>>)), <<"LAND", Num(2 * Rounds)>>),
     Program(LongReentry, <<"LAND", Num(Rounds)>>) >>

\* A test says what the program of examples/knative/return-from-blk.kl gives
\* (test/klang/test_eval.c:156, 42); but the cell form of blk is no keyword the
\* evaluator handles, so that b is #ukn, which is no procedure to apply.
ReturnFromBlk ==
  <<Let("b", Cell(<<SegList(Word("blk"), <<Call("return", <<Num(42)>>)>>)>>)), Call("b", <<>>),
    If(Lit("true"), <<Call("b", <<>>)>>, <<Num(55)>>), Num(77)>>
Documented == << Program(ReturnFromBlk, <<"FAULT">>) >>

OutcomesBeside == Reentries \o Documented

\* TLC evaluates a definition once, but not the one that stands for a constant.
ControlPrograms ==
  [p \in ExpressionIds |->
     Parsed(Source(ExpressionProgram(Forms(Atoms[p[3]], Atoms[p[4]])[p[2]])))] @@
  [p \in EscapeIds |-> Parsed(Source(EscapeProgram(Escapes[p[2]], Escapes[p[3]])))] @@
  [p \in {"other"} \X DOMAIN Others |-> Parsed(Source(Others[p[2]]))] @@
  [p \in {"beside"} \X DOMAIN OutcomesBeside |-> Parsed(OutcomesBeside[p[2]])]
ParsedStack == [p \in DOMAIN StackSources |-> Parsed(StackSources[p])]
StackPrograms == ParsedStack

-----------------------------------------------------------------------------
\* A run ends as the reference, or the program's comment, says.
EndsAsMeant == Done => Outcome = Meant(Programs[currCode].source)
=============================================================================
