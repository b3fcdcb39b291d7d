----------------------------- MODULE KonKeywords -----------------------------
(***************************************************************************)
(* The prefix keywords, core/interpreter/keyword/prefix_*.c: for each the  *)
(* action that starts it, KN_EvalPrefixXxx, and the callbacks it leaves in *)
(* NATIVE_CALLBACK continuations.                                          *)
(***************************************************************************)
EXTENDS KonNatives

Keywords ==
  {"and", "apply", "blk", "break", "call-cc", "cond", "continue", "def-builder",
   "def-dispatcher", "do", "eval", "for", "func", "global", "if", "lambda", "let",
   "macro-func", "macro-lambda", "or", "set", "set-dispatcher", "sh"}

IsKeyword(w) ==
  /\ IsSymbol(w)
  /\ nodes[w.id].type \in {"PREFIX_WORD", "WORD"}
  /\ NameOf(w) \in Keywords

(***************************************************************************)
(* The calls of KN_EvalExpression: an inline one, or the loop's, which     *)
(* evaluates sentences, arguments, subjects that need it and unquoted      *)
(* items.                                                                  *)
(***************************************************************************)
\* A mutant: no branch for cells.
EvaluableButCells(w) == IsPairList(w) \/ IsReference(w) \/ IsSelfEvaluated(w)

IsEvaluableSubject(w) ==
  IsPairList(w) \/ IsReference(w) \/ IsCell(w) \/ IsSelfEvaluated(w)

Evaluating ==
  \/ job.op \in {"EVAL", "BLOCK", "ARG_LIST"}
  \/ job.op = "SUBJ" /\ IsEvaluableSubject(job.v)
  \/ job.op = "QUASI_ITEM" /\ HasTag(job.v, "unquote")

Expr == IF job.op = "QUASI_ITEM" THEN nodes[job.v.id].inner ELSE job.v

HasTable(seg) == seg.table.t = "node"
IsElseTag(w) == IsSymbolCalled(w, "else")
\* What is no symbol has no name to bind.
NamesIn(ws) == [i \in DOMAIN ws |-> IF IsSymbol(ws[i]) THEN NameOf(ws[i]) ELSE ""]

\* The segment that defines a procedure: the first one if it has a parameter
\* table, and the procedure is anonymous, else the second.
IsAnonymous(segs) == segs[1].table # Undef
Definition(segs) == IF IsAnonymous(segs) \/ Len(segs) = 1 THEN segs[1] ELSE segs[2]
IsCaptureList(w) == w = Undef \/ IsPairList(w)

\* A table whose handlers are cells that define procedures, or are absent.
IsHandler(w) ==
  \/ w \in {Nil, Undef, Ukn}
  \/ IsCell(w) /\ HasTable(Definition(Segs(w)))
IsDispatcherConfig(w) ==
  HasTag(w, "table") /\ \A i \in DOMAIN nodes[w.id].params :
                         nodes[w.id].params[i] \in Handlers => IsHandler(nodes[w.id].items[i])

\* What a keyword reads of its cell without a check; a cell that is not so
\* makes it read through a word that is no pointer, or is one to another type.
WellFormed(name, segs) ==
  CASE name \in {"let", "set"} -> Len(segs) >= 2 /\ IsSymbol(segs[2].core)
    [] name \in {"if", "and", "or", "cond", "eval", "call-cc"} -> Len(segs) >= 2
    [] name = "sh" -> Len(segs) >= 2
    [] name = "apply" -> Len(segs) >= 3
    [] name = "for" -> HasTable(segs[1])
    [] name \in {"lambda", "func", "macro-lambda", "macro-func"} ->
         HasTable(Definition(segs)) /\ IsCaptureList(Definition(segs).capture)
    [] name = "def-dispatcher" -> Len(segs) >= 2 /\ IsDispatcherConfig(segs[2].core)
    [] name = "set-dispatcher" -> Len(segs) >= 3 /\ IsDispatcherConfig(segs[3].core)
    [] name = "def-builder" -> Len(segs) >= 4
    [] OTHER -> TRUE

CellSegs == Segs(Expr)
KeywordCell == Evaluating /\ IsCell(Expr) /\ IsKeyword(CellSegs[1].core)
EvaluatesPrefix(name) ==
  /\ KeywordCell
  /\ NameOf(CellSegs[1].core) = name
  /\ WellFormed(name, CellSegs)

MalformedCell ==
  /\ KeywordCell
  /\ ~WellFormed(NameOf(CellSegs[1].core), CellSegs)
  /\ Fault

\* A continuation is invoked, by the loop or inline.
Invoking == job.op \in {"RUN", "INVOKE"}
Invoked == conts[job.k]
Memo == memos[Invoked.memo]
CallsBack(callback) ==
  /\ Invoking
  /\ Invoked.type = "NATIVE_CALLBACK"
  /\ Invoked.callback = callback

(***************************************************************************)
(* let and set.                                                            *)
(***************************************************************************)
EvalPrefixLet ==
  /\ EvaluatesPrefix("let")
  /\ LET name == NameOf(CellSegs[2].core) IN
       \/ /\ Len(CellSegs) = 2
          /\ EnvDefine(job.env, name, Ukn)
          /\ Bounce(Run(True, job.k))
          /\ UNCHANGED <<nodes, conts, memos>>
       \/ /\ Len(CellSegs) > 2
          /\ EvalThen("AfterLet", [EmptyMemo EXCEPT !.VarName = name],
                      CellSegs[3].core, job.env, job.k)
          /\ UNCHANGED <<nodes, envs>>
  /\ UNCHANGED <<objects, currCode>>

AfterLetValExprEvaled ==
  /\ CallsBack("AfterLet")
  /\ EnvDefine(Invoked.env, Memo.VarName, job.v)
  /\ Bounce(Run(True, Invoked.cont))
  /\ UNCHANGED <<nodes, conts, memos, objects, currCode>>

EvalPrefixSet ==
  /\ EvaluatesPrefix("set")
  /\ LET name == NameOf(CellSegs[2].core) IN
       \/ /\ Len(CellSegs) = 2
          /\ EnvLookupSet(job.env, name, Ukn)
          /\ Bounce(Run(True, job.k))
          /\ UNCHANGED <<nodes, conts, memos>>
       \/ /\ Len(CellSegs) > 2
          /\ EvalThen("AfterSet", [EmptyMemo EXCEPT !.VarName = name],
                      CellSegs[3].core, job.env, job.k)
          /\ UNCHANGED <<nodes, envs>>
  /\ UNCHANGED <<objects, currCode>>

AfterSetValExprEvaled ==
  /\ CallsBack("AfterSet")
  /\ EnvLookupSet(Invoked.env, Memo.VarName, job.v)
  /\ Bounce(Run(Fix(2), Invoked.cont))
  /\ UNCHANGED <<nodes, conts, memos, objects, currCode>>

(***************************************************************************)
(* Conditionals: if, cond, and, or.                                        *)
(***************************************************************************)
EvalPrefixIf ==
  /\ EvaluatesPrefix("if")
  /\ LET memo == [EmptyMemo EXCEPT
                    !.TrueClause = CellSegs[2].list,
                    !.FalseClause = IF Len(CellSegs) > 2 THEN CellSegs[3].list ELSE Nil]
     IN  EvalThen("AfterIf", memo, CellSegs[2].core, job.env, job.k)
  /\ UNCHANGED <<nodes, envs, objects, currCode>>

AfterIfConditionEvaled ==
  /\ CallsBack("AfterIf")
  /\ \/ /\ IsTrue(job.v)
        /\ EvalBody(conts, Memo.TrueClause, Invoked.env, Invoked.cont)
     \/ /\ ~IsTrue(job.v) /\ Memo.FalseClause # Nil
        /\ EvalBody(conts, Memo.FalseClause, Invoked.env, Invoked.cont)
     \/ /\ ~IsTrue(job.v) /\ Memo.FalseClause = Nil
        /\ Bounce(Run(False, Invoked.cont))
        /\ UNCHANGED conts
  /\ UNCHANGED <<nodes, envs, memos, objects, currCode>>

\* The first predicate of these pairs decides, or starts to.
CondPairs(pairs, e, k) ==
  \/ /\ IsElseTag(pairs[1].core)
     /\ EvalBody(conts, pairs[1].list, e, k)
     /\ UNCHANGED memos
  \/ /\ ~IsElseTag(pairs[1].core)
     /\ EvalThen("AfterCond", [EmptyMemo EXCEPT !.RestPairs = Tail(pairs),
                                                !.IfTrue = pairs[1].list],
                 pairs[1].core, e, k)

EvalPrefixCond ==
  /\ EvaluatesPrefix("cond")
  /\ CondPairs(Tail(CellSegs), job.env, job.k)
  /\ UNCHANGED <<nodes, envs, objects, currCode>>

AfterCondClauseEvaled ==
  /\ CallsBack("AfterCond")
  /\ \/ /\ IsTrue(job.v)
        /\ EvalBody(conts, Memo.IfTrue, Invoked.env, Invoked.cont)
        /\ UNCHANGED memos
     \/ /\ ~IsTrue(job.v) /\ Memo.RestPairs = <<>>
        /\ Bounce(Run(False, Invoked.cont))
        /\ UNCHANGED <<conts, memos>>
     \/ /\ ~IsTrue(job.v) /\ Memo.RestPairs # <<>>
        /\ CondPairs(Memo.RestPairs, Invoked.env, Invoked.cont)
  /\ UNCHANGED <<nodes, envs, objects, currCode>>

CellCores(segs) == [i \in DOMAIN segs |-> segs[i].core]

\* Evaluate the first of these conditions, keep the others.
NextCondition(callback, conditions, e, k) ==
  EvalThen(callback, [EmptyMemo EXCEPT !.RestCondition = Tail(conditions)],
           Head(conditions), e, k)

EvalPrefixAnd ==
  /\ EvaluatesPrefix("and")
  /\ NextCondition("AfterAnd", CellCores(Tail(CellSegs)), job.env, job.k)
  /\ UNCHANGED <<nodes, envs, objects, currCode>>

AfterAndConditionEvaled ==
  /\ CallsBack("AfterAnd")
  /\ \/ /\ job.v \in {False, Nil}
        /\ Bounce(Run(False, Invoked.cont))
        /\ UNCHANGED <<conts, memos>>
     \/ /\ job.v \notin {False, Nil} /\ Memo.RestCondition = <<>>
        /\ Bounce(Run(True, Invoked.cont))
        /\ UNCHANGED <<conts, memos>>
     \/ /\ job.v \notin {False, Nil} /\ Memo.RestCondition # <<>>
        /\ NextCondition("AfterAnd", Memo.RestCondition, Invoked.env, Invoked.cont)
  /\ UNCHANGED <<nodes, envs, objects, currCode>>

EvalPrefixOr ==
  /\ EvaluatesPrefix("or")
  /\ NextCondition("AfterOr", CellCores(Tail(CellSegs)), job.env, job.k)
  /\ UNCHANGED <<nodes, envs, objects, currCode>>

AfterOrConditionEvaled ==
  /\ CallsBack("AfterOr")
  /\ \/ /\ IsTrue(job.v)
        /\ Bounce(Run(True, Invoked.cont))
        /\ UNCHANGED <<conts, memos>>
     \/ /\ ~IsTrue(job.v) /\ Memo.RestCondition = <<>>
        /\ Bounce(Run(False, Invoked.cont))
        /\ UNCHANGED <<conts, memos>>
     \/ /\ ~IsTrue(job.v) /\ Memo.RestCondition # <<>>
        /\ NextCondition("AfterOr", Memo.RestCondition, Invoked.env, Invoked.cont)
  /\ UNCHANGED <<nodes, envs, objects, currCode>>

(***************************************************************************)
(* Loops.  The continuation of the whole loop is bound to "break" and a    *)
(* callback that goes on with the after-expression to "continue", in an    *)
(* environment of the loop's own.  A ShadowClone is a memo table of its    *)
(* own; one that no continuation keeps is left out.                        *)
(***************************************************************************)
TableVal(seg, i) ==
  LET vals == nodes[seg.table.id].items IN IF i \in DOMAIN vals THEN vals[i] ELSE Undef

LoopBindings(loop, next) ==
  [NoBindings EXCEPT !["break"] = ContRef(loop), !["continue"] = ContRef(next)]

EvalPrefixFor ==
  /\ EvaluatesPrefix("for")
  /\ LET loopBindEnv == Len(envs) + 1
         memo == [EmptyMemo EXCEPT !.PredictExpr = TableVal(CellSegs[1], 2),
                                   !.AfterExpr = TableVal(CellSegs[1], 3),
                                   !.BodyExprs = CellSegs[1].list]
         Loop(callback, m) == CallbackFrame(callback, loopBindEnv, job.k, m)
     IN  /\ envs' = Append(envs, ChildEnv(job.env, LoopBindings(job.k, NextCont + 1)))
         /\ memos' = memos \o <<memo, memo>>
         /\ conts' = conts \o <<Loop("BeforeForPrediction", NextMemo),
                                Loop("AfterForBody", NextMemo + 1)>>
         /\ TailCall(Eval(TableVal(CellSegs[1], 1), loopBindEnv, NextCont))
  /\ UNCHANGED <<nodes, objects, currCode>>

BeforeForPrediction ==
  /\ CallsBack("BeforeForPrediction")
  /\ EvalThen("AfterForPrediction", Memo, Memo.PredictExpr, Invoked.env, Invoked.cont)
  /\ UNCHANGED <<nodes, envs, objects, currCode>>

\* A mutant: no ShadowClone for the next round.
AfterForPredictionSharing ==
  /\ CallsBack("AfterForPrediction")
  /\ LET k == CallbackFrame("AfterForBody", Invoked.env, Invoked.cont, Invoked.memo) IN
       \/ /\ IsTrue(job.v)
          /\ EvalBody(Append(conts, k), Memo.BodyExprs, Invoked.env, NextCont)
       \/ ~IsTrue(job.v) /\ conts' = Append(conts, k) /\ Bounce(Run(True, Invoked.cont))
  /\ UNCHANGED <<nodes, envs, memos, objects, currCode>>

AfterForPrediction ==
  /\ CallsBack("AfterForPrediction")
  /\ memos' = Append(memos, Memo)
  /\ LET k == CallbackFrame("AfterForBody", Invoked.env, Invoked.cont, NextMemo) IN
       \/ /\ IsTrue(job.v)
          /\ EvalBody(Append(conts, k), Memo.BodyExprs, Invoked.env, NextCont)
       \/ /\ ~IsTrue(job.v)
          /\ conts' = Append(conts, k)
          /\ Bounce(Run(True, Invoked.cont))
  /\ UNCHANGED <<nodes, envs, objects, currCode>>

AfterForBodyEvaled ==
  /\ CallsBack("AfterForBody")
  /\ EvalThen("BeforeForPrediction", Memo, Memo.AfterExpr, Invoked.env, Invoked.cont)
  /\ UNCHANGED <<nodes, envs, objects, currCode>>

\* Jump to what the name is bound to where it is used, or go on if that is
\* not a continuation.
Escape(name, v) ==
  LET loopCont == EnvLookup(job.env, name)
  IN  Bounce(Run(v, IF loopCont.t = "cont" THEN loopCont.id ELSE job.k))

EvalPrefixBreak ==
  /\ EvaluatesPrefix("break")
  /\ Escape("break", False)
  /\ UNCHANGED <<heap, currCode>>

EvalPrefixContinue ==
  /\ EvaluatesPrefix("continue")
  /\ Escape("continue", True)
  /\ UNCHANGED <<heap, currCode>>

(***************************************************************************)
(* Procedures: creation and application.                                   *)
(***************************************************************************)
Procedure(type, def, captured) ==
  [Node("procedure") EXCEPT !.type = type, !.params = NamesIn(nodes[def.table.id].items),
                            !.capture = captured, !.inner = def.list, !.env = job.env]

MakeProcedure(keyword, type) ==
  /\ EvaluatesPrefix(keyword)
  /\ LET def == Definition(CellSegs)
         proc == NodeRef(Len(nodes) + 1)
         named == ~IsAnonymous(CellSegs) /\ IsWord(def.core)
     IN  /\ nodes' = Append(nodes, Procedure(type, def, NamesIn(Items(def.capture))))
         /\ \/ named /\ EnvDefine(job.env, NameOf(def.core), proc)
            \/ ~named /\ UNCHANGED envs
         /\ Bounce(Run(proc, job.k))
  /\ UNCHANGED <<conts, memos, objects, currCode>>

EvalPrefixLambda == MakeProcedure("lambda", "LAMBDA")
EvalPrefixFunc == MakeProcedure("func", "FUNC")
EvalPrefixMacroLambda == MakeProcedure("macro-lambda", "MACRO_LAMBDA")
EvalPrefixMacroFunc == MakeProcedure("macro-func", "MACRO_FUNC")

\* The environment a call binds: "return", then the captured names as they
\* read in captureEnv, then the parameters, each overriding the ones before.
CallBindings(proc, captureEnv, values, k) ==
  [name \in Names |->
     LET indexes == {i \in DOMAIN proc.params : proc.params[i] = name}
     IN  CASE indexes # {} -> values[Max(indexes)]
           [] indexes = {} /\ name \in Range(proc.capture) -> EnvLookup(captureEnv, name)
           [] indexes = {} /\ name \notin Range(proc.capture) ->
                IF name = "return" THEN ContRef(k) ELSE Undef]

\* The common body of KN_ApplyCompositeLambda and KN_ApplyCompositeFunc: the
\* last parameter gets the list of the arguments that are left when there is
\* more than one.  ns are the nodes, the arguments' included.
ApplyComposite(ns, proc, args, parentEnv, captureEnv, k) ==
  LET n == Len(proc.params)
      extra == n > 0 /\ Len(args) > n
      values == [i \in 1 .. n |-> IF i = n /\ extra THEN NodeRef(Len(ns) + 1) ELSE args[i]]
      bindable == Len(args) >= n /\ "" \notin Range(proc.params) \cup Range(proc.capture)
  IN  \/ ~bindable /\ Fault
      \/ /\ bindable
         /\ nodes' = IF extra THEN Append(ns, ListNode(SubSeq(args, n, Len(args)))) ELSE ns
         /\ envs' = Append(envs, ChildEnv(parentEnv,
                                          CallBindings(proc, captureEnv, values, k)))
         /\ EvalBody(conts, proc.inner, Len(envs) + 1, k)
         /\ UNCHANGED <<memos, objects, currCode>>

ApplyCompositeLambda(ns, proc, args, e, k) == ApplyComposite(ns, proc, args, proc.env, e, k)
\* A mutant: func scoped as lambda.
ApplyCompositeFuncLexical(ns, proc, args, e, k) ==
  ApplyComposite(ns, proc, args, proc.env, e, k)

ApplyCompositeFunc(ns, proc, args, e, k) == ApplyComposite(ns, proc, args, e, proc.env, k)

\* Any composite procedure, a macro too, is called as a lambda, and a native one
\* is not called: it has no composite part.
EvalsAsLambda(proc) == proc.type \in {"LAMBDA", "FUNC", "MACRO_LAMBDA", "MACRO_FUNC"}

\* The current continuation, as a value, is the only argument.
EvalPrefixCallcc ==
  /\ EvaluatesPrefix("call-cc")
  /\ LET expr == CellSegs[2].core
         proc == IF IsReference(expr) THEN EnvLookup(job.env, NameOf(expr)) ELSE expr
     IN  \/ /\ EvalsAsLambda(ProcOf(proc))
            /\ ApplyCompositeLambda(nodes, ProcOf(proc), <<ContRef(job.k)>>, job.env, job.k)
         \/ ~EvalsAsLambda(ProcOf(proc)) /\ Fault

(***************************************************************************)
(* eval and apply.                                                         *)
(***************************************************************************)
Unquoted(w) == IF IsQuoteList(w) THEN nodes[w.id].inner ELSE w

EvalPrefixEval ==
  /\ EvaluatesPrefix("eval")
  /\ conts' = Append(conts, CallbackFrame("AfterEval", job.env, job.k, 0))
  /\ TailCall(Eval(CellSegs[2].core, job.env, NextCont))
  /\ UNCHANGED <<nodes, envs, memos, objects, currCode>>

AfterEvalExprBodyEvaled ==
  /\ CallsBack("AfterEval")
  /\ TailCall(Eval(Unquoted(job.v), Invoked.env, Invoked.cont))
  /\ UNCHANGED <<heap, currCode>>

EvalPrefixApply ==
  /\ EvaluatesPrefix("apply")
  /\ EvalThen("AfterApplySym", [EmptyMemo EXCEPT !.ApplyArgsExpr = CellSegs[3].core],
              CellSegs[2].core, job.env, job.k)
  /\ UNCHANGED <<nodes, envs, objects, currCode>>

AfterApplySymExprEvaled ==
  /\ CallsBack("AfterApplySym")
  /\ EvalThen("AfterApplyArgs", [Memo EXCEPT !.ApplySym = job.v],
              Memo.ApplyArgsExpr, Invoked.env, Invoked.cont)
  /\ UNCHANGED <<nodes, envs, objects, currCode>>

\* ApplyProcArguments of prefix_apply.c, which knows no macros.
ApplyProcArguments(proc, w, e, k) ==
  LET listed == IsPairList(w) \/ proc.params = <<>>
  IN  CASE proc.type = "NATIVE_FUNC" -> CallNativeFunc(proc.name, w, k)
        [] proc.type = "LAMBDA" /\ listed -> ApplyCompositeLambda(nodes, proc, Items(w), e, k)
        [] proc.type = "FUNC" /\ listed -> ApplyCompositeFunc(nodes, proc, Items(w), e, k)
        [] OTHER -> Fault

\* The procedure to apply is looked up by name, or boxed.
AfterApplyArgsExprEvaled ==
  /\ CallsBack("AfterApplyArgs")
  /\ LET sym == Memo.ApplySym
         proc == CASE IsIdentifier(sym) \/ IsReference(sym) -> EnvLookup(Invoked.env, NameOf(sym))
                   [] IsAccessor(sym) -> UnBoxAccessorValue(sym)
                   [] OTHER -> Undef
     IN  \/ IsProperty(proc) /\ IsAccessor(sym) /\ Stop("HANG")
         \/ /\ ~(IsProperty(proc) /\ IsAccessor(sym))
            /\ ApplyProcArguments(ProcOf(proc), Unquoted(job.v), Invoked.env, Invoked.cont)

(***************************************************************************)
(* Dispatchers: def-dispatcher, set-dispatcher and def-builder.            *)
(***************************************************************************)
\* MakeDispatchProc, for the handlers of a table that are there.
TableKeys(w) == {h \in Handlers : \E i \in DOMAIN nodes[w.id].params : nodes[w.id].params[i] = h}
TableAt(w, key) ==
  nodes[w.id].items[Max({i \in DOMAIN nodes[w.id].params : nodes[w.id].params[i] = key})]
DispatcherOf(w) ==
  [h \in Handlers |->
     IF h \in TableKeys(w) /\ IsCell(TableAt(w, h))
     THEN Procedure("LAMBDA", Definition(Segs(TableAt(w, h))), <<>>) ELSE NoProcedure]

\* A mutant: no check of the id.
SetMsgDispatcherUnchecked(id, dispatcher) ==
  dispatchers' = [i \in {id} \cup DOMAIN dispatchers |->
                    IF i = id THEN dispatcher ELSE dispatchers[i]]

\* KN_SetMsgDispatcher: an id beyond the vector is ignored.
SetMsgDispatcher(id, dispatcher) ==
  dispatchers' = IF id \in 0 .. DispatcherSlots - 1
                 THEN [i \in {id} \cup DOMAIN dispatchers |->
                         IF i = id THEN dispatcher ELSE dispatchers[i]]
                 ELSE dispatchers

EvalPrefixDefDispatcher ==
  /\ EvaluatesPrefix("def-dispatcher")
  /\ \/ /\ nextMsgDispatcherId \in Fixnums
        /\ SetMsgDispatcher(nextMsgDispatcherId, DispatcherOf(CellSegs[2].core))
        /\ nextMsgDispatcherId' = nextMsgDispatcherId + 1
        /\ Bounce(Run(Fix(nextMsgDispatcherId), job.k))
        /\ UNCHANGED <<nodes, envs, conts, memos, accessors, currCode>>
     \/ nextMsgDispatcherId \notin Fixnums /\ Fault

EvalPrefixSetDispatcher ==
  /\ EvaluatesPrefix("set-dispatcher")
  /\ EvalThen("AfterDispatcherId",
              [EmptyMemo EXCEPT !.Dispatcher = DispatcherOf(CellSegs[3].core)],
              CellSegs[2].core, job.env, job.k)
  /\ UNCHANGED <<nodes, envs, objects, currCode>>

AfterDispatcherIdEvaled ==
  /\ CallsBack("AfterDispatcherId")
  /\ SetMsgDispatcher(UnboxFixnum(job.v), Memo.Dispatcher)
  /\ Bounce(Run(True, Invoked.cont))
  /\ UNCHANGED <<nodes, envs, conts, memos, accessors, nextMsgDispatcherId, currCode>>

EvalPrefixDefBuilder ==
  /\ EvaluatesPrefix("def-builder")
  /\ EvalThen("AfterBuilderDispatcherId",
              [EmptyMemo EXCEPT !.BuilderName = CellSegs[2].core,
                                !.BuilderSourceCode = CellSegs[4].core],
              CellSegs[3].core, job.env, job.k)
  /\ UNCHANGED <<nodes, envs, objects, currCode>>

\* The node of the program's source gets the id, and is bound itself.
AfterBuilderDispatcherIdEvaled ==
  /\ CallsBack("AfterBuilderDispatcherId")
  /\ LET source == Memo.BuilderSourceCode
         bindable == IsSymbol(Memo.BuilderName) /\ source.t = "node"
     IN  \/ /\ bindable
            /\ nodes' = [nodes EXCEPT ![source.id].dispatcher = UnboxFixnum(job.v)]
            /\ EnvDefine(Invoked.env, NameOf(Memo.BuilderName), source)
            /\ Bounce(Run(source, Invoked.cont))
            /\ UNCHANGED <<conts, memos, objects, currCode>>
         \/ ~bindable /\ Fault

(***************************************************************************)
(* sh: the words of the cell evaluated one by one, words for their names.  *)
(* What they add up to only goes to system(), and is left out.             *)
(***************************************************************************)
\* A mutant: any symbol does.
AnyAsIdentifier(w) ==
  nodes' = IF IsSymbol(w) THEN [nodes EXCEPT ![w.id].type = "IDENTIFIER"] ELSE nodes

\* A word turns into an identifier, for good: the program's node is written.
AsIdentifier(w) ==
  nodes' = IF IsWord(w) THEN [nodes EXCEPT ![w.id].type = "IDENTIFIER"] ELSE nodes

NextCmdWord(words, e, k) ==
  /\ AsIdentifier(Head(words))
  /\ EvalThen("AfterShellCmd", [EmptyMemo EXCEPT !.RestCmdWords = Tail(words)],
              Head(words), e, k)

EvalPrefixSh ==
  /\ EvaluatesPrefix("sh")
  /\ NextCmdWord(CellCores(Tail(CellSegs)), job.env, job.k)
  /\ UNCHANGED <<envs, objects, currCode>>

AfterShellCmdEvaled ==
  /\ CallsBack("AfterShellCmd")
  /\ \/ /\ Memo.RestCmdWords # <<>>
        /\ NextCmdWord(Memo.RestCmdWords, Invoked.env, Invoked.cont)
     \/ /\ Memo.RestCmdWords = <<>>
        /\ Bounce(Run(True, Invoked.cont))
        /\ UNCHANGED <<nodes, conts, memos>>
  /\ UNCHANGED <<envs, objects, currCode>>
=============================================================================
