------------------------------ MODULE KonMachine ------------------------------
(***************************************************************************)
(* The evaluator of core/interpreter/cps_interpreter.c: the trampoline     *)
(* loop of KN_ProcessSentences, KN_EvalExpression, KN_RunContinuation and  *)
(* ApplySubjVerbAndObjects, over the keywords of KonKeywords.              *)
(*                                                                         *)
(* One step is one iteration of the loop or one call in tail position (see *)
(* KonTrampoline).                                                         *)
(***************************************************************************)
EXTENDS KonKeywords, SequencesExt

CONSTANT Programs     \* what KSON_Parse can hand over: nodes and the root list

ASSUME ProgramsAssumption ==
  \A p \in DOMAIN Programs :
    LET ns == Programs[p].nodes
        W == WordsOf(Len(ns), 0, 0)
    IN  /\ ns \in Seq(NodesOf(W, 0))
        /\ \A i \in DOMAIN ns : WellBuilt(ns[i]) /\ ns[i].tag # "procedure"
        /\ Programs[p].body \in Seq(W)

RootEnv == 1
ProcessEnv == 2
ReturnCont == 1

-----------------------------------------------------------------------------
(***************************************************************************)
(* KN_EvalExpression.                                                      *)
(***************************************************************************)
EvalSelf ==
  /\ Evaluating
  /\ IsSelfEvaluated(Expr)
  /\ TailCall(Invoke(Expr, job.k))
  /\ UNCHANGED <<heap, currCode>>

EvalReference ==
  /\ Evaluating
  /\ IsReference(Expr)
  /\ TailCall(Invoke(EnvLookup(job.env, NameOf(Expr)), job.k))
  /\ UNCHANGED <<heap, currCode>>

EvalAccessor ==
  /\ Evaluating
  /\ IsAccessor(Expr)
  /\ \/ UnboxingLoops(Expr) /\ Stop("HANG")
     \/ /\ ~UnboxingLoops(Expr)
        /\ TailCall(Invoke(UnBoxAccessorValue(Expr), job.k))
        /\ UNCHANGED <<heap, currCode>>

\* Evaluate the subject, then give it the clauses in restJobs.
EvalSubject(subj, restJobs) ==
  /\ conts' = Append(conts, [Frame("SUBJ", job.env, job.k) EXCEPT !.rest = restJobs])
  /\ Bounce(Job("SUBJ", subj, job.env, NextCont))
  /\ UNCHANGED <<envs, memos, objects, currCode>>

\* A macro gets its cell, or the rest of its list, as one quoted argument.
EvalCell ==
  /\ Evaluating
  /\ IsCell(Expr)
  /\ LET first == CellSegs[1].core IN
       /\ ~IsKeyword(first)
       /\ \/ /\ IsPrefixMacro(first)
             /\ nodes' = nodes \o <<ListNode(<<Expr>>),
                                    QuoteNode("CELL", NodeRef(Len(nodes) + 1))>>
             /\ EvalSubject(first, <<Marker("APPLY"), NodeRef(Len(nodes) + 2)>>)
          \/ /\ ~IsPrefixMacro(first)
             /\ EvalSubject(first, CellCores(Tail(CellSegs)))
             /\ UNCHANGED nodes

EvalList ==
  /\ Evaluating
  /\ IsPair(Expr)
  /\ LET first == Head(Items(Expr))
         arguments == Tail(Items(Expr))
     IN  /\ ~IsKeyword(first)
         /\ \/ /\ IsPrefixMacro(first)
               /\ LET ns == WithList(arguments) IN
                    /\ nodes' = Append(ns, QuoteNode("LIST", ListWord(arguments)))
                    /\ EvalSubject(first, <<Marker("APPLY"), NodeRef(Len(ns) + 1)>>)
            \/ /\ ~IsPrefixMacro(first)
               /\ EvalSubject(first, <<Marker("APPLY")>> \o arguments)
               /\ UNCHANGED nodes

ListKeyword(name) ==
  /\ Evaluating
  /\ IsPair(Expr)
  /\ IsKeyword(Head(Items(Expr)))
  /\ NameOf(Head(Items(Expr))) = name

EvalPrefixBlk ==
  /\ ListKeyword("blk")
  /\ envs' = Append(envs, ChildEnv(job.env, NoBindings))
  /\ EvalSentences(conts, Tail(Items(Expr)), Len(envs) + 1, job.k)
  /\ UNCHANGED <<nodes, memos, objects, currCode>>

EvalPrefixDo ==
  /\ ListKeyword("do")
  /\ EvalSentences(conts, Tail(Items(Expr)), job.env, job.k)
  /\ UNCHANGED <<nodes, envs, memos, objects, currCode>>

\* A keyword in the bracket it has no branch for: the cell of blk, do and
\* global, the list of all the others but blk and do.
UnhandledKeyword ==
  /\ \/ KeywordCell /\ NameOf(CellSegs[1].core) \in {"blk", "do", "global"}
     \/ \E name \in Keywords \ {"blk", "do"} : ListKeyword(name)
  /\ Bounce(Run(Ukn, job.k))
  /\ UNCHANGED <<heap, currCode>>

EvalQuasi ==
  /\ Evaluating
  /\ HasTag(Expr, "quasi")
  /\ LET items == nodes[Expr.id].items IN
       \/ /\ items # <<>>
          /\ conts' = Append(conts, [Frame("QUASI_LIST_ITEMS", job.env, job.k) EXCEPT
                                       !.rest = Tail(items)])
          /\ Bounce(Job("QUASI_ITEM", Head(items), job.env, NextCont))
          /\ UNCHANGED <<nodes, envs, memos, objects, currCode>>
       \/ items = <<>> /\ Stop("EXIT")

\* What no branch takes: the code exits the process.
EvalUnhandled ==
  /\ Evaluating
  /\ ~IsSelfEvaluated(Expr) /\ ~IsReference(Expr)
  /\ ~IsCell(Expr) /\ ~IsPair(Expr) /\ ~IsAccessor(Expr) /\ ~HasTag(Expr, "quasi")
  /\ Stop("EXIT")

EvalExpression ==
  \/ EvalSelf \/ EvalReference \/ EvalAccessor \/ EvalCell \/ EvalList \/ EvalQuasi
  \/ UnhandledKeyword \/ MalformedCell \/ EvalUnhandled
  \/ EvalPrefixLet \/ EvalPrefixSet \/ EvalPrefixIf \/ EvalPrefixCond
  \/ EvalPrefixAnd \/ EvalPrefixOr \/ EvalPrefixFor \/ EvalPrefixBreak
  \/ EvalPrefixContinue \/ EvalPrefixLambda \/ EvalPrefixFunc
  \/ EvalPrefixMacroLambda \/ EvalPrefixMacroFunc \/ EvalPrefixCallcc
  \/ EvalPrefixEval \/ EvalPrefixApply \/ EvalPrefixBlk \/ EvalPrefixDo
  \/ EvalPrefixDefDispatcher \/ EvalPrefixSetDispatcher \/ EvalPrefixDefBuilder
  \/ EvalPrefixSh

-----------------------------------------------------------------------------
(***************************************************************************)
(* ApplySubjVerbAndObjects.                                                *)
(***************************************************************************)
\* The argument of a macro was quoted.
ApplyProcedureArguments(proc, args, e, k) ==
  LET quoted == args # <<>> /\ HasTag(args[1], "quote")
      unboxed == nodes[args[1].id].inner
  IN  CASE proc.type = "NATIVE_FUNC" -> ApplyArgsToNativeFunc(proc.name, args, k)
        [] proc.type = "LAMBDA" -> ApplyCompositeLambda(nodes, proc, args, e, k)
        [] proc.type = "FUNC" -> ApplyCompositeFunc(nodes, proc, args, e, k)
        [] proc.type = "MACRO_LAMBDA" /\ quoted ->
             ApplyCompositeLambda(nodes, proc, Items(unboxed), e, k)
        [] proc.type = "MACRO_FUNC" /\ quoted ->
             ApplyCompositeFunc(nodes, proc, Items(unboxed), e, k)
        [] OTHER -> Fault

\* An accessor with a setter is a property (SettersOnProperties), so there is no
\* directory to destroy.
AssignValueToAccessor(w, v, e, k) ==
  LET accessor == accessors[w.id] IN
    \/ /\ accessor.setter # Undef
       /\ ApplyProcedureArguments(ProcOf(accessor.setter), <<w, v>>, e, k)
    \/ /\ accessor.setter = Undef
       /\ Assign(w, v, IF accessor.isDir THEN "freed" ELSE accessor.table, v, k)

\* KN_NodeDispacherId.
NodeDispatcherId(w) ==
  CASE w.t \in {"true", "false"} -> 6 [] w.t = "ukn" -> 7 [] w.t = "undef" -> 8
    [] w.t \in {"fix", "flo"} -> 10 [] w.t = "nil" -> 11 [] w.t = "cont" -> 33
    [] w.t = "node" -> nodes[w.id].dispatcher
    [] w.t = "accessor" -> accessors[w.id].dispatcher
    [] OTHER -> 17

\* The procedure of the subject's dispatcher, a null pointer if there is none.
\* Dispatchers only hold lambdas.
Dispatch(ns, handler, subj, args, e, k) ==
  LET id == NodeDispatcherId(subj)
      handled == id \in DOMAIN dispatchers /\ dispatchers[id][handler] # NoProcedure
  IN  \/ handled /\ ApplyCompositeLambda(ns, dispatchers[id][handler], <<subj>> \o args, e, k)
      \/ ~handled /\ Fault

\* The handler for a verb that is data, and what it is given of it.
HandlerFor(verb) ==
  CASE IsSymbol(verb) -> "on-symbol"
    [] HasTag(verb, "vector") -> "on-visit-vector"
    [] HasTag(verb, "table") -> "on-visit-table"
    [] IsQuoteList(verb) /\ nodes[verb.id].inner # Nil -> "on-visit-list"
    [] HasTag(verb, "quote") /\ nodes[verb.id].type = "CELL" -> "on-visit-cell"
    [] OTHER -> "on-other-type"
Visited(verb) ==
  IF HandlerFor(verb) \in {"on-visit-list", "on-visit-cell"} THEN nodes[verb.id].inner ELSE verb

\* Accessors are unboxed first.
ApplyUnboxed(p, subj, args, e, k) ==
  LET unboxed == UnBoxAccessorValue(p) IN
    \/ (UnboxingLoops(p) \/ UnboxingLoops(subj)) /\ Stop("HANG")
    \/ /\ ~UnboxingLoops(p) /\ ~UnboxingLoops(subj)
       /\ ApplyProcedureArguments(ProcOf(unboxed), args, e, k)

ApplyMarker(subj, args, e, k) ==
  LET verb == args[1]
      complete == Len(args) > 1
      rest == SubSeq(args, 3, Len(args))
  IN  CASE verb = Marker("APPLY") /\ subj.t = "cont" /\ complete -> GoOn(args[2], subj.id)
        [] verb = Marker("APPLY") /\ subj.t # "cont" ->
             ApplyUnboxed(subj, Nil, Tail(args), e, k)
        [] verb = Marker("ASSIGN") /\ complete /\ IsAccessor(subj) ->
             AssignValueToAccessor(subj, args[2], e, k)
        [] verb = Marker("ASSIGN") /\ complete /\ ~IsAccessor(subj) -> GoOn(args[2], k)
        [] verb = Marker("PROC_PIPE") /\ complete ->
             ApplyUnboxed(args[2], subj, <<UnBoxAccessorValue(subj)>> \o rest, e, k)
        [] verb = Marker("GET_SLOT") /\ complete /\ IsSymbol(args[2]) /\ IsAccessor(subj)
             /\ accessors[subj.id].table = "open" ->
             GoOn(accessors[subj.id].slots[NameOf(args[2])], k)
        [] verb = Marker("MSG_SIGNAL") /\ complete ->
             Dispatch(WithList(rest), "on-method-call", subj,
                      <<args[2], ListWord(rest)>>, e, k)
        [] OTHER -> Fault

ApplySubjVerbAndObjects(subj, args, e, k) ==
  \/ IsMarker(args[1]) /\ ApplyMarker(subj, args, e, k)
  \/ ~IsMarker(args[1]) /\ Dispatch(nodes, HandlerFor(args[1]), subj,
                                    <<Visited(args[1])>>, e, k)

-----------------------------------------------------------------------------
(***************************************************************************)
(* KN_RunContinuation; the callbacks are in KonKeywords.                   *)
(***************************************************************************)
Resumes(type) == Invoking /\ Invoked.type = type

RunReturn ==
  /\ Resumes("RETURN")
  /\ Bounce(Final("LAND", job.v))
  /\ UNCHANGED <<heap, currCode>>

RunSentenceList ==
  /\ Resumes("SENTENCE_LIST")
  /\ \/ /\ Invoked.rest = <<>>
        /\ Bounce(Run(job.v, Invoked.cont))
        /\ UNCHANGED conts
     \/ /\ Invoked.rest # <<>>
        /\ EvalSentences(conts, Invoked.rest, Invoked.env, Invoked.cont)
  /\ UNCHANGED <<nodes, envs, memos, objects, currCode>>

(***************************************************************************)
(* SplitClauses, one clause at a time: a word of a kind that is a clause   *)
(* by itself, "/" and the word after it, or all up to the next ";", which  *)
(* is dropped.                                                             *)
(***************************************************************************)
SingleItemTags == {"vector", "table", "param", "map", "pair", "cell", "quote", "quasi",
                   "symbol"}
IsSingleItemClause(w) == w = Nil \/ (w.t = "node" /\ nodes[w.id].tag \in SingleItemTags)
ClauseEnds(words) == {i \in 2 .. Len(words) : words[i] = Marker("CLAUSE_END")}

FirstClauseLen(words) ==
  CASE IsSingleItemClause(words[1]) -> 1
    [] words[1] = Marker("GET_SLOT") -> IF Len(words) > 1 THEN 2 ELSE 1
    [] OTHER -> IF ClauseEnds(words) = {} THEN Len(words) ELSE Min(ClauseEnds(words)) - 1

FirstClause(words) == SubSeq(words, 1, FirstClauseLen(words))
AfterFirstClause(words) ==
  LET n == FirstClauseLen(words)
      ended == ~IsSingleItemClause(words[1]) /\ words[1] # Marker("GET_SLOT")
  IN  SubSeq(words, IF ended THEN n + 2 ELSE n + 1, Len(words))

\* A mutant: the clause goes on with the frame before.
NextClauseOutside ==
  \/ /\ Invoked.rest = <<>>
     /\ Bounce(Run(job.v, Invoked.cont))
     /\ UNCHANGED conts
  \/ /\ Invoked.rest # <<>>
     /\ conts' = Append(conts, [Frame("CLAUSE_LIST", Invoked.env, Invoked.cont) EXCEPT
                                  !.subj = job.v,
                                  !.rest = AfterFirstClause(Invoked.rest)])
     /\ Bounce(ClauseList(FirstClause(Invoked.rest), Invoked.env, job.k))

\* A sentence has its subject or the value of its last clause, and goes on with
\* the clauses that are left.
NextClause ==
  \/ /\ Invoked.rest = <<>>
     /\ Bounce(Run(job.v, Invoked.cont))
     /\ UNCHANGED conts
  \/ /\ Invoked.rest # <<>>
     /\ conts' = Append(conts, [Frame("CLAUSE_LIST", Invoked.env, Invoked.cont) EXCEPT
                                  !.subj = job.v,
                                  !.rest = AfterFirstClause(Invoked.rest)])
     /\ Bounce(ClauseList(FirstClause(Invoked.rest), Invoked.env, NextCont))

RunSubj ==
  /\ Resumes("SUBJ")
  /\ NextClause
  /\ UNCHANGED <<nodes, envs, memos, objects, currCode>>

RunClauseList ==
  /\ Resumes("CLAUSE_LIST")
  /\ NextClause
  /\ UNCHANGED <<nodes, envs, memos, objects, currCode>>

\* A mutant: the frame is written.
NextItemInPlace(op) ==
  /\ Invoked.rest # <<>>
  /\ conts' = [conts EXCEPT ![job.k].rest = Tail(@), ![job.k].evaled = <<job.v>> \o @]
  /\ Bounce(Job(op, Head(Invoked.rest), Invoked.env, job.k))
  /\ UNCHANGED <<nodes, envs, memos, objects, currCode>>

\* The next word of the list, with the last one's value kept on a new frame.
NextItem(op) ==
  /\ Invoked.rest # <<>>
  /\ conts' = Append(conts, [Invoked EXCEPT !.rest = Tail(Invoked.rest),
                                            !.evaled = <<job.v>> \o Invoked.evaled])
  /\ Bounce(Job(op, Head(Invoked.rest), Invoked.env, NextCont))
  /\ UNCHANGED <<nodes, envs, memos, objects, currCode>>

Evaluated == Reverse(<<job.v>> \o Invoked.evaled)

RunClauseArgs ==
  /\ Resumes("CLAUSE_ARGS")
  /\ \/ NextItem("ARG_LIST")
     \/ /\ Invoked.rest = <<>>
        /\ ApplySubjVerbAndObjects(Invoked.subj, Evaluated, Invoked.env, Invoked.cont)

RunQuasiListItems ==
  /\ Resumes("QUASI_LIST_ITEMS")
  /\ \/ NextItem("QUASI_ITEM")
     \/ /\ Invoked.rest = <<>>
        /\ nodes' = Append(nodes, ListNode(Evaluated))
        /\ Bounce(Run(NodeRef(Len(nodes) + 1), Invoked.cont))
        /\ UNCHANGED <<envs, conts, memos, objects, currCode>>

RunContinuation ==
  \/ RunReturn \/ RunSentenceList \/ RunSubj \/ RunClauseList \/ RunClauseArgs
  \/ RunQuasiListItems
  \/ AfterLetValExprEvaled \/ AfterSetValExprEvaled \/ AfterIfConditionEvaled
  \/ AfterCondClauseEvaled \/ AfterAndConditionEvaled \/ AfterOrConditionEvaled
  \/ BeforeForPrediction \/ AfterForPrediction \/ AfterForBodyEvaled
  \/ AfterEvalExprBodyEvaled \/ AfterApplySymExprEvaled \/ AfterApplyArgsExprEvaled
  \/ AfterDispatcherIdEvaled \/ AfterBuilderDispatcherIdEvaled \/ AfterShellCmdEvaled

-----------------------------------------------------------------------------
(***************************************************************************)
(* KN_ProcessSentences.                                                    *)
(***************************************************************************)
\* The verb of a clause is data, and so is the word after "." or "/".
EvalClauseArgs(firstToEval) ==
  /\ conts' = Append(conts, [Frame("CLAUSE_ARGS", job.env, job.k) EXCEPT
                               !.subj = conts[job.k].subj, !.rest = Tail(job.words)])
  /\ Bounce(Job("ARG_LIST", firstToEval, job.env, NextCont))
  /\ UNCHANGED <<envs, memos, objects, currCode>>

ClauseListMarker ==
  LET words == job.words
      named == words[1] \in {Marker("MSG_SIGNAL"), Marker("GET_SLOT")}
  IN  /\ job.op = "CLAUSE_LIST"
      /\ IsMarker(words[1])
      /\ \/ named /\ Len(words) = 1 /\ Fault
         \/ named /\ Len(words) > 1 /\ AsIdentifier(words[2]) /\ EvalClauseArgs(words[1])
         \/ ~named /\ EvalClauseArgs(words[1]) /\ UNCHANGED nodes

ClauseListData ==
  LET first == job.words[1] IN
    /\ job.op = "CLAUSE_LIST"
    /\ ~IsMarker(first)
    /\ \/ /\ ~IsPair(first) /\ ~IsCell(first)
          /\ AsIdentifier(first)
          /\ EvalClauseArgs(first)
       \/ /\ IsPair(first) \/ IsCell(first)
          /\ nodes' = Append(nodes, QuoteNode(IF IsPair(first) THEN "LIST" ELSE "CELL", first))
          /\ EvalClauseArgs(NodeRef(Len(nodes) + 1))

QuasiItem ==
  /\ job.op = "QUASI_ITEM"
  /\ ~HasTag(job.v, "unquote")
  /\ Bounce(Run(job.v, job.k))
  /\ UNCHANGED <<heap, currCode>>

\* No branch takes this subject: the loop comes round with the same bounce.
SubjectIgnored ==
  /\ job.op = "SUBJ"
  /\ ~IsEvaluableSubject(job.v)
  /\ Bounce(job)
  /\ UNCHANGED <<heap, currCode>>

(***************************************************************************)
(* KN_MakeRootEnv and the prologue of KN_ProcessSentences.  Of the kn      *)
(* module the accessors are modelled.                                      *)
(***************************************************************************)
GlobalNatives == <<"+", "<", "not", "set-dispatcher-id">>
AccessorNatives == <<"init-prop", "init-dir", "unbox", "set-val", "has-key", "at-key",
                     "put-key-val", "put-key-prop">>
Natives == GlobalNatives \o AccessorNatives

\* These native procedures, the first of them behind n nodes, by their names.
Exports(names, n) ==
  [name \in Names |->
     IF name \in Range(names) THEN NodeRef(n + CHOOSE i \in DOMAIN names : names[i] = name)
     ELSE Undef]

RootBindings(n) == [Exports(GlobalNatives, n) EXCEPT !["kn"] = AccessorRef(1)]
AccessorModule(n) == MakeDirAccessor(Exports(AccessorNatives, n + Len(GlobalNatives)))

Init ==
  \E p \in DOMAIN Programs :
    LET program == Programs[p]
        first == Frame("RETURN", ProcessEnv, 0)
        blockK == [Frame("SENTENCE_LIST", ProcessEnv, ReturnCont) EXCEPT
                     !.rest = Tail(program.body)]
        n == Len(program.nodes)
    IN  /\ currCode = p
        /\ nodes = program.nodes \o [i \in DOMAIN Natives |-> NativeNode(Natives[i])]
        /\ accessors = <<MakeDirAccessor([NoBindings EXCEPT !["accessor"] = AccessorRef(2)]),
                         AccessorModule(n)>>
        /\ envs = <<[chain |-> <<RootEnv>>, bindings |-> RootBindings(n)],
                    [chain |-> <<ProcessEnv, RootEnv>>,
                     bindings |-> [NoBindings EXCEPT !["return"] = ContRef(ReturnCont)]]>>
        /\ memos = <<>>
        /\ dispatchers = [id \in {} |-> NoDispatcher]
        /\ nextMsgDispatcherId = FirstDispatcher
        /\ depth = 0
        /\ \/ /\ program.body = <<>>
              /\ conts = <<first>>
              /\ job = Run(True, ReturnCont)
           \/ /\ program.body # <<>>
              /\ conts = <<first, blockK>>
              /\ job = Job("BLOCK", Head(program.body), ProcessEnv, 2)

Done == job.op \in FinalOps
Terminated == Done /\ UNCHANGED vars

Next ==
  \/ EvalExpression \/ RunContinuation \/ ClauseListMarker \/ ClauseListData
  \/ QuasiItem \/ SubjectIgnored \/ Terminated

Spec == Init /\ [][Next]_vars
FairSpec == Spec /\ WF_vars(Next)
=============================================================================
