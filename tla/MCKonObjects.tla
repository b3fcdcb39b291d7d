----------------------------- MODULE MCKonObjects -----------------------------
(***************************************************************************)
(* Programs with accessors and dispatchers, and how each of them ends; and *)
(* all the programs of the run.                                            *)
(***************************************************************************)
EXTENDS MCKonMachine

\* {kn/accessor/name % args}
Accessor(name, args) ==
  Cores(<<Word("kn"), Lit("GET_SLOT"), Word("accessor"), Lit("GET_SLOT"), Word(name),
          Lit("APPLY")>> \o args)
Box(x) == Accessor("init-prop", <<x>>)
Unbox(x) == Accessor("unbox", <<x>>)
Plus(x, y) == Call("+", <<x, y>>)
AssignTo(x, y) == Cores(<<x, Lit("ASSIGN"), y>>)
Slot(x, key) == Cores(<<x, Lit("GET_SLOT"), Word(key)>>)
Put(x, key, y) == Accessor("put-key-val", <<x, Ident(key), y>>)
\* a -> a: unboxing it does not end.
SelfReferential == <<Let("a", Box(Num(1))), AssignTo(Word("a"), Word("a"))>>

AccessorSources ==
  << Program(<<Let("b", Box(Num(1))), AssignTo(Word("b"), Num(2)),
               Plus(Num(1), Unbox(Word("b")))>>, <<"LAND", Num(3)>>),
     \* what is put in a directory, by key and by slot
     Program(<<Let("b", Accessor("init-dir", <<>>)), Put(Word("b"), "x", Num(3)),
               Accessor("put-key-prop", <<Word("b"), Ident("y"), Box(Num(4))>>),
               Plus(Unbox(Slot(Word("b"), "x")), Unbox(Accessor("at-key", <<Word("b"), Ident("y")>>)))>>,
             <<"LAND", Num(7)>>),
     Program(<<Let("b", Accessor("init-dir", <<>>)), Put(Word("b"), "x", Num(3)),
               Quasi(<<Unquote(Accessor("has-key", <<Word("b"), Ident("x")>>)),
                       Unquote(Accessor("has-key", <<Word("b"), String("y")>>)),
                       Unquote(Accessor("put-key-val", <<Num(1), Ident("y"), Num(1)>>)),
                       Unquote(Accessor("put-key-prop", <<Word("b"), Ident("y"), Num(1)>>))>>)>>,
             <<"LAND", [t |-> "pair", items |-> <<Lit("true"), Lit("false"), Lit("false"), Lit("false")>>]>>),
     \* a setter, which writes what it is given into another box
     Program(<<Let("b", Box(Num(1))),
               Let("c", Accessor("init-prop", <<Num(5), Num(0),
                           Anonymous("lambda", <<Word("x"), Word("y")>>,
                             <<AssignTo(Word("b"), Plus(Word("y"), Num(1))), Num(9)>>)>>)),
               Quasi(<<Unquote(AssignTo(Word("c"), Num(2))), Unquote(Unbox(Word("c"))),
                       Unquote(Unbox(Word("b")))>>)>>,
             <<"LAND", [t |-> "pair", items |-> <<Num(9), Num(5), Num(3)>>]>>),
     Program(<<Let("c", Accessor("init-prop", <<Num(5), Num(0), Num(1)>>)),
               AssignTo(Word("c"), Num(2))>>, <<"FAULT">>),
     \* boxed procedures are called, piped to and applied
     Program(<<Let("b", Box(Word("+"))),
               Quasi(<<Unquote(Call("b", <<Num(1), Num(2)>>)),
                       Unquote(Cores(<<Box(Box(Num(3))), Lit("PROC_PIPE"), Word("b"), Num(4)>>)),
                       Unquote(Apply(Word("b"), QuoteList(<<Num(5), Num(6)>>)))>>)>>,
             <<"LAND", [t |-> "pair", items |-> <<Num(3), Num(7), Num(11)>>]>>),
     Program(<<EvalOf(Box(Box(Num(7))))>>, <<"LAND", Num(7)>>),
     \* a continuation in a box, or an argument of set-val
     Program(<<Plus(Num(1), Cores(<<Box(Word("return")), Lit("APPLY"), Num(7)>>))>>, <<"FAULT">>),
     Program(<<Let("b", Box(Num(1))), Unbox(Accessor("set-val", <<Word("b"), Num(8)>>))>>,
             <<"LAND", Num(8)>>),
     \* a directory that was assigned a value
     Program(<<Let("b", Accessor("init-dir", <<>>)), Put(Word("b"), "x", Num(3)),
               AssignTo(Word("b"), Num(2)), Unbox(Word("b"))>>, <<"LAND", Num(2)>>),
     Program(<<Let("b", Accessor("init-dir", <<>>)), AssignTo(Word("b"), Num(2)),
               Accessor("has-key", <<Word("b"), Ident("x")>>)>>, <<"FAULT">>),
     Program(<<Let("b", Accessor("init-dir", <<>>)), AssignTo(Word("b"), Num(2)),
               Slot(Word("b"), "x")>>, <<"FAULT">>),
     \* boxes that hold themselves
     Program(SelfReferential \o <<Unbox(Word("a"))>>, <<"HANG">>),
     Program(SelfReferential \o <<Call("a", <<>>)>>, <<"HANG">>),
     Program(SelfReferential \o <<EvalOf(Word("a"))>>, <<"HANG">>),
     Program(SelfReferential \o <<Apply(Word("a"), QuoteList(<<Num(1)>>))>>, <<"HANG">>),
     Program(SelfReferential \o <<Cores(<<Word("a"), Lit("PROC_PIPE"), Word("+"), Num(1)>>)>>,
             <<"HANG">>),
     Program(<<Accessor("set-val", <<Num(1), Num(2)>>)>>, <<"FAULT">>),
     Program(<<Accessor("unbox", <<>>)>>, <<"FAULT">>) >>

-----------------------------------------------------------------------------
(***************************************************************************)
(* Dispatchers.  Numbers have dispatcher 10, symbols 16, quotes 26.        *)
(***************************************************************************)
Handler(params, body) == Anonymous("lambda", params, body)
SetDispatcherTo(id, keys, handlers) ==
  Cores(<<Word("set-dispatcher"), id, Table(keys, handlers)>>)
DefDispatcher(keys, handlers) == Cores(<<Word("def-dispatcher"), Table(keys, handlers)>>)
Send(x, name, args) == Cores(<<x, Lit("MSG_SIGNAL"), Word(name)>> \o args)
SetId(x, id) == Call("set-dispatcher-id", <<x, id>>)
Numbers(handler, h) == SetDispatcherTo(Num(10), <<handler>>, <<h>>)

\* {5 "." + 2 3 4; "." + 6}
Method == Handler(<<Word("x"), Word("y"), Word("n")>>,
                  <<Plus(Word("x"), Apply(Word("y"), Word("n")))>>)
TwoMessages ==
  Cores(<<Num(5), Lit("MSG_SIGNAL"), Word("+"), Num(2), Num(3), Num(4), Lit("CLAUSE_END"),
          Lit("MSG_SIGNAL"), Word("+"), Num(6)>>)

\* The sum of the subject and of what "apply" makes of the data.
Visitor(data) == Handler(<<Word("x"), Word("y")>>, <<Plus(Word("x"), data)>>)

DispatcherSources ==
  << Program(<<Numbers("on-method-call", Method), TwoMessages>>, <<"LAND", Num(20)>>),
     Program(<<Numbers("on-symbol", Visitor(Num(1))), Cores(<<Num(1), Word("a"), Word("b")>>)>>,
             <<"LAND", Num(3)>>),
     Program(<<Numbers("on-visit-list", Visitor(EvalOf(Word("y")))),
               Cores(<<Num(1), Call("+", <<Num(3)>>), QuoteList(<<Word("+"), Num(4)>>)>>)>>,
             <<"LAND", Num(8)>>),
     Program(<<Numbers("on-visit-cell", Visitor(EvalOf(Word("y")))),
               Cores(<<Num(1), Cores(<<Word("+"), Lit("APPLY"), Num(3)>>)>>)>>, <<"LAND", Num(4)>>),
     Program(<<Numbers("on-visit-table", Visitor(Num(2))), Cores(<<Num(1), Table(<<>>, <<>>)>>)>>,
             <<"LAND", Num(3)>>),
     Program(<<Numbers("on-visit-vector", Visitor(Num(6))), Cores(<<Num(1), Vector(<<>>)>>)>>,
             <<"LAND", Num(7)>>),
     Program(<<Numbers("on-other-type", Visitor(Word("y"))), Let("b", Num(5)),
               Cores(<<Num(1), Num(2), Lit("CLAUSE_END"), Macro("b")>>)>>, <<"LAND", Num(8)>>),
     \* the empty list is of no type a handler visits
     Program(<<Numbers("on-visit-list", Visitor(Num(1))), Cores(<<Num(1), QuoteList(<<>>)>>)>>, <<"FAULT">>),
     Program(<<Numbers("on-symbol", Lit("nil")), Cores(<<Num(1), Word("a")>>)>>, <<"FAULT">>),
     \* two dispatchers fit in behind those of the types, a third one does not
     Program(<<Let("b", Box(Num(1))),
               Let("a", DefDispatcher(<<"on-symbol">>, <<Visitor(Num(1))>>)),
               Let("c", DefDispatcher(<<"on-symbol">>, <<Handler(<<Word("x"), Word("y")>>, <<Word("y")>>)>>)),
               SetId(Word("b"), Word("c")), Cores(<<Word("b"), Word("f")>>)>>,
             <<"LAND", [t |-> "symbol"]>>),
     Program(<<DefDispatcher(<<>>, <<>>), DefDispatcher(<<>>, <<>>), Let("b", Box(Num(1))),
               SetId(Word("b"), DefDispatcher(<<"on-symbol">>, <<Visitor(Num(1))>>)),
               Cores(<<Word("b"), Word("f")>>)>>, <<"FAULT">>),
     \* set-dispatcher takes over what def-dispatcher has defined, or defines it first
     Program(<<SetDispatcherTo(Num(100), <<"on-symbol">>, <<Handler(<<Word("x"), Word("y")>>, <<Num(1)>>)>>),
               Let("b", QuoteList(<<>>)), SetId(Word("b"), Num(100)),
               Let("c", Cores(<<Word("b"), Word("f")>>)),
               DefDispatcher(<<"on-symbol">>, <<Handler(<<Word("x"), Word("y")>>, <<Num(2)>>)>>),
               Plus(Word("c"), Cores(<<Word("b"), Word("f")>>))>>, <<"LAND", Num(3)>>),
     \* the handler is a closure of where the dispatcher is defined
     Program(<<Let("a", Num(1)),
               Proc("lambda", "f", <<Word("a")>>,
                    <<Numbers("on-symbol", Handler(<<Word("x"), Word("y")>>, <<Plus(Word("x"), Word("a"))>>))>>),
               Call("f", <<Num(4)>>), Cores(<<Num(3), Word("b")>>)>>, <<"LAND", Num(7)>>),
     \* an id that is unbound is that of cells
     Program(<<SetDispatcherTo(Word("a"), <<"on-symbol">>, <<Handler(<<Word("x"), Word("y")>>, <<Num(9)>>)>>),
               Let("b", Quasi(<<Cores(<<Num(1)>>)>>)),
               Proc("macro-lambda", "f", <<Word("x")>>, <<Cores(<<Word("x"), Word("c")>>)>>),
               List(<<Macro("f"), Cores(<<Num(1)>>)>>)>>, <<"LAND", Num(9)>>),
     \* a builder: the quote in the program is what is called
     Program(<<Cores(<<Word("def-builder"), Word("g"), DefDispatcher(<<"on-symbol">>,
                         <<Handler(<<Word("x"), Word("y")>>, <<Num(7)>>)>>), QuoteList(<<Num(1)>>)>>),
               Cores(<<Word("g"), Word("a")>>)>>, <<"LAND", Num(7)>>),
     Program(<<Cores(<<Word("def-builder"), Word("g"), Num(100), Num(1)>>)>>, <<"FAULT">>),
     Program(<<SetId(Num(1), Num(100))>>, <<"LAND", Lit("true")>>),
     Program(<<SetId(CallCC(Word("f")), Num(100))>>, <<"FAULT">>),
     Program(<<DefDispatcher(<<"on-symbol">>, <<Num(1)>>)>>, <<"FAULT">>),
     Program(<<Send(Num(1), "a", <<>>)>>, <<"FAULT">>),
     \* words of a command are not evaluated, cells and lists are
     Program(<<Let("a", Box(Num(1))),
               Cores(<<Word("sh"), Word("a"), Call("+", <<Num(1)>>), AssignTo(Word("a"), Num(4)), String("b")>>),
               Unbox(Word("a"))>>, <<"LAND", Num(4)>>),
     Program(<<Cores(<<Word("sh")>>)>>, <<"FAULT">>),
     Program(<<Cores(<<Cores(<<Num(3)>>)>>)>>, <<"LAND", Num(3)>>),
     \* a box with a setter as the value of a name: proto-obj.kl
     Program(<<Let("b", Accessor("init-dir", <<>>)),
               SetId(Word("b"), DefDispatcher(<<"on-symbol">>,
                 <<Handler(<<Word("x"), Word("y")>>,
                     <<Accessor("init-prop", <<Num(0), Num(0),
                         Handler(<<Word("a"), Word("c")>>,
                                 <<Accessor("put-key-val", <<Word("x"), Word("y"), Word("c")>>)>>)>>)>>)>>)),
               Cores(<<Word("b"), Word("n"), Lit("ASSIGN"), Num(8)>>), Unbox(Slot(Word("b"), "n"))>>,
             <<"LAND", Num(8)>>) >>

ObjectSources == AccessorSources \o DispatcherSources
ParsedPrograms ==
  ControlPrograms @@ [p \in {"object"} \X DOMAIN ObjectSources |-> Parsed(ObjectSources[p[2]])]
AllPrograms == ParsedPrograms
=============================================================================
